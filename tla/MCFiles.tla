------------------------------ MODULE MCFiles -------------------------------
(* Two calls, two files, two targets: an action and a request race.        *)
EXTENDS Files, TLC

CONSTANTS c1, c2, k1, k2, t1, t2

MCSymmetry == Permutations({c1, c2}) \cup Permutations({k1, k2}) \cup Permutations({t1, t2})
=============================================================================
