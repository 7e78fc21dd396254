---------------------------- MODULE MCHandlers ------------------------------
(* Two workers, two attempts, two rows on pages of one, two senders.       *)
EXTENDS Handlers, TLC

CONSTANTS w1, w2, s1, s2

MCSymmetry == Permutations({w1, w2}) \cup Permutations({s1, s2})
=============================================================================
