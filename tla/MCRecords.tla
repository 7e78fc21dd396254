----------------------------- MODULE MCRecords ------------------------------
(* Two sessions, three nodes, one collection row, one name.                *)
EXTENDS Records, TLC

CONSTANTS x1, x2, n1, n2, n3, k1

MCSymmetry == Permutations({x1, x2}) \cup Permutations({n1, n2, n3})
=============================================================================
