------------------------------ MODULE MCSecrets ------------------------------
(* Two environments, two keys of each kind, two rows in batches of one.      *)
EXTENDS Secrets, TLC

Interchangeable == Permutations(Masters) \cup Permutations(Keys)
                     \cup Permutations(Inits) \cup Permutations(Cmds) \cup Permutations(Ops)
=============================================================================
