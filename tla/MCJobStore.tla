----------------------------- MODULE MCJobStore -----------------------------
(* Two executions of one job, two workers and two database sessions.       *)
EXTENDS JobStore, TLC

CONSTANTS j1, a1, q1, k1, w1, w2, s1, s2

MCAppOf == [j \in Jobs |-> a1]
MCJobSpecs == {[max |-> 2, timeout |-> 1, queue |-> q1]}

\* Bound: at most one of the three operator switches is off at a time.
OneSwitchOff ==
  Cardinality({j \in Jobs : ~job[j].enabled}) + Cardinality({j \in Jobs : job[j].retired})
    + Cardinality(Apps \ active) <= 1

Symmetry == Permutations(Workers) \cup Permutations(Sessions)
=============================================================================
