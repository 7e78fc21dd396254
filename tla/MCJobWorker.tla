---------------------------- MODULE MCJobWorker -----------------------------
(* One worker process with one loop, a peer worker, and a session that the *)
(* peer and the request handlers share.                                    *)
EXTENDS JobWorker

CONSTANTS j1, j2, a1, q1, w1, w2, l1, c1

MCAppOf == [j \in Jobs |-> a1]
MCJobSpecs == {[max |-> 2, timeout |-> 1, queue |-> q1]}
LongLease == {[max |-> 2, timeout |-> 2, queue |-> q1]}
MCWorkerOf == [l \in Loops |-> w1]
MCLoopQueue == [l \in Loops |-> q1]
One == [l \in Loops |-> 1]
Two == [l \in Loops |-> 2]
=============================================================================
