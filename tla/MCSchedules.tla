---------------------------- MODULE MCSchedules -----------------------------
(* Two schedules, of which the file of one changes, two worker sessions, two *)
(* instants.                                                                 *)
EXTENDS Schedules

CONSTANTS x1, x2, j1, j2, a1

MCApp(S) == [i \in S |-> a1]
MCScheduleApp == MCApp(Ids)
MCJobApp == MCApp(Jobs)

EveryTick == 1 .. Horizon
MCFile(cron, job, enabled) == [cron |-> cron, job |-> job, enabled |-> enabled]
MCFiles == [s \in Ids |->
  {MCFile(EveryTick, j1, TRUE)} \cup
  IF s = 1 THEN {MCFile({2}, j1, TRUE), MCFile({2}, j2, TRUE), MCFile(EveryTick, j1, FALSE)}
           ELSE {}]
=============================================================================
