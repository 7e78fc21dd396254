----------------------------- MODULE Handlers -------------------------------
(***************************************************************************)
(* Two job handlers of Core, run by attempts that may die, time out, be    *)
(* repeated and overlap: the CSV import (internal/imports) and the         *)
(* notification e-mail (internal/notifications, internal/dygodata).  The   *)
(* queue itself is JobStore; here a job is queued, taken by a worker, and  *)
(* taken again once its lease has expired, while the first worker may      *)
(* still be at work.  There is one import and one notification.            *)
(***************************************************************************)
EXTENDS Naturals, FiniteSets

CONSTANTS
  Workers,   \* worker slots
  Senders,   \* calls of NotificationData.Send for the same recipient and key
  RowCount,  \* rows of the CSV file
  Page,      \* rows read at once (2500 in the code)
  Attempts   \* attempts the jobs allow

ASSUME HandlerConstants ==
  /\ RowCount \in Nat /\ Page \in Nat \ {0} /\ Attempts \in Nat \ {0}
  /\ IsFiniteSet(Workers) /\ IsFiniteSet(Senders)

VARIABLES
  job,      \* job[j]: the execution of the import and of the e-mail
  att,      \* att[w]: the attempt worker w is running
  imp,      \* the core/import row
  row,      \* row[r]: the status of the core/import-row rows
  made,     \* made[r]: target Records created from row r
  note,     \* the core/notification row
  send,     \* send[s]: the transaction of sender s
  mails,    \* e-mails the mail server accepted
  torn,     \* history: how often an attempt ended between a side effect and
            \* the write that records it, for each row and for the e-mail
  overlap   \* history: an attempt of the job began while another was running

vars == <<job, att, imp, row, made, note, send, mails, torn, overlap>>
importVars == <<imp, row, made>>
noteVars == <<note, send, mails>>

Rows == 1 .. RowCount
Email == 0   \* the index of the e-mail in torn
JobNames == {"import", "email"}
RowStatus == {"queued", "succeeded", "failed"}
Import == [status : {"none", "queued", "running", "succeeded", "failed"},
           ok : 0 .. RowCount, bad : 0 .. RowCount]
Job == [status : {"none", "queued", "running", "succeeded", "failed"},
        attempts : 0 .. Attempts]
Attempt == [pc : {"idle", "load", "page", "row", "create", "mark", "final", "get",
                  "smtp", "stamp", "done", "error"},
            job : JobNames, number : 0 .. Attempts,
            from : 0 .. RowCount, at : 1 .. RowCount + 1,
            seen : [Rows -> RowStatus], made : {"refused", "lost", "created"},
            ok : 0 .. RowCount, bad : 0 .. RowCount]
Idle == [pc |-> "idle", job |-> "import", number |-> 0, from |-> 0, at |-> 1,
         seen |-> [r \in Rows |-> "queued"], made |-> "refused", ok |-> 0, bad |-> 0]

TypeOK ==
  /\ job \in [JobNames -> Job]
  /\ att \in [Workers -> Attempt]
  /\ imp \in Import
  /\ row \in [Rows -> RowStatus]
  /\ made \in [Rows -> Nat]
  /\ note \in [exists : BOOLEAN, emailed : BOOLEAN]
  /\ send \in [Senders -> {"idle", "locked", "written"}]
  /\ mails \in Nat
  /\ torn \in [{Email} \cup Rows -> Nat]
  /\ overlap \in [JobNames -> BOOLEAN]

Init ==
  /\ job = [j \in JobNames |-> [status |-> "none", attempts |-> 0]]
  /\ att = [w \in Workers |-> Idle]
  /\ imp = [status |-> "none", ok |-> 0, bad |-> 0]
  /\ row = [r \in Rows |-> "queued"]
  /\ made = [r \in Rows |-> 0]
  /\ note = [exists |-> FALSE, emailed |-> FALSE]
  /\ send = [s \in Senders |-> "idle"]
  /\ mails = 0
  /\ torn = [r \in {Email} \cup Rows |-> 0]
  /\ overlap = [j \in JobNames |-> FALSE]

-----------------------------------------------------------------------------
(* Attempts.                                                               *)

Take(w, j) ==
  /\ att[w].pc = "idle" /\ job[j].status = "queued"
  /\ job' = [job EXCEPT ![j] = [status |-> "running", attempts |-> @.attempts + 1]]
  /\ att' = [att EXCEPT ![w] = [Idle EXCEPT !.job = j, !.number = job'[j].attempts,
                                            !.pc = IF j = "import" THEN "load" ELSE "get"]]
  /\ overlap' = [overlap EXCEPT ![j] = @ \/ \E v \in Workers \ {w} :
                                              att[v].pc # "idle" /\ att[v].job = j]
  /\ UNCHANGED <<importVars, noteVars, torn>>

\* Mutant: attempts are repeated for ever.
AgainAlways(j) == [job EXCEPT ![j].status = IF @ = "running" THEN "queued" ELSE "failed"]

\* A failed or expired attempt is repeated while the budget lasts.
Again(j) == [job EXCEPT ![j].status = IF @ = "running" /\ job[j].attempts < Attempts
                                      THEN "queued" ELSE "failed"]

\* The lease runs out, whether the worker died or is late.
Expire(j) ==
  /\ job[j].status = "running"
  /\ job' = Again(j)
  /\ UNCHANGED <<att, importVars, noteVars, torn, overlap>>

\* The handler of w has nothing left to do, and forgets what it knew.
Returns(w, pc) ==
  att' = [att EXCEPT ![w] = [Idle EXCEPT !.pc = pc, !.job = att[w].job, !.number = att[w].number]]

Current(w) ==
  LET j == att[w].job
  IN job[j].status = "running" /\ job[j].attempts = att[w].number

\* The handler returned; a report of an attempt that lost its claim is ignored.
Report(w) ==
  /\ att[w].pc \in {"done", "error"}
  /\ job' = IF ~Current(w) THEN job
            ELSE IF att[w].pc = "done" THEN [job EXCEPT ![att[w].job].status = "succeeded"]
            ELSE Again(att[w].job)
  /\ att' = [att EXCEPT ![w] = Idle]
  /\ UNCHANGED <<importVars, noteVars, torn, overlap>>

\* What is torn when the attempt of w stops where it is.
Torn(w) ==
  IF att[w].pc = "mark" /\ att[w].made # "refused" THEN [torn EXCEPT ![att[w].at] = @ + 1]
  ELSE IF att[w].pc = "stamp" THEN [torn EXCEPT ![Email] = @ + 1]
  ELSE torn

\* The worker dies, or its context is cancelled before any further write.
Die(w) ==
  /\ att[w].pc # "idle"
  /\ torn' = Torn(w)
  /\ att' = [att EXCEPT ![w] = Idle]
  /\ UNCHANGED <<job, importVars, noteVars, overlap>>

\* A statement of the handler fails and the handler returns the error.
StepFails(w) ==
  /\ att[w].pc \in {"load", "page", "mark", "final", "get", "stamp"}
  /\ torn' = Torn(w)
  /\ Returns(w, "error")
  /\ UNCHANGED <<job, importVars, noteVars, overlap>>

-----------------------------------------------------------------------------
(* The import.                                                             *)

\* The import, its rows and its job are inserted in one transaction.
StartImport ==
  /\ imp.status = "none"
  /\ imp' = [imp EXCEPT !.status = "queued"]
  /\ job' = [job EXCEPT !["import"].status = "queued"]
  /\ UNCHANGED <<att, row, made, noteVars, torn, overlap>>

\* The actor is read again at each attempt; a missing or disabled one is an
\* error like a failing statement.
Load(w) ==
  /\ att[w].pc = "load"
  /\ imp' = [imp EXCEPT !.status = "running"]
  /\ att' = [att EXCEPT ![w].pc = "page"]
  /\ UNCHANGED <<job, row, made, noteVars, torn, overlap>>

PageEnd(w) == IF att[w].from + Page < RowCount THEN att[w].from + Page ELSE RowCount

\* The statuses of a page are read once; a short page is the last one.
ReadPage(w) ==
  /\ att[w].pc = "page"
  /\ att' = [att EXCEPT ![w].seen = row, ![w].at = att[w].from + 1, ![w].pc = "row"]
  /\ UNCHANGED <<job, importVars, noteVars, torn, overlap>>

\* Mutant: every attempt starts over.
NextRowAfresh(w) ==
  /\ att[w].pc = "row" /\ att[w].at <= PageEnd(w)
  /\ att' = [att EXCEPT ![w].pc = "create"]
  /\ UNCHANGED <<job, importVars, noteVars, torn, overlap>>

\* A row an earlier attempt has finished is only counted.
NextRow(w) ==
  /\ att[w].pc = "row" /\ att[w].at <= PageEnd(w)
  /\ LET seen == att[w].seen[att[w].at]
     IN att' = [att EXCEPT
          ![w].pc = IF seen = "queued" THEN "create" ELSE "row",
          ![w].ok = IF seen = "succeeded" THEN @ + 1 ELSE @,
          ![w].bad = IF seen = "failed" THEN @ + 1 ELSE @,
          ![w].at = IF seen = "queued" THEN @ ELSE @ + 1]
  /\ UNCHANGED <<job, importVars, noteVars, torn, overlap>>

EndPage(w) ==
  /\ att[w].pc = "row" /\ att[w].at > PageEnd(w)
  /\ att' = [att EXCEPT ![w].pc = IF PageEnd(w) - att[w].from < Page THEN "final" ELSE "page",
                        ![w].from = PageEnd(w), ![w].seen = Idle.seen]
  /\ UNCHANGED <<job, importVars, noteVars, torn, overlap>>

\* The target Record is created in a transaction of its own, or refused, or
\* created by a commit whose answer is lost, which is taken for a refusal.
Create(w) ==
  /\ att[w].pc = "create"
  /\ \E outcome \in {"created", "refused", "lost"} :
       /\ made' = IF outcome = "refused" THEN made ELSE [made EXCEPT ![att[w].at] = @ + 1]
       /\ att' = [att EXCEPT ![w].pc = "mark", ![w].made = outcome]
  /\ UNCHANGED <<job, imp, row, noteVars, torn, overlap>>

\* Mutant: a refused row is left queued.
MarkSuccess(w) ==
  /\ att[w].pc = "mark"
  /\ row' = IF att[w].made = "created" THEN [row EXCEPT ![att[w].at] = "succeeded"] ELSE row
  /\ att' = [att EXCEPT ![w].pc = "row", ![w].at = @ + 1, ![w].made = "refused",
                        ![w].ok = IF att[w].made = "created" THEN @ + 1 ELSE @,
                        ![w].bad = IF att[w].made = "created" THEN @ ELSE @ + 1]
  /\ UNCHANGED <<job, imp, made, noteVars, torn, overlap>>

\* The row's outcome is stored in a second transaction, unconditionally.
Mark(w) ==
  /\ att[w].pc = "mark"
  /\ row' = [row EXCEPT ![att[w].at] = IF att[w].made = "created" THEN "succeeded" ELSE "failed"]
  /\ att' = [att EXCEPT ![w].pc = "row", ![w].at = @ + 1, ![w].made = "refused",
                        ![w].ok = IF att[w].made = "created" THEN @ + 1 ELSE @,
                        ![w].bad = IF att[w].made = "created" THEN @ ELSE @ + 1]
  /\ UNCHANGED <<job, imp, made, noteVars, torn, overlap>>

Final(w) ==
  /\ att[w].pc = "final"
  /\ imp' = [status |-> IF att[w].bad > 0 THEN "failed" ELSE "succeeded",
             ok |-> att[w].ok, bad |-> att[w].bad]
  /\ Returns(w, "done")
  /\ UNCHANGED <<job, row, made, noteVars, torn, overlap>>

-----------------------------------------------------------------------------
(* The notification and its e-mail.                                        *)

\* The recipient's user row is locked for the length of the transaction.
SendLock(s) ==
  /\ send[s] = "idle" /\ \A t \in Senders : send[t] = "idle"
  /\ send' = [send EXCEPT ![s] = "locked"]
  /\ UNCHANGED <<job, att, importVars, note, mails, torn, overlap>>

\* The notification with this recipient and key is returned if it exists;
\* else it and its e-mail job are inserted.
SendFind(s) ==
  /\ send[s] = "locked"
  /\ send' = [send EXCEPT ![s] = IF note.exists THEN "idle" ELSE "written"]
  /\ UNCHANGED <<job, att, importVars, note, mails, torn, overlap>>

SendCommit(s) ==
  /\ send[s] = "written"
  /\ note' = [note EXCEPT !.exists = TRUE]
  /\ job' = [job EXCEPT !["email"].status = "queued"]
  /\ send' = [send EXCEPT ![s] = "idle"]
  /\ UNCHANGED <<att, importVars, mails, torn, overlap>>

SendFails(s) ==
  /\ send[s] # "idle"
  /\ send' = [send EXCEPT ![s] = "idle"]
  /\ UNCHANGED <<job, att, importVars, note, mails, torn, overlap>>

Get(w) ==
  /\ att[w].pc = "get"
  /\ att' = [att EXCEPT ![w].pc = IF note.emailed THEN "done" ELSE "smtp"]
  /\ UNCHANGED <<job, importVars, noteVars, torn, overlap>>

\* Mutant: a refusing mail server is not an error.
MailIgnoring(w) ==
  /\ att[w].pc = "smtp"
  /\ \/ mails' = mails + 1 /\ att' = [att EXCEPT ![w].pc = "stamp"] /\ UNCHANGED torn
     \/ att' = [att EXCEPT ![w].pc = "done"] /\ UNCHANGED <<mails, torn>>
  /\ UNCHANGED <<job, importVars, note, send, overlap>>

\* The server accepts the mail, refuses it, or accepts it and loses the
\* connection before QUIT is answered, which the handler takes for a failure.
Mail(w) ==
  /\ att[w].pc = "smtp"
  /\ \/ mails' = mails + 1 /\ att' = [att EXCEPT ![w].pc = "stamp"] /\ UNCHANGED torn
     \/ att' = [att EXCEPT ![w].pc = "error"] /\ UNCHANGED <<mails, torn>>
     \/ /\ mails' = mails + 1 /\ torn' = [torn EXCEPT ![Email] = @ + 1]
        /\ att' = [att EXCEPT ![w].pc = "error"]
  /\ UNCHANGED <<job, importVars, note, send, overlap>>

Stamp(w) ==
  /\ att[w].pc = "stamp"
  /\ note' = [note EXCEPT !.emailed = TRUE]
  /\ att' = [att EXCEPT ![w].pc = "done"]
  /\ UNCHANGED <<job, importVars, send, mails, torn, overlap>>

Next ==
  \/ \E w \in Workers, j \in JobNames : Take(w, j)
  \/ \E j \in JobNames : Expire(j)
  \/ \E w \in Workers :
       \/ Report(w) \/ Die(w) \/ StepFails(w)
       \/ Load(w) \/ ReadPage(w) \/ NextRow(w) \/ EndPage(w)
       \/ Create(w) \/ Mark(w) \/ Final(w)
       \/ Get(w) \/ Mail(w) \/ Stamp(w)
  \/ StartImport
  \/ \E s \in Senders : SendLock(s) \/ SendFind(s) \/ SendCommit(s) \/ SendFails(s)

Spec == Init /\ [][Next]_vars

-----------------------------------------------------------------------------
(* Properties                                                              *)

\* Retries repeat no side effect that was recorded: a row yields one Record
\* and the notification one e-mail, and one more only for each attempt that
\* was cut off between the effect and the write that records it.  Overlapping
\* attempts are exempt: the handlers have no defence against them.
DuplicatesExplained ==
  /\ ~overlap["import"] => \A r \in Rows : made[r] <= 1 + torn[r]
  /\ ~overlap["email"] => mails <= 1 + torn[Email]

\* An import that says it has ended left no row behind, and its counters and
\* status are those of its rows, however many attempts it took.
StatusTellsRows ==
  imp.status \in {"succeeded", "failed"} =>
    /\ \A r \in Rows : row[r] # "queued"
    /\ ~overlap["import"] =>
         /\ imp.ok = Cardinality({r \in Rows : row[r] = "succeeded"})
         /\ imp.bad = Cardinality({r \in Rows : row[r] = "failed"})
         /\ imp.status = "failed" <=> \E r \in Rows : row[r] = "failed"

\* A job that succeeded did its work: the mail went out and is recorded; every
\* row of the import was handled, a Record exists for each row that says so,
\* and unless attempts overlapped the import itself says it has ended.
SuccessMeansDone ==
  /\ job["email"].status = "succeeded" => note.emailed /\ mails > 0
  /\ job["import"].status = "succeeded" =>
       /\ \A r \in Rows : row[r] # "queued" /\ (row[r] = "succeeded" => made[r] > 0)
       /\ overlap["import"] \/ imp.status \in {"succeeded", "failed"}
=============================================================================
