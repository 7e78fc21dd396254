-------------------------- MODULE Handlers_proofs ---------------------------
(***************************************************************************)
(* Theorems about Handlers, for every number of rows, page size, budget of *)
(* attempts, workers and senders.                                          *)
(***************************************************************************)
EXTENDS Handlers, FiniteSetTheorems, TLAPS

-----------------------------------------------------------------------------
(* The inductive invariant: first what holds although attempts overlap.    *)

ImportSteps == {"load", "page", "row", "create", "mark", "final"}
InPage == {"row", "create", "mark"}
On(w, j) == att[w].pc # "idle" /\ att[w].job = j

\* How many rows an attempt of the import has dealt with.
Upto(w) == IF att[w].pc \in InPage THEN att[w].at - 1 ELSE att[w].from

\* An execution exists as soon as what it works for, and a queued one has an
\* attempt left.
JobInv ==
  /\ \A j \in JobNames : job[j].status = "queued" => job[j].attempts < Attempts
  /\ imp.status = "none" => job["import"].status = "none" /\ job["import"].attempts = 0
  /\ ~note.exists => job["email"].status = "none" /\ job["email"].attempts = 0

\* The user row of the recipient admits one sender at a time.
SendInv ==
  \A s \in Senders :
    /\ send[s] = "written" => ~note.exists
    /\ \A t \in Senders : s # t => send[s] = "idle" \/ send[t] = "idle"

\* Where an attempt of the import is, and what it has counted.
PlaceOf(w) ==
  /\ att[w].pc \in ImportSteps => att[w].job = "import" /\ att[w].ok + att[w].bad = Upto(w)
  /\ att[w].pc \in {"get", "smtp", "stamp"} => att[w].job = "email"
  /\ att[w].pc \in InPage => att[w].from < att[w].at /\ att[w].at <= PageEnd(w) + 1
  /\ att[w].pc \in {"create", "mark"} => att[w].at <= PageEnd(w)
  /\ att[w].pc = "final" => att[w].from = RowCount
PlaceInv == \A w \in Workers : PlaceOf(w)

\* Rows that an attempt has dealt with, or whose outcome it has read, have an
\* outcome; one that says succeeded has a Record.
RowsOf(w) ==
  /\ att[w].pc \in ImportSteps => \A r \in Rows : r <= Upto(w) => row[r] # "queued"
  /\ att[w].pc \in InPage => \A r \in Rows : att[w].seen[r] # "queued" => row[r] # "queued"
  /\ att[w].pc = "mark" /\ att[w].made = "created" => made[att[w].at] > 0
  /\ att[w].pc = "done" /\ att[w].job = "import" => \A r \in Rows : row[r] # "queued"
RowsInv ==
  /\ \A r \in Rows : row[r] = "succeeded" => made[r] > 0
  /\ \A w \in Workers : RowsOf(w)
  /\ imp.status \in {"succeeded", "failed"} => \A r \in Rows : row[r] # "queued"
  /\ job["import"].status = "succeeded" => \A r \in Rows : row[r] # "queued"

MailOf(w) ==
  /\ att[w].pc = "stamp" => mails > 0
  /\ att[w].pc = "done" /\ att[w].job = "email" => note.emailed
MailInv ==
  /\ note.emailed => mails > 0
  /\ \A w \in Workers : MailOf(w)
  /\ job["email"].status = "succeeded" => note.emailed

-----------------------------------------------------------------------------
(* The inductive invariant: what holds while attempts do not overlap.      *)

Bit(b) == IF b THEN 1 ELSE 0
Ended(r) == row[r] # "queued"
With(f, n, status) == {r \in Rows : r <= n /\ f[r] = status}

\* A Record that is created and not yet recorded in its row, and a mail that
\* is sent and not yet recorded in the notification.
Unrecorded(r) ==
  \E w \in Workers : att[w].pc = "mark" /\ att[w].made # "refused" /\ att[w].at = r
Unstamped == \E w \in Workers : att[w].pc = "stamp"

SoleInv ==
  \A j \in JobNames : ~overlap[j] => \A v, w \in Workers : On(v, j) /\ On(w, j) => v = w

\* What the only attempt has read is still so, and what it has counted is so.
SoleImportOf(w) ==
  /\ att[w].pc \in InPage => \A r \in Rows : r >= att[w].at => att[w].seen[r] = row[r]
  /\ att[w].pc \in {"create", "mark"} => ~Ended(att[w].at)
  /\ att[w].pc \in ImportSteps =>
       /\ att[w].ok = Cardinality(With(row, Upto(w), "succeeded"))
       /\ att[w].bad = Cardinality(With(row, Upto(w), "failed"))
  /\ att[w].pc \in ImportSteps \ {"load"} => imp.status = "running"
  /\ att[w].pc = "done" /\ att[w].job = "import" => imp.status \in {"succeeded", "failed"}
CountersTell ==
  imp.status \in {"succeeded", "failed"} =>
    /\ imp.ok = Cardinality(With(row, RowCount, "succeeded"))
    /\ imp.bad = Cardinality(With(row, RowCount, "failed"))
    /\ imp.status = "failed" <=> imp.bad > 0
JobTells ==
  job["import"].status = "succeeded" =>
    imp.status \in {"succeeded", "failed"} /\ \A w \in Workers : ~On(w, "import")
SoleImportInv ==
  ~overlap["import"] => CountersTell /\ JobTells /\ \A w \in Workers : SoleImportOf(w)

MadeInv ==
  ~overlap["import"] =>
    \A r \in Rows : made[r] <= torn[r] + Bit(Ended(r)) + Bit(Unrecorded(r))

SoleMailInv ==
  ~overlap["email"] =>
    /\ \A w \in Workers : att[w].pc \in {"smtp", "stamp"} => ~note.emailed
    /\ mails <= torn[Email] + Bit(note.emailed) + Bit(Unstamped)

Inv ==
  /\ TypeOK /\ JobInv /\ SendInv /\ PlaceInv /\ RowsInv /\ MailInv
  /\ SoleInv /\ SoleImportInv /\ MadeInv /\ SoleMailInv

-----------------------------------------------------------------------------
(* What the steps of an attempt make of it.                                *)

Only(w) == \A v \in Workers \ {w} : att'[v] = att[v]

LEMMA Numbers ==
  /\ RowCount \in Nat /\ Page \in Nat /\ Page > 0 /\ Attempts \in Nat /\ Attempts > 0
  /\ IsFiniteSet(Rows) /\ Rows \subseteq Nat /\ Email \notin Rows
  /\ \A r : r \in Rows <=> r \in Nat /\ 1 <= r /\ r <= RowCount
<1>1. RowCount \in Nat /\ Page \in Nat /\ Page > 0 /\ Attempts \in Nat /\ Attempts > 0
  BY HandlerConstants
<1>2. IsFiniteSet(Rows)
  BY <1>1, FS_Interval DEF Rows
<1>3. QED
  BY <1>1, <1>2 DEF Rows, Email

LEMMA AttType ==
  ASSUME TypeOK, NEW w \in Workers
  PROVE  /\ att[w] \in Attempt
         /\ att[w].from \in Nat /\ att[w].at \in Nat /\ att[w].ok \in Nat /\ att[w].bad \in Nat
         /\ att[w].from <= RowCount /\ att[w].at >= 1 /\ att[w].at <= RowCount + 1
<1>1. att[w] \in Attempt
  BY DEF TypeOK
<1>2. QED
  BY <1>1, Numbers DEF Attempt

LEMMA IdleType == Idle \in Attempt /\ Idle.pc = "idle"
BY Numbers DEF Idle, Attempt, JobNames, RowStatus, Rows

LEMMA PageEndType ==
  ASSUME TypeOK, NEW w \in Workers
  PROVE  /\ PageEnd(w) \in Nat /\ PageEnd(w) <= RowCount /\ att[w].from <= PageEnd(w)
         /\ PageEnd(w) - att[w].from < Page => PageEnd(w) = RowCount
BY AttType, Numbers DEF PageEnd

\* An attempt begins at the first row with nothing counted.
LEMMA TakeEffect ==
  ASSUME TypeOK, NEW w \in Workers, NEW j \in JobNames, Take(w, j), JobInv
  PROVE  /\ UNCHANGED <<importVars, noteVars, torn>> /\ Only(w)
         /\ att[w].pc = "idle" /\ att'[w] \in Attempt
         /\ att'[w].job = j /\ att'[w].pc = IF j = "import" THEN "load" ELSE "get"
         /\ att'[w].from = 0 /\ att'[w].ok = 0 /\ att'[w].bad = 0
         /\ job[j].status = "queued" /\ job' \in [JobNames -> Job]
         /\ job'[j].status = "running"
         /\ \A i \in JobNames \ {j} : job'[i] = job[i]
         /\ overlap' = [overlap EXCEPT ![j] = @ \/ \E v \in Workers \ {w} :
                                                     att[v].pc # "idle" /\ att[v].job = j]
<1>1. job[j] \in Job /\ job[j].status = "queued" /\ job[j].attempts + 1 \in 0 .. Attempts
  BY Numbers DEF Take, TypeOK, JobInv, Job
<1>2. /\ job' = [job EXCEPT ![j] = [status |-> "running", attempts |-> job[j].attempts + 1]]
      /\ job'[j].attempts = job[j].attempts + 1
  BY DEF Take, TypeOK
<1>3. [status |-> "running", attempts |-> job[j].attempts + 1] \in Job
  BY <1>1 DEF Job
<1>4. att'[w] = [Idle EXCEPT !.job = j, !.number = job[j].attempts + 1,
                             !.pc = IF j = "import" THEN "load" ELSE "get"]
  BY <1>2 DEF Take, TypeOK
<1>5. /\ att'[w] \in Attempt /\ att'[w].job = j
      /\ att'[w].pc = IF j = "import" THEN "load" ELSE "get"
      /\ att'[w].from = 0 /\ att'[w].ok = 0 /\ att'[w].bad = 0
  <2>1. Idle \in Attempt
    BY IdleType
  <2>2. Idle.from = 0 /\ Idle.ok = 0 /\ Idle.bad = 0
    BY DEF Idle
  <2>3. QED
    BY <1>1, <1>4, <2>1, <2>2 DEF Attempt
<1>6. Only(w)
  BY DEF Take, TypeOK, Only
<1>7. job' \in [JobNames -> Job] /\ job'[j].status = "running"
      /\ \A i \in JobNames \ {j} : job'[i] = job[i]
  BY <1>2, <1>3 DEF TypeOK
<1>8. QED
  BY <1>1, <1>5, <1>6, <1>7 DEF Take

\* An expired or failed execution is queued again while attempts are left.
LEMMA AgainEffect ==
  ASSUME TypeOK, NEW j \in JobNames, job[j].status = "running", job' = Again(j)
  PROVE  /\ job' \in [JobNames -> Job]
         /\ job'[j].status \in {"queued", "failed"}
         /\ job'[j].status = "queued" => job'[j].attempts < Attempts
         /\ \A i \in JobNames \ {j} : job'[i] = job[i]
<1>1. job[j] \in Job
  BY DEF TypeOK
<1>2. job'[j] = [job[j] EXCEPT !.status = IF job[j].attempts < Attempts THEN "queued"
                                                                        ELSE "failed"]
  BY DEF Again, TypeOK
<1>3. /\ job'[j].status = IF job[j].attempts < Attempts THEN "queued" ELSE "failed"
      /\ job'[j].attempts = job[j].attempts
      /\ job'[j] \in Job
  BY <1>1, <1>2 DEF Job
<1>4. QED
  BY <1>3 DEF Again, TypeOK

\* What a report of w changes, if it is not ignored.
LEMMA ReportEffect ==
  ASSUME TypeOK, NEW w \in Workers, Report(w)
  PROVE  /\ UNCHANGED <<importVars, noteVars, torn, overlap>> /\ Only(w)
         /\ att[w].pc \in {"done", "error"} /\ att[w].job \in JobNames
         /\ att'[w] = Idle
         /\ job' \in [JobNames -> Job]
         /\ \A i \in JobNames \ {att[w].job} : job'[i] = job[i]
         /\ \/ job' = job
            \/ att[w].pc = "done" /\ job'[att[w].job].status = "succeeded"
            \/ /\ job'[att[w].job].status \in {"queued", "failed"}
               /\ job'[att[w].job].status = "queued" =>
                    job'[att[w].job].attempts < Attempts
         /\ job' # job => job[att[w].job].status = "running"
<1>1. att[w].job \in JobNames
  BY AttType DEF Attempt
<1>2. att[w].pc \in {"done", "error"} /\ att'[w] = Idle /\ Only(w)
      /\ UNCHANGED <<importVars, noteVars, torn, overlap>>
  BY DEF Report, TypeOK, Only
<1>3. CASE ~Current(w)
  <2>1. job' = job
    BY <1>3 DEF Report
  <2>2. QED
    BY <1>1, <1>2, <2>1 DEF TypeOK
<1>4. CASE Current(w) /\ att[w].pc = "done"
  <2>1. job' = [job EXCEPT ![att[w].job].status = "succeeded"]
    BY <1>4 DEF Report
  <2>2. job[att[w].job] \in Job /\ job[att[w].job].status = "running"
    BY <1>1, <1>4 DEF TypeOK, Current
  <2>3. /\ job'[att[w].job] = [job[att[w].job] EXCEPT !.status = "succeeded"]
        /\ \A i \in JobNames \ {att[w].job} : job'[i] = job[i]
    BY <1>1, <2>1 DEF TypeOK
  <2>4. job'[att[w].job].status = "succeeded" /\ job'[att[w].job] \in Job
    BY <2>2, <2>3 DEF Job
  <2>5. job' \in [JobNames -> Job]
    BY <2>1, <2>3, <2>4 DEF TypeOK
  <2>6. QED
    BY <1>1, <1>2, <1>4, <2>2, <2>3, <2>4, <2>5
<1>5. CASE Current(w) /\ att[w].pc # "done"
  <2>1. job' = Again(att[w].job) /\ job[att[w].job].status = "running"
    BY <1>5 DEF Report, Current
  <2>2. QED
    BY <1>1, <1>2, <2>1, AgainEffect
<1>6. QED
  BY <1>3, <1>4, <1>5

\* What is lost when the attempt of w stops where it is.
LEMMA TornType ==
  ASSUME TypeOK, NEW w \in Workers, PlaceInv, torn' = Torn(w)
  PROVE  /\ torn' \in [{Email} \cup Rows -> Nat]
         /\ \A r \in {Email} \cup Rows : torn'[r] >= torn[r]
         /\ att[w].pc = "mark" /\ att[w].made # "refused" =>
              torn'[att[w].at] = torn[att[w].at] + 1
         /\ att[w].pc = "stamp" => torn'[Email] = torn[Email] + 1
<1>1. torn \in [{Email} \cup Rows -> Nat] /\ "mark" # "stamp"
  BY DEF TypeOK
<1>2. att[w].pc = "mark" => att[w].at \in Rows
  BY AttType, PageEndType, Numbers DEF PlaceInv, PlaceOf
<1>3. CASE att[w].pc = "mark" /\ att[w].made # "refused"
  <2>1. torn' = [torn EXCEPT ![att[w].at] = @ + 1]
    BY <1>3 DEF Torn
  <2>2. QED
    BY <1>1, <1>2, <1>3, <2>1
<1>4. CASE ~(att[w].pc = "mark" /\ att[w].made # "refused") /\ att[w].pc = "stamp"
  <2>1. torn' = [torn EXCEPT ![Email] = @ + 1]
    BY <1>4 DEF Torn
  <2>2. QED
    BY <1>1, <1>4, <2>1
<1>5. CASE ~(att[w].pc = "mark" /\ att[w].made # "refused") /\ att[w].pc # "stamp"
  <2>1. torn' = torn
    BY <1>5 DEF Torn
  <2>2. QED
    BY <1>1, <1>5, <2>1
<1>6. QED
  BY <1>3, <1>4, <1>5

\* An attempt that dies, or whose handler returns an error.
Stops(w) == Die(w) \/ StepFails(w)

LEMMA StopsEffect ==
  ASSUME TypeOK, NEW w \in Workers, PlaceInv, Stops(w)
  PROVE  /\ UNCHANGED <<job, importVars, noteVars, overlap>> /\ Only(w)
         /\ att[w].pc # "idle" /\ att'[w] \in Attempt
         /\ att'[w].pc \in {"idle", "error"}
         /\ att'[w].pc = "error" => att'[w].job = att[w].job
         /\ torn' = Torn(w)
<1>1. Idle \in Attempt /\ att[w] \in Attempt /\ Idle.pc = "idle"
  BY IdleType, AttType
<1>2. CASE Die(w)
  BY <1>1, <1>2 DEF Die, TypeOK, Only
<1>3. CASE StepFails(w)
  <2>1. att'[w] = [Idle EXCEPT !.pc = "error", !.job = att[w].job, !.number = att[w].number]
        /\ Only(w)
    BY <1>3 DEF StepFails, Returns, TypeOK, Only
  <2>2. att'[w] \in Attempt /\ att'[w].pc = "error" /\ att'[w].job = att[w].job
    BY <1>1, <2>1 DEF Attempt
  <2>3. QED
    BY <1>3, <2>1, <2>2 DEF StepFails
<1>4. QED
  BY <1>2, <1>3 DEF Stops

LEMMA LoadEffect ==
  ASSUME TypeOK, NEW w \in Workers, Load(w)
  PROVE  /\ UNCHANGED <<job, row, made, noteVars, torn, overlap>> /\ Only(w)
         /\ imp'.status = "running" /\ imp' \in Import
         /\ att[w].pc = "load" /\ att'[w] = [att[w] EXCEPT !.pc = "page"]
         /\ att'[w] \in Attempt /\ att'[w].pc = "page" /\ att'[w].job = att[w].job
         /\ att'[w].from = att[w].from
         /\ att'[w].ok = att[w].ok /\ att'[w].bad = att[w].bad
<1>1. att'[w] = [att[w] EXCEPT !.pc = "page"] /\ Only(w)
  BY DEF Load, TypeOK, Only
<1>2. imp' \in Import /\ imp'.status = "running"
  BY DEF Load, TypeOK, Import
<1>3. QED
  BY <1>1, <1>2, AttType DEF Load, Attempt

LEMMA ReadPageEffect ==
  ASSUME TypeOK, NEW w \in Workers, ReadPage(w)
  PROVE  /\ UNCHANGED <<job, importVars, noteVars, torn, overlap>> /\ Only(w)
         /\ att[w].pc = "page" /\ att'[w] \in Attempt
         /\ att'[w].pc = "row" /\ att'[w].seen = row /\ att'[w].at = att[w].from + 1
         /\ att'[w].from = att[w].from /\ att'[w].job = att[w].job
         /\ att'[w].ok = att[w].ok /\ att'[w].bad = att[w].bad
<1>1. /\ att'[w] = [att[w] EXCEPT !.seen = row, !.at = att[w].from + 1, !.pc = "row"]
      /\ Only(w)
  BY DEF ReadPage, TypeOK, Only
<1>2. row \in [Rows -> RowStatus] /\ att[w].from + 1 \in 1 .. RowCount + 1
  BY AttType, Numbers DEF TypeOK
<1>3. QED
  <2>1. PICK st \in [Rows -> RowStatus], k \in 1 .. RowCount + 1 :
          st = row /\ k = att[w].from + 1
    BY <1>2
  <2>2. att'[w] = [att[w] EXCEPT !.seen = st, !.at = k, !.pc = "row"] /\ att[w] \in Attempt
    BY <1>1, <2>1, AttType
  <2>3. /\ att'[w] \in Attempt
        /\ att'[w].pc = "row" /\ att'[w].seen = st /\ att'[w].at = k
        /\ att'[w].from = att[w].from /\ att'[w].job = att[w].job
        /\ att'[w].ok = att[w].ok /\ att'[w].bad = att[w].bad
    BY <2>2 DEF Attempt
  <2>4. QED
    BY <1>1, <2>1, <2>3 DEF ReadPage

\* A row that an earlier attempt has finished is counted and left behind.
LEMMA NextRowEffect ==
  ASSUME TypeOK, PlaceInv, NEW w \in Workers, NextRow(w)
  PROVE  /\ UNCHANGED <<job, importVars, noteVars, torn, overlap>> /\ Only(w)
         /\ att[w].pc = "row" /\ att[w].at \in Rows /\ att[w].at <= PageEnd(w)
         /\ att'[w] \in Attempt
         /\ att'[w].seen = att[w].seen /\ att'[w].from = att[w].from
         /\ att'[w].job = att[w].job
         /\ \/ /\ att[w].seen[att[w].at] = "queued"
               /\ att'[w].pc = "create" /\ att'[w].at = att[w].at
               /\ att'[w].ok = att[w].ok /\ att'[w].bad = att[w].bad
            \/ /\ att[w].seen[att[w].at] = "succeeded"
               /\ att'[w].pc = "row" /\ att'[w].at = att[w].at + 1
               /\ att'[w].ok = att[w].ok + 1 /\ att'[w].bad = att[w].bad
            \/ /\ att[w].seen[att[w].at] = "failed"
               /\ att'[w].pc = "row" /\ att'[w].at = att[w].at + 1
               /\ att'[w].ok = att[w].ok /\ att'[w].bad = att[w].bad + 1
<1> DEFINE a == att[w]
           seen == a.seen[a.at]
<1>1. a \in Attempt /\ a.pc = "row" /\ a.at <= PageEnd(w)
  BY AttType DEF NextRow
<1>2. a.at \in Rows /\ a.at <= RowCount
  BY <1>1, AttType, PageEndType, Numbers
<1>3. a.ok + a.bad = a.at - 1 /\ a.ok \in Nat /\ a.bad \in Nat /\ a.at \in Nat
  BY <1>1, AttType DEF PlaceInv, PlaceOf, ImportSteps, InPage, Upto
<1>4. a.ok + 1 \in 0 .. RowCount /\ a.bad + 1 \in 0 .. RowCount /\ a.at + 1 \in 1 .. RowCount + 1
  BY <1>2, <1>3, Numbers
<1>5. seen \in {"queued", "succeeded", "failed"}
  BY <1>1, <1>2 DEF Attempt, RowStatus
<1>6. Only(w) /\ UNCHANGED <<job, importVars, noteVars, torn, overlap>>
  BY DEF NextRow, TypeOK, Only
<1>7. att'[w] = [a EXCEPT !.pc = IF seen = "queued" THEN "create" ELSE "row",
                          !.ok = IF seen = "succeeded" THEN a.ok + 1 ELSE a.ok,
                          !.bad = IF seen = "failed" THEN a.bad + 1 ELSE a.bad,
                          !.at = IF seen = "queued" THEN a.at ELSE a.at + 1]
  BY DEF NextRow, TypeOK
<1>8. CASE seen = "queued"
  <2>1. att'[w] = [a EXCEPT !.pc = "create", !.ok = a.ok, !.bad = a.bad, !.at = a.at]
    BY <1>7, <1>8
  <2>2. QED
    BY <1>1, <1>2, <1>6, <1>8, <2>1 DEF Attempt
<1>9. CASE seen = "succeeded"
  <2>1. att'[w] = [a EXCEPT !.pc = "row", !.ok = a.ok + 1, !.bad = a.bad, !.at = a.at + 1]
    BY <1>7, <1>9
  <2>2. QED
    BY <1>1, <1>2, <1>4, <1>6, <1>9, <2>1 DEF Attempt
<1>10. CASE seen = "failed"
  <2>1. att'[w] = [a EXCEPT !.pc = "row", !.ok = a.ok, !.bad = a.bad + 1, !.at = a.at + 1]
    BY <1>7, <1>10
  <2>2. QED
    BY <1>1, <1>2, <1>4, <1>6, <1>10, <2>1 DEF Attempt
<1>11. QED
  BY <1>5, <1>8, <1>9, <1>10

\* Only the last page is short.
LEMMA EndPageEffect ==
  ASSUME TypeOK, PlaceInv, NEW w \in Workers, EndPage(w)
  PROVE  /\ UNCHANGED <<job, importVars, noteVars, torn, overlap>> /\ Only(w)
         /\ att[w].pc = "row" /\ att[w].at = PageEnd(w) + 1
         /\ att'[w] \in Attempt /\ att'[w].pc \in {"page", "final"}
         /\ att'[w].pc = "final" => att'[w].from = RowCount
         /\ att'[w].from = att[w].at - 1 /\ att'[w].job = att[w].job
         /\ att'[w].ok = att[w].ok /\ att'[w].bad = att[w].bad
<1>1. att[w] \in Attempt /\ PageEnd(w) \in 0 .. RowCount /\ Idle.seen \in [Rows -> RowStatus]
  BY AttType, PageEndType, IdleType, Numbers DEF Attempt
<1>2. att[w].pc = "row" /\ att[w].at > PageEnd(w) /\ Only(w)
      /\ UNCHANGED <<job, importVars, noteVars, torn, overlap>>
  BY DEF EndPage, TypeOK, Only
<1>3. att[w].at <= PageEnd(w) + 1
  BY <1>2 DEF PlaceInv, PlaceOf, InPage
<1>4. att[w].at = PageEnd(w) + 1 /\ att[w].at - 1 = PageEnd(w)
  BY <1>2, <1>3, AttType, PageEndType
<1>5. att'[w] = [att[w] EXCEPT
        !.pc = IF PageEnd(w) - att[w].from < Page THEN "final" ELSE "page",
        !.from = PageEnd(w), !.seen = Idle.seen]
  BY DEF EndPage, TypeOK
<1>6. /\ att'[w] \in Attempt
      /\ att'[w].pc = IF PageEnd(w) - att[w].from < Page THEN "final" ELSE "page"
      /\ att'[w].from = PageEnd(w) /\ att'[w].job = att[w].job
      /\ att'[w].ok = att[w].ok /\ att'[w].bad = att[w].bad
  BY <1>1, <1>5 DEF Attempt
<1>7. QED
  BY <1>2, <1>4, <1>6, PageEndType

LEMMA CreateEffect ==
  ASSUME TypeOK, PlaceInv, NEW w \in Workers, Create(w)
  PROVE  /\ UNCHANGED <<job, imp, row, noteVars, torn, overlap>> /\ Only(w)
         /\ att[w].pc = "create" /\ att[w].at \in Rows /\ att[w].at <= PageEnd(w)
         /\ att'[w] \in Attempt /\ att'[w].pc = "mark"
         /\ att'[w].at = att[w].at /\ att'[w].from = att[w].from
         /\ att'[w].seen = att[w].seen /\ att'[w].job = att[w].job
         /\ att'[w].ok = att[w].ok /\ att'[w].bad = att[w].bad
         /\ made' \in [Rows -> Nat]
         /\ \A r \in Rows \ {att[w].at} : made'[r] = made[r]
         /\ made'[att[w].at] = IF att'[w].made = "refused" THEN made[att[w].at]
                                                          ELSE made[att[w].at] + 1
<1>1. PICK outcome \in {"created", "refused", "lost"} :
        /\ made' = IF outcome = "refused" THEN made ELSE [made EXCEPT ![att[w].at] = @ + 1]
        /\ att' = [att EXCEPT ![w].pc = "mark", ![w].made = outcome]
  BY DEF Create
<1>2. att[w] \in Attempt /\ att[w].pc = "create" /\ att[w].at <= PageEnd(w)
  BY AttType DEF Create, PlaceInv, PlaceOf
<1>3. att[w].at \in Rows
  BY <1>2, AttType, PageEndType, Numbers
<1>4. att'[w] = [att[w] EXCEPT !.pc = "mark", !.made = outcome] /\ Only(w)
  BY <1>1 DEF TypeOK, Only
<1>5. /\ att'[w] \in Attempt /\ att'[w].pc = "mark" /\ att'[w].made = outcome
      /\ att'[w].at = att[w].at /\ att'[w].from = att[w].from
      /\ att'[w].seen = att[w].seen /\ att'[w].job = att[w].job
      /\ att'[w].ok = att[w].ok /\ att'[w].bad = att[w].bad
  BY <1>2, <1>4 DEF Attempt
<1>6. made \in [Rows -> Nat]
  BY DEF TypeOK
<1>7. QED
  BY <1>1, <1>2, <1>3, <1>4, <1>5, <1>6 DEF Create

LEMMA MarkEffect ==
  ASSUME TypeOK, PlaceInv, NEW w \in Workers, Mark(w)
  PROVE  /\ UNCHANGED <<job, imp, made, noteVars, torn, overlap>> /\ Only(w)
         /\ att[w].pc = "mark" /\ att[w].at \in Rows /\ att[w].at <= PageEnd(w)
         /\ att'[w] \in Attempt /\ att'[w].pc = "row"
         /\ att'[w].at = att[w].at + 1 /\ att'[w].from = att[w].from
         /\ att'[w].seen = att[w].seen /\ att'[w].job = att[w].job
         /\ row' \in [Rows -> RowStatus]
         /\ \A r \in Rows \ {att[w].at} : row'[r] = row[r]
         /\ \/ /\ att[w].made = "created" /\ row'[att[w].at] = "succeeded"
               /\ att'[w].ok = att[w].ok + 1 /\ att'[w].bad = att[w].bad
            \/ /\ att[w].made # "created" /\ row'[att[w].at] = "failed"
               /\ att'[w].ok = att[w].ok /\ att'[w].bad = att[w].bad + 1
<1> DEFINE a == att[w]
<1>1. a \in Attempt /\ a.pc = "mark" /\ a.at <= PageEnd(w)
  BY AttType DEF Mark, PlaceInv, PlaceOf
<1>2. a.at \in Rows /\ a.at <= RowCount
  BY <1>1, AttType, PageEndType, Numbers
<1>3. a.ok + a.bad = a.at - 1 /\ a.ok \in Nat /\ a.bad \in Nat /\ a.at \in Nat
  BY <1>1, AttType DEF PlaceInv, PlaceOf, ImportSteps, InPage, Upto
<1>4. a.ok + 1 \in 0 .. RowCount /\ a.bad + 1 \in 0 .. RowCount /\ a.at + 1 \in 1 .. RowCount + 1
  BY <1>2, <1>3, Numbers
<1>5. Only(w) /\ UNCHANGED <<job, imp, made, noteVars, torn, overlap>>
  BY DEF Mark, TypeOK, Only
<1>6. /\ row' = [row EXCEPT ![a.at] = IF a.made = "created" THEN "succeeded" ELSE "failed"]
      /\ row \in [Rows -> RowStatus]
  BY DEF Mark, TypeOK
<1>7. att'[w] = [a EXCEPT !.pc = "row", !.at = a.at + 1, !.made = "refused",
                          !.ok = IF a.made = "created" THEN a.ok + 1 ELSE a.ok,
                          !.bad = IF a.made = "created" THEN a.bad ELSE a.bad + 1]
  BY DEF Mark, TypeOK
<1>8. row' \in [Rows -> RowStatus]
  BY <1>6 DEF RowStatus
<1>9. CASE a.made = "created"
  <2>1. att'[w] = [a EXCEPT !.pc = "row", !.at = a.at + 1, !.made = "refused",
                            !.ok = a.ok + 1, !.bad = a.bad]
    BY <1>7, <1>9
  <2>2. QED
    BY <1>1, <1>2, <1>4, <1>5, <1>6, <1>8, <1>9, <2>1 DEF Attempt
<1>10. CASE a.made # "created"
  <2>1. att'[w] = [a EXCEPT !.pc = "row", !.at = a.at + 1, !.made = "refused",
                            !.ok = a.ok, !.bad = a.bad + 1]
    BY <1>7, <1>10
  <2>2. QED
    BY <1>1, <1>2, <1>4, <1>5, <1>6, <1>8, <1>10, <2>1 DEF Attempt
<1>11. QED
  BY <1>9, <1>10

LEMMA FinalEffect ==
  ASSUME TypeOK, NEW w \in Workers, Final(w)
  PROVE  /\ UNCHANGED <<job, row, made, noteVars, torn, overlap>> /\ Only(w)
         /\ att[w].pc = "final" /\ att'[w] \in Attempt
         /\ att'[w].pc = "done" /\ att'[w].job = att[w].job
         /\ imp' \in Import /\ imp'.ok = att[w].ok /\ imp'.bad = att[w].bad
         /\ imp'.status = IF att[w].bad > 0 THEN "failed" ELSE "succeeded"
<1>1. att[w] \in Attempt /\ Idle \in Attempt
  BY AttType, IdleType
<1>2. att'[w] = [Idle EXCEPT !.pc = "done", !.job = att[w].job, !.number = att[w].number]
      /\ Only(w)
  BY DEF Final, Returns, TypeOK, Only
<1>3. att'[w] \in Attempt /\ att'[w].pc = "done" /\ att'[w].job = att[w].job
  BY <1>1, <1>2 DEF Attempt
<1>4. imp' = [status |-> IF att[w].bad > 0 THEN "failed" ELSE "succeeded",
              ok |-> att[w].ok, bad |-> att[w].bad]
  BY DEF Final
<1>5. att[w].ok \in 0 .. RowCount /\ att[w].bad \in 0 .. RowCount
  BY <1>1 DEF Attempt
<1>6. imp' \in Import
  BY <1>4, <1>5 DEF Import
<1>7. QED
  BY <1>2, <1>3, <1>4, <1>6 DEF Final

\* The steps of the e-mail job change where its attempt is and nothing else of
\* it.
Mailing(w) == Get(w) \/ Mail(w) \/ Stamp(w)

LEMMA MailingEffect ==
  ASSUME TypeOK, NEW w \in Workers, Mailing(w)
  PROVE  /\ UNCHANGED <<job, importVars, send, overlap>> /\ Only(w)
         /\ att[w].pc \in {"get", "smtp", "stamp"} /\ att'[w] \in Attempt
         /\ att'[w].job = att[w].job
         /\ att'[w].pc \in {"done", "smtp", "stamp", "error"}
         /\ note' \in [exists : BOOLEAN, emailed : BOOLEAN] /\ note'.exists = note.exists
         /\ mails' \in Nat /\ torn' \in [{Email} \cup Rows -> Nat]
         /\ \A r \in Rows : torn'[r] = torn[r]
         /\ \/ /\ att[w].pc = "get" /\ UNCHANGED <<note, mails, torn>>
               /\ att'[w].pc = IF note.emailed THEN "done" ELSE "smtp"
            \/ /\ att[w].pc = "smtp" /\ note' = note
               /\ \/ mails' = mails + 1 /\ att'[w].pc = "stamp" /\ torn' = torn
                  \/ mails' = mails /\ att'[w].pc = "error" /\ torn' = torn
                  \/ mails' = mails + 1 /\ att'[w].pc = "error" /\ torn'[Email] = torn[Email] + 1
            \/ /\ att[w].pc = "stamp" /\ note'.emailed /\ UNCHANGED <<mails, torn>>
               /\ att'[w].pc = "done"
<1>1. att[w] \in Attempt /\ mails \in Nat /\ torn \in [{Email} \cup Rows -> Nat]
      /\ note \in [exists : BOOLEAN, emailed : BOOLEAN]
  BY AttType DEF TypeOK
<1>2. ASSUME NEW pc \in {"done", "smtp", "stamp", "error"}, att' = [att EXCEPT ![w].pc = pc]
      PROVE  att'[w] \in Attempt /\ att'[w].pc = pc /\ att'[w].job = att[w].job /\ Only(w)
  <2>1. att'[w] = [att[w] EXCEPT !.pc = pc] /\ Only(w)
    BY <1>2 DEF TypeOK, Only
  <2>2. QED
    BY <1>1, <2>1 DEF Attempt
<1>3. CASE Get(w)
  <2>1. att' = [att EXCEPT ![w].pc = IF note.emailed THEN "done" ELSE "smtp"]
        /\ att[w].pc = "get" /\ UNCHANGED <<job, importVars, noteVars, torn, overlap>>
    BY <1>3 DEF Get
  <2>2. CASE note.emailed
    BY <1>1, <1>2, <2>1, <2>2 DEF noteVars
  <2>3. CASE ~note.emailed
    BY <1>1, <1>2, <2>1, <2>3 DEF noteVars
  <2>4. QED
    BY <2>2, <2>3
<1>4. CASE Mail(w)
  <2>1. att[w].pc = "smtp" /\ UNCHANGED <<job, importVars, note, send, overlap>>
    BY <1>4 DEF Mail
  <2>2. CASE mails' = mails + 1 /\ att' = [att EXCEPT ![w].pc = "stamp"] /\ torn' = torn
    BY <1>1, <1>2, <2>1, <2>2
  <2>3. CASE att' = [att EXCEPT ![w].pc = "error"] /\ mails' = mails /\ torn' = torn
    BY <1>1, <1>2, <2>1, <2>3
  <2>4. CASE /\ mails' = mails + 1 /\ torn' = [torn EXCEPT ![Email] = @ + 1]
             /\ att' = [att EXCEPT ![w].pc = "error"]
    BY <1>1, <1>2, <2>1, <2>4, Numbers
  <2>5. QED
    BY <1>4, <2>2, <2>3, <2>4 DEF Mail
<1>5. CASE Stamp(w)
  <2>1. att' = [att EXCEPT ![w].pc = "done"] /\ att[w].pc = "stamp"
        /\ note' = [note EXCEPT !.emailed = TRUE]
        /\ UNCHANGED <<job, importVars, send, mails, torn, overlap>>
    BY <1>5 DEF Stamp
  <2>2. note' \in [exists : BOOLEAN, emailed : BOOLEAN] /\ note'.exists = note.exists
        /\ note'.emailed
    BY <1>1, <2>1
  <2>3. QED
    BY <1>1, <1>2, <2>1, <2>2
<1>6. QED
  BY <1>3, <1>4, <1>5 DEF Mailing

-----------------------------------------------------------------------------
(* Types, executions and senders.                                          *)

\* The steps of a sender's transaction.
Sending(s) == SendLock(s) \/ SendFind(s) \/ SendCommit(s) \/ SendFails(s)

LEMMA SendingEffect ==
  ASSUME TypeOK, NEW s \in Senders, Sending(s), SendInv, JobInv
  PROVE  /\ UNCHANGED <<att, importVars, mails, torn, overlap>>
         /\ send' \in [Senders -> {"idle", "locked", "written"}]
         /\ \A t \in Senders \ {s} : send'[t] = send[t]
         /\ note' \in [exists : BOOLEAN, emailed : BOOLEAN] /\ note'.emailed = note.emailed
         /\ \/ UNCHANGED <<note, job>>
            \/ /\ ~note.exists /\ note'.exists /\ job' \in [JobNames -> Job]
               /\ job'["email"].status = "queued" /\ job'["email"].attempts = 0
               /\ job'["import"] = job["import"]
         /\ send'[s] = "written" => ~note'.exists
         /\ \/ send'[s] = "idle" \/ send[s] # "idle"
            \/ \A t \in Senders : send[t] = "idle"
         /\ note'.exists => note.exists \/ send[s] = "written"
<1>1. note \in [exists : BOOLEAN, emailed : BOOLEAN]
      /\ send \in [Senders -> {"idle", "locked", "written"}]
      /\ "email" \in JobNames /\ "import" \in JobNames
  BY DEF TypeOK, JobNames
<1>2. CASE SendLock(s)
  BY <1>1, <1>2 DEF SendLock
<1>3. CASE SendFind(s)
  BY <1>1, <1>3 DEF SendFind
<1>4. CASE SendFails(s)
  BY <1>1, <1>4 DEF SendFails
<1>5. CASE SendCommit(s)
  <2>1. send[s] = "written" /\ ~note.exists
        /\ send' = [send EXCEPT ![s] = "idle"]
        /\ UNCHANGED <<att, importVars, mails, torn, overlap>>
        /\ note' = [note EXCEPT !.exists = TRUE]
        /\ job' = [job EXCEPT !["email"].status = "queued"]
    BY <1>5 DEF SendCommit, SendInv
  <2>2. note' \in [exists : BOOLEAN, emailed : BOOLEAN] /\ note'.emailed = note.emailed
        /\ note'.exists
    BY <1>1, <2>1
  <2>3. job["email"] \in Job /\ job["email"].attempts = 0
    BY <1>1, <2>1 DEF TypeOK, JobInv
  <2>4. job'["email"] = [job["email"] EXCEPT !.status = "queued"]
        /\ job'["import"] = job["import"]
    BY <1>1, <2>1 DEF TypeOK
  <2>5. job'["email"] \in Job /\ job'["email"].status = "queued" /\ job'["email"].attempts = 0
    BY <2>3, <2>4 DEF Job
  <2>6. job' \in [JobNames -> Job]
    BY <2>1, <2>5, <2>4 DEF TypeOK, JobNames
  <2>7. QED
    BY <1>1, <2>1, <2>2, <2>4, <2>5, <2>6
<1>6. QED
  BY <1>2, <1>3, <1>4, <1>5 DEF Sending

LEMMA StartImportEffect ==
  ASSUME TypeOK, StartImport, JobInv
  PROVE  /\ UNCHANGED <<att, row, made, noteVars, torn, overlap>>
         /\ imp' \in Import /\ imp'.status = "queued" /\ imp.status = "none"
         /\ job' \in [JobNames -> Job]
         /\ job'["import"].status = "queued" /\ job'["import"].attempts = 0
         /\ job'["email"] = job["email"]
<1>1. imp \in Import /\ job["import"] \in Job /\ job["import"].attempts = 0
      /\ imp.status = "none"
  BY DEF TypeOK, StartImport, JobInv, JobNames
<1>2. imp' = [imp EXCEPT !.status = "queued"]
      /\ job'["import"] = [job["import"] EXCEPT !.status = "queued"]
      /\ job'["email"] = job["email"]
  BY DEF StartImport, TypeOK, JobNames
<1>3. job'["import"] \in Job /\ job'["import"].status = "queued" /\ job'["import"].attempts = 0
  BY <1>1, <1>2 DEF Job
<1>4. job' \in [JobNames -> Job]
  BY <1>2, <1>3 DEF StartImport, TypeOK, JobNames
<1>5. imp' \in Import /\ imp'.status = "queued"
  BY <1>1, <1>2 DEF Import
<1>6. QED
  BY <1>1, <1>2, <1>3, <1>4, <1>5 DEF StartImport

LEMMA ExpireEffect ==
  ASSUME TypeOK, NEW j \in JobNames, Expire(j)
  PROVE  /\ UNCHANGED <<att, importVars, noteVars, torn, overlap>>
         /\ job[j].status = "running" /\ job' \in [JobNames -> Job]
         /\ job'[j].status \in {"queued", "failed"}
         /\ job'[j].status = "queued" => job'[j].attempts < Attempts
         /\ \A i \in JobNames \ {j} : job'[i] = job[i]
BY AgainEffect DEF Expire

\* The steps of an attempt of the import.
Importing(w) ==
  \/ Load(w) \/ ReadPage(w) \/ NextRow(w) \/ EndPage(w)
  \/ Create(w) \/ Mark(w) \/ Final(w)

LEMMA ImportingEffect ==
  ASSUME TypeOK, PlaceInv, NEW w \in Workers, Importing(w)
  PROVE  /\ UNCHANGED <<job, noteVars, torn, overlap>> /\ Only(w)
         /\ att[w].pc \in ImportSteps /\ att'[w].pc \in ImportSteps \cup {"done"}
         /\ att[w].job = "import" /\ att'[w].job = "import" /\ att'[w] \in Attempt
         /\ imp' \in Import /\ row' \in [Rows -> RowStatus] /\ made' \in [Rows -> Nat]
         /\ imp'.status \in {imp.status, "running", "failed", "succeeded"}
         /\ \A r \in Rows : row'[r] \in {row[r], "succeeded", "failed"}
         /\ \A r \in Rows : made'[r] >= made[r]
<1> USE DEF ImportSteps
<1>1. imp \in Import /\ row \in [Rows -> RowStatus] /\ made \in [Rows -> Nat]
      /\ \A r \in Rows : made[r] \in Nat /\ made[r] >= made[r]
  BY DEF TypeOK
<1>2. att[w].pc \in ImportSteps => att[w].job = "import"
  BY DEF PlaceInv, PlaceOf
<1>3. CASE Load(w)
  BY <1>1, <1>2, <1>3, LoadEffect
<1>4. CASE ReadPage(w)
  BY <1>1, <1>2, <1>4, ReadPageEffect DEF importVars
<1>5. CASE NextRow(w)
  BY <1>1, <1>2, <1>5, NextRowEffect DEF importVars
<1>6. CASE EndPage(w)
  BY <1>1, <1>2, <1>6, EndPageEffect DEF importVars
<1>7. CASE Create(w)
  <2>1. \A r \in Rows : made'[r] >= made[r]
    BY <1>1, <1>7, CreateEffect
  <2>2. QED
    BY <1>1, <1>2, <1>7, <2>1, CreateEffect
<1>8. CASE Mark(w)
  BY <1>1, <1>2, <1>8, MarkEffect
<1>9. CASE Final(w)
  BY <1>1, <1>2, <1>9, FinalEffect
<1>10. QED
  BY <1>3, <1>4, <1>5, <1>6, <1>7, <1>8, <1>9 DEF Importing

LEMMA NextCases ==
  Next => \/ \E w \in Workers, j \in JobNames : Take(w, j)
          \/ \E j \in JobNames : Expire(j)
          \/ \E w \in Workers : Report(w) \/ Stops(w) \/ Importing(w) \/ Mailing(w)
          \/ StartImport
          \/ \E s \in Senders : Sending(s)
BY DEF Next, Stops, Importing, Mailing, Sending

\* A step changes the attempt of one worker.
LEMMA AttFunction ==
  ASSUME TypeOK, NEW w \in Workers,
         (\E j \in JobNames : Take(w, j)) \/ Report(w) \/ Stops(w) \/ Importing(w) \/ Mailing(w)
  PROVE  DOMAIN att' = Workers /\ att' = [v \in Workers |-> att'[v]]
<1>1. CASE (\E j \in JobNames : Take(w, j)) \/ Report(w) \/ Stops(w)
  BY <1>1 DEF Take, Report, Stops, Die, StepFails, Returns, TypeOK
<1>2. CASE Importing(w)
  <2>1. CASE Load(w) \/ ReadPage(w) \/ NextRow(w) \/ EndPage(w)
    BY <2>1 DEF Load, ReadPage, NextRow, EndPage, TypeOK
  <2>2. CASE Create(w) \/ Mark(w) \/ Final(w)
    BY <2>2 DEF Create, Mark, Final, Returns, TypeOK
  <2>3. QED
    BY <1>2, <2>1, <2>2 DEF Importing
<1>3. CASE Mailing(w)
  BY <1>3 DEF Mailing, Get, Mail, Stamp, TypeOK
<1>4. QED
  BY <1>1, <1>2, <1>3

LEMMA TypeStep ==
  ASSUME TypeOK, JobInv, SendInv, PlaceInv, Next PROVE TypeOK'
<1>1. ASSUME NEW w \in Workers, Only(w), att'[w] \in Attempt,
             DOMAIN att' = Workers, att' = [v \in Workers |-> att'[v]]
      PROVE  att' \in [Workers -> Attempt]
  BY <1>1 DEF Only, TypeOK
<1>2. ASSUME NEW w \in Workers, NEW j \in JobNames, Take(w, j) PROVE TypeOK'
  <2>1. att' \in [Workers -> Attempt]
    BY <1>1, <1>2, TakeEffect, AttFunction
  <2>2. overlap' \in [JobNames -> BOOLEAN]
    <3>1. PICK b \in BOOLEAN : b = (overlap[j] \/ \E v \in Workers \ {w} :
                                                 att[v].pc # "idle" /\ att[v].job = j)
      OBVIOUS
    <3>2. overlap' = [overlap EXCEPT ![j] = b]
      BY <1>2, <3>1, TakeEffect
    <3>3. QED
      BY <3>2 DEF TypeOK
  <2>3. QED
    BY <1>2, <2>1, <2>2, TakeEffect DEF TypeOK, importVars, noteVars
<1>3. ASSUME NEW j \in JobNames, Expire(j) PROVE TypeOK'
  BY <1>3, ExpireEffect DEF TypeOK, importVars, noteVars
<1>4. ASSUME NEW w \in Workers, Report(w) PROVE TypeOK'
  <2>1. att' \in [Workers -> Attempt]
    BY <1>1, <1>4, ReportEffect, AttFunction, IdleType
  <2>2. QED
    BY <1>4, <2>1, ReportEffect DEF TypeOK, importVars, noteVars
<1>5. ASSUME NEW w \in Workers, Stops(w) PROVE TypeOK'
  <2>1. att' \in [Workers -> Attempt] /\ torn' \in [{Email} \cup Rows -> Nat]
    BY <1>1, <1>5, StopsEffect, TornType, AttFunction
  <2>2. QED
    BY <1>5, <2>1, StopsEffect DEF TypeOK, importVars, noteVars
<1>6. ASSUME NEW w \in Workers, Importing(w) PROVE TypeOK'
  <2>1. att' \in [Workers -> Attempt]
    BY <1>1, <1>6, ImportingEffect, AttFunction
  <2>2. QED
    BY <1>6, <2>1, ImportingEffect DEF TypeOK, noteVars
<1>7. ASSUME NEW w \in Workers, Mailing(w) PROVE TypeOK'
  <2>1. att' \in [Workers -> Attempt]
    BY <1>1, <1>7, MailingEffect, AttFunction
  <2>2. QED
    BY <1>7, <2>1, MailingEffect DEF TypeOK, importVars
<1>8. CASE StartImport
  BY <1>8, StartImportEffect DEF TypeOK, noteVars
<1>9. ASSUME NEW s \in Senders, Sending(s) PROVE TypeOK'
  <2>1. job' \in [JobNames -> Job]
    BY <1>9, SendingEffect DEF TypeOK
  <2>2. QED
    BY <1>9, <2>1, SendingEffect DEF TypeOK, importVars
<1>10. QED
  BY <1>2, <1>3, <1>4, <1>5, <1>6, <1>7, <1>8, <1>9, NextCases

LEMMA JobStep ==
  ASSUME TypeOK, JobInv, SendInv, PlaceInv, Next PROVE JobInv'
<1>1. "import" \in JobNames /\ "email" \in JobNames /\ JobNames = {"import", "email"}
  BY DEF JobNames
<1>2. ASSUME NEW w \in Workers, NEW j \in JobNames, Take(w, j) PROVE JobInv'
  <2>1. imp' = imp /\ note' = note
    BY <1>2, TakeEffect DEF importVars, noteVars
  <2>2. job[j].status = "queued" /\ job'[j].status = "running"
        /\ \A i \in JobNames \ {j} : job'[i] = job[i]
    BY <1>2, TakeEffect
  <2>3. QED
    BY <1>1, <2>1, <2>2 DEF JobInv
<1>3. ASSUME NEW j \in JobNames, Expire(j) PROVE JobInv'
  <2>1. imp' = imp /\ note' = note
    BY <1>3, ExpireEffect DEF importVars, noteVars
  <2>2. QED
    BY <1>1, <1>3, <2>1, ExpireEffect DEF JobInv
<1>4. ASSUME NEW w \in Workers, Report(w) PROVE JobInv'
  <2>1. imp' = imp /\ note' = note
    BY <1>4, ReportEffect DEF importVars, noteVars
  <2>2. CASE job' = job
    BY <2>1, <2>2 DEF JobInv
  <2>3. CASE job' # job
    <3>1. /\ job[att[w].job].status = "running" /\ att[w].job \in JobNames
          /\ \A i \in JobNames \ {att[w].job} : job'[i] = job[i]
          /\ job'[att[w].job].status = "queued" => job'[att[w].job].attempts < Attempts
      BY <1>4, <2>3, ReportEffect
    <3>2. QED
      <4>1. \A j \in JobNames : job'[j].status = "queued" => job'[j].attempts < Attempts
        BY <3>1 DEF JobInv
      <4>2. \A j \in JobNames : job[j].status = "none" => job'[j] = job[j]
        <5>1. "running" # "none"
          OBVIOUS
        <5>2. QED
          BY <3>1, <5>1
      <4>3. QED
        BY <1>1, <2>1, <4>1, <4>2 DEF JobInv
  <2>4. QED
    BY <2>2, <2>3
<1>5. ASSUME NEW w \in Workers, Stops(w) PROVE JobInv'
  BY <1>5, StopsEffect DEF JobInv, importVars, noteVars
<1>6. ASSUME NEW w \in Workers, Importing(w) PROVE JobInv'
  BY <1>6, ImportingEffect DEF JobInv, noteVars
<1>7. ASSUME NEW w \in Workers, Mailing(w) PROVE JobInv'
  BY <1>7, MailingEffect DEF JobInv, importVars
<1>8. CASE StartImport
  BY <1>1, <1>8, StartImportEffect, Numbers DEF JobInv, noteVars
<1>9. ASSUME NEW s \in Senders, Sending(s) PROVE JobInv'
  <2>1. imp' = imp
    BY <1>9, SendingEffect DEF importVars
  <2>2. QED
    BY <1>1, <1>9, <2>1, SendingEffect, Numbers DEF JobInv
<1>10. QED
  BY <1>2, <1>3, <1>4, <1>5, <1>6, <1>7, <1>8, <1>9, NextCases

LEMMA SendStep ==
  ASSUME TypeOK, JobInv, SendInv, PlaceInv, Next PROVE SendInv'
<1>1. ASSUME send' = send, note'.exists = note.exists PROVE SendInv'
  BY <1>1 DEF SendInv
<1>2. ASSUME NEW s \in Senders, Sending(s) PROVE SendInv'
  <2>1. ASSUME NEW t \in Senders, NEW u \in Senders, t # u
        PROVE  send'[t] = "idle" \/ send'[u] = "idle"
    BY <1>2, <2>1, SendingEffect DEF SendInv
  <2>2. ASSUME NEW t \in Senders, send'[t] = "written" PROVE ~note'.exists
    <3>1. CASE t = s
      BY <1>2, <2>2, <3>1, SendingEffect
    <3>2. CASE t # s
      <4>1. send[t] = "written"
        BY <1>2, <2>2, <3>2, SendingEffect
      <4>2. send[s] = "idle" /\ ~note.exists
        BY <3>2, <4>1 DEF SendInv
      <4>3. QED
        BY <1>2, <4>2, SendingEffect
    <3>3. QED
      BY <3>1, <3>2
  <2>3. QED
    BY <2>1, <2>2 DEF SendInv
<1>3. ASSUME NEW w \in Workers, NEW j \in JobNames, Take(w, j) PROVE SendInv'
  BY <1>1, <1>3, TakeEffect DEF noteVars
<1>4. ASSUME NEW j \in JobNames, Expire(j) PROVE SendInv'
  BY <1>1, <1>4, ExpireEffect DEF noteVars
<1>5. ASSUME NEW w \in Workers, Report(w) \/ Stops(w) \/ Importing(w) \/ Mailing(w)
      PROVE  SendInv'
  BY <1>1, <1>5, ReportEffect, StopsEffect, ImportingEffect, MailingEffect DEF noteVars
<1>6. CASE StartImport
  BY <1>1, <1>6, StartImportEffect DEF noteVars
<1>7. QED
  BY <1>2, <1>3, <1>4, <1>5, <1>6, NextCases

-----------------------------------------------------------------------------
(* Where an attempt is.                                                    *)

LEMMA SamePlace ==
  ASSUME NEW w \in Workers, PlaceOf(w), att'[w] = att[w] PROVE PlaceOf(w)'
BY DEF PlaceOf, Upto, PageEnd

LEMMA PlaceStep ==
  ASSUME TypeOK, JobInv, SendInv, PlaceInv, Next PROVE PlaceInv'
<1>1. ASSUME NEW w \in Workers, Only(w), PlaceOf(w)' PROVE PlaceInv'
  BY <1>1, SamePlace DEF PlaceInv, Only
<1>2. CASE att' = att
  BY <1>2, SamePlace DEF PlaceInv
<1>3. ASSUME NEW w \in Workers, NEW j \in JobNames, Take(w, j) PROVE PlaceInv'
  <2>1. /\ att'[w].job = j /\ att'[w].pc = IF j = "import" THEN "load" ELSE "get"
        /\ att'[w].from = 0 /\ att'[w].ok = 0 /\ att'[w].bad = 0 /\ Only(w)
    BY <1>3, TakeEffect
  <2>2. PlaceOf(w)'
    BY <2>1 DEF PlaceOf, ImportSteps, InPage, Upto, JobNames
  <2>3. QED
    BY <1>1, <2>1, <2>2
<1>4. ASSUME NEW w \in Workers, Report(w) \/ Stops(w) PROVE PlaceInv'
  <2>1. att'[w].pc \in {"idle", "error"} /\ Only(w)
    BY <1>4, ReportEffect, StopsEffect, IdleType
  <2>2. PlaceOf(w)'
    BY <2>1 DEF PlaceOf, ImportSteps, InPage
  <2>3. QED
    BY <1>1, <2>1, <2>2
<1>5. ASSUME NEW w \in Workers, Mailing(w) PROVE PlaceInv'
  <2>1. /\ att'[w].pc \in {"done", "smtp", "stamp", "error"} /\ Only(w)
        /\ att'[w].job = "email"
    BY <1>5, MailingEffect DEF PlaceInv, PlaceOf
  <2>2. PlaceOf(w)'
    BY <2>1 DEF PlaceOf, ImportSteps, InPage
  <2>3. QED
    BY <1>1, <2>1, <2>2
<1>6. ASSUME NEW w \in Workers, Importing(w) PROVE PlaceInv'
  <2> USE DEF ImportSteps, InPage
  <2>1. /\ PlaceOf(w) /\ Only(w) /\ att[w].pc \in ImportSteps /\ att[w].job = "import"
        /\ att[w].ok + att[w].bad = Upto(w)
        /\ att'[w] \in Attempt /\ att'[w].job = "import"
    BY <1>6, ImportingEffect DEF PlaceInv, PlaceOf
  <2>2. /\ att[w].from \in Nat /\ att[w].at \in Nat /\ att[w].ok \in Nat /\ att[w].bad \in Nat
        /\ PageEnd(w) \in Nat /\ PageEnd(w) <= RowCount /\ att[w].from <= PageEnd(w)
    BY AttType, PageEndType
  <2>3. att'[w].from = att[w].from => PageEnd(w)' = PageEnd(w)
    BY DEF PageEnd
  <2>4. CASE Load(w)
    <3>1. PlaceOf(w)'
      BY <2>1, <2>4, LoadEffect DEF PlaceOf, Upto
    <3>2. QED
      BY <1>1, <2>1, <3>1
  <2>5. CASE ReadPage(w)
    <3>1. /\ att'[w].pc = "row" /\ att'[w].at = att[w].from + 1
          /\ att'[w].from = att[w].from
          /\ att'[w].ok + att'[w].bad = att[w].from
      BY <2>1, <2>5, ReadPageEffect DEF Upto
    <3>2. PlaceOf(w)'
      BY <2>1, <2>2, <2>3, <3>1 DEF PlaceOf, Upto
    <3>3. QED
      BY <1>1, <2>1, <3>2
  <2>6. CASE NextRow(w)
    <3>1. /\ att[w].pc = "row" /\ att[w].at <= PageEnd(w) /\ att'[w].from = att[w].from
          /\ att[w].from < att[w].at /\ att[w].ok + att[w].bad = att[w].at - 1
      BY <2>1, <2>6, NextRowEffect DEF Upto, PlaceOf
    <3>2. \/ /\ att'[w].pc = "create" /\ att'[w].at = att[w].at
             /\ att'[w].ok + att'[w].bad = att[w].at - 1
          \/ /\ att'[w].pc = "row" /\ att'[w].at = att[w].at + 1
             /\ att'[w].ok + att'[w].bad = att[w].at
      BY <2>2, <2>6, <3>1, NextRowEffect
    <3>3. PlaceOf(w)'
      BY <2>1, <2>2, <2>3, <3>1, <3>2 DEF PlaceOf, Upto
    <3>4. QED
      BY <1>1, <2>1, <3>3
  <2>7. CASE EndPage(w)
    <3>1. /\ att[w].pc = "row" /\ att'[w].from = att[w].at - 1
          /\ att'[w].pc \in {"page", "final"}
          /\ att'[w].pc = "final" => att'[w].from = RowCount
          /\ att'[w].ok + att'[w].bad = att[w].at - 1
      BY <2>1, <2>7, EndPageEffect DEF Upto
    <3>2. PlaceOf(w)'
      BY <2>1, <3>1 DEF PlaceOf, Upto
    <3>3. QED
      BY <1>1, <2>1, <3>2
  <2>8. CASE Create(w)
    <3>1. /\ att[w].pc = "create" /\ att'[w].pc = "mark"
          /\ att'[w].from = att[w].from /\ att'[w].at = att[w].at
          /\ att'[w].ok = att[w].ok /\ att'[w].bad = att[w].bad
      BY <2>8, CreateEffect
    <3>2. PlaceOf(w)'
      BY <2>1, <2>2, <2>3, <3>1 DEF PlaceOf, Upto
    <3>3. QED
      BY <1>1, <2>1, <3>2
  <2>9. CASE Mark(w)
    <3>1. /\ att[w].pc = "mark" /\ att[w].at <= PageEnd(w)
          /\ att'[w].pc = "row" /\ att'[w].at = att[w].at + 1
          /\ att'[w].from = att[w].from /\ att[w].from < att[w].at
          /\ att[w].ok + att[w].bad = att[w].at - 1
      BY <2>1, <2>9, MarkEffect DEF Upto, PlaceOf
    <3>2. att'[w].ok + att'[w].bad = att[w].at
      BY <2>2, <2>9, <3>1, MarkEffect
    <3>3. PlaceOf(w)'
      BY <2>1, <2>2, <2>3, <3>1, <3>2 DEF PlaceOf, Upto
    <3>4. QED
      BY <1>1, <2>1, <3>3
  <2>10. CASE Final(w)
    <3>1. att'[w].pc = "done"
      BY <2>10, FinalEffect
    <3>2. PlaceOf(w)'
      BY <3>1 DEF PlaceOf
    <3>3. QED
      BY <1>1, <2>1, <3>2
  <2>11. QED
    BY <1>6, <2>4, <2>5, <2>6, <2>7, <2>8, <2>9, <2>10 DEF Importing
<1>7. ASSUME NEW j \in JobNames, Expire(j) PROVE PlaceInv'
  BY <1>2, <1>7, ExpireEffect
<1>8. ASSUME NEW s \in Senders, Sending(s) PROVE PlaceInv'
  BY <1>2, <1>8, SendingEffect
<1>9. CASE StartImport
  BY <1>2, <1>9, StartImportEffect
<1>10. QED
  BY <1>3, <1>4, <1>5, <1>6, <1>7, <1>8, <1>9, NextCases

-----------------------------------------------------------------------------
(* Rows and Records.                                                       *)

\* A row that has an outcome keeps having one.
LEMMA RowsKept ==
  ASSUME TypeOK, NEW w \in Workers, RowsOf(w), PlaceOf(w), att'[w] = att[w],
         \A r \in Rows : row'[r] \in {row[r], "succeeded", "failed"},
         \A r \in Rows : made'[r] \in Nat /\ made'[r] >= made[r]
  PROVE  RowsOf(w)'
<1>1. \A r \in Rows : row[r] # "queued" => row'[r] # "queued"
  BY DEF TypeOK
<1>2. att[w].pc = "mark" => att[w].at \in Rows
  BY AttType, PageEndType, Numbers DEF PlaceOf
<1>3. att[w].pc = "mark" /\ made[att[w].at] > 0 => made'[att[w].at] > 0
  BY <1>2 DEF TypeOK
<1>4. QED
  BY <1>1, <1>3 DEF RowsOf, Upto

LEMMA RowsStep ==
  ASSUME TypeOK, JobInv, SendInv, PlaceInv, RowsInv, Next PROVE RowsInv'
<1> DEFINE AllEnded == \A r \in Rows : row[r] # "queued"
<1>1. row \in [Rows -> RowStatus] /\ made \in [Rows -> Nat] /\ \A r \in Rows : made[r] \in Nat
      /\ made[r] >= made[r] /\ row[r] \in {row[r], "succeeded", "failed"}
  BY DEF TypeOK
<1>2. ASSUME row' = row, made' = made, NEW w \in Workers, Only(w), RowsOf(w)',
             imp'.status \in {"succeeded", "failed"} => AllEnded,
             job'["import"].status = "succeeded" => AllEnded
      PROVE  RowsInv'
  <2>1. \A v \in Workers \ {w} : RowsOf(v)'
    BY <1>1, <1>2, RowsKept DEF RowsInv, PlaceInv, Only
  <2>2. QED
    BY <1>2, <2>1 DEF RowsInv
<1>3. ASSUME row' = row, made' = made, att' = att,
             imp'.status \in {"succeeded", "failed"} => AllEnded,
             job'["import"].status = "succeeded" => AllEnded
      PROVE  RowsInv'
  <2>1. \A v \in Workers : RowsOf(v)'
    BY <1>1, <1>3, RowsKept DEF RowsInv, PlaceInv
  <2>2. QED
    BY <1>3, <2>1 DEF RowsInv
<1>4. /\ imp.status \in {"succeeded", "failed"} => AllEnded
      /\ job["import"].status = "succeeded" => AllEnded
  BY DEF RowsInv
<1>5. ASSUME NEW w \in Workers, NEW j \in JobNames, Take(w, j) PROVE RowsInv'
  <2>1. /\ UNCHANGED <<imp, row, made>> /\ Only(w) /\ att'[w].pc \in {"load", "get"}
        /\ att'[w].from = 0
        /\ job'[j].status = "running" /\ \A i \in JobNames \ {j} : job'[i] = job[i]
    BY <1>5, TakeEffect DEF importVars
  <2>2. RowsOf(w)'
    BY <2>1, Numbers DEF RowsOf, Upto, InPage
  <2>3. job'["import"].status = "succeeded" => AllEnded
    BY <1>4, <2>1 DEF JobNames
  <2>4. QED
    BY <1>2, <1>4, <2>1, <2>2, <2>3
<1>6. ASSUME NEW j \in JobNames, Expire(j) PROVE RowsInv'
  <2>1. /\ UNCHANGED <<imp, row, made, att>> /\ job'[j].status \in {"queued", "failed"}
        /\ \A i \in JobNames \ {j} : job'[i] = job[i]
    BY <1>6, ExpireEffect DEF importVars
  <2>2. job'["import"].status = "succeeded" => AllEnded
    BY <1>4, <2>1 DEF JobNames
  <2>3. QED
    BY <1>3, <1>4, <2>1, <2>2
<1>7. ASSUME NEW w \in Workers, Report(w) PROVE RowsInv'
  <2>1. /\ UNCHANGED <<imp, row, made>> /\ Only(w) /\ att'[w].pc = "idle"
        /\ att[w].job \in JobNames
    BY <1>7, ReportEffect, IdleType DEF importVars
  <2>2. RowsOf(w)'
    BY <2>1 DEF RowsOf, ImportSteps, InPage
  <2>3. job'["import"].status = "succeeded" => AllEnded
    <3>1. CASE att[w].job # "import"
      <4>1. job'["import"] = job["import"]
        BY <1>7, <3>1, ReportEffect DEF JobNames
      <4>2. QED
        BY <1>4, <4>1
    <3>2. CASE att[w].job = "import" /\ att[w].pc = "done"
      BY <3>2 DEF RowsInv, RowsOf
    <3>3. CASE att[w].job = "import" /\ att[w].pc # "done"
      <4>1. job'["import"].status = "succeeded" => job' = job
        BY <1>7, <3>3, ReportEffect
      <4>2. QED
        BY <1>4, <4>1
    <3>4. QED
      BY <3>1, <3>2, <3>3
  <2>4. QED
    BY <1>2, <1>4, <2>1, <2>2, <2>3
<1>8. ASSUME NEW w \in Workers, Stops(w) PROVE RowsInv'
  <2>1. UNCHANGED <<job, imp, row, made>> /\ Only(w) /\ att'[w].pc \in {"idle", "error"}
    BY <1>8, StopsEffect DEF importVars
  <2>2. RowsOf(w)'
    BY <2>1 DEF RowsOf, ImportSteps, InPage
  <2>3. QED
    BY <1>2, <1>4, <2>1, <2>2
<1>9. ASSUME NEW w \in Workers, Mailing(w) PROVE RowsInv'
  <2>1. /\ UNCHANGED <<job, imp, row, made>> /\ Only(w)
        /\ att'[w].pc \in {"done", "smtp", "stamp", "error"} /\ att'[w].job = "email"
    BY <1>9, MailingEffect DEF importVars, PlaceInv, PlaceOf
  <2>2. RowsOf(w)'
    BY <2>1 DEF RowsOf, ImportSteps, InPage
  <2>3. QED
    BY <1>2, <1>4, <2>1, <2>2
<1>10. CASE StartImport
  <2>1. UNCHANGED <<att, row, made>> /\ imp'.status = "queued" /\ job'["import"].status = "queued"
    BY <1>10, StartImportEffect
  <2>2. QED
    BY <1>3, <2>1
<1>11. ASSUME NEW s \in Senders, Sending(s) PROVE RowsInv'
  <2>1. UNCHANGED <<att, imp, row, made>> /\ job'["import"] = job["import"]
    BY <1>11, SendingEffect DEF importVars
  <2>2. QED
    BY <1>3, <1>4, <2>1
<1>12. ASSUME NEW w \in Workers, Importing(w) PROVE RowsInv'
  <2> USE DEF ImportSteps, InPage
  <2>1. /\ job' = job /\ Only(w) /\ RowsOf(w) /\ PlaceOf(w) /\ att'[w].job = "import"
        /\ \A r \in Rows : row'[r] \in {row[r], "succeeded", "failed"}
        /\ \A r \in Rows : made'[r] \in Nat /\ made'[r] >= made[r]
    BY <1>12, ImportingEffect DEF RowsInv, PlaceInv
  <2>2. \A v \in Workers \ {w} : RowsOf(v)'
    BY <2>1, RowsKept DEF RowsInv, PlaceInv, Only
  <2>3. /\ att[w].from \in Nat /\ att[w].at \in Nat /\ \A r \in Rows : r \in Nat
    BY AttType, Numbers
  <2>4. CASE Load(w)
    <3>1. RowsOf(w)'
      BY <2>1, <2>4, LoadEffect DEF RowsOf, Upto
    <3>2. QED
      BY <1>2, <1>4, <2>1, <2>4, <3>1, LoadEffect
  <2>5. CASE ReadPage(w)
    <3>1. att'[w].at - 1 = att[w].from
      BY <2>3, <2>5, ReadPageEffect
    <3>2. RowsOf(w)'
      BY <2>1, <2>5, <3>1, ReadPageEffect DEF RowsOf, Upto, importVars
    <3>3. QED
      BY <1>2, <1>4, <2>1, <2>5, <3>2, ReadPageEffect DEF importVars
  <2>6. CASE NextRow(w)
    <3>1. /\ att[w].pc = "row" /\ att'[w].pc \in {"row", "create"}
          /\ UNCHANGED <<imp, row, made>> /\ att'[w].seen = att[w].seen
          /\ \/ att'[w].at = att[w].at
             \/ att'[w].at = att[w].at + 1 /\ att[w].seen[att[w].at] # "queued"
          /\ att[w].at \in Rows
      BY <2>6, NextRowEffect DEF importVars
    <3>2. att'[w].at = att[w].at + 1 => row[att[w].at] # "queued"
      BY <2>1, <2>3, <3>1 DEF RowsOf
    <3>3. \A r \in Rows : r <= att'[w].at - 1 => r <= att[w].at - 1
                          \/ (r = att[w].at /\ att'[w].at = att[w].at + 1)
      BY <2>3, <3>1
    <3>4. RowsOf(w)'
      BY <2>1, <3>1, <3>2, <3>3 DEF RowsOf, Upto
    <3>5. QED
      BY <1>2, <1>4, <2>1, <3>1, <3>4
  <2>7. CASE EndPage(w)
    <3>1. RowsOf(w)'
      BY <2>1, <2>7, EndPageEffect DEF RowsOf, Upto, importVars
    <3>2. QED
      BY <1>2, <1>4, <2>1, <2>7, <3>1, EndPageEffect DEF importVars
  <2>8. CASE Create(w)
    <3>1. /\ att[w].pc = "create" /\ att'[w].pc = "mark" /\ row' = row /\ imp' = imp
          /\ att'[w].at = att[w].at /\ att'[w].seen = att[w].seen /\ att[w].at \in Rows
      BY <2>8, CreateEffect
    <3>2. att'[w].made = "created" => made'[att[w].at] > 0
      BY <1>1, <2>8, <3>1, CreateEffect
    <3>3. RowsOf(w)'
      BY <2>1, <3>1, <3>2 DEF RowsOf, Upto
    <3>4. \A r \in Rows : row'[r] = "succeeded" => made'[r] > 0
      BY <1>1, <2>1, <3>1 DEF RowsInv
    <3>5. QED
      BY <1>4, <2>1, <2>2, <3>1, <3>3, <3>4 DEF RowsInv
  <2>9. CASE Mark(w)
    <3>1. /\ att[w].pc = "mark" /\ att'[w].pc = "row" /\ made' = made /\ imp' = imp
          /\ att'[w].at = att[w].at + 1 /\ att'[w].seen = att[w].seen /\ att[w].at \in Rows
          /\ \A r \in Rows \ {att[w].at} : row'[r] = row[r]
      BY <2>9, MarkEffect
    <3>2. /\ row'[att[w].at] # "queued"
          /\ row'[att[w].at] = "succeeded" => att[w].made = "created"
      BY <2>9, MarkEffect
    <3>3. \A r \in Rows : row'[r] = "succeeded" => made'[r] > 0
      BY <2>1, <3>1, <3>2 DEF RowsInv, RowsOf
    <3>4. \A r \in Rows : r <= att'[w].at - 1 => r <= att[w].at - 1 \/ r = att[w].at
      BY <2>3, <3>1
    <3>5. RowsOf(w)'
      BY <2>1, <3>1, <3>2, <3>4 DEF RowsOf, Upto
    <3>6. \A r \in Rows : row[r] # "queued" => row'[r] # "queued"
      BY <3>1, <3>2
    <3>7. QED
      BY <1>4, <2>1, <2>2, <3>1, <3>3, <3>5, <3>6 DEF RowsInv
  <2>10. CASE Final(w)
    <3>1. att[w].pc = "final" /\ att'[w].pc = "done" /\ UNCHANGED <<row, made>>
      BY <2>10, FinalEffect
    <3>2. AllEnded
      BY <2>1, <3>1, Numbers DEF RowsOf, PlaceOf, Upto
    <3>3. RowsOf(w)'
      BY <3>1, <3>2 DEF RowsOf
    <3>4. QED
      BY <1>2, <2>1, <3>1, <3>2, <3>3
  <2>11. QED
    BY <1>12, <2>4, <2>5, <2>6, <2>7, <2>8, <2>9, <2>10 DEF Importing
<1>13. QED
  BY <1>5, <1>6, <1>7, <1>8, <1>9, <1>10, <1>11, <1>12, NextCases

-----------------------------------------------------------------------------
(* The e-mail.                                                             *)

LEMMA MailStep ==
  ASSUME TypeOK, JobInv, SendInv, PlaceInv, MailInv, Next PROVE MailInv'
<1>1. "import" \in JobNames /\ "email" \in JobNames /\ "import" # "email" /\ mails \in Nat
  BY DEF JobNames, TypeOK
<1>2. ASSUME NEW w \in Workers, mails' = mails, note'.emailed = note.emailed, Only(w),
             MailOf(w)', job'["email"].status = "succeeded" => note.emailed
      PROVE  MailInv'
  BY <1>2 DEF MailInv, MailOf, Only
<1>3. ASSUME mails' = mails, note'.emailed = note.emailed, att' = att,
             job'["email"].status = "succeeded" => note.emailed
      PROVE  MailInv'
  BY <1>3 DEF MailInv, MailOf
<1>4. job["email"].status = "succeeded" => note.emailed
  BY DEF MailInv
<1>5. ASSUME NEW w \in Workers, NEW j \in JobNames, Take(w, j) PROVE MailInv'
  <2>1. /\ mails' = mails /\ note' = note /\ Only(w) /\ att'[w].pc \in {"load", "get"}
        /\ job'[j].status = "running" /\ \A i \in JobNames \ {j} : job'[i] = job[i]
    BY <1>5, TakeEffect DEF noteVars
  <2>2. MailOf(w)'
    BY <2>1 DEF MailOf
  <2>3. job'["email"].status = "succeeded" => note.emailed
    BY <1>1, <1>4, <2>1
  <2>4. QED
    BY <1>2, <2>1, <2>2, <2>3
<1>6. ASSUME NEW j \in JobNames, Expire(j) PROVE MailInv'
  <2>1. /\ mails' = mails /\ note' = note /\ att' = att
        /\ job'[j].status \in {"queued", "failed"}
        /\ \A i \in JobNames \ {j} : job'[i] = job[i]
    BY <1>6, ExpireEffect DEF noteVars
  <2>2. job'["email"].status = "succeeded" => note.emailed
    BY <1>1, <1>4, <2>1
  <2>3. QED
    BY <1>3, <2>1, <2>2
<1>7. ASSUME NEW w \in Workers, Report(w) PROVE MailInv'
  <2>1. mails' = mails /\ note' = note /\ Only(w) /\ att'[w].pc = "idle"
    BY <1>7, ReportEffect, IdleType DEF noteVars
  <2>2. MailOf(w)'
    BY <2>1 DEF MailOf
  <2>3. job'["email"].status = "succeeded" => note.emailed
    <3>1. CASE att[w].job # "email"
      <4>1. job'["email"] = job["email"]
        BY <1>1, <1>7, <3>1, ReportEffect
      <4>2. QED
        BY <1>4, <4>1
    <3>2. CASE att[w].job = "email" /\ att[w].pc = "done"
      BY <3>2 DEF MailInv, MailOf
    <3>3. CASE att[w].job = "email" /\ att[w].pc # "done"
      <4>1. job'["email"].status = "succeeded" => job' = job
        BY <1>7, <3>3, ReportEffect
      <4>2. QED
        BY <1>4, <4>1
    <3>4. QED
      BY <3>1, <3>2, <3>3
  <2>4. QED
    BY <1>2, <2>1, <2>2, <2>3
<1>8. ASSUME NEW w \in Workers, Stops(w) PROVE MailInv'
  <2>1. /\ mails' = mails /\ note' = note /\ Only(w) /\ att'[w].pc \in {"idle", "error"}
        /\ job' = job
    BY <1>8, StopsEffect DEF noteVars
  <2>2. MailOf(w)'
    BY <2>1 DEF MailOf
  <2>3. QED
    BY <1>2, <1>4, <2>1, <2>2
<1>9. ASSUME NEW w \in Workers, Importing(w) PROVE MailInv'
  <2>1. /\ mails' = mails /\ note' = note /\ Only(w) /\ att'[w].job = "import"
        /\ att'[w].pc \in ImportSteps \cup {"done"} /\ job' = job
    BY <1>9, ImportingEffect DEF noteVars
  <2>2. MailOf(w)'
    BY <1>1, <2>1 DEF MailOf, ImportSteps
  <2>3. QED
    BY <1>2, <1>4, <2>1, <2>2
<1>10. CASE StartImport
  BY <1>3, <1>4, <1>10, StartImportEffect DEF noteVars
<1>11. ASSUME NEW s \in Senders, Sending(s) PROVE MailInv'
  <2>1. mails' = mails /\ note'.emailed = note.emailed /\ att' = att
    BY <1>11, SendingEffect
  <2>2. job'["email"].status = "succeeded" => note.emailed
    BY <1>4, <1>11, SendingEffect
  <2>3. QED
    BY <1>3, <2>1, <2>2
<1>12. ASSUME NEW w \in Workers, Mailing(w) PROVE MailInv'
  <2>1. /\ job' = job /\ Only(w) /\ mails' \in Nat /\ mails' >= mails
        /\ note.emailed => note'.emailed
    BY <1>1, <1>12, MailingEffect
  <2>2. MailOf(w)' /\ (note'.emailed => mails' > 0)
    <3>1. CASE att[w].pc = "get"
      BY <3>1, <1>12, MailingEffect DEF MailInv, MailOf
    <3>2. CASE att[w].pc = "smtp"
      BY <1>1, <3>2, <1>12, MailingEffect DEF MailInv, MailOf
    <3>3. CASE att[w].pc = "stamp"
      BY <3>3, <1>12, MailingEffect DEF MailInv, MailOf
    <3>4. QED
      BY <1>12, <3>1, <3>2, <3>3, MailingEffect
  <2>3. \A v \in Workers \ {w} : MailOf(v)'
    BY <1>1, <2>1 DEF MailInv, MailOf, Only
  <2>4. QED
    BY <1>4, <2>1, <2>2, <2>3 DEF MailInv
<1>13. QED
  BY <1>5, <1>6, <1>7, <1>8, <1>9, <1>10, <1>11, <1>12, NextCases

-----------------------------------------------------------------------------
(* Attempts that do not overlap.                                           *)

\* An attempt begins with a Take and no other step.
LEMMA OnKept ==
  ASSUME TypeOK, JobInv, SendInv, PlaceInv, Next
  PROVE  \/ \E w \in Workers, j \in JobNames : Take(w, j)
         \/ overlap' = overlap /\ \A v \in Workers, j \in JobNames : On(v, j)' => On(v, j)
<1>1. ASSUME NEW w \in Workers, Only(w),
             att'[w].pc = "idle" \/ (att[w].pc # "idle" /\ att'[w].job = att[w].job)
      PROVE  \A v \in Workers, j \in JobNames : On(v, j)' => On(v, j)
  BY <1>1 DEF On, Only
<1>2. ASSUME att' = att PROVE \A v \in Workers, j \in JobNames : On(v, j)' => On(v, j)
  BY <1>2 DEF On
<1>3. ASSUME NEW j \in JobNames, Expire(j)
      PROVE  overlap' = overlap /\ \A v \in Workers, i \in JobNames : On(v, i)' => On(v, i)
  BY <1>2, <1>3, ExpireEffect
<1>4. ASSUME NEW w \in Workers, Report(w) \/ Stops(w)
      PROVE  overlap' = overlap /\ \A v \in Workers, i \in JobNames : On(v, i)' => On(v, i)
  BY <1>1, <1>4, ReportEffect, StopsEffect, IdleType
<1>5. ASSUME NEW w \in Workers, Importing(w) \/ Mailing(w)
      PROVE  overlap' = overlap /\ \A v \in Workers, i \in JobNames : On(v, i)' => On(v, i)
  <2>1. "idle" \notin ImportSteps
    BY DEF ImportSteps
  <2>2. QED
    BY <1>1, <1>5, <2>1, ImportingEffect, MailingEffect
<1>6. ASSUME StartImport \/ \E s \in Senders : Sending(s)
      PROVE  overlap' = overlap /\ \A v \in Workers, i \in JobNames : On(v, i)' => On(v, i)
  BY <1>2, <1>6, StartImportEffect, SendingEffect
<1>7. QED
  BY <1>3, <1>4, <1>5, <1>6, NextCases

LEMMA SoleStep ==
  ASSUME TypeOK, JobInv, SendInv, PlaceInv, SoleInv, Next
  PROVE  /\ SoleInv'
         /\ \A j \in JobNames : ~overlap'[j] => ~overlap[j]
<1>1. ASSUME NEW w \in Workers, NEW j \in JobNames, Take(w, j)
      PROVE  /\ SoleInv'
             /\ \A i \in JobNames : ~overlap'[i] => ~overlap[i]
  <2>1. /\ Only(w) /\ att[w].pc = "idle" /\ att'[w].job = j
        /\ overlap' = [overlap EXCEPT ![j] = @ \/ \E v \in Workers \ {w} :
                                                    att[v].pc # "idle" /\ att[v].job = j]
    BY <1>1, TakeEffect
  <2>2. \A i \in JobNames \ {j} : overlap'[i] = overlap[i]
    BY <2>1 DEF TypeOK
  <2>3. ~overlap'[j] => ~overlap[j] /\ \A v \in Workers \ {w} : ~On(v, j)
    BY <2>1 DEF TypeOK, On
  <2>4. ASSUME NEW i \in JobNames, ~overlap'[i], NEW u \in Workers, NEW v \in Workers,
               On(u, i)', On(v, i)'
        PROVE  u = v
    <3>1. CASE i = j
      <4>1. \A x \in Workers \ {w} : ~On(x, j)'
        BY <2>1, <2>3, <2>4, <3>1 DEF On, Only
      <4>2. QED
        BY <2>4, <3>1, <4>1
    <3>2. CASE i # j
      <4>1. ~On(w, i)'
        BY <2>1, <3>2 DEF On
      <4>2. On(u, i) /\ On(v, i)
        BY <2>1, <2>4, <4>1 DEF On, Only
      <4>3. QED
        BY <2>2, <2>4, <3>2, <4>2 DEF SoleInv
    <3>3. QED
      BY <3>1, <3>2
  <2>5. QED
    BY <2>2, <2>3, <2>4 DEF SoleInv
<1>2. ASSUME overlap' = overlap, \A v \in Workers, j \in JobNames : On(v, j)' => On(v, j)
      PROVE  /\ SoleInv'
             /\ \A i \in JobNames : ~overlap'[i] => ~overlap[i]
  BY <1>2 DEF SoleInv
<1>3. QED
  BY <1>1, <1>2, OnKept

\* The steps of the only attempt concern no other.
LEMMA Lone ==
  ASSUME PlaceInv, SoleInv, NEW j \in JobNames, ~overlap[j], NEW w \in Workers, On(w, j),
         NEW v \in Workers \ {w}
  PROVE  /\ ~On(v, j)
         /\ j = "import" => att[v].pc \notin ImportSteps
                            /\ ~(att[v].pc = "done" /\ att[v].job = "import")
         /\ j = "email" => att[v].pc \notin {"get", "smtp", "stamp"}
<1>1. ~On(v, j)
  BY DEF SoleInv
<1>2. "idle" \notin ImportSteps
  BY DEF ImportSteps
<1>3. QED
  BY <1>1, <1>2 DEF On, PlaceInv, PlaceOf

LEMMA WithType ==
  ASSUME NEW f, NEW n, NEW status
  PROVE  IsFiniteSet(With(f, n, status)) /\ Cardinality(With(f, n, status)) \in Nat
<1>1. With(f, n, status) \in SUBSET Rows
  BY DEF With
<1>2. IsFiniteSet(With(f, n, status))
  BY <1>1, Numbers, FS_Subset
<1>3. QED
  BY <1>2, FS_CardinalityType

\* One more row counts for its own status and for no other.
Same(f, g, n) == \A r \in Rows \ {n} : g[r] = f[r]
Count(f, n, status) == Cardinality(With(f, n, status))

LEMMA CountNext ==
  ASSUME NEW f, NEW g, NEW n \in Rows, Same(f, g, n), NEW status
  PROVE  /\ g[n] = status => Count(g, n, status) = Count(f, n - 1, status) + 1
         /\ g[n] # status => Count(g, n, status) = Count(f, n - 1, status)
<1>1. \A r \in Rows : r \in Nat /\ (r <= n <=> r <= n - 1 \/ r = n)
  BY Numbers
<1>2. n \in Nat /\ n \notin With(f, n - 1, status) /\ \A r \in Rows : r <= n - 1 => g[r] = f[r]
  BY Numbers DEF With, Same
<1>3. CASE g[n] = status
  <2>1. With(g, n, status) = With(f, n - 1, status) \cup {n}
    BY <1>1, <1>2, <1>3 DEF With
  <2>2. IsFiniteSet(With(f, n - 1, status))
    BY WithType
  <2>3. Cardinality(With(f, n - 1, status) \cup {n}) = Cardinality(With(f, n - 1, status)) + 1
    BY <1>2, <2>2, FS_AddElement
  <2>4. QED
    BY <1>3, <2>1, <2>3 DEF Count
<1>4. CASE g[n] # status
  <2>1. With(g, n, status) = With(f, n - 1, status)
    BY <1>1, <1>2, <1>4 DEF With
  <2>2. QED
    BY <1>4, <2>1 DEF Count
<1>5. QED
  BY <1>3, <1>4

LEMMA CountNone ==
  ASSUME NEW f, NEW status PROVE Cardinality(With(f, 0, status)) = 0
<1>1. With(f, 0, status) = {}
  BY Numbers DEF With
<1>2. QED
  BY <1>1, FS_EmptySet

LEMMA SameSole ==
  ASSUME NEW w \in Workers, SoleImportOf(w), att'[w] = att[w], imp' = imp, row' = row
  PROVE  SoleImportOf(w)'
BY DEF SoleImportOf, Upto, Ended

\* The steps that are none of the import's handler.
LEMMA SoleImportFrame ==
  ASSUME TypeOK, JobInv, SendInv, PlaceInv, SoleInv, SoleImportInv, Next,
         ~overlap'["import"], ~overlap["import"],
         ~\E w \in Workers : Importing(w)
  PROVE  CountersTell' /\ JobTells' /\ \A w \in Workers : SoleImportOf(w)'
<1>1. "import" \in JobNames /\ "email" \in JobNames /\ "import" # "email"
  BY DEF JobNames
<1>2. CountersTell /\ JobTells /\ \A w \in Workers : SoleImportOf(w)
  BY DEF SoleImportInv
<1>3. ASSUME imp' = imp, row' = row PROVE CountersTell'
  BY <1>2, <1>3 DEF CountersTell
<1>4. ASSUME imp' = imp, row' = row, NEW w \in Workers, Only(w)
      PROVE  \A v \in Workers \ {w} : SoleImportOf(v)'
  BY <1>2, <1>4, SameSole DEF Only
<1>5. ASSUME imp' = imp, row' = row, att' = att
      PROVE  \A v \in Workers : SoleImportOf(v)'
  BY <1>2, <1>5, SameSole
<1>6. ASSUME imp' = imp, job'["import"].status = "succeeded" => job'["import"] = job["import"],
             \A v \in Workers : On(v, "import")' => On(v, "import")
      PROVE  JobTells'
  BY <1>2, <1>6 DEF JobTells
<1>7. ASSUME NEW w \in Workers, NEW j \in JobNames, Take(w, j)
      PROVE  CountersTell' /\ JobTells' /\ \A v \in Workers : SoleImportOf(v)'
  <2>1. /\ UNCHANGED <<imp, row>> /\ Only(w) /\ att'[w].job = j
        /\ att'[w].pc = IF j = "import" THEN "load" ELSE "get"
        /\ att'[w].from = 0 /\ att'[w].ok = 0 /\ att'[w].bad = 0
        /\ job'[j].status = "running" /\ \A i \in JobNames \ {j} : job'[i] = job[i]
    BY <1>7, TakeEffect DEF importVars
  <2>2. SoleImportOf(w)'
    BY <2>1, CountNone DEF SoleImportOf, ImportSteps, InPage, Upto
  <2>3. JobTells'
    <3>1. CASE j = "import"
      BY <2>1, <3>1 DEF JobTells
    <3>2. CASE j # "import"
      <4>1. \A v \in Workers : On(v, "import")' => On(v, "import")
        BY <2>1, <3>2 DEF On, Only
      <4>2. QED
        BY <1>1, <1>6, <2>1, <3>2, <4>1
    <3>3. QED
      BY <3>1, <3>2
  <2>4. QED
    BY <1>3, <1>4, <2>1, <2>2, <2>3
<1>8. ASSUME NEW j \in JobNames, Expire(j)
      PROVE  CountersTell' /\ JobTells' /\ \A v \in Workers : SoleImportOf(v)'
  <2>1. /\ UNCHANGED <<imp, row, att>>
        /\ job'[j].status \in {"queued", "failed"} /\ \A i \in JobNames \ {j} : job'[i] = job[i]
    BY <1>8, ExpireEffect DEF importVars
  <2>2. JobTells'
    BY <1>1, <1>6, <2>1 DEF On
  <2>3. QED
    BY <1>3, <1>5, <2>1, <2>2
<1>9. ASSUME NEW w \in Workers, Report(w)
      PROVE  CountersTell' /\ JobTells' /\ \A v \in Workers : SoleImportOf(v)'
  <2>1. /\ UNCHANGED <<imp, row>> /\ Only(w) /\ att'[w].pc = "idle"
        /\ att[w].pc \in {"done", "error"}
    BY <1>9, ReportEffect, IdleType DEF importVars
  <2>2. SoleImportOf(w)'
    BY <2>1 DEF SoleImportOf, ImportSteps, InPage
  <2>3. \A v \in Workers : On(v, "import")' => On(v, "import")
    BY <2>1 DEF On, Only
  <2>4. JobTells'
    <3>1. CASE att[w].job # "import"
      <4>1. job'["import"] = job["import"]
        BY <1>1, <1>9, <3>1, ReportEffect
      <4>2. QED
        BY <1>6, <2>1, <2>3, <4>1
    <3>2. CASE att[w].job = "import" /\ att[w].pc = "done"
      <4>1. On(w, "import")
        BY <3>2 DEF On
      <4>2. \A v \in Workers \ {w} : ~On(v, "import")
        BY <1>1, <4>1 DEF SoleInv
      <4>3. \A v \in Workers : ~On(v, "import")'
        BY <2>1, <2>3, <4>2 DEF On
      <4>4. imp'.status \in {"succeeded", "failed"}
        BY <1>2, <2>1, <3>2 DEF SoleImportOf
      <4>5. QED
        BY <4>3, <4>4 DEF JobTells
    <3>3. CASE att[w].job = "import" /\ att[w].pc # "done"
      <4>1. job'["import"].status = "succeeded" => job' = job
        BY <1>9, <3>3, ReportEffect
      <4>2. QED
        BY <1>6, <2>1, <2>3, <4>1
    <3>4. QED
      BY <3>1, <3>2, <3>3
  <2>5. QED
    BY <1>3, <1>4, <2>1, <2>2, <2>4
<1>10. ASSUME NEW w \in Workers, Stops(w)
       PROVE  CountersTell' /\ JobTells' /\ \A v \in Workers : SoleImportOf(v)'
  <2>1. /\ UNCHANGED <<imp, row, job>> /\ Only(w) /\ att'[w].pc \in {"idle", "error"}
        /\ att[w].pc # "idle"
        /\ att'[w].pc = "error" => att'[w].job = att[w].job
    BY <1>10, StopsEffect DEF importVars
  <2>2. SoleImportOf(w)'
    BY <2>1 DEF SoleImportOf, ImportSteps, InPage
  <2>3. \A v \in Workers : On(v, "import")' => On(v, "import")
    BY <2>1 DEF On, Only
  <2>4. QED
    BY <1>3, <1>4, <1>6, <2>1, <2>2, <2>3
<1>11. ASSUME NEW w \in Workers, Mailing(w)
       PROVE  CountersTell' /\ JobTells' /\ \A v \in Workers : SoleImportOf(v)'
  <2>1. /\ UNCHANGED <<imp, row, job>> /\ Only(w) /\ att'[w].job = "email"
        /\ att'[w].pc \in {"done", "smtp", "stamp", "error"}
    BY <1>11, MailingEffect DEF importVars, PlaceInv, PlaceOf
  <2>2. SoleImportOf(w)'
    BY <2>1 DEF SoleImportOf, ImportSteps, InPage
  <2>3. \A v \in Workers : On(v, "import")' => On(v, "import")
    BY <2>1 DEF On, Only
  <2>4. QED
    BY <1>3, <1>4, <1>6, <2>1, <2>2, <2>3
<1>12. ASSUME StartImport
       PROVE  CountersTell' /\ JobTells' /\ \A v \in Workers : SoleImportOf(v)'
  <2>1. /\ UNCHANGED <<att, row>> /\ imp.status = "none" /\ imp'.status = "queued"
        /\ job'["import"].status = "queued"
    BY <1>12, StartImportEffect
  <2>2. \A v \in Workers : SoleImportOf(v)'
    BY <1>2, <2>1 DEF SoleImportOf, Upto, Ended
  <2>3. QED
    BY <2>1, <2>2 DEF CountersTell, JobTells
<1>13. ASSUME NEW s \in Senders, Sending(s)
       PROVE  CountersTell' /\ JobTells' /\ \A v \in Workers : SoleImportOf(v)'
  <2>1. UNCHANGED <<att, imp, row>> /\ job'["import"] = job["import"]
    BY <1>13, SendingEffect DEF importVars
  <2>2. JobTells'
    BY <1>6, <2>1 DEF On
  <2>3. QED
    BY <1>3, <1>5, <2>1, <2>2
<1>14. QED
  BY <1>7, <1>8, <1>9, <1>10, <1>11, <1>12, <1>13, NextCases

\* The steps of the import's handler, by the only attempt.
LEMMA SoleImportMoves ==
  ASSUME TypeOK, PlaceInv, RowsInv, SoleInv, SoleImportInv, ~overlap["import"],
         NEW w \in Workers, Importing(w)
  PROVE  CountersTell' /\ JobTells' /\ \A v \in Workers : SoleImportOf(v)'
<1> USE DEF ImportSteps, InPage
<1>1. CountersTell /\ JobTells /\ SoleImportOf(w) /\ PlaceOf(w)
  BY DEF SoleImportInv, PlaceInv
<1>2. /\ att[w].pc \in ImportSteps /\ att'[w].pc \in ImportSteps \cup {"done"}
      /\ att[w].job = "import" /\ Only(w) /\ job' = job
  BY ImportingEffect
<1>3. On(w, "import") /\ "import" \in JobNames
  BY <1>2 DEF On, JobNames
<1>4. job["import"].status # "succeeded" /\ JobTells'
  BY <1>1, <1>2, <1>3 DEF JobTells
<1>5. \A v \in Workers \ {w} : SoleImportOf(v)'
  BY <1>2, <1>3, Lone DEF SoleImportOf, Only
<1>6. /\ att[w].from \in Nat /\ att[w].at \in Nat /\ att[w].ok \in Nat /\ att[w].bad \in Nat
      /\ \A r \in Rows : r \in Nat
  BY AttType, Numbers
<1>7. CASE Load(w)
  <2>1. CountersTell'
    BY <1>7, LoadEffect DEF CountersTell
  <2>2. SoleImportOf(w)'
    BY <1>1, <1>7, LoadEffect DEF SoleImportOf, Upto
  <2>3. QED
    BY <1>4, <1>5, <2>1, <2>2
<1>8. CASE ReadPage(w)
  <2>1. UNCHANGED <<imp, row>>
    BY <1>8, ReadPageEffect DEF importVars
  <2>2. CountersTell'
    BY <1>1, <2>1 DEF CountersTell
  <2>3. att'[w].at - 1 = att[w].from
    BY <1>6, <1>8, ReadPageEffect
  <2>4. SoleImportOf(w)'
    BY <1>1, <1>8, <2>1, <2>3, ReadPageEffect DEF SoleImportOf, Upto
  <2>5. QED
    BY <1>4, <1>5, <2>2, <2>4
<1>9. CASE NextRow(w)
  <2> DEFINE r == att[w].at
  <2>1. /\ UNCHANGED <<imp, row>> /\ att[w].pc = "row" /\ r \in Rows
        /\ att'[w].seen = att[w].seen /\ att'[w].from = att[w].from
    BY <1>9, NextRowEffect DEF importVars
  <2>2. CountersTell'
    BY <1>1, <2>1 DEF CountersTell
  <2>3. /\ att[w].seen[r] = row[r]
        /\ \A q \in Rows : q >= r => att[w].seen[q] = row[q]
    BY <1>1, <1>6, <2>1 DEF SoleImportOf
  <2>4. /\ att[w].ok = Cardinality(With(row, r - 1, "succeeded"))
        /\ att[w].bad = Cardinality(With(row, r - 1, "failed"))
    BY <1>1, <2>1 DEF SoleImportOf, Upto
  <2>5. imp.status = "running"
    BY <1>1, <2>1 DEF SoleImportOf
  <2>6. CASE att'[w].pc = "create" /\ att'[w].at = r
    BY <1>9, <2>1, <2>3, <2>4, <2>5, <2>6, <1>4, <1>5, <2>2, NextRowEffect
    DEF SoleImportOf, Upto, Ended
  <2>7. CASE att'[w].pc = "row" /\ att'[w].at = r + 1
    <3>1. ASSUME NEW status
          PROVE  /\ row[r] = status => Count(row, r, status) = Count(row, r - 1, status) + 1
                 /\ row[r] # status => Count(row, r, status) = Count(row, r - 1, status)
      <4>1. Same(row, row, r)
        BY DEF Same
      <4>2. QED
        BY <2>1, <4>1, CountNext
    <3>2. att'[w].at - 1 = r
      BY <1>6, <2>7
    <3>3. /\ att'[w].ok = Cardinality(With(row, r, "succeeded"))
          /\ att'[w].bad = Cardinality(With(row, r, "failed"))
      BY <1>9, <2>3, <2>4, <2>7, <3>1, NextRowEffect DEF Count
    <3>4. \A q \in Rows : q >= r + 1 => q >= r
      BY <1>6
    <3>5. SoleImportOf(w)'
      BY <2>1, <2>3, <2>5, <2>7, <3>2, <3>3, <3>4 DEF SoleImportOf, Upto
    <3>6. QED
      BY <1>4, <1>5, <2>2, <3>5
  <2>8. QED
    BY <1>9, <2>6, <2>7, NextRowEffect
<1>10. CASE EndPage(w)
  <2>1. UNCHANGED <<imp, row>>
    BY <1>10, EndPageEffect DEF importVars
  <2>2. CountersTell'
    BY <1>1, <2>1 DEF CountersTell
  <2>3. SoleImportOf(w)'
    BY <1>1, <1>10, <2>1, EndPageEffect DEF SoleImportOf, Upto
  <2>4. QED
    BY <1>4, <1>5, <2>2, <2>3
<1>11. CASE Create(w)
  <2>1. UNCHANGED <<imp, row>>
    BY <1>11, CreateEffect
  <2>2. CountersTell'
    BY <1>1, <2>1 DEF CountersTell
  <2>3. SoleImportOf(w)'
    BY <1>1, <1>11, <2>1, CreateEffect DEF SoleImportOf, Upto, Ended
  <2>4. QED
    BY <1>4, <1>5, <2>2, <2>3
<1>12. CASE Mark(w)
  <2> DEFINE r == att[w].at
  <2>1. /\ imp' = imp /\ att[w].pc = "mark" /\ r \in Rows /\ att'[w].pc = "row"
        /\ att'[w].at = r + 1 /\ att'[w].seen = att[w].seen
        /\ \A q \in Rows \ {r} : row'[q] = row[q]
    BY <1>12, MarkEffect
  <2>2. imp.status = "running"
    BY <1>1, <2>1 DEF SoleImportOf
  <2>3. CountersTell'
    BY <2>1, <2>2 DEF CountersTell
  <2>4. /\ att[w].ok = Cardinality(With(row, r - 1, "succeeded"))
        /\ att[w].bad = Cardinality(With(row, r - 1, "failed"))
        /\ \A q \in Rows : q >= r => att[w].seen[q] = row[q]
    BY <1>1, <2>1 DEF SoleImportOf, Upto
  <2>5. Same(row, row', r)
    BY <2>1 DEF Same
  <2>6. ASSUME NEW status
        PROVE  /\ row'[r] = status => Count(row', r, status) = Count(row, r - 1, status) + 1
               /\ row'[r] # status => Count(row', r, status) = Count(row, r - 1, status)
    BY <2>1, <2>5, CountNext
  <2>7. att'[w].at - 1 = r
    BY <1>6, <2>1
  <2>8. /\ att'[w].ok = Cardinality(With(row', r, "succeeded"))
        /\ att'[w].bad = Cardinality(With(row', r, "failed"))
    BY <1>12, <2>4, <2>6, MarkEffect DEF Count
  <2>9. \A q \in Rows : q >= r + 1 => att[w].seen[q] = row'[q]
    BY <1>6, <2>1, <2>4
  <2>10. SoleImportOf(w)'
    BY <2>1, <2>2, <2>7, <2>8, <2>9 DEF SoleImportOf, Upto
  <2>11. QED
    BY <1>4, <1>5, <2>3, <2>10
<1>13. CASE Final(w)
  <2>1. /\ row' = row /\ att[w].pc = "final" /\ att'[w].pc = "done"
        /\ imp'.ok = att[w].ok /\ imp'.bad = att[w].bad
        /\ imp'.status = IF att[w].bad > 0 THEN "failed" ELSE "succeeded"
    BY <1>13, FinalEffect
  <2>2. /\ att[w].ok = Cardinality(With(row, RowCount, "succeeded"))
        /\ att[w].bad = Cardinality(With(row, RowCount, "failed"))
    BY <1>1, <2>1 DEF SoleImportOf, PlaceOf, Upto
  <2>3. CountersTell'
    BY <2>1, <2>2 DEF CountersTell
  <2>4. SoleImportOf(w)'
    BY <2>1 DEF SoleImportOf
  <2>5. QED
    BY <1>4, <1>5, <2>3, <2>4
<1>14. QED
  BY <1>7, <1>8, <1>9, <1>10, <1>11, <1>12, <1>13 DEF Importing

LEMMA SoleImportStep ==
  ASSUME TypeOK, JobInv, SendInv, PlaceInv, RowsInv, SoleInv, SoleImportInv, Next
  PROVE  SoleImportInv'
<1> SUFFICES ASSUME ~overlap'["import"]
             PROVE  CountersTell' /\ JobTells' /\ \A w \in Workers : SoleImportOf(w)'
  BY DEF SoleImportInv
<1>1. ~overlap["import"]
  BY SoleStep DEF JobNames
<1>2. QED
  BY <1>1, SoleImportMoves, SoleImportFrame

-----------------------------------------------------------------------------
(* Side effects that are repeated.                                         *)

LEMMA MadeFrame ==
  ASSUME TypeOK, NEW r \in Rows, made'[r] = made[r], row'[r] = row[r], torn'[r] \in Nat,
         \/ torn'[r] = torn[r] /\ (Unrecorded(r) => Unrecorded(r)')
         \/ torn'[r] >= torn[r] + 1,
         made[r] <= torn[r] + Bit(Ended(r)) + Bit(Unrecorded(r))
  PROVE  made'[r] <= torn'[r] + Bit(Ended(r)') + Bit(Unrecorded(r)')
<1>1. torn[r] \in Nat /\ made[r] \in Nat
  BY DEF TypeOK
<1>2. Ended(r)' = Ended(r)
  BY DEF Ended
<1>3. Bit(Ended(r)) \in {0, 1} /\ Bit(Unrecorded(r)) \in {0, 1} /\ Bit(Unrecorded(r)') \in {0, 1}
  BY DEF Bit
<1>4. CASE torn'[r] = torn[r] /\ (Unrecorded(r) => Unrecorded(r)')
  <2>1. Bit(Unrecorded(r)) <= Bit(Unrecorded(r)')
    BY <1>4 DEF Bit
  <2>2. QED
    BY <1>1, <1>2, <1>3, <1>4, <2>1
<1>5. CASE torn'[r] >= torn[r] + 1
  BY <1>1, <1>2, <1>3, <1>5
<1>6. QED
  BY <1>4, <1>5

LEMMA MadeStep ==
  ASSUME TypeOK, TypeOK', JobInv, SendInv, PlaceInv, SoleInv, SoleImportInv, MadeInv, Next
  PROVE  MadeInv'
<1> SUFFICES ASSUME ~overlap'["import"], NEW r \in Rows
             PROVE  made'[r] <= torn'[r] + Bit(Ended(r)') + Bit(Unrecorded(r)')
  BY DEF MadeInv
<1>1. ~overlap["import"] /\ "import" \in JobNames
  BY SoleStep DEF JobNames
<1>2. made[r] <= torn[r] + Bit(Ended(r)) + Bit(Unrecorded(r))
  BY <1>1 DEF MadeInv
<1>3. /\ torn[r] \in Nat /\ torn'[r] \in Nat /\ made[r] \in Nat /\ made'[r] \in Nat
      /\ r \in {Email} \cup Rows
  BY DEF TypeOK
<1>4. ASSUME made' = made, row' = row, torn'[r] = torn[r],
             att' = att \/ \E w \in Workers : Only(w) /\ att[w].pc # "mark"
      PROVE  made'[r] <= torn'[r] + Bit(Ended(r)') + Bit(Unrecorded(r)')
  <2>1. Unrecorded(r) => Unrecorded(r)'
    BY <1>4 DEF Unrecorded, Only
  <2>2. QED
    BY <1>2, <1>3, <1>4, <2>1, MadeFrame
<1>5. ASSUME NEW w \in Workers, NEW j \in JobNames, Take(w, j)
      PROVE  made'[r] <= torn'[r] + Bit(Ended(r)') + Bit(Unrecorded(r)')
  <2>1. UNCHANGED <<row, made, torn>> /\ Only(w) /\ att[w].pc # "mark"
    BY <1>5, TakeEffect DEF importVars
  <2>2. QED
    BY <1>4, <2>1
<1>6. ASSUME NEW j \in JobNames, Expire(j)
      PROVE  made'[r] <= torn'[r] + Bit(Ended(r)') + Bit(Unrecorded(r)')
  <2>1. UNCHANGED <<row, made, torn, att>>
    BY <1>6, ExpireEffect DEF importVars
  <2>2. QED
    BY <1>4, <2>1
<1>7. ASSUME NEW w \in Workers, Report(w)
      PROVE  made'[r] <= torn'[r] + Bit(Ended(r)') + Bit(Unrecorded(r)')
  <2>1. UNCHANGED <<row, made, torn>> /\ Only(w) /\ att[w].pc # "mark"
    BY <1>7, ReportEffect DEF importVars
  <2>2. QED
    BY <1>4, <2>1
<1>8. ASSUME NEW w \in Workers, Mailing(w)
      PROVE  made'[r] <= torn'[r] + Bit(Ended(r)') + Bit(Unrecorded(r)')
  <2>1. UNCHANGED <<row, made>> /\ Only(w) /\ att[w].pc # "mark" /\ torn'[r] = torn[r]
    BY <1>8, MailingEffect DEF importVars
  <2>2. QED
    BY <1>4, <2>1
<1>9. ASSUME StartImport \/ \E s \in Senders : Sending(s)
      PROVE  made'[r] <= torn'[r] + Bit(Ended(r)') + Bit(Unrecorded(r)')
  <2>1. UNCHANGED <<row, made, torn, att>>
    BY <1>9, StartImportEffect, SendingEffect DEF importVars
  <2>2. QED
    BY <1>4, <2>1
<1>10. ASSUME NEW w \in Workers, Stops(w)
       PROVE  made'[r] <= torn'[r] + Bit(Ended(r)') + Bit(Unrecorded(r)')
  <2>1. UNCHANGED <<row, made>> /\ Only(w) /\ torn' = Torn(w)
    BY <1>10, StopsEffect DEF importVars
  <2>2. torn'[r] >= torn[r]
    BY <1>3, <2>1, TornType
  <2>3. CASE att[w].pc = "mark" /\ att[w].made # "refused" /\ att[w].at = r
    <3>1. torn'[r] = torn[r] + 1
      BY <2>1, <2>3, TornType
    <3>2. QED
      BY <1>2, <1>3, <2>1, <3>1, MadeFrame
  <2>4. CASE ~(att[w].pc = "mark" /\ att[w].made # "refused" /\ att[w].at = r)
    <3>1. Unrecorded(r) => Unrecorded(r)'
      BY <2>1, <2>4 DEF Unrecorded, Only
    <3>2. torn'[r] = torn[r] \/ torn'[r] >= torn[r] + 1
      BY <1>3, <2>2
    <3>3. QED
      BY <1>2, <1>3, <2>1, <3>1, <3>2, MadeFrame
  <2>5. QED
    BY <2>3, <2>4
<1>11. ASSUME NEW w \in Workers, Importing(w)
       PROVE  made'[r] <= torn'[r] + Bit(Ended(r)') + Bit(Unrecorded(r)')
  <2>1. /\ torn' = torn /\ Only(w) /\ On(w, "import") /\ SoleImportOf(w)
    BY <1>1, <1>11, ImportingEffect DEF On, ImportSteps, SoleImportInv
  <2>2. \A v \in Workers \ {w} : att[v].pc # "mark"
    BY <1>1, <2>1, Lone DEF ImportSteps
  <2>3. Bit(Ended(r)) \in {0, 1} /\ Bit(Unrecorded(r)) \in {0, 1}
        /\ Bit(Ended(r)') \in {0, 1} /\ Bit(Unrecorded(r)') \in {0, 1}
    BY DEF Bit
  <2>4. CASE Load(w) \/ ReadPage(w) \/ NextRow(w) \/ EndPage(w) \/ Final(w)
    <3>1. UNCHANGED <<row, made, torn>> /\ Only(w) /\ att[w].pc # "mark"
      BY <2>4, LoadEffect, ReadPageEffect, NextRowEffect, EndPageEffect, FinalEffect
      DEF importVars
    <3>2. QED
      BY <1>4, <3>1
  <2>5. CASE Create(w)
    <3>1. /\ row' = row /\ att[w].pc = "create" /\ att'[w].pc = "mark"
          /\ att'[w].at = att[w].at /\ att[w].at \in Rows
      BY <2>5, CreateEffect
    <3>2. Bit(Unrecorded(r)) = 0
      BY <2>2, <3>1 DEF Unrecorded, Bit
    <3>3. CASE r # att[w].at
      <4>1. made'[r] = made[r] /\ Bit(Ended(r)') = Bit(Ended(r))
        BY <2>5, <3>1, <3>3, CreateEffect DEF Ended
      <4>2. QED
        BY <1>2, <1>3, <2>1, <2>3, <3>2, <4>1
    <3>4. CASE r = att[w].at
      <4>1. Bit(Ended(r)) = 0
        BY <2>1, <3>1, <3>4 DEF SoleImportOf, Bit
      <4>2. CASE att'[w].made = "refused"
        <5>1. made'[r] = made[r]
          BY <2>5, <3>4, <4>2, CreateEffect
        <5>2. QED
          BY <1>2, <1>3, <2>1, <2>3, <3>2, <4>1, <5>1
      <4>3. CASE att'[w].made # "refused"
        <5>1. made'[r] = made[r] + 1
          BY <2>5, <3>4, <4>3, CreateEffect
        <5>2. Bit(Unrecorded(r)') = 1
          BY <3>1, <3>4, <4>3 DEF Unrecorded, Bit
        <5>3. QED
          BY <1>2, <1>3, <2>1, <2>3, <3>2, <4>1, <5>1, <5>2
      <4>4. QED
        BY <4>2, <4>3
    <3>5. QED
      BY <3>3, <3>4
  <2>6. CASE Mark(w)
    <3>1. /\ made' = made /\ att[w].pc = "mark" /\ att[w].at \in Rows
          /\ \A q \in Rows \ {att[w].at} : row'[q] = row[q]
      BY <2>6, MarkEffect
    <3>2. row'[att[w].at] # "queued"
      BY <2>6, MarkEffect
    <3>3. CASE r # att[w].at
      <4>1. Bit(Unrecorded(r)) = 0 /\ Bit(Ended(r)') = Bit(Ended(r))
        BY <2>2, <3>1, <3>3 DEF Unrecorded, Bit, Ended
      <4>2. QED
        BY <1>2, <1>3, <2>1, <2>3, <3>1, <4>1
    <3>4. CASE r = att[w].at
      <4>1. Bit(Ended(r)) = 0 /\ Bit(Ended(r)') = 1
        BY <2>1, <3>1, <3>2, <3>4 DEF SoleImportOf, Bit, Ended
      <4>2. QED
        BY <1>2, <1>3, <2>1, <2>3, <3>1, <4>1
    <3>5. QED
      BY <3>3, <3>4
  <2>7. QED
    BY <1>11, <2>4, <2>5, <2>6 DEF Importing
<1>12. QED
  BY <1>5, <1>6, <1>7, <1>8, <1>9, <1>10, <1>11, NextCases

LEMMA SoleMailStep ==
  ASSUME TypeOK, TypeOK', JobInv, SendInv, PlaceInv, SoleInv, SoleMailInv, Next
  PROVE  SoleMailInv'
<1> SUFFICES ASSUME ~overlap'["email"]
             PROVE  /\ \A w \in Workers : att'[w].pc \in {"smtp", "stamp"} => ~note'.emailed
                    /\ mails' <= torn'[Email] + Bit(note'.emailed) + Bit(Unstamped')
  BY DEF SoleMailInv
<1> DEFINE Clear == \A w \in Workers : att'[w].pc \in {"smtp", "stamp"} => ~note'.emailed
           Bound == mails' <= torn'[Email] + Bit(note'.emailed) + Bit(Unstamped')
<1>1. ~overlap["email"] /\ "email" \in JobNames
  BY SoleStep DEF JobNames
<1>2. /\ \A w \in Workers : att[w].pc \in {"smtp", "stamp"} => ~note.emailed
      /\ mails <= torn[Email] + Bit(note.emailed) + Bit(Unstamped)
  BY <1>1 DEF SoleMailInv
<1>3. torn[Email] \in Nat /\ torn'[Email] \in Nat /\ mails \in Nat /\ mails' \in Nat
  BY DEF TypeOK
<1>4. /\ Bit(note.emailed) \in {0, 1} /\ Bit(note'.emailed) \in {0, 1}
      /\ Bit(Unstamped) \in {0, 1} /\ Bit(Unstamped') \in {0, 1}
  BY DEF Bit
<1>5. ASSUME mails' = mails, note'.emailed = note.emailed, torn'[Email] >= torn[Email],
             \/ att' = att
             \/ \E w \in Workers :
                  /\ Only(w) /\ att'[w].pc \notin {"smtp", "stamp"}
                  /\ att[w].pc = "stamp" => torn'[Email] = torn[Email] + 1
      PROVE  Clear /\ Bound
  <2>1. Clear
    BY <1>2, <1>5 DEF Only
  <2>2. (Unstamped => Unstamped') \/ torn'[Email] = torn[Email] + 1
    BY <1>5 DEF Unstamped, Only
  <2>3. Bit(Unstamped) <= Bit(Unstamped') \/ torn'[Email] = torn[Email] + 1
    BY <2>2 DEF Bit
  <2>4. Bit(note'.emailed) = Bit(note.emailed)
    BY <1>5
  <2>5. QED
    BY <1>2, <1>3, <1>4, <1>5, <2>1, <2>3, <2>4
<1>6. ASSUME NEW w \in Workers, NEW j \in JobNames, Take(w, j) PROVE Clear /\ Bound
  <2>1. /\ UNCHANGED <<mails, note, torn>> /\ Only(w) /\ att'[w].pc \in {"load", "get"}
        /\ att[w].pc = "idle"
    BY <1>6, TakeEffect DEF noteVars
  <2>2. QED
    BY <1>3, <1>5, <2>1
<1>7. ASSUME NEW j \in JobNames, Expire(j) PROVE Clear /\ Bound
  BY <1>3, <1>5, <1>7, ExpireEffect DEF noteVars
<1>8. ASSUME NEW w \in Workers, Report(w) PROVE Clear /\ Bound
  <2>1. /\ UNCHANGED <<mails, note, torn>> /\ Only(w) /\ att'[w].pc = "idle"
        /\ att[w].pc # "stamp"
    BY <1>8, ReportEffect, IdleType DEF noteVars
  <2>2. QED
    BY <1>3, <1>5, <2>1
<1>9. ASSUME NEW w \in Workers, Stops(w) PROVE Clear /\ Bound
  <2>1. /\ UNCHANGED <<mails, note>> /\ Only(w) /\ att'[w].pc \in {"idle", "error"}
        /\ torn' = Torn(w)
    BY <1>9, StopsEffect DEF noteVars
  <2>2. torn'[Email] >= torn[Email] /\ (att[w].pc = "stamp" => torn'[Email] = torn[Email] + 1)
    BY <2>1, TornType
  <2>3. QED
    BY <1>5, <2>1, <2>2
<1>10. ASSUME NEW w \in Workers, Importing(w) PROVE Clear /\ Bound
  <2>1. /\ UNCHANGED <<mails, note, torn>> /\ Only(w)
        /\ att'[w].pc \in ImportSteps \cup {"done"} /\ att[w].pc \in ImportSteps
    BY <1>10, ImportingEffect DEF noteVars
  <2>2. QED
    BY <1>3, <1>5, <2>1 DEF ImportSteps
<1>11. CASE StartImport
  BY <1>3, <1>5, <1>11, StartImportEffect DEF noteVars
<1>12. ASSUME NEW s \in Senders, Sending(s) PROVE Clear /\ Bound
  BY <1>3, <1>5, <1>12, SendingEffect
<1>13. ASSUME NEW w \in Workers, Mailing(w) PROVE Clear /\ Bound
  <2>1. On(w, "email") /\ Only(w)
    BY <1>13, MailingEffect DEF On, PlaceInv, PlaceOf
  <2>2. \A v \in Workers \ {w} : att'[v].pc \notin {"smtp", "stamp"}
                                 /\ att[v].pc \notin {"smtp", "stamp"}
    BY <1>1, <2>1, Lone DEF Only
  <2>3. CASE att[w].pc = "get"
    <3>1. /\ UNCHANGED <<mails, note, torn>>
          /\ att'[w].pc = IF note.emailed THEN "done" ELSE "smtp"
      BY <1>13, <2>3, MailingEffect
    <3>2. Clear
      BY <2>2, <3>1
    <3>3. Bit(Unstamped) = 0
      BY <2>2, <2>3 DEF Unstamped, Bit
    <3>4. Bit(note'.emailed) = Bit(note.emailed)
      BY <3>1
    <3>5. Bound
      BY <1>2, <1>3, <1>4, <3>1, <3>3, <3>4
    <3>6. QED
      BY <3>2, <3>5
  <2>4. CASE att[w].pc = "smtp"
    <3>1. /\ note' = note /\ ~note.emailed
          /\ \/ mails' = mails + 1 /\ att'[w].pc = "stamp" /\ torn' = torn
             \/ mails' = mails /\ att'[w].pc = "error" /\ torn' = torn
             \/ mails' = mails + 1 /\ att'[w].pc = "error" /\ torn'[Email] = torn[Email] + 1
      BY <1>2, <1>13, <2>4, MailingEffect
    <3>2. Clear
      BY <3>1
    <3>3. Bit(Unstamped) = 0 /\ Bit(note.emailed) = 0
      BY <2>2, <2>4, <3>1 DEF Unstamped, Bit
    <3>4. att'[w].pc = "stamp" => Bit(Unstamped') = 1
      BY DEF Unstamped, Bit
    <3>5. Bound
      BY <1>2, <1>3, <1>4, <3>1, <3>3, <3>4
    <3>6. QED
      BY <3>2, <3>5
  <2>5. CASE att[w].pc = "stamp"
    <3>1. note'.emailed /\ UNCHANGED <<mails, torn>> /\ att'[w].pc = "done" /\ ~note.emailed
      BY <1>2, <1>13, <2>5, MailingEffect
    <3>2. Clear
      BY <2>2, <3>1
    <3>3. Bit(note.emailed) = 0 /\ Bit(note'.emailed) = 1
      BY <3>1 DEF Bit
    <3>4. mails' = mails /\ torn'[Email] = torn[Email]
      BY <3>1
    <3>5. mails <= torn[Email] + Bit(Unstamped)
      BY <1>2, <1>3, <1>4, <3>3
    <3>6. Bound
      BY <1>3, <1>4, <3>3, <3>4, <3>5
    <3>7. QED
      BY <3>2, <3>6
  <2>6. QED
    BY <1>13, <2>3, <2>4, <2>5, MailingEffect
<1>14. QED
  BY <1>6, <1>7, <1>8, <1>9, <1>10, <1>11, <1>12, <1>13, NextCases

-----------------------------------------------------------------------------
(* The theorems.                                                           *)

LEMMA InitInv == Init => Inv
<1> SUFFICES ASSUME Init PROVE Inv
  OBVIOUS
<1> USE DEF Init, Idle
<1>1. \A w \in Workers : att[w] = Idle /\ att[w].pc = "idle"
  OBVIOUS
<1>2. TypeOK
  <2>1. Idle \in Attempt
    BY IdleType
  <2>2. att \in [Workers -> Attempt]
    BY <2>1
  <2>3. /\ job \in [JobNames -> Job] /\ imp \in Import
        /\ row \in [Rows -> RowStatus] /\ made \in [Rows -> Nat]
    BY HandlerConstants DEF Job, Import, RowStatus, JobNames
  <2>4. QED
    BY <2>2, <2>3 DEF TypeOK
<1>3. JobInv /\ SendInv
  BY HandlerConstants DEF JobInv, SendInv, JobNames
<1>4. PlaceInv
  BY <1>1 DEF PlaceInv, PlaceOf, ImportSteps, InPage
<1>5. RowsInv
  BY <1>1 DEF RowsInv, RowsOf, ImportSteps, InPage, JobNames
<1>6. MailInv
  BY <1>1 DEF MailInv, MailOf, JobNames
<1>7. SoleInv
  BY <1>1 DEF SoleInv, On
<1>8. SoleImportInv
  <2>1. CountersTell /\ JobTells
    BY DEF CountersTell, JobTells, JobNames
  <2>2. \A w \in Workers : SoleImportOf(w)
    BY <1>1 DEF SoleImportOf, ImportSteps, InPage
  <2>3. QED
    BY <2>1, <2>2 DEF SoleImportInv
<1>9. MadeInv
  <2>1. ASSUME NEW r \in Rows PROVE made[r] <= torn[r] + Bit(Ended(r)) + Bit(Unrecorded(r))
    BY <1>1 DEF Bit, Ended, Unrecorded
  <2>2. QED
    BY <2>1 DEF MadeInv
<1>10. SoleMailInv
  BY <1>1 DEF SoleMailInv, Bit, Unstamped
<1>11. QED
  BY <1>2, <1>3, <1>4, <1>5, <1>6, <1>7, <1>8, <1>9, <1>10 DEF Inv

LEMMA InvStep == Inv /\ [Next]_vars => Inv'
<1> SUFFICES ASSUME Inv, [Next]_vars PROVE Inv'
  OBVIOUS
<1>1. CASE Next
  <2>1. TypeOK' /\ JobInv' /\ SendInv'
    BY <1>1, TypeStep, JobStep, SendStep DEF Inv
  <2>2. PlaceInv' /\ RowsInv' /\ MailInv'
    BY <1>1, PlaceStep, RowsStep, MailStep DEF Inv
  <2>3. SoleInv' /\ SoleImportInv'
    BY <1>1, SoleStep, SoleImportStep DEF Inv
  <2>4. MadeInv' /\ SoleMailInv'
    BY <1>1, <2>1, MadeStep, SoleMailStep DEF Inv
  <2>5. QED
    BY <2>1, <2>2, <2>3, <2>4 DEF Inv
<1>2. CASE UNCHANGED vars
  <2> USE <1>2 DEF vars
  <2>1. TypeOK' /\ JobInv' /\ SendInv'
    BY DEF Inv, TypeOK, JobInv, SendInv
  <2>2. PlaceInv' /\ RowsInv' /\ MailInv'
    BY DEF Inv, PlaceInv, PlaceOf, PageEnd, Upto, RowsInv, RowsOf, MailInv, MailOf
  <2>3. SoleInv'
    BY DEF Inv, SoleInv, On
  <2>4. SoleImportInv'
    BY DEF Inv, SoleImportInv, SoleImportOf, CountersTell, JobTells, On, Upto, Ended
  <2>5. MadeInv' /\ SoleMailInv'
    BY DEF Inv, MadeInv, SoleMailInv, Ended, Unrecorded, Unstamped
  <2>6. QED
    BY <2>1, <2>2, <2>3, <2>4, <2>5 DEF Inv
<1>3. QED
  BY <1>1, <1>2

LEMMA Invariance == Spec => []Inv
BY InitInv, InvStep, PTL DEF Spec

\* Every state of the two handlers has the declared types, for any number of
\* rows, workers, senders and attempts: the counters of an attempt never count
\* more rows than the file has (imports/runner.go, execute).
THEOREM TypeCorrect == Spec => []TypeOK
<1>1. Inv => TypeOK
  BY DEF Inv
<1>2. QED
  BY <1>1, Invariance, PTL

\* As long as no two attempts of a job ran at once, a row has yielded at most
\* one Record and the notification at most one e-mail, and one more for each
\* attempt that was cut off before it recorded what it had done.
THEOREM DuplicatesBounded == Spec => []DuplicatesExplained
<1>1. Inv => DuplicatesExplained
  <2> SUFFICES ASSUME Inv PROVE DuplicatesExplained
    OBVIOUS
  <2>1. TypeOK
    BY DEF Inv
  <2>2. ASSUME ~overlap["import"], NEW r \in Rows PROVE made[r] <= 1 + torn[r]
    <3>1. made[r] \in Nat /\ torn[r] \in Nat
      BY <2>1 DEF TypeOK
    <3>2. made[r] <= torn[r] + Bit(Ended(r)) + Bit(Unrecorded(r))
      BY <2>2 DEF Inv, MadeInv
    <3>3. ~(Ended(r) /\ Unrecorded(r))
      BY <2>2 DEF Inv, SoleImportInv, SoleImportOf, Unrecorded
    <3>4. Bit(Ended(r)) + Bit(Unrecorded(r)) \in {0, 1}
      BY <3>3 DEF Bit
    <3>5. Bit(Ended(r)) \in Nat /\ Bit(Unrecorded(r)) \in Nat
      BY DEF Bit
    <3>6. QED
      BY <3>1, <3>2, <3>4, <3>5
  <2>3. ASSUME ~overlap["email"] PROVE mails <= 1 + torn[Email]
    <3>1. mails \in Nat /\ torn[Email] \in Nat
      BY <2>1 DEF TypeOK
    <3>2. /\ mails <= torn[Email] + Bit(note.emailed) + Bit(Unstamped)
          /\ ~(note.emailed /\ Unstamped)
      BY <2>3 DEF Inv, SoleMailInv, Unstamped
    <3>3. Bit(note.emailed) + Bit(Unstamped) \in {0, 1}
      BY <3>2 DEF Bit
    <3>4. Bit(note.emailed) \in Nat /\ Bit(Unstamped) \in Nat
      BY DEF Bit
    <3>5. QED
      BY <3>1, <3>2, <3>3, <3>4
  <2>4. QED
    BY <2>2, <2>3 DEF DuplicatesExplained
<1>2. QED
  BY <1>1, Invariance, PTL

\* An import that says it has ended has an outcome for every row; unless
\* attempts overlapped, its counters and its status are those of its rows,
\* however many attempts it took.
THEOREM StatusHeld == Spec => []StatusTellsRows
<1>1. Inv => StatusTellsRows
  <2> SUFFICES ASSUME Inv, imp.status \in {"succeeded", "failed"} PROVE
      /\ \A r \in Rows : row[r] # "queued"
      /\ ~overlap["import"] =>
           /\ imp.ok = Cardinality({r \in Rows : row[r] = "succeeded"})
           /\ imp.bad = Cardinality({r \in Rows : row[r] = "failed"})
           /\ imp.status = "failed" <=> \E r \in Rows : row[r] = "failed"
    BY DEF StatusTellsRows
  <2>1. \A r \in Rows : row[r] # "queued"
    BY DEF Inv, RowsInv
  <2>2. ASSUME NEW status PROVE With(row, RowCount, status) = {r \in Rows : row[r] = status}
    <3>1. \A r \in Rows : r <= RowCount
      BY HandlerConstants DEF Rows
    <3>2. QED
      BY <3>1 DEF With
  <2>3. ASSUME ~overlap["import"] PROVE
      /\ imp.ok = Cardinality({r \in Rows : row[r] = "succeeded"})
      /\ imp.bad = Cardinality({r \in Rows : row[r] = "failed"})
      /\ imp.status = "failed" <=> \E r \in Rows : row[r] = "failed"
    <3> DEFINE Bad == {r \in Rows : row[r] = "failed"}
    <3>1. /\ imp.ok = Cardinality(With(row, RowCount, "succeeded"))
          /\ imp.bad = Cardinality(With(row, RowCount, "failed"))
          /\ imp.status = "failed" <=> imp.bad > 0
      BY <2>3 DEF Inv, SoleImportInv, CountersTell
    <3>2. IsFiniteSet(Bad) /\ Cardinality(Bad) \in Nat
      BY <2>2, WithType
    <3>3. Cardinality(Bad) = 0 <=> Bad = {}
      BY <3>2, FS_EmptySet
    <3>4. imp.bad > 0 <=> Bad # {}
      BY <2>2, <3>1, <3>2, <3>3
    <3>5. QED
      BY <2>2, <3>1, <3>4
  <2>4. QED
    BY <2>1, <2>3
<1>2. QED
  BY <1>1, Invariance, PTL

\* A job that has succeeded did its work: the mail went out and is recorded in
\* the notification, or every row of the import has an outcome and every row
\* that says succeeded a Record.  This holds although attempts overlap; only
\* that the import itself says so needs that they did not.
THEOREM SuccessHeld == Spec => []SuccessMeansDone
<1>1. Inv => SuccessMeansDone
  BY DEF Inv, RowsInv, MailInv, SoleImportInv, JobTells, SuccessMeansDone
<1>2. QED
  BY <1>1, Invariance, PTL

=============================================================================
