---------------------------- MODULE Files_proofs ----------------------------
(***************************************************************************)
(* Theorems about Files, for every set of storage keys, targets and calls. *)
(***************************************************************************)
EXTENDS Files, TLAPS

-----------------------------------------------------------------------------
(* The inductive invariant: who may know a key, and who owes it what.      *)

Busy(c, k) == call[c].key = k /\ ~At(c, "idle")

\* The transaction of c has not touched k.
Clean(c, k) == tx[c].rows[k] = Same /\ k \notin tx[c].jobs /\ k \notin tx[c].keys
Alone(c, k) == \A d \in Calls \ {c} : Clean(d, k) /\ ~Busy(d, k)
Unused(k) == rows[k] = NoFile /\ jobs[k] = "none" /\ k \notin undone

\* Nobody knows a key that was not drawn.
FreshInv ==
  \A k \in Keys \ drawn :
    Unused(k) /\ k \notin blobs /\ \A c \in Calls : Clean(c, k) /\ ~Busy(c, k)

\* Before its row is inserted a key is known to its upload alone.
NewFileInv ==
  \A c \in Calls :
    call[c].pc \in {"put", "insert"} =>
      /\ Unused(call[c].key) /\ Alone(c, call[c].key)
      /\ tx[c].rows[call[c].key] = Same /\ call[c].key \notin tx[c].jobs
      /\ IF At(c, "put") THEN call[c].key \notin tx[c].keys ELSE call[c].key \in blobs

\* The files an action has uploaded are its own until it commits, and it owes
\* each blob a row, a job or a removal, unless the disk refused one.
KeysInv ==
  \A c \in Calls : \A k \in tx[c].keys :
    /\ acting[c] /\ rows[k] = NoFile /\ jobs[k] = "none" /\ Alone(c, k)
    /\ k \in blobs => \/ call[c].key = k /\ call[c].pc \in {"insert", "unput"}
                      \/ k \in tx[c].jobs \/ k \in lost
                      \/ tx[c].rows[k] \notin {Same, NoFile}

\* A row is written by one transaction at a time.
LocksInv ==
  \A c, d \in Calls, k \in Keys : c # d => tx[c].rows[k] = Same \/ tx[d].rows[k] = Same

\* A request has a transaction only when it removes a file.
CallsInv ==
  \A c \in Calls :
    /\ ~acting[c] => /\ ~tx[c].doomed
                     /\ \A k \in Keys : tx[c].rows[k] \in {Same, NoFile}
                     /\ ~At(c, "commit") => tx[c] = IdleTx
    /\ At(c, "commit") => ~acting[c]
    /\ acting[c] /\ call[c].pc \in {"insert", "event", "undo", "unput"} =>
         call[c].key \in tx[c].keys

\* Cleanup jobs belong to rows that are deleted, for good once committed.
JobsInv ==
  \A k \in Keys :
    /\ \A c \in Calls : k \in tx[c].jobs => tx[c].rows[k] = NoFile
    /\ \A c \in Calls : tx[c].rows[k] = NoFile => k \in tx[c].jobs \cup tx[c].keys
    /\ jobs[k] # "none" => rows[k] = NoFile /\ \A c \in Calls : tx[c].rows[k] \in {Same, NoFile}

\* What the transaction of c wrote leaves no row behind for k.
Void(c, k) == tx[c].rows[k] \in {Same, NoFile} \/ tx[c].doomed

\* A blob is about to be removed only when its row is gone or known to stay.
UndoInv ==
  \A c \in Calls :
    At(c, "unput") => \/ call[c].key \in undone
                      \/ rows[call[c].key] = NoFile /\ \A d \in Calls : Void(d, call[c].key)

\* A row that a transaction may still commit has its blob.
BackedInv == \A c \in Calls, k \in Keys : Void(c, k) \/ k \in blobs \cup undone

Inv == TypeOK /\ FreshInv /\ NewFileInv /\ KeysInv /\ LocksInv /\ CallsInv /\ JobsInv
       /\ UndoInv /\ BackedInv /\ BlobBacked /\ NoStrayBlob

-----------------------------------------------------------------------------
(* What the parts of actions do.                                           *)

LEMMA Typed ==
  ASSUME TypeOK
  PROVE  \A c \in Calls :
           /\ call[c] \in Call /\ call[c].key \in Keys
           /\ tx[c] \in Tx /\ tx[c].rows \in [Keys -> Row \cup {Same}]
           /\ tx[c].keys \subseteq Keys /\ tx[c].jobs \subseteq Keys
           /\ tx[c].doomed \in BOOLEAN /\ acting[c] \in BOOLEAN
BY DEF TypeOK, Call, Tx

\* A statement that writes the row of k, committed or not.
LEMMA WriteEffect ==
  ASSUME TypeOK, NEW c \in Calls, NEW k \in Keys, NEW row \in Row, Write(c, k, row)
  PROVE  /\ rows' \in [Keys -> Row] /\ tx' \in [Calls -> Tx]
         /\ \A d \in Calls \ {c} : tx'[d] = tx[d]
         /\ \A j \in Keys \ {k} : rows'[j] = rows[j] /\ tx'[c].rows[j] = tx[c].rows[j]
         /\ IF acting[c] THEN rows' = rows /\ tx'[c].rows[k] = row
                         ELSE rows'[k] = row /\ tx' = tx
         /\ tx'[c].jobs = tx[c].jobs /\ tx'[c].keys = tx[c].keys
         /\ tx'[c].doomed = tx[c].doomed
<1>1. CASE acting[c]
  <2>1. rows' = rows /\ tx' = [tx EXCEPT ![c].rows[k] = row]
    BY <1>1 DEF Write
  <2>2. tx[c] \in Tx
    BY Typed
  <2>3. tx'[c] = [rows |-> [tx[c].rows EXCEPT ![k] = row], jobs |-> tx[c].jobs,
                  keys |-> tx[c].keys, doomed |-> tx[c].doomed]
    BY <2>1, <2>2 DEF TypeOK, Tx
  <2>4. tx'[c] \in Tx
    BY <2>2, <2>3 DEF Tx
  <2>5. tx' = [tx EXCEPT ![c] = tx'[c]]
    BY <2>1 DEF TypeOK
  <2> QED
    BY <1>1, <2>1, <2>2, <2>3, <2>4, <2>5 DEF TypeOK, Tx
<1>2. CASE ~acting[c]
  BY <1>2 DEF Write, TypeOK
<1> QED
  BY <1>1, <1>2

LEMMA IdleTyped == /\ IdleTx \in Tx
                   /\ \A k \in Keys : IdleTx.rows[k] = Same
                   /\ IdleTx.jobs = {} /\ IdleTx.keys = {} /\ IdleTx.doomed = FALSE
BY DEF IdleTx, Tx

LEMMA CloseEffect ==
  ASSUME TypeOK, NEW c \in Calls, Close(c)
  PROVE  /\ tx' \in [Calls -> Tx]
         /\ \A d \in Calls \ {c} : tx'[d] = tx[d]
         /\ tx'[c] = IdleTx
         /\ \A k \in Keys : tx'[c].rows[k] = Same
         /\ tx'[c].jobs = {} /\ tx'[c].keys = {} /\ tx'[c].doomed = FALSE
BY IdleTyped DEF TypeOK, Close

LEMMA GoEffect ==
  ASSUME TypeOK, NEW c \in Calls,
         NEW pc \in {"idle", "put", "insert", "event", "undo", "unput", "write",
                     "blob", "delete", "commit"},
         Go(c, pc)
  PROVE  /\ call' \in [Calls -> Call]
         /\ \A d \in Calls \ {c} : call'[d] = call[d]
         /\ call'[c].pc = pc /\ call'[c].key = call[c].key
         /\ call'[c].target = call[c].target
BY DEF TypeOK, Call, Go

LEMMA RemoveBlobsEffect ==
  ASSUME TypeOK, NEW S \in SUBSET Keys, RemoveBlobs(S)
  PROVE  /\ blobs' \subseteq blobs /\ blobs \ blobs' \subseteq S
         /\ lost \subseteq lost' /\ lost' \subseteq Keys
         /\ S \cap blobs' \subseteq lost'
BY DEF TypeOK, RemoveBlobs

LEMMA InitInv == Init => Inv
<1> SUFFICES ASSUME Init PROVE Inv
  OBVIOUS
<1>1. /\ \A c \in Calls : call[c] \in Call /\ At(c, "idle") /\ ~acting[c] /\ tx[c] = IdleTx
      /\ \A k \in Keys : rows[k] = NoFile /\ jobs[k] = "none"
      /\ blobs = {} /\ undone = {} /\ lost = {} /\ drawn = {}
  BY DEF Init, At
<1>2. TypeOK
  BY IdleTyped DEF Init, TypeOK, Row
<1>3. FreshInv /\ NewFileInv /\ KeysInv /\ LocksInv
  BY <1>1, IdleTyped
  DEF FreshInv, NewFileInv, KeysInv, LocksInv, Unused, Clean, Busy, At
<1>4. CallsInv /\ UndoInv
  BY <1>1, IdleTyped DEF CallsInv, UndoInv, At
<1>5. JobsInv
  BY <1>1, IdleTyped, FileConstants DEF JobsInv
<1>6. BackedInv /\ BlobBacked /\ NoStrayBlob
  BY <1>1, IdleTyped DEF BackedInv, BlobBacked, NoStrayBlob, Void
<1> QED
  BY <1>2, <1>3, <1>4, <1>5, <1>6 DEF Inv

-----------------------------------------------------------------------------
(* What several actions have in common.                                      *)

\* Steps of a call that only go on to the next statement, about a file whose
\* row the call has seen.
LEMMA MovesInv ==
  ASSUME Inv, NEW c \in Calls, TypeOK',
         \A d \in Calls \ {c} : call'[d] = call[d],
         call[c].pc \notin {"put", "insert", "unput", "commit"},
         call'[c].pc \notin {"put", "insert", "unput", "commit"},
         call'[c].pc # "idle" => Busy(c, call'[c].key) \/ Seen(c, call'[c].key) # NoFile,
         call'[c].pc \in {"event", "undo"} => call'[c].key = call[c].key /\ At(c, "event"),
         UNCHANGED <<rows, blobs, jobs, acting, tx, drawn, lost, undone>>
  PROVE  Inv'
<1>1. /\ call'[c].key \in Keys
      /\ blobs \subseteq Keys
      /\ \A d \in Calls : call[d].key \in Keys /\ tx[d].keys \subseteq Keys
                           /\ tx[d].jobs \subseteq Keys /\ acting[d] \in BOOLEAN
  BY Typed DEF Inv, TypeOK, Call
<1>2. FreshInv'
  BY <1>1 DEF Inv, FreshInv, Unused, Clean, Busy, At, Seen
<1>3. NewFileInv'
  BY <1>1 DEF Inv, NewFileInv, Unused, Alone, Clean, Busy, At, Seen
<1>4. KeysInv'
  BY <1>1 DEF Inv, KeysInv, NewFileInv, Unused, Alone, Clean, Busy, At, Seen
<1>5. LocksInv'
  BY <1>1 DEF Inv, LocksInv, NewFileInv, Alone, Clean, At
<1>6. CallsInv'
  BY <1>1 DEF Inv, CallsInv, At
<1>7. JobsInv'
  BY <1>1, FileConstants DEF Inv, JobsInv, NewFileInv, Unused, Alone, Clean, At
<1>8. UndoInv'
  BY <1>1 DEF Inv, UndoInv, NewFileInv, Alone, Busy, Void, At
<1>9. BackedInv'
  BY <1>1 DEF Inv, BackedInv, NewFileInv, Alone, Clean, Void, At
<1>10. BlobBacked'
  BY <1>1 DEF Inv, BlobBacked, NewFileInv, Unused, At
<1>11. NoStrayBlob'
  BY <1>1 DEF Inv, NoStrayBlob, CallsInv, Owes, At
<1> QED
  BY <1>2, <1>3, <1>4, <1>5, <1>6, <1>7, <1>8, <1>9, <1>10, <1>11 DEF Inv

\* Steps of a call that drop its transaction and write no row.
LEMMA GiveUpInv ==
  ASSUME Inv, NEW c \in Calls, TypeOK', Close(c),
         \A d \in Calls \ {c} : call'[d] = call[d] /\ acting'[d] = acting[d],
         call'[c].pc = "idle", ~acting'[c],
         \A k \in Keys : k \in blobs \ blobs' => k \in tx[c].keys,
         \A k \in blobs' : k \in blobs \/ (k \in lost' /\ Busy(c, k)),
         \A k \in blobs' : Owes(c, k) => k \in lost',
         lost \subseteq lost',
         UNCHANGED <<rows, jobs, drawn, undone>>
  PROVE  Inv'
<1>1. /\ blobs' \subseteq Keys /\ \A d \in Calls \ {c} : tx'[d] = tx[d]
      /\ tx'[c] = IdleTx /\ \A k \in Keys : tx'[c].rows[k] = Same
      /\ tx'[c].jobs = {} /\ tx'[c].keys = {} /\ tx'[c].doomed = FALSE
      /\ blobs \subseteq Keys
      /\ \A d \in Calls : call[d].key \in Keys /\ tx[d].keys \subseteq Keys
                           /\ tx[d].jobs \subseteq Keys /\ acting[d] \in BOOLEAN
  BY Typed, CloseEffect DEF Inv, TypeOK
<1>2. FreshInv'
  BY <1>1 DEF Inv, FreshInv, Unused, Clean, Busy, At
<1>3. NewFileInv'
  BY <1>1 DEF Inv, NewFileInv, Unused, Alone, Clean, Busy, At, KeysInv
<1>4. KeysInv'
  BY <1>1 DEF Inv, KeysInv, NewFileInv, Unused, Alone, Clean, Busy, At
<1>5. LocksInv'
  BY <1>1 DEF Inv, LocksInv, NewFileInv, Alone, Clean, At
<1>6. CallsInv'
  BY <1>1 DEF Inv, CallsInv, At
<1>7. JobsInv'
  BY <1>1, FileConstants DEF Inv, JobsInv, NewFileInv, Unused, Alone, Clean, At
<1>8. UndoInv'
  BY <1>1 DEF Inv, UndoInv, NewFileInv, Alone, Busy, Void, At
<1>9. BackedInv'
  BY <1>1 DEF Inv, BackedInv, NewFileInv, Alone, Clean, Void, At, KeysInv
<1>10. BlobBacked'
  BY <1>1 DEF Inv, BlobBacked, NewFileInv, Unused, At, KeysInv
<1>11. NoStrayBlob'
  BY <1>1 DEF Inv, NoStrayBlob, CallsInv, Owes, At
<1> QED
  BY <1>2, <1>3, <1>4, <1>5, <1>6, <1>7, <1>8, <1>9, <1>10, <1>11 DEF Inv

\* Steps of a call that commit its transaction.
LEMMA PublishInv ==
  ASSUME Inv, NEW c \in Calls, TypeOK', Close(c), ~tx[c].doomed,
         \A d \in Calls \ {c} : call'[d] = call[d] /\ acting'[d] = acting[d],
         call[c].pc \in {"idle", "commit"}, call'[c].pc = "idle", ~acting'[c],
         rows' = Written(c), jobs' = Enqueued(c), lost \subseteq lost',
         UNCHANGED <<blobs, drawn, undone>>
  PROVE  Inv'
<1>1. /\ \A d \in Calls \ {c} : tx'[d] = tx[d]
      /\ tx'[c] = IdleTx /\ \A k \in Keys : tx'[c].rows[k] = Same
      /\ tx'[c].jobs = {} /\ tx'[c].keys = {} /\ tx'[c].doomed = FALSE
      /\ \A k \in Keys : rows'[k] = Seen(c, k)
      /\ \A k \in Keys : jobs'[k] = IF k \in tx[c].jobs /\ jobs[k] = "none" THEN "queued" ELSE jobs[k]
      /\ blobs \subseteq Keys
      /\ \A d \in Calls : call[d].key \in Keys /\ tx[d].keys \subseteq Keys
                           /\ tx[d].jobs \subseteq Keys /\ acting[d] \in BOOLEAN
  BY Typed, CloseEffect DEF Written, Enqueued, Inv, TypeOK
<1>2. FreshInv'
  BY <1>1 DEF Inv, FreshInv, Unused, Clean, Busy, At, Seen
<1>3. NewFileInv'
  BY <1>1 DEF Inv, NewFileInv, Unused, Alone, Clean, Busy, At, Seen
<1>4. KeysInv'
  BY <1>1 DEF Inv, KeysInv, NewFileInv, Unused, Alone, Clean, Busy, At, Seen
<1>5. LocksInv'
  BY <1>1 DEF Inv, LocksInv, NewFileInv, Alone, Clean, At, Seen
<1>6. CallsInv'
  BY <1>1 DEF Inv, CallsInv, At
<1>7. JobsInv'
  BY <1>1, FileConstants
  DEF Inv, JobsInv, NewFileInv, Unused, Alone, Clean, At, LocksInv, Seen
<1>8. UndoInv'
  BY <1>1 DEF Inv, UndoInv, NewFileInv, Alone, Busy, Void, At, Seen
<1>9. BackedInv'
  BY <1>1 DEF Inv, BackedInv, NewFileInv, Alone, Clean, Void, At, Seen
<1>10. BlobBacked'
  BY <1>1 DEF Inv, BlobBacked, NewFileInv, Unused, At, BackedInv, Void, Seen
<1>11. NoStrayBlob'
  BY <1>1 DEF Inv, NoStrayBlob, CallsInv, Owes, At, KeysInv, JobsInv, Seen
<1> QED
  BY <1>2, <1>3, <1>4, <1>5, <1>6, <1>7, <1>8, <1>9, <1>10, <1>11 DEF Inv

-----------------------------------------------------------------------------
(* One lemma per action, one step per conjunct.                            *)

LEMMA UploadInv ==
  ASSUME Inv, NEW c \in Calls, NEW k \in Keys, NEW t \in Targets \cup {Unattached}, Upload(c, k, t)
  PROVE  Inv'
<1>1. TypeOK /\ blobs \subseteq Keys /\ k \in Keys /\ call[c] \in Call /\ tx[c] \in Tx
      /\ \A d \in Calls : call[d].key \in Keys /\ tx[d].keys \subseteq Keys
                           /\ tx[d].jobs \subseteq Keys /\ acting[d] \in BOOLEAN
  BY Typed DEF Inv, TypeOK
<1>2. /\ \A d \in Calls \ {c} : call'[d] = call[d] /\ tx'[d] = tx[d] /\ acting'[d] = acting[d]
      /\ At(c, "idle") /\ call'[c].pc = "put" /\ call'[c].key = k /\ k \notin drawn
      /\ drawn' = drawn \cup {k}
      /\ rows' = rows /\ blobs' = blobs /\ jobs' = jobs /\ acting' = acting
      /\ tx' = tx /\ lost' = lost /\ undone' = undone
  BY <1>1 DEF Upload, TypeOK
<1>3. TypeOK'
  BY <1>1 DEF Upload, TypeOK, Call
<1>4. FreshInv'
  BY <1>1, <1>2 DEF Inv, FreshInv, Unused, Clean, Busy, At
<1>5. NewFileInv'
  BY <1>1, <1>2 DEF Inv, NewFileInv, Unused, Alone, Clean, Busy, At, FreshInv
<1>6. KeysInv'
  BY <1>1, <1>2 DEF Inv, KeysInv, NewFileInv, Unused, Alone, Clean, Busy, At, FreshInv
<1>7. LocksInv'
  BY <1>1, <1>2 DEF Inv, LocksInv, NewFileInv, Alone, Clean, At
<1>8. CallsInv'
  BY <1>1, <1>2 DEF Inv, CallsInv, At
<1>9. JobsInv'
  BY <1>1, <1>2, FileConstants DEF Inv, JobsInv, NewFileInv, Unused, Alone, Clean, At
<1>10. UndoInv'
  BY <1>1, <1>2 DEF Inv, UndoInv, NewFileInv, Alone, Busy, Void, At
<1>11. BackedInv'
  BY <1>1, <1>2 DEF Inv, BackedInv, NewFileInv, Alone, Clean, Void, At
<1>12. BlobBacked'
  BY <1>1, <1>2 DEF Inv, BlobBacked, NewFileInv, Unused, At
<1>13. NoStrayBlob'
  BY <1>1, <1>2 DEF Inv, NoStrayBlob, CallsInv, Owes, At
<1> QED
  BY <1>3, <1>4, <1>5, <1>6, <1>7, <1>8, <1>9, <1>10, <1>11, <1>12, <1>13 DEF Inv

LEMMA PutInv ==
  ASSUME Inv, NEW c \in Calls, Put(c)
  PROVE  Inv'
<1> DEFINE k == call[c].key
<1>1. TypeOK /\ blobs \subseteq Keys /\ k \in Keys /\ call[c] \in Call /\ tx[c] \in Tx
      /\ \A d \in Calls : call[d].key \in Keys /\ tx[d].keys \subseteq Keys
                           /\ tx[d].jobs \subseteq Keys /\ acting[d] \in BOOLEAN
  BY Typed DEF Inv, TypeOK
<1>2. /\ \A d \in Calls \ {c} : call'[d] = call[d] /\ tx'[d] = tx[d] /\ acting'[d] = acting[d]
      /\ At(c, "put") /\ call'[c].pc = "insert" /\ call'[c].key = k
      /\ blobs' = blobs \cup {k}
      /\ tx'[c].rows = tx[c].rows /\ tx'[c].jobs = tx[c].jobs /\ tx'[c].doomed = tx[c].doomed
      /\ tx'[c].keys = IF acting[c] THEN tx[c].keys \cup {k} ELSE tx[c].keys
      /\ ~acting[c] => tx'[c] = tx[c]
      /\ rows' = rows /\ jobs' = jobs /\ acting' = acting
      /\ drawn' = drawn /\ lost' = lost /\ undone' = undone
  BY <1>1 DEF Put, Held, Go, At, TypeOK, Call, Tx
<1>3. TypeOK'
  BY <1>1 DEF Put, Held, Go, TypeOK, Call, Tx
<1>4. FreshInv'
  BY <1>1, <1>2 DEF Inv, FreshInv, Unused, Clean, Busy, At
<1>5. NewFileInv'
  BY <1>1, <1>2 DEF Inv, NewFileInv, Unused, Alone, Clean, Busy, At
<1>6. KeysInv'
  BY <1>1, <1>2 DEF Inv, KeysInv, NewFileInv, Unused, Alone, Clean, Busy, At
<1>7. LocksInv'
  BY <1>1, <1>2 DEF Inv, LocksInv, NewFileInv, Alone, Clean, At
<1>8. CallsInv'
  BY <1>1, <1>2 DEF Inv, CallsInv, At
<1>9. JobsInv'
  BY <1>1, <1>2, FileConstants DEF Inv, JobsInv, NewFileInv, Unused, Alone, Clean, At
<1>10. UndoInv'
  BY <1>1, <1>2 DEF Inv, UndoInv, NewFileInv, Alone, Busy, Void, At
<1>11. BackedInv'
  BY <1>1, <1>2 DEF Inv, BackedInv, NewFileInv, Alone, Clean, Void, At
<1>12. BlobBacked'
  BY <1>1, <1>2 DEF Inv, BlobBacked, NewFileInv, Unused, At
<1>13. NoStrayBlob'
  BY <1>1, <1>2 DEF Inv, NoStrayBlob, CallsInv, Owes, At
<1> QED
  BY <1>3, <1>4, <1>5, <1>6, <1>7, <1>8, <1>9, <1>10, <1>11, <1>12, <1>13 DEF Inv

LEMMA PutFailsInv ==
  ASSUME Inv, NEW c \in Calls, PutFails(c)
  PROVE  Inv'
<1> DEFINE k == call[c].key
<1>1. TypeOK /\ blobs \subseteq Keys /\ k \in Keys /\ call[c] \in Call /\ tx[c] \in Tx
      /\ \A d \in Calls : call[d].key \in Keys /\ tx[d].keys \subseteq Keys
                           /\ tx[d].jobs \subseteq Keys /\ acting[d] \in BOOLEAN
  BY Typed DEF Inv, TypeOK
<1>a. \/ blobs' = blobs /\ lost' = lost
      \/ blobs' = blobs \cup {k} /\ lost' = lost \cup {k}
  BY DEF PutFails
<1>b. /\ At(c, "put") /\ Go(c, "idle")
      /\ UNCHANGED <<rows, jobs, acting, tx, drawn, undone>>
      /\ call'[c].pc = "idle" /\ call'[c].key = k
      /\ \A d \in Calls \ {c} : call'[d] = call[d]
  BY <1>1, GoEffect DEF PutFails
<1>2. /\ \A d \in Calls \ {c} : call'[d] = call[d] /\ tx'[d] = tx[d] /\ acting'[d] = acting[d]
      /\ At(c, "put") /\ call'[c].pc = "idle" /\ call'[c].key = k
      /\ blobs' = blobs \/ (blobs' = blobs \cup {k} /\ lost' = lost \cup {k})
      /\ blobs \subseteq blobs' /\ lost \subseteq lost'
      /\ rows' = rows /\ jobs' = jobs /\ acting' = acting
      /\ tx' = tx /\ drawn' = drawn /\ undone' = undone
  BY <1>1, <1>a, <1>b
<1>3. TypeOK'
  BY <1>1, GoEffect DEF PutFails, TypeOK
<1>4. FreshInv'
  BY <1>1, <1>2 DEF Inv, FreshInv, Unused, Clean, Busy, At
<1>5. NewFileInv'
  BY <1>1, <1>2 DEF Inv, NewFileInv, Unused, Alone, Clean, Busy, At
<1>6. KeysInv'
  BY <1>1, <1>2 DEF Inv, KeysInv, NewFileInv, Unused, Alone, Clean, Busy, At
<1>7. LocksInv'
  BY <1>1, <1>2 DEF Inv, LocksInv, NewFileInv, Alone, Clean, At
<1>8. CallsInv'
  BY <1>1, <1>2 DEF Inv, CallsInv, At
<1>9. JobsInv'
  BY <1>1, <1>2, FileConstants DEF Inv, JobsInv, NewFileInv, Unused, Alone, Clean, At
<1>10. UndoInv'
  BY <1>1, <1>2 DEF Inv, UndoInv, NewFileInv, Alone, Busy, Void, At
<1>11. BackedInv'
  BY <1>1, <1>2 DEF Inv, BackedInv, NewFileInv, Alone, Clean, Void, At
<1>12. BlobBacked'
  BY <1>1, <1>2 DEF Inv, BlobBacked, NewFileInv, Unused, At
<1>13. NoStrayBlob'
  BY <1>1, <1>2 DEF Inv, NoStrayBlob, CallsInv, Owes, At
<1> QED
  BY <1>3, <1>4, <1>5, <1>6, <1>7, <1>8, <1>9, <1>10, <1>11, <1>12, <1>13 DEF Inv

LEMMA InsertInv ==
  ASSUME Inv, NEW c \in Calls, Insert(c)
  PROVE  Inv'
<1> DEFINE k == call[c].key
<1>1. TypeOK /\ blobs \subseteq Keys /\ k \in Keys /\ call[c] \in Call /\ tx[c] \in Tx
      /\ \A d \in Calls : call[d].key \in Keys /\ tx[d].keys \subseteq Keys
                           /\ tx[d].jobs \subseteq Keys /\ acting[d] \in BOOLEAN
  BY Typed DEF Inv, TypeOK
<1>a. call[c].target \in Row /\ call[c].target \notin {Same, NoFile}
  BY <1>1, FileConstants DEF Call, Row
<1>b. /\ At(c, "insert") /\ ~tx[c].doomed /\ Write(c, k, call[c].target)
      /\ UNCHANGED <<blobs, jobs, acting, drawn, lost, undone>>
      /\ call' \in [Calls -> Call] /\ call'[c].key = k
      /\ call'[c].pc \in {"idle", "event"}
      /\ \A d \in Calls \ {c} : call'[d] = call[d]
  BY <1>1, GoEffect DEF Insert
<1>2. /\ \A d \in Calls \ {c} : call'[d] = call[d] /\ tx'[d] = tx[d] /\ acting'[d] = acting[d]
      /\ At(c, "insert") /\ call'[c].pc \in {"idle", "event"} /\ call'[c].key = k /\ ~tx[c].doomed
      /\ \A j \in Keys \ {k} : rows'[j] = rows[j] /\ tx'[c].rows[j] = tx[c].rows[j]
      /\ IF acting[c] THEN rows' = rows /\ tx'[c].rows[k] \notin {Same, NoFile}
                   ELSE rows'[k] # NoFile /\ tx' = tx
      /\ tx'[c].jobs = tx[c].jobs /\ tx'[c].keys = tx[c].keys /\ tx'[c].doomed = tx[c].doomed
      /\ blobs' = blobs /\ jobs' = jobs /\ acting' = acting
      /\ drawn' = drawn /\ lost' = lost /\ undone' = undone
  BY <1>1, <1>a, <1>b, WriteEffect
<1>3. TypeOK'
  BY <1>1, <1>a, <1>b, WriteEffect DEF TypeOK
<1>4. FreshInv'
  BY <1>1, <1>2 DEF Inv, FreshInv, Unused, Clean, Busy, At
<1>5. NewFileInv'
  BY <1>1, <1>2 DEF Inv, NewFileInv, Unused, Alone, Clean, Busy, At
<1>6. KeysInv'
  BY <1>1, <1>2 DEF Inv, KeysInv, NewFileInv, Unused, Alone, Clean, Busy, At
<1>7. LocksInv'
  BY <1>1, <1>2 DEF Inv, LocksInv, NewFileInv, Alone, Clean, At
<1>8. CallsInv'
  BY <1>1, <1>2 DEF Inv, CallsInv, At
<1>9. JobsInv'
  BY <1>1, <1>2, FileConstants DEF Inv, JobsInv, NewFileInv, Unused, Alone, Clean, At
<1>10. UndoInv'
  BY <1>1, <1>2 DEF Inv, UndoInv, NewFileInv, Alone, Busy, Void, At
<1>11. BackedInv'
  BY <1>1, <1>2 DEF Inv, BackedInv, NewFileInv, Alone, Clean, Void, At
<1>12. BlobBacked'
  BY <1>1, <1>2 DEF Inv, BlobBacked, NewFileInv, Unused, At
<1>13. NoStrayBlob'
  BY <1>1, <1>2 DEF Inv, NoStrayBlob, CallsInv, Owes, At
<1> QED
  BY <1>3, <1>4, <1>5, <1>6, <1>7, <1>8, <1>9, <1>10, <1>11, <1>12, <1>13 DEF Inv

LEMMA InsertFailsInv ==
  ASSUME Inv, NEW c \in Calls, InsertFails(c)
  PROVE  Inv'
<1> DEFINE k == call[c].key
<1>1. TypeOK /\ blobs \subseteq Keys /\ k \in Keys /\ call[c] \in Call /\ tx[c] \in Tx
      /\ \A d \in Calls : call[d].key \in Keys /\ tx[d].keys \subseteq Keys
                           /\ tx[d].jobs \subseteq Keys /\ acting[d] \in BOOLEAN
  BY Typed DEF Inv, TypeOK
<1>a. call[c].target \in Row \ {NoFile}
  BY <1>1, FileConstants DEF Call, Row
<1>b. \/ rows' = rows /\ undone' = undone
      \/ ~acting[c] /\ rows' = [rows EXCEPT ![k] = call[c].target] /\ undone' = undone \cup {k}
  BY DEF InsertFails
<1>2. /\ \A d \in Calls \ {c} : call'[d] = call[d] /\ tx'[d] = tx[d] /\ acting'[d] = acting[d]
      /\ At(c, "insert") /\ call'[c].pc = "idle" /\ call'[c].key = k
      /\ blobs' \subseteq blobs /\ blobs \ blobs' \subseteq {k} /\ undone \subseteq undone'
      /\ lost \subseteq lost' /\ lost' \subseteq Keys /\ (k \in blobs' => k \in lost')
      /\ \A j \in Keys \ {k} : rows'[j] = rows[j] /\ (j \in undone' <=> j \in undone)
      /\ (rows' = rows /\ undone' = undone) \/ (k \in undone' /\ ~acting[c])
      /\ jobs' = jobs /\ acting' = acting /\ tx' = tx
      /\ drawn' = drawn
  BY <1>1, <1>a, <1>b, GoEffect, RemoveBlobsEffect DEF InsertFails, TypeOK
<1>3. TypeOK'
  BY <1>1, <1>2, <1>a, <1>b, GoEffect DEF InsertFails, TypeOK
<1>4. FreshInv'
  BY <1>1, <1>2 DEF Inv, FreshInv, Unused, Clean, Busy, At
<1>5. NewFileInv'
  BY <1>1, <1>2 DEF Inv, NewFileInv, Unused, Alone, Clean, Busy, At
<1>6. KeysInv'
  BY <1>1, <1>2 DEF Inv, KeysInv, NewFileInv, Unused, Alone, Clean, Busy, At
<1>7. LocksInv'
  BY <1>1, <1>2 DEF Inv, LocksInv, NewFileInv, Alone, Clean, At
<1>8. CallsInv'
  BY <1>1, <1>2 DEF Inv, CallsInv, At
<1>9. JobsInv'
  BY <1>1, <1>2, FileConstants DEF Inv, JobsInv, NewFileInv, Unused, Alone, Clean, At
<1>10. UndoInv'
  BY <1>1, <1>2 DEF Inv, UndoInv, NewFileInv, Alone, Busy, Void, At
<1>11. BackedInv'
  BY <1>1, <1>2 DEF Inv, BackedInv, NewFileInv, Alone, Clean, Void, At
<1>12. BlobBacked'
  BY <1>1, <1>2 DEF Inv, BlobBacked, NewFileInv, Unused, At
<1>13. NoStrayBlob'
  BY <1>1, <1>2 DEF Inv, NoStrayBlob, CallsInv, Owes, At
<1> QED
  BY <1>3, <1>4, <1>5, <1>6, <1>7, <1>8, <1>9, <1>10, <1>11, <1>12, <1>13 DEF Inv

LEMMA UndoRowInv ==
  ASSUME Inv, NEW c \in Calls, UndoRow(c)
  PROVE  Inv'
<1> DEFINE k == call[c].key
<1>1. TypeOK /\ blobs \subseteq Keys /\ k \in Keys /\ call[c] \in Call /\ tx[c] \in Tx
      /\ \A d \in Calls : call[d].key \in Keys /\ tx[d].keys \subseteq Keys
                           /\ tx[d].jobs \subseteq Keys /\ acting[d] \in BOOLEAN
  BY Typed DEF Inv, TypeOK
<1>a. /\ TypeOK /\ At(c, "undo") /\ UNCHANGED <<blobs, jobs, acting, drawn, lost>>
      /\ call' \in [Calls -> Call] /\ call'[c].key = k /\ call'[c].pc = "unput"
      /\ \A d \in Calls \ {c} : call'[d] = call[d]
  BY <1>1, GoEffect DEF UndoRow
<1>b. /\ rows' \in [Keys -> Row] /\ tx' \in [Calls -> Tx] /\ undone' \subseteq Keys
      /\ \A d \in Calls \ {c} : tx'[d] = tx[d]
      /\ \A j \in Keys \ {k} : rows'[j] = rows[j] /\ tx'[c].rows[j] = tx[c].rows[j]
                              /\ (j \in undone' <=> j \in undone)
      /\ undone \subseteq undone' /\ tx'[c].jobs = tx[c].jobs /\ tx'[c].keys = tx[c].keys
      /\ acting[c] => /\ rows' = rows
                      /\ \/ tx'[c].doomed /\ tx'[c].rows = tx[c].rows
                         \/ tx'[c].rows[k] = NoFile /\ tx'[c].doomed = tx[c].doomed
      /\ ~acting[c] => /\ tx' = tx
                       /\ \/ rows' = rows /\ k \in undone'
                          \/ rows'[k] = NoFile /\ Free(c, k)
  <2>1. CASE Free(c, k) /\ Write(c, k, NoFile) /\ UNCHANGED undone
    <3>1. NoFile \in Row
      BY DEF Row
    <3> QED
      BY <1>1, <2>1, <3>1, WriteEffect DEF TypeOK
  <2>2. CASE UNCHANGED rows /\ ~acting[c] /\ undone' = undone \cup {k} /\ UNCHANGED tx
    BY <1>1, <2>2 DEF TypeOK
  <2>3. CASE UNCHANGED rows /\ acting[c] /\ tx' = [tx EXCEPT ![c].doomed = TRUE] /\ UNCHANGED undone
    BY <1>1, <2>3 DEF TypeOK, Tx
  <2> QED
    BY <2>1, <2>2, <2>3 DEF UndoRow
<1>2. /\ \A d \in Calls \ {c} : call'[d] = call[d] /\ tx'[d] = tx[d] /\ acting'[d] = acting[d]
      /\ At(c, "undo") /\ call'[c].pc = "unput" /\ call'[c].key = k
      /\ \A j \in Keys \ {k} : rows'[j] = rows[j] /\ tx'[c].rows[j] = tx[c].rows[j]
                              /\ (j \in undone' <=> j \in undone)
      /\ undone \subseteq undone' /\ tx'[c].jobs = tx[c].jobs /\ tx'[c].keys = tx[c].keys
      /\ acting[c] => /\ rows' = rows
                   /\ \/ tx'[c].doomed /\ tx'[c].rows = tx[c].rows
                      \/ tx'[c].rows[k] = NoFile /\ tx'[c].doomed = tx[c].doomed
      /\ ~acting[c] => /\ tx' = tx
                    /\ \/ rows' = rows /\ k \in undone'
                       \/ rows'[k] = NoFile /\ Free(c, k)
      /\ blobs' = blobs /\ jobs' = jobs /\ acting' = acting
      /\ drawn' = drawn /\ lost' = lost
  BY <1>a, <1>b
<1>3. TypeOK'
  BY <1>a, <1>b DEF TypeOK
<1>4. FreshInv'
  BY <1>1, <1>2 DEF Inv, FreshInv, Unused, Clean, Busy, At
<1>5. NewFileInv'
  BY <1>1, <1>2 DEF Inv, NewFileInv, Unused, Alone, Clean, Busy, At
<1>6. KeysInv'
  BY <1>1, <1>2 DEF Inv, KeysInv, NewFileInv, Unused, Alone, Clean, Busy, At, CallsInv
<1>7. LocksInv'
  BY <1>1, <1>2 DEF Inv, LocksInv, NewFileInv, Alone, Clean, At, KeysInv, CallsInv, Free
<1>8. CallsInv'
  BY <1>1, <1>2 DEF Inv, CallsInv, At
<1>9. JobsInv'
  BY <1>1, <1>2, FileConstants
  DEF Inv, JobsInv, NewFileInv, Unused, Alone, Clean, At, CallsInv
<1>10. UndoInv'
  BY <1>1, <1>2
  DEF Inv, UndoInv, NewFileInv, Alone, Busy, Void, At, KeysInv, CallsInv, Clean, Free
<1>11. BackedInv'
  BY <1>1, <1>2 DEF Inv, BackedInv, NewFileInv, Alone, Clean, Void, At
<1>12. BlobBacked'
  BY <1>1, <1>2 DEF Inv, BlobBacked, NewFileInv, Unused, At
<1>13. NoStrayBlob'
  BY <1>1, <1>2 DEF Inv, NoStrayBlob, CallsInv, Owes, At, KeysInv
<1> QED
  BY <1>3, <1>4, <1>5, <1>6, <1>7, <1>8, <1>9, <1>10, <1>11, <1>12, <1>13 DEF Inv

LEMMA UndoBlobInv ==
  ASSUME Inv, NEW c \in Calls, UndoBlob(c)
  PROVE  Inv'
<1> DEFINE k == call[c].key
<1>1. TypeOK /\ blobs \subseteq Keys /\ k \in Keys /\ call[c] \in Call /\ tx[c] \in Tx
      /\ \A d \in Calls : call[d].key \in Keys /\ tx[d].keys \subseteq Keys
                           /\ tx[d].jobs \subseteq Keys /\ acting[d] \in BOOLEAN
  BY Typed DEF Inv, TypeOK
<1>2. /\ \A d \in Calls \ {c} : call'[d] = call[d] /\ tx'[d] = tx[d] /\ acting'[d] = acting[d]
      /\ At(c, "unput") /\ call'[c].pc = "idle" /\ call'[c].key = k
      /\ blobs' \subseteq blobs /\ blobs \ blobs' \subseteq {k}
      /\ lost \subseteq lost' /\ lost' \subseteq Keys /\ (k \in blobs' => k \in lost')
      /\ rows' = rows /\ jobs' = jobs /\ acting' = acting /\ tx' = tx
      /\ drawn' = drawn /\ undone' = undone
  BY <1>1, GoEffect, RemoveBlobsEffect DEF UndoBlob
<1>3. TypeOK'
  BY <1>1, <1>2, GoEffect DEF UndoBlob, TypeOK
<1>4. FreshInv'
  BY <1>1, <1>2 DEF Inv, FreshInv, Unused, Clean, Busy, At
<1>5. NewFileInv'
  BY <1>1, <1>2 DEF Inv, NewFileInv, Unused, Alone, Clean, Busy, At
<1>6. KeysInv'
  BY <1>1, <1>2 DEF Inv, KeysInv, NewFileInv, Unused, Alone, Clean, Busy, At
<1>7. LocksInv'
  BY <1>1, <1>2 DEF Inv, LocksInv, NewFileInv, Alone, Clean, At
<1>8. CallsInv'
  BY <1>1, <1>2 DEF Inv, CallsInv, At
<1>9. JobsInv'
  BY <1>1, <1>2, FileConstants DEF Inv, JobsInv, NewFileInv, Unused, Alone, Clean, At
<1>10. UndoInv'
  BY <1>1, <1>2 DEF Inv, UndoInv, NewFileInv, Alone, Busy, Void, At
<1>11. BackedInv'
  BY <1>1, <1>2 DEF Inv, BackedInv, NewFileInv, Alone, Clean, Void, At, UndoInv
<1>12. BlobBacked'
  BY <1>1, <1>2 DEF Inv, BlobBacked, NewFileInv, Unused, At, UndoInv
<1>13. NoStrayBlob'
  BY <1>1, <1>2 DEF Inv, NoStrayBlob, CallsInv, Owes, At
<1> QED
  BY <1>3, <1>4, <1>5, <1>6, <1>7, <1>8, <1>9, <1>10, <1>11, <1>12, <1>13 DEF Inv

LEMMA AttachWriteInv ==
  ASSUME Inv, NEW c \in Calls, AttachWrite(c)
  PROVE  Inv'
<1> DEFINE k == call[c].key
<1>1. TypeOK /\ blobs \subseteq Keys /\ k \in Keys /\ call[c] \in Call /\ tx[c] \in Tx
      /\ \A d \in Calls : call[d].key \in Keys /\ tx[d].keys \subseteq Keys
                           /\ tx[d].jobs \subseteq Keys /\ acting[d] \in BOOLEAN
  BY Typed DEF Inv, TypeOK
<1>a. call[c].target \in Row /\ call[c].target \notin {Same, NoFile}
  BY <1>1, FileConstants DEF Call, Row
<1>b. /\ At(c, "write") /\ UNCHANGED <<blobs, jobs, acting, drawn, lost, undone>> /\ ~tx[c].doomed
      /\ call' \in [Calls -> Call] /\ call'[c].key = k /\ call'[c].pc = "idle"
      /\ \A d \in Calls \ {c} : call'[d] = call[d]
  BY <1>1, GoEffect DEF AttachWrite
<1>c. /\ rows' \in [Keys -> Row] /\ tx' \in [Calls -> Tx]
      /\ \A d \in Calls \ {c} : tx'[d] = tx[d]
      /\ \A j \in Keys \ {k} : rows'[j] = rows[j] /\ tx'[c].rows[j] = tx[c].rows[j]
      /\ tx'[c].jobs = tx[c].jobs /\ tx'[c].keys = tx[c].keys /\ tx'[c].doomed = tx[c].doomed
      /\ \/ rows' = rows /\ tx' = tx
         \/ /\ Seen(c, k) # NoFile /\ Free(c, k)
            /\ IF acting[c] THEN rows' = rows /\ tx'[c].rows[k] \notin {Same, NoFile}
                            ELSE rows'[k] # NoFile /\ tx' = tx
  <2>1. CASE Seen(c, k) = NoFile
    BY <1>1, <2>1 DEF AttachWrite, TypeOK
  <2>2. CASE Seen(c, k) # NoFile
    BY <1>1, <1>a, <2>2, WriteEffect DEF AttachWrite
  <2> QED
    BY <2>1, <2>2
<1>2. /\ \A d \in Calls \ {c} : call'[d] = call[d] /\ tx'[d] = tx[d] /\ acting'[d] = acting[d]
      /\ At(c, "write") /\ call'[c].pc = "idle" /\ call'[c].key = k /\ ~tx[c].doomed
      /\ \A j \in Keys \ {k} : rows'[j] = rows[j] /\ tx'[c].rows[j] = tx[c].rows[j]
      /\ tx'[c].jobs = tx[c].jobs /\ tx'[c].keys = tx[c].keys /\ tx'[c].doomed = tx[c].doomed
      /\ \/ rows' = rows /\ tx' = tx
         \/ /\ Seen(c, k) # NoFile /\ Free(c, k)
            /\ IF acting[c] THEN rows' = rows /\ tx'[c].rows[k] \notin {Same, NoFile}
                            ELSE rows'[k] # NoFile /\ tx' = tx
      /\ blobs' = blobs /\ jobs' = jobs /\ acting' = acting
      /\ drawn' = drawn /\ lost' = lost /\ undone' = undone
  BY <1>b, <1>c
<1>3. TypeOK'
  BY <1>1, <1>b, <1>c DEF TypeOK
<1>4. FreshInv'
  BY <1>1, <1>2 DEF Inv, FreshInv, Unused, Clean, Busy, At
<1>5. NewFileInv'
  BY <1>1, <1>2 DEF Inv, NewFileInv, Unused, Alone, Clean, Busy, At
<1>6. KeysInv'
  BY <1>1, <1>2 DEF Inv, KeysInv, NewFileInv, Unused, Alone, Clean, Busy, At
<1>7. LocksInv'
  BY <1>1, <1>2 DEF Inv, LocksInv, NewFileInv, Alone, Clean, At, Free
<1>8. CallsInv'
  BY <1>1, <1>2 DEF Inv, CallsInv, At, Seen
<1>9. JobsInv'
  BY <1>1, <1>2, FileConstants
  DEF Inv, JobsInv, NewFileInv, Unused, Alone, Clean, At, Seen
<1>10. UndoInv'
  BY <1>1, <1>2 DEF Inv, UndoInv, NewFileInv, Alone, Busy, Void, At, Seen
<1>11. BackedInv'
  BY <1>1, <1>2 DEF Inv, BackedInv, NewFileInv, Alone, Clean, Void, At, Seen, BlobBacked
<1>12. BlobBacked'
  BY <1>1, <1>2 DEF Inv, BlobBacked, NewFileInv, Unused, At, Seen, BackedInv, Void
<1>13. NoStrayBlob'
  BY <1>1, <1>2 DEF Inv, NoStrayBlob, CallsInv, Owes, At
<1> QED
  BY <1>3, <1>4, <1>5, <1>6, <1>7, <1>8, <1>9, <1>10, <1>11, <1>12, <1>13 DEF Inv

LEMMA RemoveRowInv ==
  ASSUME Inv, NEW c \in Calls, RemoveRow(c)
  PROVE  Inv'
<1> DEFINE k == call[c].key
<1>1. TypeOK /\ blobs \subseteq Keys /\ k \in Keys /\ call[c] \in Call /\ tx[c] \in Tx
      /\ \A d \in Calls : call[d].key \in Keys /\ tx[d].keys \subseteq Keys
                           /\ tx[d].jobs \subseteq Keys /\ acting[d] \in BOOLEAN
  BY Typed DEF Inv, TypeOK
<1>b. /\ At(c, "delete") /\ UNCHANGED <<rows, blobs, jobs, acting, drawn, lost, undone>>
      /\ ~tx[c].doomed
      /\ call' \in [Calls -> Call] /\ call'[c].key = k
      /\ \A d \in Calls \ {c} : call'[d] = call[d]
  BY <1>1, GoEffect DEF RemoveRow
<1>c. /\ tx' \in [Calls -> Tx] /\ \A d \in Calls \ {c} : tx'[d] = tx[d]
      /\ \A j \in Keys \ {k} : tx'[c].rows[j] = tx[c].rows[j]
      /\ tx'[c].keys = tx[c].keys /\ tx'[c].doomed = tx[c].doomed
      /\ \/ tx' = tx /\ call'[c].pc = "idle"
         \/ /\ tx'[c].rows[k] = NoFile /\ Free(c, k)
            /\ tx'[c].jobs = tx[c].jobs \cup {k}
            /\ call'[c].pc = IF acting[c] THEN "idle" ELSE "commit"
  <2>1. CASE Seen(c, k) = NoFile
    BY <1>1, <2>1, GoEffect DEF RemoveRow, TypeOK
  <2>2. CASE Seen(c, k) # NoFile
    <3>1. tx' = [tx EXCEPT ![c].rows[k] = NoFile, ![c].jobs = @ \cup {k}]
      BY <2>2 DEF RemoveRow
    <3>2. tx'[c] = [rows |-> [tx[c].rows EXCEPT ![k] = NoFile], jobs |-> tx[c].jobs \cup {k},
                    keys |-> tx[c].keys, doomed |-> tx[c].doomed]
      BY <1>1, <3>1 DEF TypeOK, Tx
    <3>3. tx'[c] \in Tx
      BY <1>1, <3>2 DEF Tx, Row
    <3>4. tx' = [tx EXCEPT ![c] = tx'[c]]
      BY <3>1 DEF TypeOK
    <3>5. tx' \in [Calls -> Tx] /\ \A d \in Calls \ {c} : tx'[d] = tx[d]
      BY <1>1, <3>3, <3>4 DEF TypeOK
    <3>6. call'[c].pc = IF acting[c] THEN "idle" ELSE "commit"
      BY <1>1, <2>2, GoEffect DEF RemoveRow
    <3>7. tx[c].rows \in [Keys -> Row \cup {Same}]
      BY <1>1 DEF Tx
    <3> QED
      BY <1>1, <2>2, <3>2, <3>5, <3>6, <3>7 DEF RemoveRow
  <2> QED
    BY <2>1, <2>2
<1>2. /\ \A d \in Calls \ {c} : call'[d] = call[d] /\ tx'[d] = tx[d] /\ acting'[d] = acting[d]
      /\ At(c, "delete") /\ call'[c].key = k /\ ~tx[c].doomed
      /\ \A j \in Keys \ {k} : tx'[c].rows[j] = tx[c].rows[j]
      /\ tx'[c].keys = tx[c].keys /\ tx'[c].doomed = tx[c].doomed
      /\ \/ tx' = tx /\ call'[c].pc = "idle"
         \/ /\ tx'[c].rows[k] = NoFile /\ Free(c, k)
            /\ tx'[c].jobs = tx[c].jobs \cup {k}
            /\ call'[c].pc = IF acting[c] THEN "idle" ELSE "commit"
      /\ rows' = rows /\ blobs' = blobs /\ jobs' = jobs /\ acting' = acting
      /\ drawn' = drawn /\ lost' = lost /\ undone' = undone
  BY <1>b, <1>c
<1>3. TypeOK'
  BY <1>1, <1>b, <1>c DEF TypeOK
<1>4. FreshInv'
  BY <1>1, <1>2 DEF Inv, FreshInv, Unused, Clean, Busy, At
<1>5. NewFileInv'
  BY <1>1, <1>2 DEF Inv, NewFileInv, Unused, Alone, Clean, Busy, At
<1>6. KeysInv'
  BY <1>1, <1>2 DEF Inv, KeysInv, NewFileInv, Unused, Alone, Clean, Busy, At
<1>7. LocksInv'
  BY <1>1, <1>2 DEF Inv, LocksInv, NewFileInv, Alone, Clean, At, Free
<1>8. CallsInv'
  BY <1>1, <1>2 DEF Inv, CallsInv, At
<1>9. JobsInv'
  BY <1>1, <1>2, FileConstants DEF Inv, JobsInv, NewFileInv, Unused, Alone, Clean, At
<1>10. UndoInv'
  BY <1>1, <1>2 DEF Inv, UndoInv, NewFileInv, Alone, Busy, Void, At
<1>11. BackedInv'
  BY <1>1, <1>2 DEF Inv, BackedInv, NewFileInv, Alone, Clean, Void, At
<1>12. BlobBacked'
  BY <1>1, <1>2 DEF Inv, BlobBacked, NewFileInv, Unused, At
<1>13. NoStrayBlob'
  BY <1>1, <1>2 DEF Inv, NoStrayBlob, CallsInv, Owes, At
<1> QED
  BY <1>3, <1>4, <1>5, <1>6, <1>7, <1>8, <1>9, <1>10, <1>11, <1>12, <1>13 DEF Inv

LEMMA BeginInv ==
  ASSUME Inv, NEW c \in Calls, Begin(c)
  PROVE  Inv'
<1>1. /\ At(c, "idle") /\ \A k \in Keys : tx[c].rows[k] = Same
      /\ tx[c].jobs = {} /\ tx[c].keys = {} /\ ~tx[c].doomed
      /\ acting'[c] /\ \A d \in Calls \ {c} : acting'[d] = acting[d]
      /\ UNCHANGED <<rows, blobs, jobs, call, tx, drawn, lost, undone>>
      /\ \A d \in Calls : tx[d].keys \subseteq Keys
  BY IdleTyped, Typed DEF Begin, Inv, TypeOK, CallsInv, At
<1>0. TypeOK'
  BY DEF Begin, Inv, TypeOK
<1>2. FreshInv'
  BY <1>1 DEF Inv, FreshInv, Unused, Clean, Busy, At
<1>3. NewFileInv'
  BY <1>1 DEF Inv, NewFileInv, Unused, Alone, Clean, Busy, At
<1>4. KeysInv'
  BY <1>1 DEF Inv, KeysInv, NewFileInv, Unused, Alone, Clean, Busy, At
<1>5. LocksInv'
  BY <1>1 DEF Inv, LocksInv, NewFileInv, Alone, Clean, At
<1>6. CallsInv'
  BY <1>1 DEF Inv, CallsInv, At
<1>7. JobsInv'
  BY <1>1, FileConstants DEF Inv, JobsInv, NewFileInv, Unused, Alone, Clean, At
<1>8. UndoInv'
  BY <1>1 DEF Inv, UndoInv, NewFileInv, Alone, Busy, Void, At
<1>9. BackedInv'
  BY <1>1 DEF Inv, BackedInv, NewFileInv, Alone, Clean, Void, At
<1>10. BlobBacked'
  BY <1>1 DEF Inv, BlobBacked, NewFileInv, Unused, At
<1>11. NoStrayBlob'
  BY <1>1 DEF Inv, NoStrayBlob, CallsInv, Owes, At
<1> QED
  BY <1>0, <1>2, <1>3, <1>4, <1>5, <1>6, <1>7, <1>8, <1>9, <1>10, <1>11 DEF Inv

LEMMA CleanupInv ==
  ASSUME Inv, NEW k \in Keys, Cleanup(k)
  PROVE  Inv'
<1>1. /\ jobs[k] = "queued" /\ jobs'[k] # "none"
      /\ \A j \in Keys \ {k} : jobs'[j] = jobs[j]
      /\ blobs' = blobs \ {k} /\ lost' = lost
      /\ UNCHANGED <<rows, call, acting, tx, drawn, undone>>
      /\ blobs \subseteq Keys /\ \A d \in Calls : call[d].key \in Keys /\ tx[d].keys \subseteq Keys
  BY Typed DEF Cleanup, Inv, TypeOK
<1>0. TypeOK'
  BY DEF Cleanup, Inv, TypeOK
<1>2. FreshInv'
  BY <1>1 DEF Inv, FreshInv, Unused, Clean, Busy, At
<1>3. NewFileInv'
  BY <1>1 DEF Inv, NewFileInv, Unused, Alone, Clean, Busy, At, JobsInv
<1>4. KeysInv'
  BY <1>1 DEF Inv, KeysInv, NewFileInv, Unused, Alone, Clean, Busy, At, JobsInv
<1>5. LocksInv'
  BY <1>1 DEF Inv, LocksInv, NewFileInv, Alone, Clean, At
<1>6. CallsInv'
  BY <1>1 DEF Inv, CallsInv, At
<1>7. JobsInv'
  BY <1>1, FileConstants DEF Inv, JobsInv, NewFileInv, Unused, Alone, Clean, At
<1>8. UndoInv'
  BY <1>1 DEF Inv, UndoInv, NewFileInv, Alone, Busy, Void, At
<1>9. BackedInv'
  BY <1>1 DEF Inv, BackedInv, NewFileInv, Alone, Clean, Void, At, JobsInv
<1>10. BlobBacked'
  BY <1>1 DEF Inv, BlobBacked, NewFileInv, Unused, At, JobsInv
<1>11. NoStrayBlob'
  BY <1>1 DEF Inv, NoStrayBlob, CallsInv, Owes, At
<1> QED
  BY <1>0, <1>2, <1>3, <1>4, <1>5, <1>6, <1>7, <1>8, <1>9, <1>10, <1>11 DEF Inv

LEMMA CleanupGivesUpInv ==
  ASSUME Inv, NEW k \in Keys, CleanupGivesUp(k)
  PROVE  Inv'
<1>1. /\ jobs[k] = "queued" /\ jobs'[k] # "none"
      /\ \A j \in Keys \ {k} : jobs'[j] = jobs[j]
      /\ blobs' = blobs /\ lost' = lost \cup {k}
      /\ UNCHANGED <<rows, call, acting, tx, drawn, undone>>
      /\ blobs \subseteq Keys /\ \A d \in Calls : call[d].key \in Keys /\ tx[d].keys \subseteq Keys
  BY Typed DEF CleanupGivesUp, Inv, TypeOK
<1>0. TypeOK'
  BY DEF CleanupGivesUp, Inv, TypeOK
<1>2. FreshInv'
  BY <1>1 DEF Inv, FreshInv, Unused, Clean, Busy, At
<1>3. NewFileInv'
  BY <1>1 DEF Inv, NewFileInv, Unused, Alone, Clean, Busy, At, JobsInv
<1>4. KeysInv'
  BY <1>1 DEF Inv, KeysInv, NewFileInv, Unused, Alone, Clean, Busy, At, JobsInv
<1>5. LocksInv'
  BY <1>1 DEF Inv, LocksInv, NewFileInv, Alone, Clean, At
<1>6. CallsInv'
  BY <1>1 DEF Inv, CallsInv, At
<1>7. JobsInv'
  BY <1>1, FileConstants DEF Inv, JobsInv, NewFileInv, Unused, Alone, Clean, At
<1>8. UndoInv'
  BY <1>1 DEF Inv, UndoInv, NewFileInv, Alone, Busy, Void, At
<1>9. BackedInv'
  BY <1>1 DEF Inv, BackedInv, NewFileInv, Alone, Clean, Void, At, JobsInv
<1>10. BlobBacked'
  BY <1>1 DEF Inv, BlobBacked, NewFileInv, Unused, At, JobsInv
<1>11. NoStrayBlob'
  BY <1>1 DEF Inv, NoStrayBlob, CallsInv, Owes, At
<1> QED
  BY <1>0, <1>2, <1>3, <1>4, <1>5, <1>6, <1>7, <1>8, <1>9, <1>10, <1>11 DEF Inv

-----------------------------------------------------------------------------
(* The steps that are instances of the three lemmas above.                 *)

LEMMA CallMovesInv ==
  ASSUME Inv, NEW c \in Calls,
         \/ EventAdded(c) \/ EventFails(c) \/ OpenBlob(c)
         \/ \E k \in Keys : \/ \E t \in Targets : Attach(c, k, t)
                            \/ Open(c, k) \/ Remove(c, k)
  PROVE  Inv'
<1>1. TypeOK
  BY DEF Inv
<1>2. CASE EventAdded(c) \/ EventFails(c) \/ OpenBlob(c)
  <2>1. PICK pc \in {"idle", "undo"} :
          /\ Go(c, pc) /\ UNCHANGED <<rows, blobs, jobs, acting, tx, drawn, lost, undone>>
          /\ At(c, "event") \/ (At(c, "blob") /\ pc = "idle")
    <3>1. CASE EventAdded(c) \/ OpenBlob(c)
      BY <3>1 DEF EventAdded, OpenBlob
    <3>2. CASE EventFails(c)
      BY <3>2 DEF EventFails
    <3> QED
      BY <1>2, <3>1, <3>2
  <2>2. /\ call' \in [Calls -> Call] /\ call'[c].pc = pc /\ call'[c].key = call[c].key
        /\ \A d \in Calls \ {c} : call'[d] = call[d]
    BY <1>1, <2>1, GoEffect
  <2>3. TypeOK'
    BY <1>1, <2>1, <2>2 DEF TypeOK
  <2> QED
    BY <2>1, <2>2, <2>3, MovesInv DEF Busy, At
<1>3. ASSUME NEW k \in Keys, NEW t \in Targets \cup {Unattached}, NEW pc \in {"write", "blob", "delete"},
             At(c, "idle"), Seen(c, k) # NoFile,
             call' = [call EXCEPT ![c] = [pc |-> pc, key |-> k, target |-> t]],
             UNCHANGED <<rows, blobs, jobs, acting, tx, drawn, lost, undone>>
      PROVE  Inv'
  <2>1. /\ call' \in [Calls -> Call] /\ call'[c].pc = pc /\ call'[c].key = k
        /\ \A d \in Calls \ {c} : call'[d] = call[d]
    BY <1>1, <1>3 DEF TypeOK, Call
  <2>2. TypeOK'
    BY <1>1, <1>3, <2>1 DEF TypeOK
  <2> QED
    BY <1>3, <2>1, <2>2, MovesInv DEF At
<1>4. ASSUME NEW k \in Keys, \/ \E t \in Targets : Attach(c, k, t)
                             \/ Open(c, k) \/ Remove(c, k)
      PROVE  Inv'
  <2>1. CASE \E t \in Targets : Attach(c, k, t)
    BY <1>3, <2>1, FileConstants DEF Attach
  <2>2. CASE Open(c, k) \/ Remove(c, k)
    <3>1. Seen(c, k) \in Targets /\ Seen(c, k) # NoFile
      BY <2>2, FileConstants DEF Open, Remove
    <3> QED
      BY <1>3, <2>2, <3>1 DEF Open, Remove
  <2> QED
    BY <1>4, <2>1, <2>2
<1> QED
  BY <1>2, <1>4

LEMMA CallEndsInv ==
  ASSUME Inv, NEW c \in Calls,
         CallFails(c) \/ RemoveCommit(c) \/ Commit(c) \/ CommitFails(c) \/ Rollback(c) \/ Crash(c)
  PROVE  Inv'
<1>1. TypeOK /\ call[c].key \in Keys /\ tx[c].keys \subseteq Keys /\ blobs \subseteq Keys
  BY Typed DEF Inv, TypeOK
<1>2. /\ rows' = Written(c) => rows' \in [Keys -> Row]
      /\ jobs' = Enqueued(c) => jobs' \in [Keys -> {"none", "queued", "done"}]
  BY <1>1, Typed DEF TypeOK, Written, Enqueued, Seen
<1>3. Close(c) => tx' \in [Calls -> Tx]
  BY <1>1, CloseEffect
<1>4. Go(c, "idle") => /\ call' \in [Calls -> Call] /\ call'[c].pc = "idle"
                       /\ \A d \in Calls \ {c} : call'[d] = call[d]
  BY <1>1, GoEffect
<1>5. CASE CallFails(c) /\ ~At(c, "commit")
  <2>1. TypeOK'
    BY <1>1, <1>4, <1>5 DEF CallFails, TypeOK
  <2> QED
    BY <1>4, <1>5, <2>1, MovesInv DEF CallFails, At
<1>6. CASE CallFails(c) /\ At(c, "commit")
  <2>1. TypeOK'
    BY <1>1, <1>3, <1>4, <1>6 DEF CallFails, TypeOK
  <2>2. ~acting[c] /\ \A k \in Keys : ~Owes(c, k)
    BY <1>1, <1>6 DEF Inv, CallsInv, KeysInv, Owes, At
  <2> QED
    <3>1. /\ Close(c) /\ UNCHANGED <<rows, blobs, jobs, acting, drawn, lost, undone>>
          /\ call'[c].pc = "idle" /\ \A d \in Calls \ {c} : call'[d] = call[d]
      BY <1>4, <1>6 DEF CallFails
    <3>2. \A k \in blobs' : k \in blobs /\ ~Owes(c, k)
      BY <1>1, <2>2, <3>1
    <3> QED
      BY <2>1, <2>2, <3>1, <3>2, GiveUpInv
<1>7. CASE RemoveCommit(c)
  <2>1. TypeOK'
    BY <1>1, <1>2, <1>3, <1>4, <1>7 DEF RemoveCommit, TypeOK
  <2>2. ~acting[c] /\ ~tx[c].doomed
    BY <1>7 DEF RemoveCommit, Inv, CallsInv
  <2> QED
    BY <1>4, <1>7, <2>1, <2>2, PublishInv DEF RemoveCommit, At
<1>8. ASSUME Ends(c)
      PROVE  /\ acting' \in [Calls -> BOOLEAN] /\ ~acting'[c] /\ call' = call /\ At(c, "idle")
             /\ \A d \in Calls \ {c} : acting'[d] = acting[d]
             /\ Close(c)
  BY <1>1, <1>8 DEF Ends, Stay, TypeOK
<1>9. CASE Ends(c) /\ ~tx[c].doomed /\ rows' = Written(c) /\ jobs' = Enqueued(c)
           /\ lost \subseteq lost' /\ lost' \subseteq Keys /\ UNCHANGED <<blobs, drawn, undone>>
  <2>1. TypeOK'
    BY <1>1, <1>2, <1>3, <1>8, <1>9 DEF TypeOK
  <2> QED
    BY <1>8, <1>9, <2>1, PublishInv DEF At
<1>10. CASE Ends(c) /\ UNCHANGED <<rows, jobs, drawn, undone>>
            /\ blobs' \subseteq blobs /\ blobs \ blobs' \subseteq tx[c].keys
            /\ lost \subseteq lost' /\ lost' \subseteq Keys /\ tx[c].keys \cap blobs' \subseteq lost'
  <2>1. TypeOK'
    BY <1>1, <1>3, <1>8, <1>10 DEF TypeOK
  <2>2. \A k \in blobs' : Owes(c, k) => k \in lost'
    BY <1>8, <1>10 DEF Owes, At
  <2>3. lost \subseteq lost' /\ \A k \in blobs' : k \in blobs
    BY <1>10
  <2> QED
    <3>1. \A k \in Keys : k \in blobs \ blobs' => k \in tx[c].keys
      BY <1>10
    <3>2. /\ Close(c) /\ call'[c].pc = "idle" /\ ~acting'[c]
          /\ \A d \in Calls \ {c} : call'[d] = call[d] /\ acting'[d] = acting[d]
      BY <1>8, <1>10 DEF At
    <3> QED
      BY <1>10, <2>1, <2>2, <2>3, <3>1, <3>2, GiveUpInv
<1>11. CASE Commit(c)
  BY <1>1, <1>9, <1>11 DEF Commit, TypeOK
<1>12. CASE CommitFails(c)
  BY <1>1, <1>9, <1>10, <1>12 DEF CommitFails, TypeOK
<1>13. CASE Rollback(c)
  BY <1>1, <1>10, <1>13, RemoveBlobsEffect DEF Rollback
<1>14. CASE Crash(c)
  <2> DEFINE k == call[c].key
             torn == IF call[c].pc \in {"put", "insert", "unput"} THEN {k} ELSE {}
  <2>1. /\ lost' = (lost \cup tx[c].keys) \cup torn
        /\ blobs' = blobs \/ (At(c, "put") /\ blobs' = blobs \cup {k})
        /\ acting' = [acting EXCEPT ![c] = FALSE]
        /\ Close(c) /\ Go(c, "idle") /\ UNCHANGED <<rows, jobs, drawn, undone>>
    BY <1>14 DEF Crash
  <2>2. TypeOK'
    BY <1>1, <1>3, <1>4, <2>1 DEF TypeOK
  <2>3. \A j \in blobs' : Owes(c, j) => j \in lost'
    BY <2>1 DEF Owes, At
  <2>4. \A j \in blobs' : j \in blobs \/ (j \in lost' /\ Busy(c, j))
    BY <2>1 DEF Busy, At
  <2>5. ~acting'[c] /\ \A d \in Calls \ {c} : acting'[d] = acting[d]
    BY <1>1, <2>1 DEF TypeOK
  <2> QED
    <3>1. /\ \A j \in Keys : j \in blobs \ blobs' => j \in tx[c].keys
          /\ lost \subseteq lost'
      BY <2>1
    <3>2. /\ Close(c) /\ call'[c].pc = "idle" /\ UNCHANGED <<rows, jobs, drawn, undone>>
          /\ \A d \in Calls \ {c} : call'[d] = call[d] /\ acting'[d] = acting[d]
      BY <1>4, <2>1, <2>5
    <3> QED
      BY <2>2, <2>3, <2>4, <2>5, <3>1, <3>2, GiveUpInv
<1> QED
  BY <1>5, <1>6, <1>7, <1>11, <1>12, <1>13, <1>14

LEMMA NextInv == Inv /\ [Next]_vars => Inv'
<1> SUFFICES ASSUME Inv, [Next]_vars PROVE Inv'
  OBVIOUS
<1>1. CASE \E c \in Calls, k \in Keys :
             \/ \E t \in Targets \cup {Unattached} : Upload(c, k, t)
             \/ \E t \in Targets : Attach(c, k, t)
             \/ Open(c, k) \/ Remove(c, k)
  BY <1>1, UploadInv, CallMovesInv
<1>2. ASSUME NEW c \in Calls,
             \/ Put(c) \/ PutFails(c) \/ Insert(c) \/ InsertFails(c)
             \/ EventAdded(c) \/ EventFails(c) \/ UndoRow(c) \/ UndoBlob(c)
             \/ AttachWrite(c) \/ OpenBlob(c)
      PROVE  Inv'
  BY <1>2, PutInv, PutFailsInv, InsertInv, InsertFailsInv, CallMovesInv, UndoRowInv,
     UndoBlobInv, AttachWriteInv
<1>3. ASSUME NEW c \in Calls,
             \/ RemoveRow(c) \/ RemoveCommit(c) \/ CallFails(c)
             \/ Begin(c) \/ Commit(c) \/ CommitFails(c) \/ Rollback(c) \/ Crash(c)
      PROVE  Inv'
  BY <1>3, RemoveRowInv, CallEndsInv, BeginInv
<1>4. CASE \E k \in Keys : Cleanup(k) \/ CleanupGivesUp(k)
  BY <1>4, CleanupInv, CleanupGivesUpInv
<1>5. CASE UNCHANGED vars
  BY <1>5
  DEF vars, Inv, TypeOK, FreshInv, NewFileInv, KeysInv, LocksInv, CallsInv, JobsInv, 
     UndoInv, BackedInv, BlobBacked, NoStrayBlob, Unused, Alone, Clean, Busy, Void, Owes, At
<1> QED
  BY <1>1, <1>2, <1>3, <1>4, <1>5 DEF Next

THEOREM Invariant == Spec => []Inv
BY InitInv, NextInv, PTL DEF Spec

-----------------------------------------------------------------------------

\* Rows, jobs, calls and transactions stay well formed (internal/files).
THEOREM TypeCorrect == Spec => []TypeOK
<1>1. Inv => TypeOK
  BY DEF Inv
<1> QED
  BY <1>1, Invariant, PTL

\* A committed file row has its blob, whatever uploads, removals, actions and
\* cleanup jobs run at the same time (internal/files/files.go, actions).
THEOREM RowsHaveBlobs == Spec => []BlobBacked
<1>1. Inv => BlobBacked
  BY DEF Inv
<1> QED
  BY <1>1, Invariant, PTL

\* No blob is forgotten but by a crash, an ambiguous commit or the disk.
THEOREM NoBlobForgotten == Spec => []NoStrayBlob
<1>1. Inv => NoStrayBlob
  BY DEF Inv
<1> QED
  BY <1>1, Invariant, PTL
=============================================================================
