------------------------------- MODULE Files --------------------------------
(***************************************************************************)
(* The private file service (internal/files): a file is a row of core/file *)
(* and a blob on disk under a random storage key.  The blob is written     *)
(* before the row and removed by a job after the row's deletion commits.   *)
(* Calls come from HTTP requests, each statement of which commits by       *)
(* itself, and from Entity actions (internal/actions), whose statements    *)
(* all belong to one transaction and whose blobs are removed when the      *)
(* action fails.  A file is named by its key; its row is its target.       *)
(***************************************************************************)
EXTENDS FiniteSets

CONSTANTS
  Keys,       \* storage keys, each drawn once
  Targets,    \* the record fields a file can be attached to
  Calls,      \* requests and actions running at the same time
  Unattached, \* the row of a file without a target
  NoFile,     \* the row does not exist
  Same        \* a transaction has not written this row

ASSUME FileConstants ==
  /\ IsFiniteSet(Keys) /\ IsFiniteSet(Targets)
  /\ Unattached \notin Targets /\ NoFile \notin Targets \cup {Unattached}
  /\ Same \notin Targets \cup {Unattached, NoFile}

VARIABLES
  rows,    \* rows[k]: the committed row
  blobs,   \* the keys with a blob on disk
  jobs,    \* jobs[k]: the cleanup job of k
  call,    \* call[c]: the operation c is in the middle of
  acting,  \* acting[c]: c is an Entity action with an open transaction
  tx,      \* tx[c]: what the transaction of c has written
  drawn,   \* the keys drawn so far
  lost,    \* history: blobs given up after a crash, an ambiguous commit or a
           \* failing disk
  undone   \* history: rows whose failed upload removed the blob and could not
           \* delete the row

vars == <<rows, blobs, jobs, call, acting, tx, drawn, lost, undone>>

Row == Targets \cup {Unattached, NoFile}
Call == [pc : {"idle", "put", "insert", "event", "undo", "unput", "write",
               "blob", "delete", "commit"},
         key : Keys, target : Targets \cup {Unattached}]
Tx == [rows : [Keys -> Row \cup {Same}], jobs : SUBSET Keys,
       keys : SUBSET Keys, doomed : BOOLEAN]
IdleTx == [rows |-> [k \in Keys |-> Same], jobs |-> {}, keys |-> {}, doomed |-> FALSE]

TypeOK ==
  /\ rows \in [Keys -> Row]
  /\ blobs \subseteq Keys
  /\ jobs \in [Keys -> {"none", "queued", "done"}]
  /\ call \in [Calls -> Call]
  /\ acting \in [Calls -> BOOLEAN]
  /\ tx \in [Calls -> Tx]
  /\ drawn \subseteq Keys /\ lost \subseteq Keys /\ undone \subseteq Keys

Init ==
  /\ rows = [k \in Keys |-> NoFile]
  /\ blobs = {}
  /\ jobs = [k \in Keys |-> "none"]
  /\ call \in [Calls -> {r \in Call : r.pc = "idle" /\ r.target = Unattached}]
  /\ acting = [c \in Calls |-> FALSE]
  /\ tx = [c \in Calls |-> IdleTx]
  /\ drawn = {} /\ lost = {} /\ undone = {}

-----------------------------------------------------------------------------
(* Statements: what a call sees, whom it waits for, what it writes.        *)

\* Mutant: a transaction sees only its own writes.
SeenOwn(c, k) == tx[c].rows[k]

Seen(c, k) == IF tx[c].rows[k] = Same THEN rows[k] ELSE tx[c].rows[k]
Free(c, k) == \A d \in Calls \ {c} : tx[d].rows[k] = Same
At(c, pc) == call[c].pc = pc
Go(c, pc) == call' = [call EXCEPT ![c].pc = pc]
Stay == UNCHANGED call

Write(c, k, row) ==
  IF acting[c]
  THEN tx' = [tx EXCEPT ![c].rows[k] = row] /\ UNCHANGED rows
  ELSE rows' = [rows EXCEPT ![k] = row] /\ UNCHANGED tx

Written(c) == [k \in Keys |-> Seen(c, k)]
Enqueued(c) == [k \in Keys |-> IF k \in tx[c].jobs /\ jobs[k] = "none"
                               THEN "queued" ELSE jobs[k]]
Close(c) == tx' = [tx EXCEPT ![c] = IdleTx]

\* The blobs of S are removed; that the disk refused one is ignored.
RemoveBlobs(S) ==
  \E left \in SUBSET (S \cap blobs) : blobs' = (blobs \ S) \cup left /\ lost' = lost \cup left

-----------------------------------------------------------------------------
(* Upload                                                                  *)

\* The key is drawn; a target is authorised before anything is written.
Upload(c, k, t) ==
  /\ At(c, "idle") /\ k \notin drawn
  /\ drawn' = drawn \cup {k}
  /\ call' = [call EXCEPT ![c] = [pc |-> "put", key |-> k, target |-> t]]
  /\ UNCHANGED <<rows, blobs, jobs, acting, tx, lost, undone>>

\* An action's key is remembered, to be removed if the action fails.
Held(c, k) == IF acting[c] THEN [tx EXCEPT ![c].keys = @ \cup {k}] ELSE tx

Put(c) ==
  /\ At(c, "put")
  /\ blobs' = blobs \cup {call[c].key}
  /\ tx' = Held(c, call[c].key)
  /\ Go(c, "insert")
  /\ UNCHANGED <<rows, jobs, acting, drawn, lost, undone>>

\* A short or failing write removes the blob; a failing fsync leaves it.
PutFails(c) ==
  /\ At(c, "put")
  /\ \/ UNCHANGED <<blobs, lost>>
     \/ blobs' = blobs \cup {call[c].key} /\ lost' = lost \cup {call[c].key}
  /\ Go(c, "idle")
  /\ UNCHANGED <<rows, jobs, acting, tx, drawn, undone>>

Insert(c) ==
  /\ At(c, "insert") /\ ~tx[c].doomed
  /\ Write(c, call[c].key, call[c].target)
  /\ Go(c, IF call[c].target = Unattached THEN "idle" ELSE "event")
  /\ UNCHANGED <<blobs, jobs, acting, drawn, lost, undone>>

\* The insert reports an error; outside an action its commit may have been
\* carried out nevertheless.
InsertFails(c) ==
  /\ At(c, "insert")
  /\ \/ UNCHANGED <<rows, undone>>
     \/ ~acting[c] /\ rows' = [rows EXCEPT ![call[c].key] = call[c].target]
        /\ undone' = undone \cup {call[c].key}
  /\ RemoveBlobs({call[c].key})
  /\ Go(c, "idle")
  /\ UNCHANGED <<jobs, acting, tx, drawn>>

EventAdded(c) ==
  /\ At(c, "event") /\ ~tx[c].doomed
  /\ Go(c, "idle")
  /\ UNCHANGED <<rows, blobs, jobs, acting, tx, drawn, lost, undone>>

EventFails(c) ==
  /\ At(c, "event")
  /\ Go(c, "undo")
  /\ UNCHANGED <<rows, blobs, jobs, acting, tx, drawn, lost, undone>>

\* Whether the row could be deleted is ignored.  The request's context is
\* used, so a client that went away makes both the event and this delete
\* fail; in an action the transaction cannot commit then.
UndoRow(c) ==
  /\ At(c, "undo")
  /\ \/ Free(c, call[c].key) /\ ~tx[c].doomed /\ Write(c, call[c].key, NoFile) /\ UNCHANGED undone
     \/ /\ UNCHANGED rows
        /\ IF acting[c] THEN tx' = [tx EXCEPT ![c].doomed = TRUE] /\ UNCHANGED undone
                        ELSE undone' = undone \cup {call[c].key} /\ UNCHANGED tx
  /\ Go(c, "unput")
  /\ UNCHANGED <<blobs, jobs, acting, drawn, lost>>

UndoBlob(c) ==
  /\ At(c, "unput")
  /\ RemoveBlobs({call[c].key})
  /\ Go(c, "idle")
  /\ UNCHANGED <<rows, jobs, acting, tx, drawn, undone>>

-----------------------------------------------------------------------------
(* Attach and Open                                                         *)

\* The file is read and found unattached; the update follows.
Attach(c, k, t) ==
  /\ At(c, "idle") /\ ~tx[c].doomed
  /\ Seen(c, k) = Unattached
  /\ call' = [call EXCEPT ![c] = [pc |-> "write", key |-> k, target |-> t]]
  /\ UNCHANGED <<rows, blobs, jobs, acting, tx, drawn, lost, undone>>

\* The update is by id alone: it replaces whatever target the row has now,
\* and fails when the row is gone.
AttachWrite(c) ==
  /\ At(c, "write") /\ ~tx[c].doomed /\ Free(c, call[c].key)
  /\ IF Seen(c, call[c].key) = NoFile THEN UNCHANGED <<rows, tx>>
     ELSE Write(c, call[c].key, call[c].target)
  /\ Go(c, "idle")
  /\ UNCHANGED <<blobs, jobs, acting, drawn, lost, undone>>

Open(c, k) ==
  /\ At(c, "idle") /\ Seen(c, k) \in Targets
  /\ call' = [call EXCEPT ![c] = [pc |-> "blob", key |-> k, target |-> Seen(c, k)]]
  /\ UNCHANGED <<rows, blobs, jobs, acting, tx, drawn, lost, undone>>

\* The blob is opened, or its absence reported.
OpenBlob(c) ==
  /\ At(c, "blob")
  /\ Go(c, "idle")
  /\ UNCHANGED <<rows, blobs, jobs, acting, tx, drawn, lost, undone>>

-----------------------------------------------------------------------------
(* Remove                                                                  *)

Remove(c, k) ==
  /\ At(c, "idle") /\ Seen(c, k) \in Targets
  /\ call' = [call EXCEPT ![c] = [pc |-> "delete", key |-> k, target |-> Seen(c, k)]]
  /\ UNCHANGED <<rows, blobs, jobs, acting, tx, drawn, lost, undone>>

\* The row is deleted and the cleanup job enqueued in one transaction, the
\* action's own when there is one.
RemoveRow(c) ==
  /\ At(c, "delete") /\ ~tx[c].doomed /\ Free(c, call[c].key)
  /\ IF Seen(c, call[c].key) = NoFile THEN UNCHANGED tx /\ Go(c, "idle")
     ELSE /\ tx' = [tx EXCEPT ![c].rows[call[c].key] = NoFile,
                              ![c].jobs = @ \cup {call[c].key}]
          /\ Go(c, IF acting[c] THEN "idle" ELSE "commit")
  /\ UNCHANGED <<rows, blobs, jobs, acting, drawn, lost, undone>>

RemoveCommit(c) ==
  /\ At(c, "commit")
  /\ rows' = Written(c) /\ jobs' = Enqueued(c)
  /\ Close(c) /\ Go(c, "idle")
  /\ UNCHANGED <<blobs, acting, drawn, lost, undone>>

\* Any statement of an operation may fail before it changes anything.
CallFails(c) ==
  /\ call[c].pc \in {"write", "blob", "delete", "commit"}
  /\ IF At(c, "commit") THEN Close(c) ELSE UNCHANGED tx
  /\ Go(c, "idle")
  /\ UNCHANGED <<rows, blobs, jobs, acting, drawn, lost, undone>>

-----------------------------------------------------------------------------
(* Entity actions                                                          *)

Begin(c) ==
  /\ At(c, "idle") /\ ~acting[c]
  /\ acting' = [acting EXCEPT ![c] = TRUE]
  /\ UNCHANGED <<rows, blobs, jobs, call, tx, drawn, lost, undone>>

Ends(c) ==
  /\ At(c, "idle") /\ acting[c]
  /\ acting' = [acting EXCEPT ![c] = FALSE]
  /\ Close(c) /\ Stay

Commit(c) ==
  /\ Ends(c) /\ ~tx[c].doomed
  /\ rows' = Written(c) /\ jobs' = Enqueued(c)
  /\ UNCHANGED <<blobs, drawn, lost, undone>>

\* Mutant: a commit that reports an error is taken for one that failed.
CommitFailsClean(c) ==
  /\ Ends(c)
  /\ \/ UNCHANGED <<rows, jobs>>
     \/ ~tx[c].doomed /\ rows' = Written(c) /\ jobs' = Enqueued(c)
  /\ blobs' = blobs \ tx[c].keys
  /\ UNCHANGED <<lost, drawn, undone>>

\* The commit reports an error: the blobs are kept, for it may have been
\* carried out.
CommitFails(c) ==
  /\ Ends(c)
  /\ \/ UNCHANGED <<rows, jobs>>
     \/ ~tx[c].doomed /\ rows' = Written(c) /\ jobs' = Enqueued(c)
  /\ lost' = lost \cup tx[c].keys
  /\ UNCHANGED <<blobs, drawn, undone>>

\* Mutant: only the database is rolled back.
RollbackRows(c) ==
  /\ Ends(c)
  /\ UNCHANGED <<rows, jobs, blobs, drawn, lost, undone>>

\* The action's function returned an error.
Rollback(c) ==
  /\ Ends(c)
  /\ RemoveBlobs(tx[c].keys)
  /\ UNCHANGED <<rows, jobs, drawn, undone>>

\* The server dies in the middle of the call.
Crash(c) ==
  /\ acting[c] \/ ~At(c, "idle")
  /\ LET k == call[c].key
         torn == IF call[c].pc \in {"put", "insert", "unput"} THEN {k} ELSE {}
     IN /\ lost' = lost \cup tx[c].keys \cup torn
        /\ \/ At(c, "put") /\ blobs' = blobs \cup {k}
           \/ UNCHANGED blobs
  /\ acting' = [acting EXCEPT ![c] = FALSE]
  /\ Close(c) /\ Go(c, "idle")
  /\ UNCHANGED <<rows, jobs, drawn, undone>>

-----------------------------------------------------------------------------
(* The cleanup job core/delete-file-blob, retried by the job queue.        *)

\* Removing a blob that is gone already is no error.
Cleanup(k) ==
  /\ jobs[k] = "queued"
  /\ blobs' = blobs \ {k}
  /\ \/ jobs' = [jobs EXCEPT ![k] = "done"]
     \/ UNCHANGED jobs
  /\ UNCHANGED <<rows, call, acting, tx, drawn, lost, undone>>

\* The disk refuses until the attempts are used up.
CleanupGivesUp(k) ==
  /\ jobs[k] = "queued"
  /\ jobs' = [jobs EXCEPT ![k] = "done"]
  /\ lost' = lost \cup {k}
  /\ UNCHANGED <<rows, blobs, call, acting, tx, drawn, undone>>

Next ==
  \/ \E c \in Calls, k \in Keys :
       \/ \E t \in Targets \cup {Unattached} : Upload(c, k, t)
       \/ \E t \in Targets : Attach(c, k, t)
       \/ Open(c, k) \/ Remove(c, k)
  \/ \E c \in Calls :
       \/ Put(c) \/ PutFails(c) \/ Insert(c) \/ InsertFails(c)
       \/ EventAdded(c) \/ EventFails(c) \/ UndoRow(c) \/ UndoBlob(c)
       \/ AttachWrite(c) \/ OpenBlob(c)
       \/ RemoveRow(c) \/ RemoveCommit(c) \/ CallFails(c)
       \/ Begin(c) \/ Commit(c) \/ CommitFails(c) \/ Rollback(c) \/ Crash(c)
  \/ \E k \in Keys : Cleanup(k) \/ CleanupGivesUp(k)

Spec == Init /\ [][Next]_vars

-----------------------------------------------------------------------------
(* Properties                                                              *)

\* A committed file row always has its blob, whatever other calls roll back,
\* clean up or retry.  The exceptions are the uploads of undone.
BlobBacked == \A k \in Keys : rows[k] # NoFile => k \in blobs \cup undone

\* A call that still owes the blob of k a row or a removal.
Owes(c, k) ==
  \/ k \in tx[c].keys
  \/ call[c].key = k /\ call[c].pc \in {"insert", "unput"}

\* No blob is forgotten: it has a committed row, a cleanup job that has not
\* ended, a running call that owes it a row or a removal, or it was lost to a
\* crash, an ambiguous commit or the disk.
NoStrayBlob ==
  \A k \in blobs : \/ rows[k] # NoFile \/ jobs[k] = "queued" \/ k \in lost
                   \/ \E c \in Calls : Owes(c, k)
=============================================================================
