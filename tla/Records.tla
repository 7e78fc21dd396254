------------------------------ MODULE Records -------------------------------
(***************************************************************************)
(* Record mutations (internal/db): creating, editing, moving and deleting  *)
(* the Records of one Entity that is or becomes a tree, reading its paths, *)
(* and drawing names from a naming series.  Every mutation runs in a       *)
(* transaction, or in a savepoint of the one an action, a hook or a job    *)
(* opened; transactions are READ COMMITTED, so each statement sees what    *)
(* has committed when it starts and what its own transaction wrote.        *)
(* A row is its parent and the rows of its one collection field, in their  *)
(* order or any other; the collection rows stand for the other fields too. *)
(* A deleted or not yet created row has the parent Absent.                 *)
(***************************************************************************)
EXTENDS Naturals, FiniteSets

CONSTANTS
  Nodes,     \* record ids
  Root,      \* the parent of a row without one
  Absent,    \* the parent of a row that does not exist
  Kids,      \* ids of collection rows
  Sessions,  \* database connections
  MaxOps,    \* mutations and reads in one transaction
  MaxNames,  \* names drawn from the series
  Same       \* a transaction has not written this row

ASSUME RecordConstants ==
  /\ IsFiniteSet(Nodes) /\ IsFiniteSet(Sessions)
  /\ Root \notin Nodes /\ Absent \notin Nodes /\ Root # Absent
  /\ IsFiniteSet(Kids) /\ MaxOps \in Nat /\ MaxNames \in Nat

Parents == Nodes \cup {Root, Absent}
Row == [parent : Parents, kids : SUBSET Kids]
Gone == [parent |-> Absent, kids |-> {}]

ASSUME SameIsNoRow == Same \notin Row

VARIABLES
  rows,    \* rows[n]: the committed row
  isTree,  \* the Entity's metadata declares a tree
  series,  \* the committed counter of the naming series
  taken,   \* taken[i]: committed Records with the i-th name of the series
  sess,    \* sess[s]: the mutation session s is in the middle of
  tx,      \* tx[s]: what the transaction of s wrote, locked and read
  late     \* history: a mutation that read its metadata before the Entity
           \* became a tree wrote its row afterwards

vars == <<rows, isTree, series, taken, sess, tx, late>>

Session == [pc : {"out", "in", "lock", "load", "check", "write", "read"},
            op : {"none", "create", "edit", "move", "delete"},
            id : Nodes \cup {Root}, row : Row, add : BOOLEAN, old : Row,
            aware : BOOLEAN, was : {"none", "shared", "exclusive"}]
Idle(pc) == [pc |-> pc, op |-> "none", id |-> Root, row |-> Gone, add |-> FALSE,
             old |-> Gone, aware |-> FALSE, was |-> "none"]
Tx == [rows : [Nodes -> Row \cup {Same}], held : SUBSET Nodes, keys : SUBSET Nodes,
       lock : {"none", "shared", "exclusive"}, names : SUBSET (1 .. MaxNames),
       path : SUBSET Nodes, left : 0 .. MaxOps]
IdleTx == [rows |-> [n \in Nodes |-> Same], held |-> {}, keys |-> {}, lock |-> "none",
           names |-> {}, path |-> {}, left |-> MaxOps]

TypeOK ==
  /\ rows \in [Nodes -> Row]
  /\ isTree \in BOOLEAN /\ late \in BOOLEAN
  /\ series \in 0 .. MaxNames
  /\ taken \in [1 .. MaxNames -> Nat]
  /\ sess \in [Sessions -> Session]
  /\ tx \in [Sessions -> Tx]

Init ==
  /\ rows = [n \in Nodes |-> Gone]
  /\ isTree = FALSE /\ late = FALSE
  /\ series = 0
  /\ taken = [i \in 1 .. MaxNames |-> 0]
  /\ sess = [s \in Sessions |-> Idle("out")]
  /\ tx = [s \in Sessions |-> IdleTx]

-----------------------------------------------------------------------------
(* Trees as functions from nodes to parents.                               *)

\* The nodes on the path from p to its root, p included.
Above(f, p) ==
  {n \in Nodes : \A C \in SUBSET Nodes :
     (p \in C /\ \A m \in C : f[m] \in Nodes => f[m] \in C) => n \in C}

\* Every non-empty set of nodes has one whose parent is outside it.
Acyclic(f) == \A S \in SUBSET Nodes : S # {} => \E n \in S : f[n] \notin S
ParentsExist(f) == \A n \in Nodes : f[n] \in Nodes => f[f[n]] # Absent
IsForest(f) == Acyclic(f) /\ ParentsExist(f)

-----------------------------------------------------------------------------
(* What a statement of session s sees and waits for.                       *)

Seen(s, n) == IF tx[s].rows[n] = Same THEN rows[n] ELSE tx[s].rows[n]
Shape(s) == [n \in Nodes |-> Seen(s, n).parent]
Exists(s, n) == Seen(s, n).parent # Absent

\* Rows are locked FOR UPDATE; the foreign key of a link locks the row it
\* points at FOR KEY SHARE.
Free(s, n) == \A t \in Sessions \ {s} : n \notin tx[t].held \cup tx[t].keys
KeyFree(s, n) == \A t \in Sessions \ {s} : n \notin tx[t].held

\* The advisory lock dygo.tree:<table>, held to the end of the transaction.
MayExclude(s) == \A t \in Sessions \ {s} : tx[t].lock = "none"
MayShare(s) == \A t \in Sessions \ {s} : tx[t].lock # "exclusive"

At(s, pc) == sess[s].pc = pc
Go(s, pc) == sess' = [sess EXCEPT ![s].pc = pc]
Done(s, pc) == sess' = [sess EXCEPT ![s] = Idle(pc)]

-----------------------------------------------------------------------------
(* Transactions.                                                           *)

Begin(s) ==
  /\ At(s, "out")
  /\ Done(s, "in")
  /\ UNCHANGED <<rows, isTree, series, taken, tx, late>>

Commit(s) ==
  /\ At(s, "in")
  /\ rows' = [n \in Nodes |-> Seen(s, n)]
  /\ series' = series + Cardinality(tx[s].names)
  /\ taken' = [i \in 1 .. MaxNames |-> IF i \in tx[s].names THEN taken[i] + 1 ELSE taken[i]]
  /\ tx' = [tx EXCEPT ![s] = IdleTx]
  /\ Done(s, "out")
  /\ UNCHANGED <<isTree, late>>

\* An error the caller passes on, a lost connection, or the victim of a
\* deadlock: everything is undone and every lock released.
Abort(s) ==
  /\ ~At(s, "out")
  /\ tx' = [tx EXCEPT ![s] = IdleTx]
  /\ Done(s, "out")
  /\ UNCHANGED <<rows, isTree, series, taken, late>>

-----------------------------------------------------------------------------
(* Mutations.                                                              *)

\* The layout is loaded first: whether the Entity is a tree is known from it.
\* A new record has an id of its own.  The collection is submitted as the ids
\* of rows to keep, none for a record that is created, and with a new row or
\* without one.
Mutate(s, op, n, row, add) ==
  /\ At(s, "in") /\ tx[s].left > 0
  /\ op = "create" => rows[n].parent = Absent /\ tx[s].rows[n] = Same /\ Free(s, n)
  /\ sess' = [sess EXCEPT ![s].pc = "lock", ![s].op = op, ![s].id = n, ![s].row = row,
                          ![s].add = add, ![s].aware = isTree, ![s].was = tx[s].lock]
  /\ tx' = [tx EXCEPT ![s].left = @ - 1, ![s].held = IF op = "create" THEN @ \cup {n} ELSE @]
  /\ UNCHANGED <<rows, isTree, series, taken, late>>

\* Mutant: the structural lock is shared with other writers.
LockTreeShared(s) ==
  /\ At(s, "lock")
  /\ IF sess[s].aware THEN MayShare(s) /\ tx' = [tx EXCEPT ![s].lock = "shared"]
                      ELSE UNCHANGED tx
  /\ Go(s, IF sess[s].op = "create" THEN "check" ELSE "load")
  /\ UNCHANGED <<rows, isTree, series, taken, late>>

\* Before structural state is read.
LockTree(s) ==
  /\ At(s, "lock")
  /\ IF sess[s].aware THEN MayExclude(s) /\ tx' = [tx EXCEPT ![s].lock = "exclusive"]
                      ELSE UNCHANGED tx
  /\ Go(s, IF sess[s].op = "create" THEN "check" ELSE "load")
  /\ UNCHANGED <<rows, isTree, series, taken, late>>

\* The savepoint of the mutation is rolled back, with the locks it took.
Refuse(s) ==
  /\ tx' = [tx EXCEPT ![s].lock = sess[s].was,
                      ![s].held = {n \in @ : n # sess[s].id \/ tx[s].rows[n] # Same}]
  /\ Done(s, "in")
  /\ UNCHANGED <<rows, isTree, series, taken, late>>

\* Mutant: the row is read without FOR UPDATE.
LoadUnlocked(s) ==
  /\ At(s, "load") /\ Free(s, sess[s].id)
  /\ Exists(s, sess[s].id)
  /\ sess' = [sess EXCEPT ![s].pc = "check", ![s].old = Seen(s, sess[s].id)]
  /\ UNCHANGED <<rows, isTree, series, taken, late, tx>>

\* The target is locked before hooks and validation look at it.
Load(s) ==
  /\ At(s, "load") /\ Free(s, sess[s].id)
  /\ Exists(s, sess[s].id)
  /\ sess' = [sess EXCEPT ![s].pc = "check", ![s].old = Seen(s, sess[s].id)]
  /\ tx' = [tx EXCEPT ![s].held = @ \cup {sess[s].id}]
  /\ UNCHANGED <<rows, isTree, series, taken, late>>

LoadRefused(s) ==
  /\ At(s, "load") /\ ~Exists(s, sess[s].id)
  /\ Refuse(s)

\* Mutant: the search for the record starts above the new parent.
ParentValidAbove(s) ==
  LET p == sess[s].row.parent
  IN p \in Nodes =>
       /\ Exists(s, p)
       /\ sess[s].aware => sess[s].id \notin Above(Shape(s), p) \ {p}

\* A parent must exist, and may not lie below the record.
\* An Entity that is no tree only resolves the link.
ParentValid(s) ==
  LET p == sess[s].row.parent
  IN p \in Nodes =>
       /\ Exists(s, p)
       /\ sess[s].aware => sess[s].id \notin Above(Shape(s), p)

Childless(s) == \A n \in Nodes \ {sess[s].id} : Seen(s, n).parent # sess[s].id

Allowed(s) ==
  CASE sess[s].op = "delete" -> sess[s].aware => Childless(s)
    [] sess[s].op = "edit" -> TRUE
    [] OTHER -> ParentValid(s)

Check(s) ==
  /\ At(s, "check") /\ Allowed(s)
  /\ Go(s, "write")
  /\ UNCHANGED <<rows, isTree, series, taken, tx, late>>

\* A hook or a rule of the fields may refuse what the tree allows.
CheckRefused(s) ==
  /\ At(s, "check")
  /\ Refuse(s)

-----------------------------------------------------------------------------
(* Writing the row and its collection.                                     *)

\* A submitted collection row must be one that the record has.
OwnRows(s) == sess[s].op = "edit" => sess[s].row.kids \subseteq Seen(s, sess[s].id).kids

\* Ids of collection rows come from a sequence.
Unused(k) ==
  /\ \A n \in Nodes : k \notin rows[n].kids
  /\ \A t \in Sessions, n \in Nodes : tx[t].rows[n] # Same => k \notin tx[t].rows[n].kids
FreshIds(s) == {new \in SUBSET Kids : /\ Cardinality(new) = IF sess[s].add THEN 1 ELSE 0
                                     /\ \A k \in new : Unused(k)}

\* Rows that were not submitted again are deleted, new ones inserted.
Replaced(s, new) == sess[s].row.kids \cup new

\* What a create, an update and a delete make of the row and its collection:
\* an update leaves alone the fields that were not submitted.
Created(s, new) == [sess[s].row EXCEPT !.kids = new]
Updated(s, new) ==
  IF sess[s].op = "edit" THEN [Seen(s, sess[s].id) EXCEPT !.kids = Replaced(s, new)]
                         ELSE [Seen(s, sess[s].id) EXCEPT !.parent = sess[s].row.parent]
Deleted(s) == Gone
NewRow(s, new) ==
  CASE sess[s].op = "create" -> Created(s, new)
    [] sess[s].op = "delete" -> Deleted(s)
    [] OTHER -> Updated(s, new)

\* The row whose existence the foreign key of the written link demands.
Linked(s) ==
  IF sess[s].op \in {"create", "move"} THEN {sess[s].row.parent} \ {Root, sess[s].id} ELSE {}

Write(s) ==
  /\ At(s, "write")
  /\ \A p \in Linked(s) : KeyFree(s, p) /\ Exists(s, p)
  /\ sess[s].op = "delete" => Childless(s)
  /\ OwnRows(s)
  /\ \E new \in FreshIds(s) :
       tx' = [tx EXCEPT ![s].rows[sess[s].id] = NewRow(s, new), ![s].held = @ \cup {sess[s].id},
                        ![s].keys = @ \cup Linked(s)]
  /\ late' = (late \/ (isTree /\ ~sess[s].aware))
  /\ Done(s, "in")
  /\ UNCHANGED <<rows, isTree, series, taken>>

\* A foreign key or another constraint is violated, a collection row is not
\* the record's, or a hook that runs after the write fails.
WriteRefused(s) ==
  /\ At(s, "write")
  /\ Refuse(s)

-----------------------------------------------------------------------------
(* Reading a tree, naming, and declaring an Entity a tree.                 *)

\* Paths are read under the shared lock, which lasts like the exclusive one.
ReadPath(s, n) ==
  /\ At(s, "in") /\ isTree /\ tx[s].left > 0
  /\ MayShare(s) /\ Exists(s, n)
  /\ tx' = [tx EXCEPT ![s].lock = IF @ = "none" THEN "shared" ELSE @,
                      ![s].path = Above(Shape(s), n), ![s].left = @ - 1]
  /\ sess' = [sess EXCEPT ![s].pc = "read", ![s].id = n]
  /\ UNCHANGED <<rows, isTree, series, taken, late>>

\* The records and child indicators of the path are read in later statements.
EndRead(s) ==
  /\ At(s, "read")
  /\ Done(s, "in")
  /\ tx' = [tx EXCEPT ![s].path = {}]
  /\ UNCHANGED <<rows, isTree, series, taken, late>>

\* Mutant: the counter is read without waiting for other transactions.
DrawNameUnlocked(s) ==
  /\ At(s, "in") /\ tx[s].left > 0
  /\ series + Cardinality(tx[s].names) < MaxNames
  /\ tx' = [tx EXCEPT ![s].names = @ \cup {series + Cardinality(@) + 1}, ![s].left = @ - 1]
  /\ UNCHANGED <<rows, isTree, series, taken, sess, late>>

\* A Record of another Entity, no tree, is inserted with the next name of its
\* series; the counter's row is locked to the end of the transaction.
DrawName(s) ==
  /\ At(s, "in") /\ tx[s].left > 0
  /\ \A t \in Sessions \ {s} : tx[t].names = {}
  /\ series + Cardinality(tx[s].names) < MaxNames
  /\ tx' = [tx EXCEPT ![s].names = @ \cup {series + Cardinality(@) + 1}, ![s].left = @ - 1]
  /\ UNCHANGED <<rows, isTree, series, taken, sess, late>>

\* A migration locks the table against writers, which waits for the
\* transactions that have written it, validates the rows and commits.
Activate ==
  /\ ~isTree
  /\ \A s \in Sessions, n \in Nodes : tx[s].rows[n] = Same
  /\ IsForest([n \in Nodes |-> rows[n].parent])
  /\ isTree' = TRUE
  /\ UNCHANGED <<rows, series, taken, sess, tx, late>>

Next ==
  \/ Activate
  \/ \E s \in Sessions :
       \/ Begin(s) \/ Commit(s) \/ Abort(s)
       \/ \E n \in Nodes, add \in BOOLEAN :
            \/ \E p \in Nodes \cup {Root} : Mutate(s, "create", n, [parent |-> p, kids |-> {}], add)
            \/ \E kids \in SUBSET Kids :
                 /\ add => kids # Kids  \* bound: ids for new rows
                 /\ Mutate(s, "edit", n, [parent |-> Root, kids |-> kids], add)
       \/ \E n \in Nodes :
            \/ \E p \in Nodes \cup {Root} :
                 Mutate(s, "move", n, [parent |-> p, kids |-> {}], FALSE)
            \/ Mutate(s, "delete", n, Gone, FALSE)
       \/ LockTree(s) \/ Load(s) \/ LoadRefused(s) \/ Check(s) \/ CheckRefused(s)
       \/ Write(s) \/ WriteRefused(s)
       \/ \E n \in Nodes : ReadPath(s, n)
       \/ EndRead(s) \/ DrawName(s)

Spec == Init /\ [][Next]_vars

-----------------------------------------------------------------------------
(* Properties                                                              *)

\* The Records of a tree form a forest whose parents exist, however writers
\* interleave, unless a writer was already under way with the metadata of an
\* Entity without a tree when the tree was declared.
TreeIsForest == isTree /\ ~late => IsForest([n \in Nodes |-> rows[n].parent])

\* The record a mutation compares with, validates against and stores in the
\* Activity feed stays the exact predecessor of what it is about to write.
OldIsPredecessor ==
  \A s \in Sessions :
    sess[s].pc \in {"check", "write"} /\ sess[s].op # "create" =>
      sess[s].old = Seen(s, sess[s].id)

\* A path that has been read is still the path of the node when the records
\* on it are read.
PathsAreStable ==
  ~late => \A s \in Sessions : At(s, "read") => tx[s].path = Above(Shape(s), sess[s].id)

\* The names of a series are unique and without gaps.
NamesAreDense == \A i \in 1 .. MaxNames : taken[i] = IF i <= series THEN 1 ELSE 0
=============================================================================
