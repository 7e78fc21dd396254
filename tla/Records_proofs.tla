--------------------------- MODULE Records_proofs ---------------------------
(***************************************************************************)
(* Theorems about Records, for every set of ids and any number of sessions *)
(* that interleave their mutations, commits and failures.                  *)
(***************************************************************************)
EXTENDS Records, FiniteSetTheorems, TLAPS

-----------------------------------------------------------------------------
(* The inductive invariant.                                                *)

Mutating(s) == sess[s].pc \in {"lock", "load", "check", "write"}
Wrote(s, n) == tx[s].rows[n] # Same
Writer(s) == \E n \in Nodes : Wrote(s, n)

\* The parents of the committed rows.
Tree == [n \in Nodes |-> rows[n].parent]

\* What a mutation has locked by the time it gets to a step, and what it
\* knows of its target.
MutationOf(s) ==
  Mutating(s) =>
    /\ sess[s].id \in Nodes
    /\ sess[s].op \in {"create", "edit", "move", "delete"}
    /\ sess[s].op \in {"create", "move"} => sess[s].row.parent # Absent
    /\ sess[s].op = "create" =>
         /\ ~At(s, "load") /\ sess[s].id \in tx[s].held
         /\ rows[sess[s].id].parent = Absent /\ ~Wrote(s, sess[s].id)
    /\ sess[s].pc \in {"check", "write"} /\ sess[s].op # "create" =>
         /\ sess[s].id \in tx[s].held
         /\ sess[s].old = Seen(s, sess[s].id) /\ Exists(s, sess[s].id)
MutationInv == \A s \in Sessions : MutationOf(s)

\* A written row is locked, and a locked row is locked by one session.
HeldInv ==
  /\ \A s \in Sessions, n \in Nodes : Wrote(s, n) => n \in tx[s].held
  /\ \A s, t \in Sessions : s # t => tx[s].held \cap tx[t].held = {}

\* The structural lock: who holds it, and since when.
LockOf(s) ==
  /\ Mutating(s) => tx[s].lock \in {sess[s].was, "exclusive"}
  /\ sess[s].aware => isTree
  /\ sess[s].aware /\ sess[s].pc \in {"load", "check", "write"} => tx[s].lock = "exclusive"
  /\ isTree /\ ~late /\ Writer(s) =>
       tx[s].lock = "exclusive" /\ (Mutating(s) => sess[s].was = "exclusive")
  /\ At(s, "read") => isTree /\ tx[s].lock # "none"
LockInv ==
  /\ \A s, t \in Sessions : s # t /\ tx[s].lock = "exclusive" => tx[t].lock = "none"
  /\ \A s \in Sessions : LockOf(s)

\* What is committed is a forest and so is what every session sees, and a
\* check that was passed is still passed.
ForestOf(s) ==
  /\ isTree => IsForest(Shape(s))
  /\ At(s, "write") /\ sess[s].aware => Allowed(s)
  /\ At(s, "read") => tx[s].path = Above(Shape(s), sess[s].id)
ForestInv ==
  ~late => /\ isTree => IsForest(Tree)
           /\ \A s \in Sessions : ForestOf(s)

\* One transaction draws names at a time, and it draws the next ones.
NamesInv ==
  /\ \A s, t \in Sessions : s # t => tx[s].names = {} \/ tx[t].names = {}
  /\ \A s \in Sessions : \E k \in Nat :
       series + k <= MaxNames /\ tx[s].names = (series + 1) .. (series + k)
  /\ NamesAreDense

Inv == TypeOK /\ MutationInv /\ HeldInv /\ LockInv /\ ForestInv /\ NamesInv

-----------------------------------------------------------------------------
(* Forests.  A closed set of nodes is one that holds the parents of its    *)
(* nodes.                                                                  *)

Closed(f, C) == C \in SUBSET Nodes /\ \A m \in C : f[m] \in Nodes => f[m] \in C

LEMMA NodesDiffer ==
  /\ Root \notin Nodes /\ Absent \notin Nodes /\ Root # Absent
  /\ \A n \in Nodes : n # Root /\ n # Absent
BY RecordConstants

\* A node is on its own path.
LEMMA AboveSelf == ASSUME NEW f, NEW p \in Nodes PROVE p \in Above(f, p)
BY DEF Above

\* What is not on the path of p is outside some closed set around p.
LEMMA NotAbove ==
  ASSUME NEW f, NEW p \in Nodes, NEW n \in Nodes, n \notin Above(f, p)
  PROVE  \E C : Closed(f, C) /\ p \in C /\ n \notin C
BY DEF Above, Closed

\* A node that nothing links to may be given any parent but itself.
LEMMA LeafKeepsForest ==
  ASSUME NEW f \in [Nodes -> Parents], NEW g \in [Nodes -> Parents], NEW x \in Nodes,
         IsForest(f),
         \A n \in Nodes \ {x} : g[n] = f[n] /\ f[n] # x,
         g[x] \in Nodes => g[x] # x /\ f[g[x]] # Absent
  PROVE  IsForest(g)
<1>1. Acyclic(g)
  <2> SUFFICES ASSUME NEW S \in SUBSET Nodes, S # {} PROVE \E n \in S : g[n] \notin S
    BY DEF Acyclic
  <2>1. CASE S = {x}
    BY <2>1
  <2>2. CASE S # {x}
    <3>1. S \ {x} \in SUBSET Nodes /\ S \ {x} # {}
      BY <2>2
    <3>2. PICK n \in S \ {x} : f[n] \notin S \ {x}
      BY <3>1 DEF IsForest, Acyclic
    <3>3. QED
      BY <3>2
  <2>3. QED
    BY <2>1, <2>2
<1>2. ParentsExist(g)
  <2> SUFFICES ASSUME NEW n \in Nodes, g[n] \in Nodes PROVE g[g[n]] # Absent
    BY DEF ParentsExist
  <2>1. CASE n = x
    BY <2>1
  <2>2. CASE n # x
    BY <2>2 DEF IsForest, ParentsExist
  <2>3. QED
    BY <2>1, <2>2
<1>3. QED
  BY <1>1, <1>2 DEF IsForest

\* A record may be moved under any that does not have it on its path.
LEMMA MoveKeepsForest ==
  ASSUME NEW f \in [Nodes -> Parents], NEW g \in [Nodes -> Parents], NEW x \in Nodes,
         IsForest(f),
         \A n \in Nodes \ {x} : g[n] = f[n],
         g[x] # Absent,
         g[x] \in Nodes => x \notin Above(f, g[x]) /\ f[g[x]] # Absent
  PROVE  IsForest(g)
<1>1. Acyclic(g)
  <2> SUFFICES ASSUME NEW S \in SUBSET Nodes, S # {} PROVE \E n \in S : g[n] \notin S
    BY DEF Acyclic
  <2>1. CASE x \notin S
    BY <2>1 DEF IsForest, Acyclic
  <2>2. CASE g[x] \notin S
    <3>1. CASE x \in S
      BY <3>1, <2>2
    <3>2. QED
      BY <3>1, <2>1
  <2>3. CASE x \in S /\ g[x] \in S
    <3>1. g[x] \in Nodes
      BY <2>3
    <3>2. PICK C : Closed(f, C) /\ g[x] \in C /\ x \notin C
      BY <3>1, NotAbove
    <3>3. C \cap S \in SUBSET Nodes /\ C \cap S # {}
      BY <2>3, <3>2 DEF Closed
    <3>4. PICK n \in C \cap S : f[n] \notin C \cap S
      BY <3>3 DEF IsForest, Acyclic
    <3>5. n \in Nodes /\ n # x /\ g[n] = f[n]
      BY <3>2, <3>4
    <3>6. f[n] \notin S
      BY <3>2, <3>4, <3>5 DEF Closed
    <3>7. QED
      BY <3>4, <3>5, <3>6
  <2>4. QED
    BY <2>1, <2>2, <2>3
<1>2. ParentsExist(g)
  <2> SUFFICES ASSUME NEW n \in Nodes, g[n] \in Nodes PROVE g[g[n]] # Absent
    BY DEF ParentsExist
  <2>1. f[n] \in Nodes => f[f[n]] # Absent
    BY DEF IsForest, ParentsExist
  <2>2. CASE n # x /\ g[n] # x
    BY <2>1, <2>2
  <2>3. CASE n # x /\ g[n] = x
    BY <2>3
  <2>4. CASE n = x
    BY <2>4, AboveSelf
  <2>5. QED
    BY <2>2, <2>3, <2>4
<1>3. QED
  BY <1>1, <1>2 DEF IsForest

-----------------------------------------------------------------------------
(* The steps.                                                              *)

\* The mutations a session may start.
Start(s) ==
  \E op \in {"create", "edit", "move", "delete"}, n \in Nodes, row \in Row, add \in BOOLEAN :
    /\ op \in {"create", "move"} => row.parent # Absent
    /\ Mutate(s, op, n, row, add)

\* A mutation that fails for whatever reason.
Refused(s) == Mutating(s) /\ Refuse(s)

Other(s) ==
  \/ Begin(s) \/ Abort(s) \/ Start(s) \/ LockTree(s) \/ Load(s) \/ Refused(s)
  \/ Check(s) \/ \E n \in Nodes : ReadPath(s, n)
  \/ EndRead(s) \/ DrawName(s)

LEMMA NextCases == Next => Activate \/ \E s \in Sessions : Commit(s) \/ Write(s) \/ Other(s)
<1> SUFFICES ASSUME Next, ~Activate
             PROVE  \E s \in Sessions : Commit(s) \/ Write(s) \/ Other(s)
  OBVIOUS
<1>1. ASSUME NEW p \in Nodes \cup {Root}, NEW kids \in SUBSET Kids
      PROVE  LET row == [parent |-> p, kids |-> kids] IN row \in Row /\ row.parent # Absent
  BY NodesDiffer DEF Row, Parents
<1>2. Gone \in Row
  BY DEF Gone, Row, Parents
<1>3. ASSUME NEW s \in Sessions, NEW n \in Nodes, NEW add \in BOOLEAN,
             NEW p \in Nodes \cup {Root},
             Mutate(s, "create", n, [parent |-> p, kids |-> {}], add)
      PROVE  Start(s)
  BY <1>1, <1>3 DEF Start
<1>4. ASSUME NEW s \in Sessions, NEW n \in Nodes, NEW add \in BOOLEAN,
             NEW kids \in SUBSET Kids,
             Mutate(s, "edit", n, [parent |-> Root, kids |-> kids], add)
      PROVE  Start(s)
  BY <1>1, <1>4 DEF Start
<1>5. ASSUME NEW s \in Sessions, NEW n \in Nodes, NEW p \in Nodes \cup {Root},
             Mutate(s, "move", n, [parent |-> p, kids |-> {}], FALSE)
      PROVE  Start(s)
  BY <1>1, <1>5 DEF Start
<1>6. ASSUME NEW s \in Sessions, NEW n \in Nodes, Mutate(s, "delete", n, Gone, FALSE)
      PROVE  Start(s)
  BY <1>2, <1>6 DEF Start
<1>7. ASSUME NEW s \in Sessions, LoadRefused(s) \/ CheckRefused(s) \/ WriteRefused(s)
      PROVE  Refused(s)
  BY <1>7 DEF Refused, Mutating, LoadRefused, CheckRefused, WriteRefused, At
<1>8. QED
  BY <1>3, <1>4, <1>5, <1>6, <1>7 DEF Next, Other

LEMMA SeenRow ==
  ASSUME TypeOK, NEW s \in Sessions, NEW n \in Nodes PROVE Seen(s, n) \in Row
BY DEF TypeOK, Tx, Seen

LEMMA ShapeType == ASSUME TypeOK, NEW s \in Sessions PROVE Shape(s) \in [Nodes -> Parents]
BY SeenRow DEF Shape, Row

LEMMA TreeType == ASSUME TypeOK PROVE Tree \in [Nodes -> Parents]
BY DEF Tree, TypeOK, Row

\* What becomes of the row a mutation writes.
LEMMA WrittenRow ==
  ASSUME TypeOK, NEW s \in Sessions, sess[s].id \in Nodes, NEW new \in SUBSET Kids
  PROVE  /\ NewRow(s, new) \in Row
         /\ sess[s].op = "create" => NewRow(s, new).parent = sess[s].row.parent
         /\ sess[s].op = "delete" => NewRow(s, new).parent = Absent
         /\ sess[s].op = "edit" => NewRow(s, new).parent = Seen(s, sess[s].id).parent
         /\ sess[s].op = "move" => NewRow(s, new).parent = sess[s].row.parent
<1>1. Seen(s, sess[s].id) \in Row /\ sess[s].row \in Row
      /\ sess[s].op \in {"none", "create", "edit", "move", "delete"}
  BY SeenRow DEF TypeOK, Session
<1>2. Replaced(s, new) \in SUBSET Kids
  BY <1>1 DEF Replaced, Row
<1>3. Gone \in Row /\ Gone.parent = Absent
  BY DEF Gone, Row, Parents
<1>4. CASE sess[s].op = "create"
  BY <1>1, <1>4 DEF NewRow, Created, Row
<1>5. CASE sess[s].op = "delete"
  BY <1>3, <1>5 DEF NewRow, Deleted
<1>6. CASE sess[s].op = "edit"
  BY <1>1, <1>2, <1>6 DEF NewRow, Updated, Row
<1>7. CASE sess[s].op \notin {"create", "delete", "edit"}
  <2>1. NewRow(s, new) = [Seen(s, sess[s].id) EXCEPT !.parent = sess[s].row.parent]
    BY <1>7 DEF NewRow, Updated
  <2>2. QED
    BY <1>1, <1>7, <2>1 DEF Row
<1>8. QED
  BY <1>4, <1>5, <1>6, <1>7

\* What a transaction has drawn is a part of the series.
LEMMA DrawnNames ==
  ASSUME TypeOK, NamesInv, NEW s \in Sessions
  PROVE  \E k \in Nat : /\ series + k <= MaxNames
                        /\ tx[s].names = (series + 1) .. (series + k)
                        /\ Cardinality(tx[s].names) = k
<1>1. PICK k \in Nat : series + k <= MaxNames /\ tx[s].names = (series + 1) .. (series + k)
  BY DEF NamesInv
<1>2. series \in Nat
  BY DEF TypeOK
<1>3. series + 1 \in Int /\ series + k \in Int
  BY <1>2
<1>4. Cardinality(tx[s].names) = k
  BY <1>1, <1>2, <1>3, FS_Interval
<1>5. QED
  BY <1>1, <1>4

-----------------------------------------------------------------------------
(* Types.                                                                  *)

LEMMA SessType ==
  ASSUME TypeOK, NEW s \in Sessions
  PROVE  /\ sess[s] \in Session /\ tx[s] \in Tx
         /\ \A pc \in {"out", "in", "lock", "load", "check", "write", "read"} :
              /\ Idle(pc) \in Session
              /\ Done(s, pc) => sess' \in [Sessions -> Session]
              /\ Go(s, pc) => sess' \in [Sessions -> Session]
<1>1. sess[s] \in Session /\ tx[s] \in Tx
  BY DEF TypeOK
<1>2. Gone \in Row
  BY DEF Gone, Row, Parents
<1>3. ASSUME NEW pc \in {"out", "in", "lock", "load", "check", "write", "read"}
      PROVE  Idle(pc) \in Session /\ [sess[s] EXCEPT !.pc = pc] \in Session
  BY <1>1, <1>2 DEF Idle, Session
<1>4. QED
  BY <1>1, <1>3 DEF TypeOK, Done, Go

LEMMA TypeStep ==
  ASSUME TypeOK, MutationInv, NamesInv, Next PROVE TypeOK'
<1>1. Gone \in Row /\ IdleTx \in Tx
  BY RecordConstants DEF Gone, Row, Parents, IdleTx, Tx
<1>2. CASE Activate
  BY <1>2 DEF Activate, TypeOK
<1>3. ASSUME NEW s \in Sessions, Commit(s) PROVE TypeOK'
  <2>1. PICK k \in Nat : series + k <= MaxNames /\ Cardinality(tx[s].names) = k
    BY DrawnNames
  <2>2. series' \in 0 .. MaxNames
    BY <1>3, <2>1, RecordConstants DEF Commit, TypeOK
  <2>3. rows' \in [Nodes -> Row]
    BY <1>3, SeenRow DEF Commit
  <2>4. taken' \in [1 .. MaxNames -> Nat]
    BY <1>3 DEF Commit, TypeOK
  <2>5. tx' \in [Sessions -> Tx] /\ sess' \in [Sessions -> Session]
    BY <1>1, <1>3, SessType DEF Commit, TypeOK
  <2>6. QED
    BY <1>3, <2>2, <2>3, <2>4, <2>5 DEF Commit, TypeOK
<1>4. ASSUME NEW s \in Sessions, Write(s) PROVE TypeOK'
  <2>1. PICK new \in FreshIds(s) :
          tx' = [tx EXCEPT ![s].rows[sess[s].id] = NewRow(s, new),
                           ![s].held = @ \cup {sess[s].id}, ![s].keys = @ \cup Linked(s)]
    BY <1>4 DEF Write
  <2>2. new \in SUBSET Kids /\ sess[s].id \in Nodes /\ Mutating(s)
    BY <1>4, <2>1 DEF FreshIds, Write, MutationInv, MutationOf, Mutating, At
  <2>3. Linked(s) \subseteq Nodes
    <3>1. sess[s].row.parent \in Parents
      BY SessType DEF Session, Row
    <3>2. sess[s].op \in {"create", "move"} => sess[s].row.parent # Absent
      BY <2>2 DEF MutationInv, MutationOf
    <3>3. QED
      BY <3>1, <3>2 DEF Linked, Parents
  <2>4. NewRow(s, new) \in Row
    BY <2>2, WrittenRow
  <2>5. tx' \in [Sessions -> Tx]
    <3>1. [tx[s].rows EXCEPT ![sess[s].id] = NewRow(s, new)] \in [Nodes -> Row \cup {Same}]
      BY <2>2, <2>4, SessType DEF Tx
    <3>2. tx'[s] \in Tx
      <4>1. tx'[s] = [tx[s] EXCEPT !.rows = [tx[s].rows EXCEPT ![sess[s].id] = NewRow(s, new)],
                                   !.held = tx[s].held \cup {sess[s].id},
                                   !.keys = tx[s].keys \cup Linked(s)]
        BY <2>1 DEF TypeOK
      <4>2. QED
        <5>1. PICK r \in [Nodes -> Row \cup {Same}] :
                r = [tx[s].rows EXCEPT ![sess[s].id] = NewRow(s, new)]
          BY <3>1
        <5>2. PICK h \in SUBSET Nodes, k \in SUBSET Nodes :
                h = tx[s].held \cup {sess[s].id} /\ k = tx[s].keys \cup Linked(s)
          BY <2>2, <2>3, SessType DEF Tx
        <5>3. tx'[s] = [tx[s] EXCEPT !.rows = r, !.held = h, !.keys = k]
          BY <4>1, <5>1, <5>2
        <5>4. QED
          BY <5>3, SessType DEF Tx
    <3>3. QED
      BY <2>1, <3>2 DEF TypeOK
  <2>6. sess' \in [Sessions -> Session] /\ late' \in BOOLEAN
    BY <1>4, SessType DEF Write, TypeOK
  <2>7. QED
    BY <1>4, <2>5, <2>6 DEF Write, TypeOK
<1>5. ASSUME NEW s \in Sessions, Other(s) PROVE TypeOK'
  <2>1. sess[s] \in Session /\ tx[s] \in Tx
    BY SessType
  <2>2. CASE Begin(s)
    BY <2>2, SessType DEF Begin, TypeOK
  <2>3. CASE Abort(s)
    BY <1>1, <2>3, SessType DEF Abort, TypeOK
  <2>4. CASE Start(s)
    <3>1. PICK op \in {"create", "edit", "move", "delete"}, n \in Nodes, row \in Row,
               add \in BOOLEAN : Mutate(s, op, n, row, add)
      BY <2>4 DEF Start
    <3>2. [sess[s] EXCEPT !.pc = "lock", !.op = op, !.id = n, !.row = row, !.add = add,
                          !.aware = isTree, !.was = tx[s].lock] \in Session
      BY <2>1 DEF Session, Tx, TypeOK
    <3>3. sess' \in [Sessions -> Session]
      BY <3>1, <3>2 DEF Mutate, TypeOK
    <3>4. tx[s].left - 1 \in 0 .. MaxOps
      BY <2>1, <3>1, RecordConstants DEF Mutate, Tx
    <3>5. tx' \in [Sessions -> Tx]
      <4>1. tx'[s] \in Tx
        BY <2>1, <3>1, <3>4 DEF Mutate, TypeOK, Tx
      <4>2. QED
        BY <3>1, <4>1 DEF Mutate, TypeOK
    <3>6. QED
      BY <3>1, <3>3, <3>5 DEF Mutate, TypeOK
  <2>5. CASE LockTree(s)
    <3>1. tx' \in [Sessions -> Tx]
      <4>1. tx'[s] \in Tx
        <5>1. tx'[s] = [tx[s] EXCEPT !.lock = "exclusive"] \/ tx'[s] = tx[s]
          BY <2>5 DEF LockTree, TypeOK
        <5>2. QED
          BY <2>1, <5>1 DEF Tx
      <4>2. QED
        BY <2>5, <4>1 DEF LockTree, TypeOK
    <3>2. QED
      BY <2>5, <3>1, SessType DEF LockTree, TypeOK
  <2>6. CASE Load(s)
    <3>1. sess[s].id \in Nodes
      BY <2>6 DEF Load, MutationInv, MutationOf, Mutating, At
    <3>2. [sess[s] EXCEPT !.pc = "check", !.old = Seen(s, sess[s].id)] \in Session
      BY <2>1, <3>1, SeenRow DEF Session
    <3>3. sess' \in [Sessions -> Session]
      BY <2>6, <3>2 DEF Load, TypeOK
    <3>4. tx' \in [Sessions -> Tx]
      BY <2>6, <3>1 DEF Load, TypeOK, Tx
    <3>5. QED
      BY <2>6, <3>3, <3>4 DEF Load, TypeOK
  <2>7. CASE Refused(s)
    <3>1. {n \in tx[s].held : n # sess[s].id \/ tx[s].rows[n] # Same} \in SUBSET Nodes
      BY <2>1 DEF Tx
    <3>2. tx' \in [Sessions -> Tx]
      BY <2>1, <2>7, <3>1 DEF Refused, Refuse, TypeOK, Tx, Session
    <3>3. QED
      BY <2>7, <3>2, SessType DEF Refused, Refuse, TypeOK
  <2>8. CASE Check(s)
    BY <2>8, SessType DEF Check, TypeOK
  <2>9. CASE \E n \in Nodes : ReadPath(s, n)
    <3>1. PICK n \in Nodes : ReadPath(s, n)
      BY <2>9
    <3>2. tx[s].left - 1 \in 0 .. MaxOps
      BY <2>1, <3>1, RecordConstants DEF ReadPath, Tx
    <3>7. Above(Shape(s), n) \in SUBSET Nodes
      BY DEF Above
    <3>3. tx' \in [Sessions -> Tx]
      BY <3>1, <3>2, <3>7 DEF ReadPath, TypeOK, Tx
    <3>4. [sess[s] EXCEPT !.pc = "read", !.id = n] \in Session
      BY <2>1 DEF Session
    <3>5. sess' \in [Sessions -> Session]
      BY <3>1, <3>4 DEF ReadPath, TypeOK
    <3>6. QED
      BY <3>1, <3>3, <3>5 DEF ReadPath, TypeOK
  <2>10. CASE EndRead(s)
    <3>1. tx' \in [Sessions -> Tx]
      BY <2>10 DEF EndRead, TypeOK, Tx
    <3>2. QED
      BY <2>10, <3>1, SessType DEF EndRead, TypeOK
  <2>11. CASE DrawName(s)
    <3>1. PICK k \in Nat : series + k <= MaxNames /\ Cardinality(tx[s].names) = k
      BY DrawnNames
    <3>2. series + k + 1 \in 1 .. MaxNames
      BY <2>11, <3>1, RecordConstants DEF DrawName, TypeOK
    <3>3. tx[s].left - 1 \in 0 .. MaxOps
      BY <2>1, <2>11, RecordConstants DEF DrawName, Tx
    <3>4. tx' \in [Sessions -> Tx]
      <4>1. tx'[s] \in Tx
        BY <2>1, <2>11, <3>1, <3>2, <3>3 DEF DrawName, TypeOK, Tx
      <4>2. QED
        BY <2>11, <4>1 DEF DrawName, TypeOK
    <3>5. QED
      BY <2>11, <3>4 DEF DrawName, TypeOK
  <2>12. QED
    BY <1>5, <2>2, <2>3, <2>4, <2>5, <2>6, <2>7, <2>8, <2>9, <2>10, <2>11 DEF Other
<1>6. QED
  BY <1>2, <1>3, <1>4, <1>5, NextCases

-----------------------------------------------------------------------------
(* What a step of one session leaves alone.                                *)

\* Only a commit changes what is committed, only a write what a transaction
\* has written, and no step changes the mutation or transaction of another
\* session.
LEMMA OtherFrame ==
  ASSUME TypeOK, MutationInv, NEW s \in Sessions, Other(s)
  PROVE  /\ UNCHANGED <<rows, isTree, series, taken, late>>
         /\ \A t \in Sessions \ {s} : sess'[t] = sess[t] /\ tx'[t] = tx[t]
         /\ \/ tx'[s] = IdleTx /\ sess'[s] = Idle("out")
            \/ tx'[s].rows = tx[s].rows
<1>1. tx[s] \in Tx
  BY SessType
<1>2. CASE Begin(s)
  BY <1>2 DEF Begin, Done, TypeOK
<1>3. CASE Abort(s)
  BY <1>3 DEF Abort, Done, TypeOK
<1>4. CASE Start(s)
  <2>1. PICK op \in {"create", "edit", "move", "delete"}, n \in Nodes, row \in Row,
             add \in BOOLEAN : Mutate(s, op, n, row, add)
    BY <1>4 DEF Start
  <2>2. QED
    BY <1>1, <2>1 DEF Mutate, TypeOK, Tx
<1>5. CASE LockTree(s)
  BY <1>1, <1>5 DEF LockTree, Go, TypeOK, Tx
<1>6. CASE Load(s)
  BY <1>1, <1>6 DEF Load, TypeOK, Tx
<1>7. CASE Refused(s)
  BY <1>1, <1>7 DEF Refused, Refuse, Done, TypeOK, Tx
<1>8. CASE Check(s)
  BY <1>8 DEF Check, Go, TypeOK
<1>9. CASE \E n \in Nodes : ReadPath(s, n)
  BY <1>1, <1>9 DEF ReadPath, TypeOK, Tx
<1>10. CASE EndRead(s)
  BY <1>1, <1>10 DEF EndRead, Done, TypeOK, Tx
<1>11. CASE DrawName(s)
  BY <1>1, <1>11 DEF DrawName, TypeOK, Tx
<1>12. QED
  BY <1>2, <1>3, <1>4, <1>5, <1>6, <1>7, <1>8, <1>9, <1>10, <1>11 DEF Other

LEMMA CommitEffect ==
  ASSUME TypeOK, NEW s \in Sessions, Commit(s)
  PROVE  /\ UNCHANGED <<isTree, late>>
         /\ tx'[s] = IdleTx /\ sess'[s] = Idle("out")
         /\ rows' = [n \in Nodes |-> Seen(s, n)]
         /\ \A t \in Sessions \ {s} : sess'[t] = sess[t] /\ tx'[t] = tx[t]
BY DEF Commit, Done, TypeOK

LEMMA WriteEffect ==
  ASSUME TypeOK, MutationInv, NEW s \in Sessions, Write(s)
  PROVE  /\ UNCHANGED <<rows, isTree, series, taken>>
         /\ late' = (late \/ (isTree /\ ~sess[s].aware))
         /\ \A t \in Sessions \ {s} : sess'[t] = sess[t] /\ tx'[t] = tx[t]
         /\ Mutating(s) /\ At(s, "write") /\ sess[s].id \in Nodes
         /\ sess'[s] = Idle("in")
         /\ tx'[s].held = tx[s].held
         /\ tx'[s].lock = tx[s].lock
         /\ tx'[s].names = tx[s].names
         /\ \A p \in Linked(s) : Exists(s, p)
         /\ \E new \in SUBSET Kids :
              tx'[s].rows = [tx[s].rows EXCEPT ![sess[s].id] = NewRow(s, new)]
<1>1. PICK new \in FreshIds(s) :
        tx' = [tx EXCEPT ![s].rows[sess[s].id] = NewRow(s, new),
                         ![s].held = @ \cup {sess[s].id}, ![s].keys = @ \cup Linked(s)]
  BY DEF Write
<1>2. new \in SUBSET Kids /\ Mutating(s) /\ At(s, "write") /\ sess[s].id \in Nodes
  BY <1>1 DEF FreshIds, Write, MutationInv, MutationOf, Mutating, At
<1>3. sess[s].id \in tx[s].held
  BY <1>2 DEF MutationInv, MutationOf, At
<1>4. tx'[s] = [tx[s] EXCEPT !.rows = [tx[s].rows EXCEPT ![sess[s].id] = NewRow(s, new)],
                             !.held = tx[s].held, !.keys = tx[s].keys \cup Linked(s)]
  <2>1. tx[s].held \cup {sess[s].id} = tx[s].held
    BY <1>3
  <2>2. QED
    BY <1>1, <2>1 DEF TypeOK
<1>5. /\ tx'[s].rows = [tx[s].rows EXCEPT ![sess[s].id] = NewRow(s, new)]
      /\ tx'[s].held = tx[s].held /\ tx'[s].lock = tx[s].lock /\ tx'[s].names = tx[s].names
  <2>1. tx[s] \in Tx
    BY SessType
  <2>2. QED
    BY <1>4, <2>1 DEF Tx
<1>6. \A t \in Sessions \ {s} : sess'[t] = sess[t] /\ tx'[t] = tx[t]
  BY <1>1 DEF Write, Done, TypeOK
<1>7. sess'[s] = Idle("in") /\ \A p \in Linked(s) : Exists(s, p)
  BY DEF Write, Done, TypeOK
<1>8. QED
  BY <1>2, <1>5, <1>6, <1>7 DEF Write

\* Activating the tree waits for every writer.
LEMMA ActivateEffect ==
  ASSUME TypeOK, Activate
  PROVE  /\ UNCHANGED <<rows, series, taken, sess, tx, late>> /\ ~isTree /\ isTree'
         /\ \A s \in Sessions : ~Writer(s) /\ Shape(s) = Tree
         /\ IsForest(Tree)
BY DEF Activate, Writer, Wrote, Shape, Tree, Seen

\* A session that has written nothing sees what is committed.
LEMMA ReadersSeeTree ==
  ASSUME NEW s \in Sessions, ~Writer(s)
  PROVE  Shape(s) = Tree /\ \A n \in Nodes : Seen(s, n) = rows[n]
BY DEF Writer, Wrote, Shape, Tree, Seen

-----------------------------------------------------------------------------
(* Row locks.                                                              *)

\* A step locks a row only while nobody else has it locked, and unlocks none
\* that its transaction has written.
LEMMA HeldStep ==
  ASSUME TypeOK, MutationInv, HeldInv, Next PROVE HeldInv'
<1>1. ASSUME NEW s \in Sessions,
             \A t \in Sessions \ {s} : tx'[t] = tx[t],
             \A n \in Nodes : Wrote(s, n)' => n \in tx'[s].held,
             \A n \in tx'[s].held : n \in tx[s].held \/ Free(s, n)
      PROVE  HeldInv'
  <2>1. ASSUME NEW t \in Sessions \ {s} PROVE tx'[s].held \cap tx'[t].held = {}
    BY <1>1 DEF HeldInv, Free
  <2>2. ASSUME NEW t \in Sessions, NEW n \in Nodes, Wrote(t, n)' PROVE n \in tx'[t].held
    BY <1>1, <2>2 DEF HeldInv, Wrote
  <2>3. ASSUME NEW t \in Sessions, NEW u \in Sessions, t # u
        PROVE  tx'[t].held \cap tx'[u].held = {}
    BY <1>1, <2>1, <2>3 DEF HeldInv
  <2>4. QED
    BY <2>2, <2>3 DEF HeldInv
<1>2. IdleTx.held = {} /\ \A n \in Nodes : IdleTx.rows[n] = Same
  BY DEF IdleTx
<1>3. CASE Activate
  BY <1>3 DEF Activate, HeldInv, Wrote
<1>4. ASSUME NEW s \in Sessions, Commit(s) PROVE HeldInv'
  BY <1>1, <1>2, <1>4, CommitEffect DEF Wrote
<1>5. ASSUME NEW s \in Sessions, Write(s) PROVE HeldInv'
  <2>1. PICK new \in SUBSET Kids :
          tx'[s].rows = [tx[s].rows EXCEPT ![sess[s].id] = NewRow(s, new)]
    BY <1>5, WriteEffect
  <2>2. sess[s].id \in tx[s].held /\ tx'[s].held = tx[s].held
    BY <1>5, WriteEffect DEF MutationInv, MutationOf, At
  <2>3. ASSUME NEW n \in Nodes, n # sess[s].id PROVE tx'[s].rows[n] = tx[s].rows[n]
    BY <2>1, <2>3, SessType DEF Tx
  <2>4. QED
    BY <1>1, <1>5, <2>2, <2>3, WriteEffect DEF HeldInv, Wrote
<1>6. ASSUME NEW s \in Sessions, Other(s) PROVE HeldInv'
  <2> DEFINE Kept == \A n \in tx'[s].held : n \in tx[s].held \/ Free(s, n)
             Held == \A n \in Nodes : Wrote(s, n)' => n \in tx'[s].held
  <2>1. tx[s] \in Tx
    BY SessType
  <2>2. \A n \in Nodes : Wrote(s, n) => n \in tx[s].held
    BY DEF HeldInv
  <2>3. CASE tx'[s] = IdleTx
    BY <1>1, <1>2, <1>6, <2>3, OtherFrame DEF Wrote
  <2>4. CASE tx'[s].rows = tx[s].rows /\ tx'[s].held = tx[s].held
    BY <1>1, <1>6, <2>2, <2>4, OtherFrame DEF Wrote
  <2>5. CASE Start(s)
    <3>1. PICK op \in {"create", "edit", "move", "delete"}, n \in Nodes, row \in Row,
               add \in BOOLEAN : Mutate(s, op, n, row, add)
      BY <2>5 DEF Start
    <3>2. tx'[s].held = IF op = "create" THEN tx[s].held \cup {n} ELSE tx[s].held
      BY <2>1, <3>1 DEF Mutate, TypeOK, Tx
    <3>3. tx'[s].rows = tx[s].rows /\ (op = "create" => Free(s, n))
      BY <2>1, <3>1 DEF Mutate, TypeOK, Tx
    <3>4. QED
      BY <1>1, <1>6, <2>2, <3>2, <3>3, OtherFrame DEF Wrote
  <2>6. CASE Load(s)
    <3>1. tx'[s].held = tx[s].held \cup {sess[s].id} /\ tx'[s].rows = tx[s].rows
      BY <2>1, <2>6 DEF Load, TypeOK, Tx
    <3>2. Free(s, sess[s].id)
      BY <2>6 DEF Load
    <3>3. QED
      BY <1>1, <1>6, <2>2, <3>1, <3>2, OtherFrame DEF Wrote
  <2>7. CASE Refused(s)
    <3>1. /\ tx'[s].rows = tx[s].rows
          /\ tx'[s].held = {n \in tx[s].held : n # sess[s].id \/ tx[s].rows[n] # Same}
      BY <2>1, <2>7 DEF Refused, Refuse, TypeOK, Tx
    <3>2. QED
      BY <1>1, <1>6, <2>2, <3>1, OtherFrame DEF Wrote
  <2>8. CASE \/ Begin(s) \/ Abort(s) \/ LockTree(s) \/ Check(s)
             \/ \E n \in Nodes : ReadPath(s, n)
             \/ EndRead(s) \/ DrawName(s)
    <3>1. \/ tx'[s] = IdleTx
          \/ tx'[s].rows = tx[s].rows /\ tx'[s].held = tx[s].held
      <4>1. CASE Begin(s) \/ Abort(s) \/ Check(s)
        BY <4>1 DEF Begin, Abort, Check, TypeOK
      <4>2. CASE LockTree(s)
        BY <2>1, <4>2 DEF LockTree, TypeOK, Tx
      <4>3. CASE \E n \in Nodes : ReadPath(s, n)
        BY <2>1, <4>3 DEF ReadPath, TypeOK, Tx
      <4>4. CASE EndRead(s) \/ DrawName(s)
        BY <2>1, <4>4 DEF EndRead, DrawName, TypeOK, Tx
      <4>5. QED
        BY <2>8, <4>1, <4>2, <4>3, <4>4
    <3>2. QED
      BY <2>3, <2>4, <3>1
  <2>9. QED
    BY <1>6, <2>5, <2>6, <2>7, <2>8 DEF Other
<1>7. QED
  BY <1>3, <1>4, <1>5, <1>6, NextCases

-----------------------------------------------------------------------------
(* What a mutation knows of its target.                                    *)

\* Nobody else commits a row that a mutation has locked.
LEMMA OthersMutate ==
  ASSUME TypeOK, MutationInv, HeldInv, NEW s \in Sessions, NEW t \in Sessions \ {s},
         sess'[t] = sess[t], tx'[t] = tx[t],
         \A n \in Nodes : Wrote(s, n) \/ rows'[n] = rows[n]
  PROVE  MutationOf(t)'
<1> SUFFICES ASSUME Mutating(t) PROVE MutationOf(t)'
  BY DEF MutationOf, Mutating
<1>1. MutationOf(t) /\ sess[t].id \in Nodes
  BY DEF MutationInv, MutationOf
<1>2. sess[t].id \in tx[t].held => rows'[sess[t].id] = rows[sess[t].id]
  BY <1>1 DEF HeldInv
<1>3. sess[t].id \in tx[t].held => Seen(t, sess[t].id)' = Seen(t, sess[t].id)
  BY <1>2 DEF Seen
<1>4. QED
  BY <1>1, <1>2, <1>3 DEF MutationOf, Mutating, At, Wrote, Exists

LEMMA MutationStep ==
  ASSUME TypeOK, MutationInv, HeldInv, Next PROVE MutationInv'
<1>1. ASSUME NEW s \in Sessions,
             \A t \in Sessions \ {s} : sess'[t] = sess[t] /\ tx'[t] = tx[t],
             \A n \in Nodes : Wrote(s, n) \/ rows'[n] = rows[n],
             MutationOf(s)'
      PROVE  MutationInv'
  BY <1>1, OthersMutate DEF MutationInv
<1>2. \A pc \in {"in", "out"} : Idle(pc).pc = pc
  BY DEF Idle
<1>3. CASE Activate
  BY <1>3 DEF Activate, MutationInv, MutationOf, Mutating, At, Wrote, Seen, Exists
<1>4. ASSUME NEW s \in Sessions, Commit(s) PROVE MutationInv'
  <2>1. MutationOf(s)'
    BY <1>2, <1>4, CommitEffect DEF MutationOf, Mutating
  <2>2. \A n \in Nodes : Wrote(s, n) \/ rows'[n] = rows[n]
    BY <1>4, CommitEffect DEF Wrote, Seen
  <2>3. QED
    BY <1>1, <1>4, <2>1, <2>2, CommitEffect
<1>5. ASSUME NEW s \in Sessions, Write(s) PROVE MutationInv'
  <2>1. MutationOf(s)'
    BY <1>2, <1>5, WriteEffect DEF MutationOf, Mutating
  <2>2. QED
    BY <1>1, <1>5, <2>1, WriteEffect
<1>6. ASSUME NEW s \in Sessions, Other(s) PROVE MutationInv'
  <2>1. sess[s] \in Session /\ tx[s] \in Tx /\ MutationOf(s)
    BY SessType DEF MutationInv
  <2>2. ASSUME MutationOf(s)' PROVE MutationInv'
    BY <1>1, <1>6, <2>2, OtherFrame
  <2>3. CASE sess'[s].pc \in {"in", "out", "read"}
    BY <2>2, <2>3 DEF MutationOf, Mutating
  <2>4. CASE Begin(s) \/ Abort(s) \/ Refused(s) \/ EndRead(s)
    <3>1. sess'[s] = Idle("in") \/ sess'[s] = Idle("out")
      BY <2>4 DEF Begin, Abort, Refused, Refuse, EndRead, Done, TypeOK
    <3>2. QED
      BY <1>2, <2>3, <3>1
  <2>5. CASE \E n \in Nodes : ReadPath(s, n)
    <3>1. sess'[s].pc = "read"
      BY <2>1, <2>5 DEF ReadPath, TypeOK, Session
    <3>2. QED
      BY <2>3, <3>1
  <2>6. CASE DrawName(s)
    <3>1. sess'[s].pc = "in"
      BY <2>6 DEF DrawName, At
    <3>2. QED
      BY <2>3, <3>1
  <2>7. CASE Start(s)
    <3>1. PICK op \in {"create", "edit", "move", "delete"}, n \in Nodes, row \in Row,
               add \in BOOLEAN :
            /\ op \in {"create", "move"} => row.parent # Absent
            /\ Mutate(s, op, n, row, add)
      BY <2>7 DEF Start
    <3>2. /\ sess'[s].pc = "lock" /\ sess'[s].op = op /\ sess'[s].id = n
          /\ sess'[s].row = row
      BY <2>1, <3>1 DEF Mutate, TypeOK, Session
    <3>3. /\ op = "create" => n \in tx'[s].held /\ rows[n].parent = Absent
                              /\ tx[s].rows[n] = Same
          /\ tx'[s].rows = tx[s].rows /\ rows' = rows
      BY <2>1, <3>1 DEF Mutate, TypeOK, Tx
    <3>4. MutationOf(s)'
      BY <3>1, <3>2, <3>3 DEF MutationOf, Mutating, At, Wrote
    <3>5. QED
      BY <2>2, <3>4
  <2>8. CASE LockTree(s)
    <3>1. /\ sess'[s] = [sess[s] EXCEPT !.pc = IF sess[s].op = "create" THEN "check" ELSE "load"]
          /\ At(s, "lock") /\ rows' = rows
      BY <2>8 DEF LockTree, Go, TypeOK
    <3>2. tx'[s].rows = tx[s].rows /\ tx'[s].held = tx[s].held
      BY <2>1, <2>8 DEF LockTree, TypeOK, Tx
    <3>3. /\ sess'[s].pc = IF sess[s].op = "create" THEN "check" ELSE "load"
          /\ sess'[s].op = sess[s].op /\ sess'[s].id = sess[s].id /\ sess'[s].row = sess[s].row
      BY <2>1, <3>1 DEF Session
    <3>4. MutationOf(s)'
      BY <2>1, <3>1, <3>2, <3>3 DEF MutationOf, Mutating, At, Wrote
    <3>5. QED
      BY <2>2, <3>4
  <2>9. CASE Load(s)
    <3>1. /\ sess'[s] = [sess[s] EXCEPT !.pc = "check", !.old = Seen(s, sess[s].id)]
          /\ At(s, "load") /\ rows' = rows /\ Exists(s, sess[s].id)
      BY <2>9 DEF Load, TypeOK
    <3>2. tx'[s].rows = tx[s].rows /\ sess[s].id \in tx'[s].held
      BY <2>1, <2>9 DEF Load, TypeOK, Tx
    <3>3. /\ sess'[s].op = sess[s].op /\ sess'[s].id = sess[s].id /\ sess'[s].row = sess[s].row
          /\ sess'[s].old = Seen(s, sess[s].id) /\ sess'[s].pc = "check"
      BY <2>1, <3>1 DEF Session
    <3>4. Seen(s, sess[s].id)' = Seen(s, sess[s].id)
      BY <3>1, <3>2, <3>3 DEF Seen
    <3>5. MutationOf(s)'
      BY <2>1, <3>1, <3>2, <3>3, <3>4 DEF MutationOf, Mutating, At, Exists
    <3>6. QED
      BY <2>2, <3>5
  <2>10. CASE Check(s)
    <3>1. /\ sess'[s] = [sess[s] EXCEPT !.pc = "write"]
          /\ At(s, "check") /\ rows' = rows /\ tx' = tx
      BY <2>10 DEF Check, Go, TypeOK
    <3>2. /\ sess'[s].op = sess[s].op /\ sess'[s].id = sess[s].id /\ sess'[s].row = sess[s].row
          /\ sess'[s].old = sess[s].old /\ sess'[s].pc = "write"
      BY <2>1, <3>1 DEF Session
    <3>3. MutationOf(s)'
      BY <2>1, <3>1, <3>2 DEF MutationOf, Mutating, At, Exists, Seen, Wrote
    <3>4. QED
      BY <2>2, <3>3
  <2>11. QED
    BY <1>6, <2>4, <2>5, <2>6, <2>7, <2>8, <2>9, <2>10 DEF Other
<1>7. QED
  BY <1>3, <1>4, <1>5, <1>6, NextCases

-----------------------------------------------------------------------------
(* The structural lock.                                                    *)

LEMMA LockStep ==
  ASSUME TypeOK, MutationInv, LockInv, Next PROVE LockInv'
<1>1. ASSUME NEW s \in Sessions,
             \A t \in Sessions \ {s} : sess'[t] = sess[t] /\ tx'[t] = tx[t],
             isTree' = isTree, late => late',
             LockOf(s)',
             \/ tx'[s].lock \in {tx[s].lock, "none"}
             \/ tx'[s].lock = "exclusive" /\ MayExclude(s)
             \/ tx'[s].lock = "shared" /\ MayShare(s)
      PROVE  LockInv'
  <2>1. ASSUME NEW t \in Sessions \ {s}
        PROVE  /\ tx'[s].lock = "exclusive" => tx'[t].lock = "none"
               /\ tx'[t].lock = "exclusive" => tx'[s].lock = "none"
    BY <1>1 DEF LockInv, MayExclude, MayShare
  <2>2. ASSUME NEW t \in Sessions \ {s} PROVE LockOf(t)'
    BY <1>1 DEF LockInv, LockOf, Mutating, At, Writer, Wrote
  <2>3. \A t, u \in Sessions : t # u /\ tx'[t].lock = "exclusive" => tx'[u].lock = "none"
    BY <1>1, <2>1 DEF LockInv
  <2>4. QED
    BY <1>1, <2>2, <2>3 DEF LockInv
<1>2. \A pc \in {"in", "out"} : Idle(pc).pc = pc /\ ~Idle(pc).aware
  BY DEF Idle
<1>3. IdleTx.lock = "none" /\ \A n \in Nodes : IdleTx.rows[n] = Same
  BY DEF IdleTx
<1>4. CASE Activate
  <2>1. \A s \in Sessions : LockOf(s)'
    BY <1>4, ActivateEffect DEF LockInv, LockOf, Mutating, At, Writer, Wrote
  <2>2. QED
    BY <1>4, <2>1, ActivateEffect DEF LockInv
<1>5. ASSUME NEW s \in Sessions, Commit(s) PROVE LockInv'
  <2>1. LockOf(s)'
    BY <1>2, <1>3, <1>5, CommitEffect DEF LockOf, Mutating, At, Writer, Wrote
  <2>2. QED
    BY <1>1, <1>3, <1>5, <2>1, CommitEffect
<1>6. ASSUME NEW s \in Sessions, Write(s) PROVE LockInv'
  <2>1. isTree /\ ~late' => tx[s].lock = "exclusive"
    BY <1>6, WriteEffect DEF LockInv, LockOf, At
  <2>2. LockOf(s)'
    BY <1>2, <1>6, <2>1, WriteEffect DEF LockOf, Mutating, At
  <2>3. QED
    BY <1>1, <1>6, <2>2, WriteEffect
<1>7. ASSUME NEW s \in Sessions, Other(s) PROVE LockInv'
  <2>1. sess[s] \in Session /\ tx[s] \in Tx /\ LockOf(s)
    BY SessType DEF LockInv
  <2>2. CASE Abort(s)
    <3>1. tx'[s] = IdleTx /\ sess'[s] = Idle("out")
      BY <2>2 DEF Abort, Done, TypeOK
    <3>2. LockOf(s)'
      BY <1>2, <1>3, <3>1 DEF LockOf, Mutating, At, Writer, Wrote
    <3>3. QED
      BY <1>1, <1>3, <1>7, <3>1, <3>2, OtherFrame
  <2>3. CASE Begin(s)
    <3>1. tx' = tx /\ sess'[s] = Idle("in")
      BY <2>3 DEF Begin, Done, TypeOK
    <3>2. LockOf(s)'
      BY <1>2, <1>7, <2>1, <3>1, OtherFrame DEF LockOf, Mutating, At, Writer, Wrote
    <3>3. QED
      BY <1>1, <1>7, <3>1, <3>2, OtherFrame
  <2>4. CASE EndRead(s)
    <3>1. tx'[s].lock = tx[s].lock /\ tx'[s].rows = tx[s].rows /\ sess'[s] = Idle("in")
      BY <2>1, <2>4 DEF EndRead, Done, TypeOK, Tx
    <3>2. LockOf(s)'
      BY <1>2, <1>7, <2>1, <3>1, OtherFrame DEF LockOf, Mutating, At, Writer, Wrote
    <3>3. QED
      BY <1>1, <1>7, <3>1, <3>2, OtherFrame
  <2>5. CASE Start(s)
    <3>1. PICK op \in {"create", "edit", "move", "delete"}, n \in Nodes, row \in Row,
               add \in BOOLEAN : Mutate(s, op, n, row, add)
      BY <2>5 DEF Start
    <3>2. /\ sess'[s].pc = "lock" /\ sess'[s].aware = isTree
          /\ sess'[s].was = tx[s].lock
      BY <2>1, <3>1 DEF Mutate, TypeOK, Session
    <3>3. tx'[s].lock = tx[s].lock /\ tx'[s].rows = tx[s].rows
      BY <2>1, <3>1 DEF Mutate, TypeOK, Tx
    <3>4. LockOf(s)'
      BY <1>7, <2>1, <3>2, <3>3, OtherFrame DEF LockOf, Mutating, At, Writer, Wrote
    <3>5. QED
      BY <1>1, <1>7, <3>3, <3>4, OtherFrame
  <2>6. CASE LockTree(s)
    <3>1. /\ sess'[s] = [sess[s] EXCEPT !.pc = IF sess[s].op = "create" THEN "check" ELSE "load"]
          /\ At(s, "lock")
      BY <2>6 DEF LockTree, Go, TypeOK
    <3>2. /\ sess'[s].pc \in {"check", "load"}
          /\ sess'[s].aware = sess[s].aware /\ sess'[s].was = sess[s].was
      BY <2>1, <3>1 DEF Session
    <3>3. /\ tx'[s].rows = tx[s].rows
          /\ tx'[s].lock = IF sess[s].aware THEN "exclusive" ELSE tx[s].lock
          /\ sess[s].aware => MayExclude(s)
      BY <2>1, <2>6 DEF LockTree, TypeOK, Tx
    <3>4. LockOf(s)'
      BY <1>7, <2>1, <3>1, <3>2, <3>3, OtherFrame
      DEF LockOf, Mutating, At, Writer, Wrote
    <3>5. QED
      BY <1>1, <1>7, <3>3, <3>4, OtherFrame
  <2>7. CASE Load(s) \/ Check(s)
    <3>1. /\ Mutating(s) /\ sess[s].pc \in {"load", "check"}
          /\ sess'[s].pc \in {"check", "write"}
          /\ sess'[s].aware = sess[s].aware /\ sess'[s].was = sess[s].was
      BY <2>1, <2>7 DEF Load, Check, Go, TypeOK, Session, Mutating, At
    <3>2. tx'[s].rows = tx[s].rows /\ tx'[s].lock = tx[s].lock
      BY <2>1, <2>7 DEF Load, Check, TypeOK, Tx
    <3>3. LockOf(s)'
      BY <1>7, <2>1, <3>1, <3>2, OtherFrame DEF LockOf, Mutating, At, Writer, Wrote
    <3>4. QED
      BY <1>1, <1>7, <3>2, <3>3, OtherFrame
  <2>8. CASE Refused(s)
    <3>1. /\ Mutating(s) /\ sess'[s] = Idle("in")
          /\ tx'[s].rows = tx[s].rows /\ tx'[s].lock = sess[s].was
      BY <2>1, <2>8 DEF Refused, Refuse, Done, TypeOK, Tx
    <3>2. LockOf(s)'
      BY <1>2, <1>7, <2>1, <3>1, OtherFrame DEF LockOf, Mutating, At, Writer, Wrote
    <3>3. tx[s].lock # "none" => MayShare(s)
      BY DEF LockInv, MayShare
    <3>4. sess[s].was \in {"none", "shared", "exclusive"} /\ tx[s].lock \in {sess[s].was, "exclusive"}
      BY <2>1, <3>1 DEF Session, LockOf
    <3>5. QED
      BY <1>1, <1>7, <3>1, <3>2, <3>3, <3>4, OtherFrame
  <2>9. CASE \E n \in Nodes : ReadPath(s, n)
    <3>1. PICK n \in Nodes : ReadPath(s, n)
      BY <2>9
    <3>2. /\ tx'[s].lock = IF tx[s].lock = "none" THEN "shared" ELSE tx[s].lock
          /\ tx'[s].rows = tx[s].rows /\ MayShare(s)
      BY <2>1, <3>1 DEF ReadPath, TypeOK, Tx
    <3>3. sess'[s] = [sess[s] EXCEPT !.pc = "read", !.id = n] /\ isTree
      BY <3>1 DEF ReadPath, TypeOK
    <3>4. sess'[s].pc = "read" /\ sess'[s].aware = sess[s].aware
      BY <2>1, <3>3 DEF Session
    <3>5. LockOf(s)'
      BY <1>7, <2>1, <3>2, <3>3, <3>4, OtherFrame
      DEF LockOf, Mutating, At, Writer, Wrote
    <3>6. QED
      BY <1>1, <1>7, <3>2, <3>5, OtherFrame
  <2>10. CASE DrawName(s)
    <3>1. tx'[s].lock = tx[s].lock /\ tx'[s].rows = tx[s].rows /\ sess' = sess
      BY <2>1, <2>10 DEF DrawName, TypeOK, Tx
    <3>2. LockOf(s)'
      BY <1>7, <2>1, <3>1, OtherFrame DEF LockOf, Mutating, At, Writer, Wrote
    <3>3. QED
      BY <1>1, <1>7, <3>1, <3>2, OtherFrame
  <2>11. QED
    BY <1>7, <2>2, <2>3, <2>4, <2>5, <2>6, <2>7, <2>8, <2>9, <2>10 DEF Other
<1>8. QED
  BY <1>4, <1>5, <1>6, <1>7, NextCases

-----------------------------------------------------------------------------
(* The tree.                                                               *)

\* While the tree is written by those who know of it, one session writes and
\* nobody else has passed a check or is reading.
LEMMA SoleWriter ==
  ASSUME TypeOK, LockInv, isTree, ~late, NEW s \in Sessions, Writer(s)
  PROVE  \A t \in Sessions \ {s} :
           /\ ~Writer(t)
           /\ ~At(t, "read") /\ ~(At(t, "write") /\ sess[t].aware)
<1>1. tx[s].lock = "exclusive"
  BY DEF LockInv, LockOf
<1>2. \A t \in Sessions \ {s} : tx[t].lock = "none"
  BY <1>1 DEF LockInv
<1>3. "none" # "exclusive"
  OBVIOUS
<1>4. QED
  BY <1>2, <1>3 DEF LockInv, LockOf, At

\* A session sees the same until somebody commits or it writes.
LEMMA SameView ==
  ASSUME NEW s \in Sessions, rows' = rows, tx'[s].rows = tx[s].rows
  PROVE  /\ Shape(s)' = Shape(s)
         /\ \A n \in Nodes : Seen(s, n)' = Seen(s, n) /\ Exists(s, n)' = Exists(s, n)
BY DEF Shape, Seen, Exists

LEMMA SameVerdict ==
  ASSUME NEW s \in Sessions, rows' = rows, tx'[s].rows = tx[s].rows,
         sess'[s].op = sess[s].op, sess'[s].id = sess[s].id, sess'[s].row = sess[s].row,
         sess'[s].aware = sess[s].aware, Allowed(s)
  PROVE  Allowed(s)'
<1>1. Shape(s)' = Shape(s) /\ \A n \in Nodes : Seen(s, n)' = Seen(s, n)
  BY SameView
<1>2. \A p \in Nodes : Above(Shape(s), p)' = Above(Shape(s), p)
  BY <1>1
<1>3. Childless(s)' = Childless(s)
  BY <1>1 DEF Childless
<1>4. ParentValid(s)' = ParentValid(s)
  BY <1>1, <1>2 DEF ParentValid, Exists
<1>5. QED
  BY <1>3, <1>4 DEF Allowed

LEMMA SameForest ==
  ASSUME NEW t \in Sessions, rows' = rows, tx'[t] = tx[t], sess'[t] = sess[t],
         isTree' = isTree, ForestOf(t)
  PROVE  ForestOf(t)'
<1>1. Shape(t)' = Shape(t)
  BY SameView
<1>2. At(t, "write") /\ sess[t].aware => Allowed(t)'
  BY SameVerdict DEF ForestOf
<1>3. QED
  BY <1>1, <1>2 DEF ForestOf, At

\* What a write makes of the shape the session sees.
LEMMA WriteKeepsForest ==
  ASSUME TypeOK, TypeOK', MutationInv, LockInv, ForestInv,
         NEW s \in Sessions, Write(s), isTree, ~late'
  PROVE  IsForest(Shape(s)')
<1> DEFINE x == sess[s].id
<1>1. ~late /\ sess[s].aware /\ At(s, "write") /\ Mutating(s) /\ x \in Nodes
  BY WriteEffect
<1>2. IsForest(Shape(s)) /\ Allowed(s) /\ MutationOf(s)
  BY <1>1 DEF ForestInv, ForestOf, MutationInv
<1>3. PICK new \in SUBSET Kids : tx'[s].rows = [tx[s].rows EXCEPT ![x] = NewRow(s, new)]
  BY WriteEffect
<1>4. rows' = rows
  BY WriteEffect
<1>5. NewRow(s, new) # Same
  BY <1>1, WrittenRow, SameIsNoRow
<1>6. Shape(s)'[x] = NewRow(s, new).parent
  BY <1>1, <1>3, <1>5, SessType DEF Shape, Seen, Tx
<1>7. \A n \in Nodes \ {x} : Shape(s)'[n] = Shape(s)[n]
  BY <1>1, <1>3, <1>4, SessType DEF Shape, Seen, Tx
<1>8. Shape(s) \in [Nodes -> Parents] /\ Shape(s)' \in [Nodes -> Parents]
  <2>1. Shape(s) \in [Nodes -> Parents]
    BY ShapeType
  <2>2. NewRow(s, new).parent \in Parents
    BY <1>1, WrittenRow DEF Row
  <2>3. \A n \in Nodes : Shape(s)'[n] \in Parents
    BY <1>6, <1>7, <2>1, <2>2
  <2>4. QED
    BY <2>1, <2>3 DEF Shape
<1>9. \A n \in Nodes : Shape(s)[n] = Seen(s, n).parent
  BY DEF Shape
<1>10. sess[s].row.parent \in Parents
  BY SessType DEF Session, Row
<1>11. CASE sess[s].op = "create"
  <2>1. Shape(s)'[x] = sess[s].row.parent /\ Shape(s)[x] = Absent
    BY <1>1, <1>2, <1>6, <1>9, <1>11, WrittenRow DEF MutationOf, Wrote, Seen
  <2>2. \A n \in Nodes : Shape(s)[n] # x
    BY <1>1, <1>2, <2>1 DEF IsForest, ParentsExist
  <2>3. sess[s].row.parent \in Nodes => Shape(s)[sess[s].row.parent] # Absent
    BY <1>2, <1>9, <1>11 DEF Allowed, ParentValid, Exists
  <2>4. sess[s].row.parent # x \/ sess[s].row.parent \notin Nodes
    BY <2>1, <2>3
  <2>5. QED
    BY <1>1, <1>2, <1>7, <1>8, <2>1, <2>2, <2>3, <2>4, LeafKeepsForest
<1>12. CASE sess[s].op = "move"
  <2>1. Shape(s)'[x] = sess[s].row.parent /\ sess[s].row.parent # Absent
    BY <1>1, <1>2, <1>6, <1>12, WrittenRow DEF MutationOf
  <2>2. sess[s].row.parent \in Nodes =>
          x \notin Above(Shape(s), sess[s].row.parent)
          /\ Shape(s)[sess[s].row.parent] # Absent
    BY <1>1, <1>2, <1>9, <1>12 DEF Allowed, ParentValid, Exists
  <2>3. QED
    BY <1>1, <1>2, <1>7, <1>8, <2>1, <2>2, MoveKeepsForest
<1>13. CASE sess[s].op = "edit"
  <2>1. Shape(s)'[x] = Shape(s)[x]
    BY <1>1, <1>6, <1>9, <1>13, WrittenRow
  <2>2. Shape(s)' = Shape(s)
    BY <1>7, <1>8, <2>1
  <2>3. QED
    BY <1>2, <2>2
<1>14. CASE sess[s].op = "delete"
  <2>1. Shape(s)'[x] = Absent
    BY <1>1, <1>6, <1>14, WrittenRow
  <2>2. \A n \in Nodes \ {x} : Shape(s)[n] # x
    BY <1>1, <1>2, <1>9, <1>14 DEF Allowed, Childless
  <2>3. Absent \notin Nodes
    BY NodesDiffer
  <2>4. QED
    BY <1>1, <1>2, <1>7, <1>8, <2>1, <2>2, <2>3, LeafKeepsForest
<1>15. QED
  BY <1>1, <1>2, <1>11, <1>12, <1>13, <1>14 DEF MutationOf

LEMMA ForestStep ==
  ASSUME TypeOK, TypeOK', MutationInv, LockInv, ForestInv, Next PROVE ForestInv'
<1> SUFFICES ASSUME ~late'
             PROVE  /\ isTree' => IsForest(Tree)'
                    /\ \A s \in Sessions : ForestOf(s)'
  BY DEF ForestInv
<1>1. \A pc \in {"in", "out"} : Idle(pc).pc = pc /\ ~Idle(pc).aware
  BY DEF Idle
<1>2. ASSUME NEW s \in Sessions, rows' = rows, isTree' = isTree, ~late,
             \A t \in Sessions \ {s} : sess'[t] = sess[t] /\ tx'[t] = tx[t],
             ForestOf(s)'
      PROVE  /\ isTree' => IsForest(Tree)'
             /\ \A t \in Sessions : ForestOf(t)'
  <2>1. Tree' = Tree
    BY <1>2 DEF Tree
  <2>2. \A t \in Sessions \ {s} : ForestOf(t)'
    BY <1>2, SameForest DEF ForestInv
  <2>3. QED
    BY <1>2, <2>1, <2>2 DEF ForestInv
<1>3. CASE Activate
  <2>1. Tree' = Tree /\ \A s \in Sessions : Shape(s)' = Tree /\ ~sess[s].aware
    <3>1. rows' = rows /\ tx' = tx /\ ~isTree
      BY <1>3, ActivateEffect
    <3>2. Tree' = Tree
      BY <3>1 DEF Tree
    <3>3. ASSUME NEW s \in Sessions PROVE Shape(s)' = Tree /\ ~sess[s].aware
      <4>1. Shape(s)' = Shape(s)
        BY <3>1, SameView
      <4>2. Shape(s) = Tree
        BY <1>3, ActivateEffect
      <4>3. QED
        BY <3>1, <4>1, <4>2 DEF LockInv, LockOf
    <3>4. QED
      BY <3>2, <3>3
  <2>2. \A s \in Sessions : ~At(s, "read")
    BY <1>3, ActivateEffect DEF LockInv, LockOf
  <2>3. IsForest(Tree)' /\ \A s \in Sessions : IsForest(Shape(s))'
    BY <1>3, <2>1, ActivateEffect
  <2>4. QED
    BY <1>3, <2>1, <2>2, <2>3, ActivateEffect DEF ForestOf, At
<1>4. ASSUME NEW s \in Sessions, Commit(s)
      PROVE  /\ isTree' => IsForest(Tree)'
             /\ \A t \in Sessions : ForestOf(t)'
  <2>1. ~late /\ isTree' = isTree /\ tx'[s] = IdleTx /\ sess'[s] = Idle("out")
        /\ \A t \in Sessions \ {s} : sess'[t] = sess[t] /\ tx'[t] = tx[t]
    BY <1>4, CommitEffect
  <2>2. Tree' = Shape(s)
    BY <1>4, CommitEffect DEF Tree, Shape
  <2>3. Shape(s)' = Tree'
    BY <2>1 DEF Shape, Seen, Tree, IdleTx
  <2>4. ForestOf(s)' /\ (isTree' => IsForest(Tree)')
    BY <1>1, <2>1, <2>2, <2>3 DEF ForestInv, ForestOf, At
  <2>5. CASE ~Writer(s)
    <3>1. rows' = rows
      BY <1>4, <2>5, CommitEffect, ReadersSeeTree DEF TypeOK
    <3>2. QED
      BY <1>2, <2>1, <2>4, <3>1
  <2>6. CASE Writer(s) /\ isTree
    <3>1. ASSUME NEW t \in Sessions \ {s} PROVE ForestOf(t)'
      <4>1. ~Writer(t) /\ ~At(t, "read") /\ ~(At(t, "write") /\ sess[t].aware)
        BY <2>1, <2>6, SoleWriter
      <4>2. Shape(t)' = Tree'
        BY <2>1, <4>1 DEF Writer, Wrote, Shape, Seen, Tree
      <4>3. QED
        BY <2>1, <2>4, <4>1, <4>2 DEF ForestOf, At
    <3>2. QED
      BY <2>4, <3>1
  <2>7. CASE ~isTree
    <3>1. \A t \in Sessions \ {s} : ~At(t, "read") /\ ~sess[t].aware
      BY <2>7 DEF LockInv, LockOf
    <3>2. QED
      BY <2>1, <2>4, <2>7, <3>1 DEF ForestOf, At
  <2>8. QED
    BY <2>5, <2>6, <2>7
<1>5. ASSUME NEW s \in Sessions, Write(s)
      PROVE  /\ isTree' => IsForest(Tree)'
             /\ \A t \in Sessions : ForestOf(t)'
  <2>1. ~late /\ isTree' = isTree /\ rows' = rows /\ sess'[s] = Idle("in")
        /\ \A t \in Sessions \ {s} : sess'[t] = sess[t] /\ tx'[t] = tx[t]
    BY <1>5, WriteEffect
  <2>2. isTree => IsForest(Shape(s)')
    BY <1>5, WriteKeepsForest
  <2>3. ForestOf(s)'
    BY <1>1, <2>1, <2>2 DEF ForestOf, At
  <2>4. QED
    BY <1>2, <2>1, <2>3
<1>6. ASSUME NEW s \in Sessions, Other(s)
      PROVE  /\ isTree' => IsForest(Tree)'
             /\ \A t \in Sessions : ForestOf(t)'
  <2>1. ~late /\ isTree' = isTree /\ rows' = rows
        /\ \A t \in Sessions \ {s} : sess'[t] = sess[t] /\ tx'[t] = tx[t]
    BY <1>6, OtherFrame
  <2>2. sess[s] \in Session /\ tx[s] \in Tx /\ ForestOf(s)
    BY <2>1, SessType DEF ForestInv
  <2>3. isTree => IsForest(Shape(s)')
    <3>1. CASE tx'[s] = IdleTx
      <4>1. Shape(s)' = Tree
        BY <2>1, <3>1 DEF Shape, Seen, Tree, IdleTx
      <4>2. QED
        BY <2>1, <4>1 DEF ForestInv
    <3>2. CASE tx'[s].rows = tx[s].rows
      BY <2>1, <2>2, <3>2, SameView DEF ForestOf
    <3>3. QED
      BY <1>6, <3>1, <3>2, OtherFrame
  <2>4. ASSUME sess'[s].pc \notin {"write", "read"} PROVE ForestOf(s)'
    BY <2>1, <2>3, <2>4 DEF ForestOf, At
  <2>5. CASE Begin(s) \/ Abort(s) \/ Refused(s) \/ EndRead(s)
    <3>1. sess'[s] = Idle("in") \/ sess'[s] = Idle("out")
      BY <2>5 DEF Begin, Abort, Refused, Refuse, EndRead, Done, TypeOK
    <3>2. QED
      BY <1>1, <1>2, <2>1, <2>4, <3>1
  <2>6. CASE Start(s)
    <3>1. sess'[s].pc = "lock"
      BY <2>2, <2>6 DEF Start, Mutate, TypeOK, Session
    <3>2. QED
      BY <1>2, <2>1, <2>4, <3>1
  <2>7. CASE LockTree(s) \/ Load(s)
    <3>1. sess'[s].pc \in {"load", "check"}
      BY <2>2, <2>7 DEF LockTree, Load, Go, TypeOK, Session
    <3>2. QED
      BY <1>2, <2>1, <2>4, <3>1
  <2>8. CASE DrawName(s)
    <3>1. sess'[s].pc = "in"
      BY <2>8 DEF DrawName, At
    <3>2. QED
      BY <1>2, <2>1, <2>4, <3>1
  <2>9. CASE Check(s)
    <3>1. /\ sess'[s].pc = "write" /\ sess'[s].op = sess[s].op /\ sess'[s].id = sess[s].id
          /\ sess'[s].row = sess[s].row /\ sess'[s].aware = sess[s].aware
          /\ tx' = tx /\ Allowed(s)
      BY <2>2, <2>9 DEF Check, Go, TypeOK, Session
    <3>2. Allowed(s)'
      BY <2>1, <3>1, SameVerdict
    <3>3. ForestOf(s)'
      BY <2>1, <2>3, <3>1, <3>2 DEF ForestOf, At
    <3>4. QED
      BY <1>2, <2>1, <3>3
  <2>10. CASE \E n \in Nodes : ReadPath(s, n)
    <3>1. PICK n \in Nodes : ReadPath(s, n)
      BY <2>10
    <3>2. /\ sess'[s].pc = "read" /\ sess'[s].id = n
          /\ tx'[s].path = Above(Shape(s), n) /\ tx'[s].rows = tx[s].rows
      BY <2>2, <3>1 DEF ReadPath, TypeOK, Session, Tx
    <3>3. Shape(s)' = Shape(s)
      BY <2>1, <3>2, SameView
    <3>4. ForestOf(s)'
      BY <2>1, <2>3, <3>2, <3>3 DEF ForestOf, At
    <3>5. QED
      BY <1>2, <2>1, <3>4
  <2>11. QED
    BY <1>6, <2>5, <2>6, <2>7, <2>8, <2>9, <2>10 DEF Other
<1>7. QED
  BY <1>3, <1>4, <1>5, <1>6, NextCases

-----------------------------------------------------------------------------
(* The naming series.                                                      *)

LEMMA NamesStep ==
  ASSUME TypeOK, MutationInv, NamesInv, Next PROVE NamesInv'
<1> USE RecordConstants
<1>1. series \in Nat
  BY DEF TypeOK
<1>2. ASSUME UNCHANGED <<series, taken>>, NEW s \in Sessions,
             \A t \in Sessions : tx'[t].names \in {tx[t].names, {}}
      PROVE  NamesInv'
  <2>1. ASSUME NEW t \in Sessions
        PROVE  \E k \in Nat :
                 series' + k <= MaxNames /\ tx'[t].names = (series' + 1) .. (series' + k)
    <3>1. CASE tx'[t].names = tx[t].names
      BY <1>2, <3>1 DEF NamesInv
    <3>2. CASE tx'[t].names = {}
      <4>1. {} = (series + 1) .. (series + 0) /\ series + 0 <= MaxNames
        BY <1>1 DEF TypeOK
      <4>2. QED
        BY <1>2, <3>2, <4>1
    <3>3. QED
      BY <1>2, <3>1, <3>2
  <2>2. \A t, u \in Sessions : t # u => tx'[t].names = {} \/ tx'[u].names = {}
    BY <1>2 DEF NamesInv
  <2>3. NamesAreDense'
    BY <1>2 DEF NamesInv, NamesAreDense
  <2>4. QED
    BY <2>1, <2>2, <2>3 DEF NamesInv
<1>3. CASE Activate
  BY <1>3, ActivateEffect DEF NamesInv, NamesAreDense
<1>4. ASSUME NEW s \in Sessions, Commit(s) PROVE NamesInv'
  <2>1. PICK k \in Nat : /\ series + k <= MaxNames
                         /\ tx[s].names = (series + 1) .. (series + k)
                         /\ Cardinality(tx[s].names) = k
    BY DrawnNames
  <2>2. series' = series + k
    BY <1>4, <2>1 DEF Commit
  <2>3. ASSUME NEW t \in Sessions
        PROVE  tx'[t].names = {} \/ (k = 0 /\ tx'[t].names = tx[t].names)
    <3>1. CASE t = s
      BY <1>4, <3>1, CommitEffect DEF IdleTx
    <3>2. CASE t # s /\ k = 0
      BY <1>4, <3>2, CommitEffect
    <3>3. CASE t # s /\ k # 0
      <4>1. series + 1 \in tx[s].names
        BY <1>1, <2>1, <3>3
      <4>2. tx[t].names = {}
        BY <3>3, <4>1 DEF NamesInv
      <4>3. QED
        BY <1>4, <3>3, <4>2, CommitEffect
    <3>4. QED
      BY <3>1, <3>2, <3>3
  <2>4. ASSUME NEW t \in Sessions
        PROVE  \E j \in Nat :
                 series' + j <= MaxNames /\ tx'[t].names = (series' + 1) .. (series' + j)
    <3>1. CASE tx'[t].names = {}
      <4>1. {} = (series' + 1) .. (series' + 0) /\ series' + 0 <= MaxNames
        BY <1>1, <2>1, <2>2
      <4>2. QED
        BY <3>1, <4>1
    <3>2. CASE k = 0 /\ tx'[t].names = tx[t].names
      <4>1. series' = series
        BY <1>1, <2>2, <3>2
      <4>2. QED
        BY <3>2, <4>1 DEF NamesInv
    <3>3. QED
      BY <2>3, <3>1, <3>2
  <2>5. \A t, u \in Sessions : t # u => tx'[t].names = {} \/ tx'[u].names = {}
    BY <1>4, CommitEffect DEF NamesInv, IdleTx
  <2>6. NamesAreDense'
    <3> SUFFICES ASSUME NEW i \in 1 .. MaxNames
                 PROVE  taken'[i] = IF i <= series' THEN 1 ELSE 0
      BY DEF NamesAreDense
    <3>1. taken'[i] = IF i \in tx[s].names THEN taken[i] + 1 ELSE taken[i]
      BY <1>4 DEF Commit
    <3>2. taken[i] = IF i <= series THEN 1 ELSE 0
      BY DEF NamesInv, NamesAreDense
    <3>3. i \in tx[s].names <=> series < i /\ i <= series + k
      BY <1>1, <2>1
    <3>4. QED
      BY <1>1, <2>2, <3>1, <3>2, <3>3
  <2>7. QED
    BY <2>4, <2>5, <2>6 DEF NamesInv
<1>5. ASSUME NEW s \in Sessions, Write(s) PROVE NamesInv'
  <2>1. \A t \in Sessions : tx'[t].names = tx[t].names
    BY <1>5, WriteEffect
  <2>2. QED
    BY <1>2, <1>5, <2>1, WriteEffect
<1>6. ASSUME NEW s \in Sessions, DrawName(s) PROVE NamesInv'
  <2>1. PICK k \in Nat : /\ series + k <= MaxNames
                         /\ tx[s].names = (series + 1) .. (series + k)
                         /\ Cardinality(tx[s].names) = k
    BY DrawnNames
  <2>2. /\ series' = series /\ taken' = taken
        /\ \A t \in Sessions \ {s} : tx'[t] = tx[t] /\ tx[t].names = {}
        /\ series + k < MaxNames
    BY <1>6, <2>1 DEF DrawName, TypeOK
  <2>3. tx'[s].names = tx[s].names \cup {series + k + 1}
    BY <1>6, <2>1, SessType DEF DrawName, TypeOK, Tx
  <2>4. tx'[s].names = (series' + 1) .. (series' + (k + 1)) /\ series' + (k + 1) <= MaxNames
    BY <1>1, <2>1, <2>2, <2>3
  <2>5. ASSUME NEW t \in Sessions \ {s}
        PROVE  tx'[t].names = (series' + 1) .. (series' + 0) /\ series' + 0 <= MaxNames
    <3>1. {} = (series + 1) .. (series + 0) /\ series + 0 <= MaxNames
      BY <1>1 DEF TypeOK
    <3>2. tx'[t].names = {}
      BY <2>2
    <3>3. QED
      BY <2>2, <3>1, <3>2
  <2>6. k + 1 \in Nat /\ 0 \in Nat
    BY <2>1
  <2>7. \A t \in Sessions : \E j \in Nat :
          series' + j <= MaxNames /\ tx'[t].names = (series' + 1) .. (series' + j)
    BY <2>4, <2>5, <2>6
  <2>8. \A t, u \in Sessions : t # u => tx'[t].names = {} \/ tx'[u].names = {}
    BY <2>2
  <2>9. NamesAreDense'
    BY <2>2 DEF NamesInv, NamesAreDense
  <2>10. QED
    BY <2>7, <2>8, <2>9 DEF NamesInv
<1>7. ASSUME NEW s \in Sessions, Other(s), ~DrawName(s) PROVE NamesInv'
  <2>1. tx[s] \in Tx
    BY SessType
  <2>2. IdleTx.names = {}
    BY DEF IdleTx
  <2>3. CASE Begin(s) \/ Abort(s) \/ Start(s)
    <3>1. tx'[s].names \in {tx[s].names, {}}
      <4>1. CASE Begin(s) \/ Abort(s)
        BY <2>2, <4>1 DEF Begin, Abort, TypeOK
      <4>2. CASE Start(s)
        BY <2>1, <4>2 DEF Start, Mutate, TypeOK, Tx
      <4>3. QED
        BY <2>3, <4>1, <4>2
    <3>2. QED
      BY <1>2, <1>7, <3>1, OtherFrame
  <2>4. CASE LockTree(s) \/ Load(s) \/ Refused(s) \/ Check(s)
    <3>1. tx'[s].names \in {tx[s].names, {}}
      BY <2>1, <2>4 DEF LockTree, Load, Refused, Refuse, Check, TypeOK, Tx
    <3>2. QED
      BY <1>2, <1>7, <3>1, OtherFrame
  <2>5. CASE (\E n \in Nodes : ReadPath(s, n)) \/ EndRead(s)
    <3>1. tx'[s].names \in {tx[s].names, {}}
      <4>1. CASE \E n \in Nodes : ReadPath(s, n)
        BY <2>1, <4>1 DEF ReadPath, TypeOK, Tx
      <4>2. CASE EndRead(s)
        BY <2>1, <4>2 DEF EndRead, TypeOK, Tx
      <4>3. QED
        BY <2>5, <4>1, <4>2
    <3>2. QED
      BY <1>2, <1>7, <3>1, OtherFrame
  <2>6. QED
    BY <1>7, <2>3, <2>4, <2>5 DEF Other
<1>8. QED
  BY <1>3, <1>4, <1>5, <1>6, <1>7, NextCases

-----------------------------------------------------------------------------
(* The theorems.                                                           *)

LEMMA InitInv == Init => Inv
<1> SUFFICES ASSUME Init PROVE Inv
  OBVIOUS
<1> USE RecordConstants
<1>1. Gone \in Row /\ IdleTx \in Tx /\ Idle("out") \in Session
  BY DEF Gone, Row, Parents, IdleTx, Tx, Idle, Session
<1>2. TypeOK
  <2>1. rows \in [Nodes -> Row] /\ tx \in [Sessions -> Tx]
    BY <1>1 DEF Init
  <2>2. sess \in [Sessions -> Session]
    BY <1>1 DEF Init
  <2>3. series \in 0 .. MaxNames /\ taken \in [1 .. MaxNames -> Nat]
    BY DEF Init
  <2>4. QED
    BY <2>1, <2>2, <2>3 DEF Init, TypeOK
<1>3. \A s \in Sessions : /\ ~Mutating(s) /\ At(s, "out") /\ ~sess[s].aware /\ ~Writer(s)
                          /\ tx[s].names = {} /\ tx[s].held = {} /\ tx[s].lock = "none"
  BY DEF Init, Idle, IdleTx, Mutating, At, Writer, Wrote
<1>4. MutationInv /\ HeldInv /\ LockInv /\ ForestInv
  BY <1>3 DEF Init, MutationInv, MutationOf, HeldInv, LockInv, LockOf, ForestInv,
     ForestOf, At, Writer
<1>5. \A s \in Sessions : tx[s].names = (series + 1) .. (series + 0) /\ series + 0 <= MaxNames
  BY <1>3 DEF Init
<1>6. NamesAreDense
  BY DEF Init, NamesAreDense
<1>7. NamesInv
  BY <1>3, <1>5, <1>6 DEF NamesInv
<1>8. QED
  BY <1>2, <1>4, <1>7 DEF Inv

LEMMA InvStep == Inv /\ [Next]_vars => Inv'
<1> SUFFICES ASSUME Inv, [Next]_vars PROVE Inv'
  OBVIOUS
<1>1. CASE Next
  <2>1. TypeOK'
    BY <1>1, TypeStep DEF Inv
  <2>2. QED
    BY <1>1, <2>1, MutationStep, HeldStep, LockStep, ForestStep, NamesStep DEF Inv
<1>2. CASE UNCHANGED vars
  <2>1. TypeOK' /\ HeldInv' /\ NamesInv'
    BY <1>2 DEF Inv, vars, TypeOK, HeldInv, Wrote, NamesInv, NamesAreDense
  <2>2. \A s \in Sessions : Shape(s)' = Shape(s)
                            /\ \A n \in Nodes : Seen(s, n)' = Seen(s, n)
    BY <1>2, SameView DEF vars
  <2>3. MutationInv'
    BY <1>2, <2>2 DEF Inv, vars, MutationInv, MutationOf, Mutating, At, Wrote, Exists
  <2>4. LockInv'
    BY <1>2 DEF Inv, vars, LockInv, LockOf, Mutating, At, Writer, Wrote
  <2>5. ForestInv'
    <3>1. Tree' = Tree
      BY <1>2 DEF vars, Tree
    <3>2. \A s \in Sessions : ForestOf(s) => ForestOf(s)'
      BY <1>2, SameForest DEF vars
    <3>3. QED
      BY <1>2, <3>1, <3>2 DEF Inv, vars, ForestInv
  <2>6. QED
    BY <2>1, <2>3, <2>4, <2>5 DEF Inv
<1>3. QED
  BY <1>1, <1>2

LEMMA Invariance == Spec => []Inv
BY InitInv, InvStep, PTL DEF Spec

\* Every reachable state is well typed.
THEOREM TypeCorrect == Spec => []TypeOK
<1>1. Inv => TypeOK
  BY DEF Inv
<1>2. QED
  BY <1>1, Invariance, PTL

\* The Records of a tree form a forest whose parents exist, for every number
\* of records and of transactions that create, move and delete them.
THEOREM TreeStaysForest == Spec => []TreeIsForest
<1>1. Inv => TreeIsForest
  BY DEF Inv, ForestInv, TreeIsForest, Tree
<1>2. QED
  BY <1>1, Invariance, PTL

\* What a mutation has loaded is still the predecessor of what it writes.
THEOREM PredecessorHeld == Spec => []OldIsPredecessor
<1>1. Inv => OldIsPredecessor
  BY DEF Inv, MutationInv, MutationOf, Mutating, OldIsPredecessor
<1>2. QED
  BY <1>1, Invariance, PTL

\* A path stays the path of its node while the records on it are read.
THEOREM PathsHeld == Spec => []PathsAreStable
<1>1. Inv => PathsAreStable
  BY DEF Inv, ForestInv, ForestOf, PathsAreStable
<1>2. QED
  BY <1>1, Invariance, PTL

\* A naming series gives no name twice and leaves none out.
THEOREM NamesHeld == Spec => []NamesAreDense
<1>1. Inv => NamesAreDense
  BY DEF Inv, NamesInv
<1>2. QED
  BY <1>1, Invariance, PTL
=============================================================================
