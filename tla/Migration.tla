----------------------------- MODULE Migration ------------------------------
(***************************************************************************)
(* dygo db migrate and dygo db prune (internal/cli/db.go,                  *)
(* internal/migration, internal/db): operators, each in a project root,    *)
(* which others may be in too, plan a change of one database, confirm what *)
(* they were shown, and apply it in one transaction under the lifecycle    *)
(* lock, while record writers insert rows.  A migration runs the patches   *)
(* that precede the schema sync, the sync, the metadata, the patches that  *)
(* follow it, access rules, fixtures and the activation of the Apps; the   *)
(* ledger says which patches ran.  The schema snapshot, a file of the      *)
(* root, is rewritten after the commit, outside the lock.                  *)
(***************************************************************************)
EXTENDS Fixtures

CONSTANTS
  Operators,
  Roots,       \* project roots, each with a snapshot of its own
  Versions,
  Patches,     \* the identities of patches
  Sums,        \* checksums of patch files
  Sources,     \* project trees, the revisions that a root may hold
  Source,      \* their contents
  MaxCommands  \* bound: commands that get as far as a confirmation

\* What an operation names: the columns that its fields have in the metadata,
\* or for the field that is renamed, copied or dropped, in the database.
FieldColumns == Columns \ SystemColumns
Of(kinds, from, to) == [kind : kinds, sql : BOOLEAN, table : Tables, from : from, to : to]
Operation == Of({"rename-field"}, Columns, FieldColumns) \cup Of({"rename-entity"}, {None}, Tables)
             \cup Of({"drop-field"}, Columns, {None}) \cup Of({"retype"}, FieldColumns, Types)
             \cup Of({"data"}, Columns, FieldColumns)
Patch == [id : Patches, app : Apps, phase : {"pre-sync", "post-sync"},
          runOn : {"migrate", "install", "both"}, sum : Sums, ops : Seq(Operation)]

\* An entry of the ledger.
Run == [sum : Sums, outcome : {"applied", "baselined"}]

\* The schema that the metadata of a source asks for.
SchemaOf == [s \in Sources |-> SchemaFor(Source[s].entities)]

\* The sources pass the validation of Apps, metadata, routes, code, patches,
\* access rules and fixtures that planning starts with.
ASSUME MigrationConstants ==
  /\ None \notin Versions \cup Run /\ MaxCommands \in Nat
  /\ \A s \in Sources :
       LET found == {a \in Apps : Source[s].version[a] # None}
       IN /\ Source[s].version \in [Apps -> Versions \cup {None}]
          /\ \A a \in found : Source[s].needs[a] \subseteq found \ {a}
          /\ Source[s].entities \subseteq Entity /\ Migratable(Source[s].entities)
          /\ \A e \in Source[s].entities : e.app \in found
          /\ FilesValid(Source[s].entities, Source[s].fixtures)
          /\ \A x \in Range(Source[s].fixtures) : x.app \in found
  /\ \A s \in Sources :
       /\ Source[s].patches \in Seq(Patch)
       /\ \A i, j \in DOMAIN Source[s].patches :
            LET p == Source[s].patches[i]
            IN /\ p.runOn # "migrate" => p.phase = "post-sync"
               /\ p.id = Source[s].patches[j].id => i = j

VARIABLES
  db,        \* the committed database
  root,      \* root[o]: the project root operator o works in
  pc,        \* pc[o]: where o's command is
  shown,     \* shown[o]: the plan o was shown
  work,      \* work[o]: what o's transaction has made of the database
  snapshot,  \* snapshot[r]: db/schema.sql in r
  commands,  \* commands confirmed so far
  ran,       \* history: ran[p], the committed executions of p's operations
  ahead,     \* history: the metadata was persisted by a prune whose tree the
             \* database did not have yet, or a patch changed the schema after
             \* the sync
  missed     \* history: the roots whose snapshot was not refreshed, or by an
             \* older dump, since the schema last changed

vars == <<db, root, pc, shown, work, snapshot, commands, ran, ahead, missed>>

Database == [live : Schema, rows : SUBSET Tables,
             app : [Apps -> [status : {"none", "installed", "active", "disabled"},
                             version : Versions \cup {None}]],
             ledger : [Patches -> Run \cup {None}],
             meta : Sources \cup {None}]
EmptySchema == [tables |-> {}, cols |-> [t \in Tables |-> [c \in Columns |-> None]],
                objs |-> [t \in Tables |-> [x \in Objects |-> None]]]
InTransaction(o) == pc[o] \in {"locked", "patched", "synced", "ended"}

TypeOK ==
  /\ db \in Database /\ Live(db.live) /\ db.rows \subseteq db.live.tables
  /\ root \in [Operators -> Roots]
  /\ pc \in [Operators -> {"idle", "migrate?", "locked", "patched", "synced", "ended",
                           "prune?", "pruning", "dump", "save"}]
  /\ \A o \in Operators : InTransaction(o) =>
       /\ work[o].db \in Database /\ Live(work[o].db.live) /\ work[o].ran \subseteq Patches
  /\ DOMAIN snapshot = Roots /\ \A r \in Roots : Live(snapshot[r])
  /\ commands \in 0..MaxCommands
  /\ ran \in [Patches -> 0..1]

Init ==
  /\ db = [live |-> EmptySchema, rows |-> {}, meta |-> None,
           app |-> [a \in Apps |-> [status |-> "none", version |-> None]],
           ledger |-> [p \in Patches |-> None]]
  /\ root \in [Operators -> Roots]
  /\ pc = [o \in Operators |-> "idle"]
  /\ shown = [o \in Operators |-> None] /\ work = [o \in Operators |-> None]
  /\ snapshot = [r \in Roots |-> EmptySchema]
  /\ commands = 0
  /\ ran = [p \in Patches |-> 0]
  /\ ahead = FALSE /\ missed = {}

-----------------------------------------------------------------------------
(* Patch operations: what the planner checks and simulates, and what       *)
(* PostgreSQL does.                                                        *)

\* Edits of the simulated schema, and of no index or constraint in it.
ColumnRenamed(s, t, from, to) ==
  [s EXCEPT !.cols[t][to] = s.cols[t][from], !.cols[t][from] = None]
TableRenamed(s, from, to) ==
  [tables |-> (s.tables \ {from}) \cup {to},
   cols |-> [s.cols EXCEPT ![to] = s.cols[from], ![from] = EmptySchema.cols[from]],
   objs |-> [s.objs EXCEPT ![to] = s.objs[from], ![from] = EmptySchema.objs[from]]]

\* Those of every table; the columns of rows may be renamed and dropped.
IsSystemColumn(c) == c \in SystemColumns \ RowColumns

\* The schema after an operation, None when it is refused.
RenameField(x, s) ==
  IF /\ ~IsSystemColumn(x.from)
     /\ HasColumn(s, x.table, x.from) /\ ~HasColumn(s, x.table, x.to)
  THEN ColumnRenamed(s, x.table, x.from, x.to) ELSE None

RenameEntity(x, s) ==
  IF x.table \in s.tables /\ x.to \notin s.tables THEN TableRenamed(s, x.table, x.to) ELSE None

\* A copy from a column to another, or to itself what a backfill does.
CopyField(x, s) ==
  IF HasColumn(s, x.table, x.from) /\ HasColumn(s, x.table, x.to) THEN s ELSE None

DropField(x, s) ==
  IF ~IsSystemColumn(x.from) /\ HasColumn(s, x.table, x.from)
  THEN [s EXCEPT !.cols[x.table][x.from] = None] ELSE None

ChangeFieldType(x, s) ==
  IF HasColumn(s, x.table, x.from) THEN [s EXCEPT !.cols[x.table][x.from].type = x.to] ELSE None

Planned(x, s) ==
  CASE x.kind = "rename-field" -> RenameField(x, s)
    [] x.kind = "rename-entity" -> RenameEntity(x, s)
    [] x.kind = "data" -> CopyField(x, s)
    [] x.kind = "drop-field" -> DropField(x, s)
    [] x.kind = "retype" -> ChangeFieldType(x, s)

\* PostgreSQL renames a column in the objects over it and drops those over a
\* dropped one.
Carried(x, b) ==
  CASE x.kind = "rename-field" /\ b # None /\ x.from \in b.cols ->
         [b EXCEPT !.cols = (@ \ {x.from}) \cup {x.to}]
    [] x.kind = "drop-field" /\ b # None /\ x.from \in b.cols -> None
    [] OTHER -> b
Execute(x, s) ==
  LET edited == Planned(x, s)
  IN IF edited = None \/ x.kind = "rename-entity" THEN edited
     ELSE [edited EXCEPT !.objs[x.table] = [i \in Objects |-> Carried(x, @[i])]]

\* A sequence of operations; what an SQL operation does is known only when it
\* is executed.
Simulate(ops, s) ==
  LET after[n \in 0..Len(ops)] ==
        IF n = 0 THEN s
        ELSE IF after[n - 1] = None \/ ops[n].sql THEN after[n - 1]
        ELSE Planned(ops[n], after[n - 1])
  IN after[Len(ops)]
Executed(ops, s) ==
  LET after[n \in 0..Len(ops)] ==
        IF n = 0 THEN s
        ELSE IF after[n - 1] = None THEN None ELSE Execute(ops[n], after[n - 1])
  IN after[Len(ops)]

\* A plan names patches of a tree by their places in its order.
Ids(s, chosen) == {Source[s].patches[i].id : i \in chosen}
OpsOf(s, chosen) ==
  FlattenSeq([i \in DOMAIN Source[s].patches |->
                IF i \in chosen THEN Source[s].patches[i].ops ELSE <<>>])

\* Rows go with a table that is renamed.
Occupied(ops, rows) ==
  FoldLeft(LAMBDA r, x : IF x.kind = "rename-entity" /\ x.table \in r
                         THEN (r \ {x.table}) \cup {x.to} ELSE r, rows, ops)

-----------------------------------------------------------------------------
(* Planning                                                                *)

\* A patch that describes an upgrade is recorded, not run, when its App is
\* installed by this migration; one for installations runs only then.
Installing(d) == {a \in Apps : d.app[a].status \in {"none", "installed"}}
Baseline(s, d) ==
  {i \in DOMAIN Source[s].patches :
     LET p == Source[s].patches[i]
     IN d.ledger[p.id] = None /\ p.app \in Installing(d) /\ p.runOn = "migrate"}
Pending(s, d, phase, installing) ==
  {i \in DOMAIN Source[s].patches :
     LET p == Source[s].patches[i]
     IN /\ p.phase = phase /\ d.ledger[p.id] = None
        /\ IF p.app \in installing THEN p.runOn # "migrate" ELSE p.runOn # "install"}

\* An edited patch that is in the ledger stops every plan.
Unedited(s, d) ==
  \A i \in DOMAIN Source[s].patches :
    LET p == Source[s].patches[i]
    IN d.ledger[p.id] # None => d.ledger[p.id].sum = p.sum

Found(s, a) == Source[s].version[a] # None
Disabled(d, a) == d.app[a].status = "disabled"

AppsAgree(s, d) ==
  /\ Found(s, Core) /\ ~Disabled(d, Core)
  /\ \A a \in Apps :
       /\ d.app[a].status # "none" => Found(s, a)
       /\ d.app[a].status = "installed" => d.app[a].version = Source[s].version[a]
       /\ Found(s, a) /\ ~Disabled(d, a) => \A b \in Source[s].needs[a] : ~Disabled(d, b)

\* The columns expected after the sync, for planning the patches after it.
Future(d, l) ==
  [l EXCEPT !.tables = @ \cup d.tables,
            !.cols = [t \in Tables |-> [c \in Columns |->
                       IF HasColumn(d, t, c) THEN d.cols[t][c] ELSE l.cols[t][c]]]]

Plan(s, d) ==
  LET pre == Pending(s, d, "pre-sync", Installing(d))
      ops == OpsOf(s, pre)
      sim == Simulate(ops, d.live)
      rows == Occupied(SelectSeq(ops, LAMBDA x : ~x.sql), d.rows)
      post == Pending(s, d, "post-sync", Installing(d))
  IN [tree |-> s, pre |-> Ids(s, pre), post |-> Ids(s, post), base |-> Ids(s, Baseline(s, d)),
      status |-> [a \in Apps |-> d.app[a].status],
      deferred |-> \E i \in DOMAIN ops : ops[i].sql,
      drops |-> \E i \in DOMAIN ops : ops[i].kind = "drop-field",
      ops |-> IF sim = None THEN {} ELSE Operations(SchemaOf[s], sim, rows),
      blockers |-> IF sim = None THEN {} ELSE Diagnostics(SchemaOf[s], sim, rows),
      valid |-> /\ AppsAgree(s, d) /\ Unedited(s, d) /\ sim # None
                /\ Simulate(OpsOf(s, post), Future(SchemaOf[s], sim)) # None]

\* A root holds the tree s when a command reads it; between two readings, and
\* while a command waits for its confirmation, another may be checked out.
\* The plan is shown; blockers end the command unless an SQL operation hides
\* what the schema will be.
PlanMigration(o, s) ==
  /\ pc[o] = "idle" /\ commands < MaxCommands
  /\ LET plan == Plan(s, db)
     IN plan.valid /\ (plan.deferred \/ plan.blockers = {}) /\ shown' = [shown EXCEPT ![o] = plan]
  /\ pc' = [pc EXCEPT ![o] = "migrate?"]
  /\ commands' = commands + 1
  /\ UNCHANGED <<db, root, work, snapshot, ran, ahead, missed>>

Cancel(o) ==
  /\ pc[o] \in {"migrate?", "prune?"}
  /\ pc' = [pc EXCEPT ![o] = "idle"] /\ shown' = [shown EXCEPT ![o] = None]
  /\ UNCHANGED <<db, root, work, snapshot, commands, ran, ahead, missed>>

-----------------------------------------------------------------------------
(* The migration's transaction                                             *)

Unlocked == \A o \in Operators : ~InTransaction(o)

Goes(o, to, w) == pc' = [pc EXCEPT ![o] = to] /\ work' = [work EXCEPT ![o] = w]
Begun(s) == [db |-> db, tree |-> s, ran |-> {}, did |-> {}, drops |-> {},
             ahead |-> FALSE, dumps |-> TRUE]

\* Mutant: the plan is made again and not compared.
LockUnchecked(o, s) ==
  /\ pc[o] = "migrate?" /\ Unlocked
  /\ Plan(s, db).valid
  /\ Goes(o, "locked", Begun(s))
  /\ UNCHANGED <<db, root, shown, snapshot, commands, ran, ahead, missed>>

\* The plan made under the lock must be the one that was approved.
Lock(o, s) ==
  /\ pc[o] = "migrate?" /\ Unlocked
  /\ Plan(s, db) = shown[o]
  /\ Goes(o, "locked", Begun(s))
  /\ UNCHANGED <<db, root, shown, snapshot, commands, ran, ahead, missed>>

Changed(o, s) ==
  /\ pc[o] = "migrate?" /\ Unlocked
  /\ Plan(s, db) # shown[o]
  /\ pc' = [pc EXCEPT ![o] = "idle"] /\ shown' = [shown EXCEPT ![o] = None]
  /\ UNCHANGED <<db, root, work, snapshot, commands, ran, ahead, missed>>

\* Mutant: only baselines are recorded.
RecordedBaselines(ledger, s, chosen, outcome) ==
  [p \in Patches |->
     IF p \in Ids(s, chosen) /\ outcome = "baselined"
     THEN [sum |-> (CHOOSE x \in Range(Source[s].patches) : x.id = p).sum, outcome |-> outcome]
     ELSE ledger[p]]

Recorded(ledger, s, chosen, outcome) ==
  [p \in Patches |->
     IF p \in Ids(s, chosen)
     THEN [sum |-> (CHOOSE x \in Range(Source[s].patches) : x.id = p).sum, outcome |-> outcome]
     ELSE ledger[p]]

\* An impossible operation is an error of PostgreSQL: see Fails.
PatchBefore(o) ==
  /\ pc[o] = "locked"
  /\ LET w == work[o]
         pre == Pending(w.tree, w.db, "pre-sync", Installing(w.db))
         ops == OpsOf(w.tree, pre)
         live == Executed(ops, w.db.live)
     IN /\ live # None
        /\ Goes(o, "patched", [w EXCEPT !.ran = Ids(w.tree, pre),
             !.db = [@ EXCEPT !.live = live,
                              !.rows = live.tables \cap Occupied(ops, db.rows),
                              !.ledger = Recorded(w.db.ledger, w.tree, pre, "applied")]])
  /\ UNCHANGED <<db, root, shown, snapshot, commands, ran, ahead, missed>>

\* The metadata of s replaces what was persisted; a new App is installed.
Persisted(d, s) ==
  [d EXCEPT !.meta = s,
            !.app = [a \in Apps |-> IF ~Found(s, a) THEN @[a]
                       ELSE [status |-> IF @[a].status = "none" THEN "installed" ELSE @[a].status,
                             version |-> Source[s].version[a]]]]

\* A single Entity has its one record from the sync on.
Singles(s) == {TableFor(e) : e \in {x \in Source[s].entities : x.kind = "single"}}

Sync(o) ==
  /\ pc[o] = "patched"
  /\ LET w == work[o]
         d == SchemaOf[w.tree]
         rows == w.db.rows \cup (db.rows \cap w.db.live.tables)
         ops == Operations(d, w.db.live, rows)
     IN /\ Diagnostics(d, w.db.live, rows) = {}
        /\ Goes(o, "synced", [w EXCEPT !.did = ops,
             !.db = [Persisted(w.db, w.tree) EXCEPT !.live = Synced(d, w.db.live, ops),
                                                    !.rows = rows \cup Singles(w.tree)]])
  /\ UNCHANGED <<db, root, shown, snapshot, commands, ran, ahead, missed>>

\* Fixtures of Apps that are not disabled create the records they name, or
\* update them; of the records of an Entity only whether there are any counts.
FixtureTables(s) ==
  {TableFor(EntityOf(Source[s].entities, x)) :
     x \in {f \in Range(Source[s].fixtures) : ~Disabled(db, f.app)}}
Fixtured(s, d) == [d EXCEPT !.rows = @ \cup FixtureTables(s)]

\* The Apps of the tree that were not disabled when the migration planned.
Activated(s, d) ==
  [d EXCEPT !.app = [a \in Apps |-> IF Found(s, a) /\ ~Disabled(db, a)
                                    THEN [@[a] EXCEPT !.status = "active"] ELSE @[a]]]

\* Baselines, the patches after the sync as the real schema and ledger have
\* them now, access rules, fixtures, and the Apps' state.
Finish(o) ==
  /\ pc[o] = "synced"
  /\ LET w == work[o]
         s == w.tree
         installing == Installing(db)
         ledger == Recorded(w.db.ledger, s, Baseline(s, [w.db EXCEPT !.app = db.app]),
                            "baselined")
         post == Pending(s, [w.db EXCEPT !.ledger = ledger], "post-sync", installing)
         ops == OpsOf(s, post)
         live == Executed(ops, w.db.live)
         patched == [w.db EXCEPT !.live = live, !.ledger = Recorded(ledger, s, post, "applied"),
                                 !.rows = w.db.rows \cap live.tables]
     IN /\ Simulate(ops, w.db.live) # None /\ live # None
        /\ FixtureTables(s) \subseteq live.tables
        /\ Goes(o, "ended", [w EXCEPT !.ran = w.ran \cup Ids(s, post), !.ahead = (live # w.db.live),
                                      !.db = Activated(s, Fixtured(s, patched))])
  /\ UNCHANGED <<db, root, shown, snapshot, commands, ran, ahead, missed>>

-----------------------------------------------------------------------------
(* Prune                                                                   *)

\* Blockers, or nothing to drop, end the command.
PlanPrune(o, s) ==
  /\ pc[o] = "idle" /\ commands < MaxCommands
  /\ Unsafe(SchemaOf[s], db.live, db.rows) = {}
  /\ Extra(SchemaOf[s], db.live) # {}
  /\ pc' = [pc EXCEPT ![o] = "prune?"]
  /\ commands' = commands + 1
  /\ UNCHANGED <<db, root, shown, work, snapshot, ran, ahead, missed>>

\* The confirmed command plans again, from the tree and database of now and
\* before it takes the lock; it does not look at the plan it showed.
PlanPruneAgain(o, s) ==
  /\ pc[o] = "prune?"
  /\ LET d == SchemaOf[s]
     IN IF Unsafe(d, db.live, db.rows) # {} THEN Goes(o, "idle", None)
        ELSE Goes(o, "pruning", [Begun(s) EXCEPT !.drops = Extra(d, db.live),
                                   !.dumps = (Extra(d, db.live) # {}),
                                   !.ahead = (Operations(d, db.live, db.rows) # {})])
  /\ UNCHANGED <<db, root, shown, snapshot, commands, ran, ahead, missed>>

\* A statement that names a missing table, column or object fails.
Droppable(l, drops) ==
  \A x \in drops : CASE x[1] = "drop-table" -> x[3] \in l.tables
                     [] x[1] = "drop-column" -> HasColumn(l, x[2], x[3])
                     [] OTHER -> HasObject(l, x[2], x[3])

Prune(o) ==
  /\ pc[o] = "pruning" /\ Unlocked
  /\ Droppable(db.live, work[o].drops)
  /\ LET w == work[o]
         live == Dropped(db.live, w.drops)
     IN Goes(o, "ended", [w EXCEPT !.ahead = w.ahead \/ db.live # w.db.live,
          !.db = [Persisted(db, w.tree) EXCEPT !.live = live, !.rows = db.rows \cap live.tables]])
  /\ UNCHANGED <<db, root, shown, snapshot, commands, ran, ahead, missed>>

PruneFails(o) ==
  /\ pc[o] = "pruning"
  /\ Goes(o, "idle", None)
  /\ UNCHANGED <<db, root, shown, snapshot, commands, ran, ahead, missed>>

-----------------------------------------------------------------------------
(* The end of a transaction, and the snapshot                              *)

Ended(o) ==
  /\ db' = [work[o].db EXCEPT !.rows = @ \cup (db.rows \cap work[o].db.live.tables)]
  /\ ran' = [p \in Patches |-> ran[p] + IF p \in work[o].ran THEN 1 ELSE 0]
  /\ ahead' = work[o].ahead
  /\ shown' = [shown EXCEPT ![o] = None]

\* The snapshots that a change of the schema leaves behind.
Behind(o, roots) ==
  missed' = IF work[o].db.live = db.live THEN missed ELSE missed \cup roots

\* Mutant: a prune leaves the snapshot alone.
DumpsMigrations(o) == IF work[o].drops = {} THEN "dump" ELSE "idle"

Dumps(o) == IF work[o].dumps THEN "dump" ELSE "idle"

Commit(o) ==
  /\ pc[o] = "ended"
  /\ Ended(o) /\ Goes(o, Dumps(o), None) /\ Behind(o, Roots \ {root[o]})
  /\ UNCHANGED <<root, snapshot, commands>>

\* The command dies with the commit, or is told it failed.
CommitUnseen(o) ==
  /\ pc[o] = "ended"
  /\ Ended(o) /\ Goes(o, "idle", None) /\ Behind(o, Roots)
  /\ UNCHANGED <<root, snapshot, commands>>

\* An error at any point, or the end of the process, rolls everything back.
Fails(o) ==
  /\ InTransaction(o)
  /\ Goes(o, "idle", None) /\ shown' = [shown EXCEPT ![o] = None]
  /\ UNCHANGED <<db, root, snapshot, commands, ran, ahead, missed>>

Dump(o) ==
  /\ pc[o] = "dump"
  /\ Goes(o, "save", [live |-> db.live])
  /\ UNCHANGED <<db, root, shown, snapshot, commands, ran, ahead, missed>>

Save(o) ==
  /\ pc[o] = "save"
  /\ snapshot' = [snapshot EXCEPT ![root[o]] = work[o].live]
  /\ missed' = IF work[o].live = db.live THEN missed \ {root[o]} ELSE missed \cup {root[o]}
  /\ Goes(o, "idle", None)
  /\ UNCHANGED <<db, root, shown, commands, ran, ahead>>

DumpFails(o) ==
  /\ pc[o] \in {"dump", "save"}
  /\ Goes(o, "idle", None) /\ missed' = missed \cup {root[o]}
  /\ UNCHANGED <<db, root, shown, snapshot, commands, ran, ahead>>

-----------------------------------------------------------------------------
(* The environment                                                         *)

\* Records are written; a table being changed keeps its writers waiting.
Insert(t) ==
  /\ t \in db.live.tables \ db.rows
  /\ \A o \in Operators : InTransaction(o) =>
       /\ work[o].db.live.cols[t] = db.live.cols[t] /\ work[o].db.live.objs[t] = db.live.objs[t]
  /\ db' = [db EXCEPT !.rows = @ \cup {t}]
  /\ UNCHANGED <<root, pc, shown, work, snapshot, commands, ran, ahead, missed>>

Disable(a) ==
  /\ Unlocked /\ db.app[a].status = "active"
  /\ db' = [db EXCEPT !.app[a].status = "disabled"]
  /\ UNCHANGED <<root, pc, shown, work, snapshot, commands, ran, ahead, missed>>

Next ==
  \/ \E o \in Operators :
       \/ \E s \in Sources : \/ PlanMigration(o, s) \/ Lock(o, s) \/ Changed(o, s)
                             \/ PlanPrune(o, s) \/ PlanPruneAgain(o, s)
       \/ Cancel(o) \/ PatchBefore(o) \/ Sync(o) \/ Finish(o)
       \/ Prune(o) \/ PruneFails(o)
       \/ Commit(o) \/ CommitUnseen(o) \/ Fails(o)
       \/ Dump(o) \/ Save(o) \/ DumpFails(o)
  \/ \E t \in Tables : Insert(t)
  \/ \E a \in Apps : Disable(a)

Spec == Init /\ [][Next]_vars

-----------------------------------------------------------------------------
(* Properties                                                              *)

\* The ledger tells what a patch did to the database: a patch it does not
\* name never ran, one applied ran exactly once, one baselined never, through
\* racing operators, failed attempts and lost commits.
LedgerTellsEffects ==
  \A p \in Patches :
    ran[p] = IF db.ledger[p] # None /\ db.ledger[p].outcome = "applied" THEN 1 ELSE 0

\* The database has exactly the schema of the metadata the runtime serves
\* records by, whoever migrated or pruned it last.
MetadataIsLive == db.meta # None /\ ~ahead => db.live = SchemaOf[db.meta]

\* The schema operations a migration executes, planned anew on the patched
\* schema, are those its operator was shown from a simulation of the patches.
\* An SQL patch is one exception, that the operator is told of; a patch that
\* drops a field is another: its indexes go with it, in the database only.
AsShown ==
  \A o \in Operators :
    /\ pc[o] \in {"synced", "ended"} /\ shown[o] # None /\ ~shown[o].deferred /\ ~shown[o].drops
         => work[o].did = shown[o].ops
    /\ pc[o] = "ended" /\ shown[o] # None
         => work[o].ran = shown[o].pre \cup shown[o].post

\* Once no command is left to write it, the snapshot of a root is the live
\* schema, unless since the schema last changed no command refreshed it (a
\* refresh failed, or the change was made from another root) or an older dump
\* overwrote a newer one.
SnapshotExplained ==
  \A r \in Roots \ missed :
    (\A o \in Operators : root[o] = r => pc[o] \notin {"dump", "save"}) => snapshot[r] = db.live
=============================================================================
