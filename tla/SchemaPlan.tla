----------------------------- MODULE SchemaPlan -----------------------------
(***************************************************************************)
(* The schema planner (internal/db/schema_plan.go) and the prune planner   *)
(* (internal/db/schema_prune.go): what metadata asks of the database, how  *)
(* that compares with the live schema, the operations a sync executes, the *)
(* differences that block it, and the objects a prune drops.               *)
(* A schema is its tables, their columns and their named objects (indexes  *)
(* and constraints); a definition is a member of a small set.              *)
(***************************************************************************)
EXTENDS Naturals

CONSTANTS
  Tables, Columns, Objects,  \* names
  Types,        \* column types
  Defaults,     \* column defaults
  Shapes,       \* kinds and definitions of indexes and constraints
  SystemColumns,\* the columns dygo gives to tables
  RowColumns,   \* those of them that only the rows of a collection have
  Owner,        \* the system column that older tables lack
  None          \* no column, no object, no default

ASSUME SchemaConstants ==
  /\ Owner \in SystemColumns \ RowColumns
  /\ RowColumns \subseteq SystemColumns /\ SystemColumns \subseteq Columns
  /\ None \notin Defaults

Column == [type : Types, required : BOOLEAN, default : Defaults \cup {None}]
Object == [cols : SUBSET Columns, shape : Shapes, single : BOOLEAN]

ASSUME NoneIsNoDefinition == None \notin Column /\ None \notin Object

\* cols[t][c] and objs[t][o] are None for what the schema does not have.
Schema == [tables : SUBSET Tables,
           cols : [Tables -> [Columns -> Column \cup {None}]],
           objs : [Tables -> [Objects -> Object \cup {None}]]]

Bare(s) == \A t \in Tables \ s.tables :
             /\ \A c \in Columns : s.cols[t][c] = None
             /\ \A o \in Objects : s.objs[t][o] = None

\* What metadata can ask for: the system columns in every table, those of rows
\* in some, and objects over the table's own columns.
Desired(d) ==
  /\ d \in Schema /\ Bare(d)
  /\ \A t \in d.tables :
       /\ \A c \in SystemColumns : IF d.cols[t][c] = None THEN c \in RowColumns
                                   ELSE d.cols[t][c].default = None
       /\ \A o \in Objects : d.objs[t][o] # None =>
            \A c \in d.objs[t][o].cols : d.cols[t][c] # None

Live(l) == l \in Schema /\ Bare(l)

-----------------------------------------------------------------------------
(* Comparing the metadata d with the live schema l, in which the tables of *)
(* rows hold rows.                                                         *)

HasColumn(s, t, c) == t \in s.tables /\ s.cols[t][c] # None
HasObject(s, t, o) == t \in s.tables /\ s.objs[t][o] # None

MissingColumn(d, l, t, c) == HasColumn(d, t, c) /\ ~HasColumn(l, t, c)

\* A system column other than the owner is never added to a table, and a
\* required one without a default only to an empty table.
Unaddable(d, l, rows, t, c) ==
  /\ MissingColumn(d, l, t, c) /\ t \in l.tables
  /\ IF c \in SystemColumns THEN c # Owner
     ELSE d.cols[t][c].required /\ d.cols[t][c].default = None /\ t \in rows

\* An object is looked at only when all its columns are or become available.
Available(d, l, rows, t, o) ==
  HasObject(d, t, o) /\ \A c \in d.objs[t][o].cols : ~Unaddable(d, l, rows, t, c)

MissingObject(d, l, rows, t, o) == Available(d, l, rows, t, o) /\ ~HasObject(l, t, o)

\* An Entity with rows cannot become a single one.
Unconvertible(d, l, rows, t, o) ==
  MissingObject(d, l, rows, t, o) /\ d.objs[t][o].single /\ t \in l.tables \cap rows

ColumnDrift(d, l, t, c) ==
  /\ HasColumn(d, t, c) /\ HasColumn(l, t, c)
  /\ \/ d.cols[t][c].type # l.cols[t][c].type
     \/ d.cols[t][c].required # l.cols[t][c].required

DefaultDrift(d, l, t, c) ==
  /\ c \notin SystemColumns /\ HasColumn(d, t, c) /\ HasColumn(l, t, c)
  /\ d.cols[t][c].default # l.cols[t][c].default

ObjectDrift(d, l, rows, t, o) ==
  /\ Available(d, l, rows, t, o) /\ HasObject(l, t, o)
  /\ d.objs[t][o] # l.objs[t][o]

ExtraTable(d, l, t) == t \in l.tables \ d.tables
ExtraColumn(d, l, t, c) == t \in d.tables /\ HasColumn(l, t, c) /\ ~HasColumn(d, t, c)
ExtraObject(d, l, t, o) == t \in d.tables /\ HasObject(l, t, o) /\ ~HasObject(d, t, o)

\* Differences only a patch may resolve.
Unsafe(d, l, rows) ==
  {x \in {"column"} \X Tables \X Columns :
     Unaddable(d, l, rows, x[2], x[3]) \/ ColumnDrift(d, l, x[2], x[3])}
  \cup {x \in {"object"} \X Tables \X Objects :
     Unconvertible(d, l, rows, x[2], x[3]) \/ ObjectDrift(d, l, rows, x[2], x[3])}

\* What the database has and the metadata lacks; a prune may drop it.
Extra(d, l) ==
  {<<"drop-table", t, t>> : t \in {x \in Tables : ExtraTable(d, l, x)}}
  \cup {x \in {"drop-column"} \X Tables \X Columns : ExtraColumn(d, l, x[2], x[3])}
  \cup {x \in {"drop-object"} \X Tables \X Objects : ExtraObject(d, l, x[2], x[3])}

\* Either blocks a sync.
Diagnostics(d, l, rows) == Unsafe(d, l, rows) \cup Extra(d, l)

Operations(d, l, rows) ==
  {<<"create-table", t, t>> : t \in d.tables \ l.tables}
  \cup {x \in {"add-column"} \X Tables \X Columns :
          /\ MissingColumn(d, l, x[2], x[3]) /\ ~Unaddable(d, l, rows, x[2], x[3])
          /\ x[2] \in l.tables \/ x[3] \notin SystemColumns}
  \cup {x \in {"set-default"} \X Tables \X Columns : DefaultDrift(d, l, x[2], x[3])}
  \cup {x \in {"add-object"} \X Tables \X Objects :
          MissingObject(d, l, rows, x[2], x[3]) /\ ~Unconvertible(d, l, rows, x[2], x[3])}

-----------------------------------------------------------------------------
(* Executing operations.                                                   *)

\* Mutant: a column that is added loses its default.
SyncedNoDefault(d, l, ops) ==
  [tables |-> l.tables \cup {t \in Tables : <<"create-table", t, t>> \in ops},
   cols |-> [t \in Tables |-> [c \in Columns |->
     IF <<"create-table", t, t>> \in ops /\ c \in SystemColumns THEN d.cols[t][c]
     ELSE IF <<"add-column", t, c>> \in ops THEN [d.cols[t][c] EXCEPT !.default = None]
     ELSE IF <<"set-default", t, c>> \in ops
       THEN [l.cols[t][c] EXCEPT !.default = d.cols[t][c].default]
     ELSE l.cols[t][c]]],
   objs |-> [t \in Tables |-> [o \in Objects |->
     IF <<"add-object", t, o>> \in ops THEN d.objs[t][o] ELSE l.objs[t][o]]]]

\* The schema after the operations of a sync; a new table starts with its
\* system columns.
Synced(d, l, ops) ==
  [tables |-> l.tables \cup {t \in Tables : <<"create-table", t, t>> \in ops},
   cols |-> [t \in Tables |-> [c \in Columns |->
     IF <<"create-table", t, t>> \in ops /\ c \in SystemColumns THEN d.cols[t][c]
     ELSE IF <<"add-column", t, c>> \in ops THEN d.cols[t][c]
     ELSE IF <<"set-default", t, c>> \in ops
       THEN [l.cols[t][c] EXCEPT !.default = d.cols[t][c].default]
     ELSE l.cols[t][c]]],
   objs |-> [t \in Tables |-> [o \in Objects |->
     IF <<"add-object", t, o>> \in ops THEN d.objs[t][o] ELSE l.objs[t][o]]]]

\* PostgreSQL drops the objects over a column with the column.
Dropped(l, drops) ==
  LET lost(t, o) ==
        \/ <<"drop-table", t, t>> \in drops \/ <<"drop-object", t, o>> \in drops
        \/ /\ l.objs[t][o] # None
           /\ \E c \in l.objs[t][o].cols : <<"drop-column", t, c>> \in drops
  IN [tables |-> {t \in l.tables : <<"drop-table", t, t>> \notin drops},
      cols |-> [t \in Tables |-> [c \in Columns |->
        IF <<"drop-table", t, t>> \in drops \/ <<"drop-column", t, c>> \in drops
          THEN None ELSE l.cols[t][c]]],
      objs |-> [t \in Tables |-> [o \in Objects |->
        IF lost(t, o) THEN None ELSE l.objs[t][o]]]]
=============================================================================
