-------------------------- MODULE Migration_proofs --------------------------
(***************************************************************************)
(* Theorems about Migration and the modules it extends, for every project, *)
(* every set of patches and any number of operators and commands.          *)
(***************************************************************************)
EXTENDS Migration, WellFoundedInduction, TLAPS

-----------------------------------------------------------------------------
(* The schema planner.                                                     *)

\* What a database that dygo migrated never has: a default of a system column.
Plain(l) == \A t \in Tables, c \in SystemColumns :
              l.cols[t][c] # None => l.cols[t][c].default = None

LEMMA NothingUnsafe ==
  ASSUME NEW d, NEW l, NEW rows, Unsafe(d, l, rows) = {}
  PROVE  /\ \A t \in Tables, c \in Columns : ~Unaddable(d, l, rows, t, c) /\ ~ColumnDrift(d, l, t, c)
         /\ \A t \in Tables, o \in Objects :
              ~Unconvertible(d, l, rows, t, o) /\ ~ObjectDrift(d, l, rows, t, o)
<1>1. ASSUME NEW t \in Tables, NEW c \in Columns
      PROVE  ~Unaddable(d, l, rows, t, c) /\ ~ColumnDrift(d, l, t, c)
  <2> SUFFICES ASSUME Unaddable(d, l, rows, t, c) \/ ColumnDrift(d, l, t, c) PROVE FALSE
    OBVIOUS
  <2>1. <<"column", t, c>> \in Unsafe(d, l, rows)
    BY DEF Unsafe
  <2>2. QED
    BY <2>1
<1>2. ASSUME NEW t \in Tables, NEW o \in Objects
      PROVE  ~Unconvertible(d, l, rows, t, o) /\ ~ObjectDrift(d, l, rows, t, o)
  <2> SUFFICES ASSUME Unconvertible(d, l, rows, t, o) \/ ObjectDrift(d, l, rows, t, o) PROVE FALSE
    OBVIOUS
  <2>1. <<"object", t, o>> \in Unsafe(d, l, rows)
    BY DEF Unsafe
  <2>2. QED
    BY <2>1
<1>3. QED
  BY <1>1, <1>2

LEMMA WhatIsExtra ==
  ASSUME NEW d, NEW l
  PROVE  /\ \A t \in Tables : <<"drop-table", t, t>> \in Extra(d, l) <=> ExtraTable(d, l, t)
         /\ \A t \in Tables, c \in Columns :
              <<"drop-column", t, c>> \in Extra(d, l) <=> ExtraColumn(d, l, t, c)
         /\ \A t \in Tables, o \in Objects :
              <<"drop-object", t, o>> \in Extra(d, l) <=> ExtraObject(d, l, t, o)
BY DEF Extra

LEMMA WhatIsDone ==
  ASSUME NEW d, NEW l, NEW rows, d.tables \subseteq Tables
  PROVE  LET ops == Operations(d, l, rows) IN
         /\ \A t \in Tables : <<"create-table", t, t>> \in ops <=> t \in d.tables \ l.tables
         /\ \A t \in Tables, c \in Columns :
              /\ <<"add-column", t, c>> \in ops <=>
                   /\ MissingColumn(d, l, t, c) /\ ~Unaddable(d, l, rows, t, c)
                   /\ t \in l.tables \/ c \notin SystemColumns
              /\ <<"set-default", t, c>> \in ops <=> DefaultDrift(d, l, t, c)
         /\ \A t \in Tables, o \in Objects :
              <<"add-object", t, o>> \in ops <=>
                MissingObject(d, l, rows, t, o) /\ ~Unconvertible(d, l, rows, t, o)
BY DEF Operations

\* Two schemas that agree place by place are one.
LEMMA SameSchema ==
  ASSUME NEW d \in Schema, NEW l \in Schema, d.tables = l.tables,
         \A t \in Tables, c \in Columns : d.cols[t][c] = l.cols[t][c],
         \A t \in Tables, o \in Objects : d.objs[t][o] = l.objs[t][o]
  PROVE  d = l
<1>1. /\ d.cols \in [Tables -> [Columns -> Column \cup {None}]]
      /\ l.cols \in [Tables -> [Columns -> Column \cup {None}]]
      /\ d.objs \in [Tables -> [Objects -> Object \cup {None}]]
      /\ l.objs \in [Tables -> [Objects -> Object \cup {None}]]
  BY DEF Schema
<1>2. ASSUME NEW t \in Tables PROVE d.cols[t] = l.cols[t]
  <2>1. PICK x \in [Columns -> Column \cup {None}] : x = d.cols[t]
    BY <1>1
  <2>2. PICK y \in [Columns -> Column \cup {None}] : y = l.cols[t]
    BY <1>1
  <2>3. \A c \in Columns : x[c] = y[c]
    BY <2>1, <2>2
  <2>4. x = y
    BY <2>3
  <2>5. QED
    BY <2>1, <2>2, <2>4
<1>3. ASSUME NEW t \in Tables PROVE d.objs[t] = l.objs[t]
  <2>1. PICK x \in [Objects -> Object \cup {None}] : x = d.objs[t]
    BY <1>1
  <2>2. PICK y \in [Objects -> Object \cup {None}] : y = l.objs[t]
    BY <1>1
  <2>3. \A o \in Objects : x[o] = y[o]
    BY <2>1, <2>2
  <2>4. x = y
    BY <2>3
  <2>5. QED
    BY <2>1, <2>2, <2>4
<1>4. d.cols = l.cols /\ d.objs = l.objs
  BY <1>1, <1>2, <1>3
<1>5. QED
  BY <1>4 DEF Schema

LEMMA SameColumn ==
  ASSUME NEW x \in Column, NEW y \in Column, x.type = y.type, x.required = y.required,
         x.default = y.default
  PROVE  x = y
BY DEF Column

LEMMA PlaceType ==
  ASSUME NEW s \in Schema, NEW t \in Tables
  PROVE  /\ \A c \in Columns : s.cols[t][c] \in Column \cup {None}
         /\ \A o \in Objects : s.objs[t][o] \in Object \cup {None}
         /\ s.tables \subseteq Tables
BY DEF Schema

\* What a blocked sync cannot have: when nothing blocks, every column and every
\* object that the database has is the one that the metadata asks for.
LEMMA NothingBlocks ==
  ASSUME NEW d, NEW l, NEW rows, Diagnostics(d, l, rows) = {}, Desired(d), Live(l)
  PROVE  /\ l.tables \subseteq d.tables
         /\ \A t \in Tables, c \in Columns :
              /\ l.cols[t][c] # None => /\ d.cols[t][c] # None
                                        /\ d.cols[t][c].type = l.cols[t][c].type
                                        /\ d.cols[t][c].required = l.cols[t][c].required
              /\ MissingColumn(d, l, t, c) => ~Unaddable(d, l, rows, t, c)
         /\ \A t \in Tables, o \in Objects :
              /\ l.objs[t][o] # None => d.objs[t][o] = l.objs[t][o]
              /\ HasObject(d, t, o) => Available(d, l, rows, t, o)
              /\ MissingObject(d, l, rows, t, o) => ~Unconvertible(d, l, rows, t, o)
<1>1. /\ d \in Schema /\ l \in Schema /\ Bare(d) /\ Bare(l)
      /\ \A t \in d.tables : \A o \in Objects : d.objs[t][o] # None =>
           d.objs[t][o].cols \subseteq Columns
  <2>1. d \in Schema /\ l \in Schema /\ Bare(d) /\ Bare(l)
    BY DEF Desired, Live
  <2>2. ASSUME NEW t \in d.tables, NEW o \in Objects, d.objs[t][o] # None
        PROVE  d.objs[t][o].cols \subseteq Columns
    <3>1. d.objs[t][o] \in Object
      BY <2>1, <2>2, PlaceType DEF Schema
    <3>2. QED
      BY <3>1 DEF Object
  <2>3. QED
    BY <2>1, <2>2
<1>2. Unsafe(d, l, rows) = {} /\ Extra(d, l) = {}
  BY DEF Diagnostics
<1>3. /\ \A t \in Tables, c \in Columns : ~Unaddable(d, l, rows, t, c) /\ ~ColumnDrift(d, l, t, c)
      /\ \A t \in Tables, o \in Objects :
           ~Unconvertible(d, l, rows, t, o) /\ ~ObjectDrift(d, l, rows, t, o)
  BY <1>2, NothingUnsafe
<1>4. /\ \A t \in Tables : ~ExtraTable(d, l, t)
      /\ \A t \in Tables, c \in Columns : ~ExtraColumn(d, l, t, c)
      /\ \A t \in Tables, o \in Objects : ~ExtraObject(d, l, t, o)
  BY <1>2, WhatIsExtra
<1>5. l.tables \subseteq d.tables
  BY <1>1, <1>4 DEF ExtraTable, Schema
<1>6. ASSUME NEW t \in Tables, NEW c \in Columns, l.cols[t][c] # None
      PROVE  /\ d.cols[t][c] # None /\ d.cols[t][c].type = l.cols[t][c].type
             /\ d.cols[t][c].required = l.cols[t][c].required
  <2>1. t \in l.tables
    BY <1>1, <1>6 DEF Bare
  <2>2. HasColumn(d, t, c) /\ HasColumn(l, t, c)
    BY <1>4, <1>5, <1>6, <2>1 DEF HasColumn, ExtraColumn
  <2>3. QED
    BY <1>3, <2>2 DEF ColumnDrift, HasColumn
<1>7. ASSUME NEW t \in Tables, NEW o \in Objects, HasObject(d, t, o)
      PROVE  Available(d, l, rows, t, o)
  BY <1>1, <1>3, <1>7 DEF Available, HasObject
<1>8. ASSUME NEW t \in Tables, NEW o \in Objects, l.objs[t][o] # None
      PROVE  d.objs[t][o] = l.objs[t][o]
  <2>1. t \in l.tables
    BY <1>1, <1>8 DEF Bare
  <2>2. HasObject(d, t, o) /\ HasObject(l, t, o)
    BY <1>4, <1>5, <1>8, <2>1 DEF HasObject, ExtraObject
  <2>3. QED
    BY <1>3, <1>7, <2>2 DEF ObjectDrift
<1>9. QED
  BY <1>3, <1>5, <1>6, <1>7, <1>8

LEMMA SyncedColumns ==
  ASSUME NEW d, NEW l, NEW ops, NEW t \in Tables, NEW c \in Columns
  PROVE  Synced(d, l, ops).cols[t][c] =
           IF <<"create-table", t, t>> \in ops /\ c \in SystemColumns THEN d.cols[t][c]
           ELSE IF <<"add-column", t, c>> \in ops THEN d.cols[t][c]
           ELSE IF <<"set-default", t, c>> \in ops
             THEN [l.cols[t][c] EXCEPT !.default = d.cols[t][c].default]
           ELSE l.cols[t][c]
BY DEF Synced

LEMMA SyncedObjects ==
  ASSUME NEW d, NEW l, NEW ops, NEW t \in Tables, NEW o \in Objects
  PROVE  Synced(d, l, ops).objs[t][o] =
           IF <<"add-object", t, o>> \in ops THEN d.objs[t][o] ELSE l.objs[t][o]
BY DEF Synced

\* A sync that nothing blocks makes of the database exactly what the metadata
\* asks for, whatever the database was: the planner leaves no difference
\* between them that is neither an operation nor a diagnostic
\* (BuildMetadataSchemaPlan, executeSchemaPlan).
THEOREM SyncReaches ==
  ASSUME NEW d, NEW l, NEW rows, Desired(d), Live(l), Plain(l), Diagnostics(d, l, rows) = {}
  PROVE  Synced(d, l, Operations(d, l, rows)) = d
<1>1. /\ d \in Schema /\ l \in Schema /\ Bare(d) /\ Bare(l)
      /\ \A t \in d.tables, c \in SystemColumns : d.cols[t][c] # None => d.cols[t][c].default = None
  BY DEF Desired, Live
<1>2. PICK ops : ops = Operations(d, l, rows)
  OBVIOUS
<1>3. /\ \A t \in Tables : <<"create-table", t, t>> \in ops <=> t \in d.tables \ l.tables
      /\ \A t \in Tables, c \in Columns :
           /\ <<"add-column", t, c>> \in ops <=>
                /\ MissingColumn(d, l, t, c) /\ ~Unaddable(d, l, rows, t, c)
                /\ t \in l.tables \/ c \notin SystemColumns
           /\ <<"set-default", t, c>> \in ops <=> DefaultDrift(d, l, t, c)
      /\ \A t \in Tables, o \in Objects :
           <<"add-object", t, o>> \in ops <=>
             MissingObject(d, l, rows, t, o) /\ ~Unconvertible(d, l, rows, t, o)
  BY <1>1, <1>2, WhatIsDone DEF Schema
<1>4. PICK s : s = Synced(d, l, ops)
  OBVIOUS
<1>5. ASSUME NEW t \in Tables, NEW c \in Columns PROVE s.cols[t][c] = d.cols[t][c]
  <2>1. s.cols[t][c] =
          IF <<"create-table", t, t>> \in ops /\ c \in SystemColumns THEN d.cols[t][c]
          ELSE IF <<"add-column", t, c>> \in ops THEN d.cols[t][c]
          ELSE IF <<"set-default", t, c>> \in ops
            THEN [l.cols[t][c] EXCEPT !.default = d.cols[t][c].default]
          ELSE l.cols[t][c]
    BY <1>4, SyncedColumns
  <2>2. d.cols[t][c] # None => t \in d.tables
    BY <1>1 DEF Bare
  <2>3. CASE l.cols[t][c] = None
    <3>1. ~DefaultDrift(d, l, t, c)
      BY <2>3 DEF DefaultDrift, HasColumn
    <3>2. CASE d.cols[t][c] = None
      <4>1. ~MissingColumn(d, l, t, c)
        BY <3>2 DEF MissingColumn, HasColumn
      <4>2. QED
        BY <1>3, <2>1, <2>3, <3>1, <3>2, <4>1
    <3>3. CASE d.cols[t][c] # None
      <4>1. MissingColumn(d, l, t, c) /\ ~Unaddable(d, l, rows, t, c)
        BY <2>2, <2>3, <3>3, NothingBlocks DEF MissingColumn, HasColumn
      <4>2. QED
        BY <1>3, <2>1, <2>2, <3>3, <4>1
    <3>4. QED
      BY <3>2, <3>3
  <2>4. CASE l.cols[t][c] # None
    <3>1. /\ d.cols[t][c] # None /\ d.cols[t][c].type = l.cols[t][c].type
          /\ d.cols[t][c].required = l.cols[t][c].required
      BY <2>4, NothingBlocks
    <3>2. t \in d.tables /\ t \in l.tables
      BY <1>1, <2>4, <3>1 DEF Bare
    <3>3. d.cols[t][c] \in Column /\ l.cols[t][c] \in Column
      BY <1>1, <2>4, <3>1, PlaceType
    <3>4. ~MissingColumn(d, l, t, c) /\ (c \in SystemColumns => ~DefaultDrift(d, l, t, c))
      <4>1. ~MissingColumn(d, l, t, c)
        BY <2>4, <3>2 DEF MissingColumn, HasColumn
      <4>2. c \in SystemColumns => ~DefaultDrift(d, l, t, c)
        BY DEF DefaultDrift
      <4>3. QED
        BY <4>1, <4>2
    <3>5. CASE DefaultDrift(d, l, t, c)
      <4>1. s.cols[t][c] = [l.cols[t][c] EXCEPT !.default = d.cols[t][c].default]
        BY <1>3, <2>1, <3>2, <3>4, <3>5
      <4>2. PICK x, y : x = l.cols[t][c] /\ y = d.cols[t][c]
        OBVIOUS
      <4>3. x \in Column /\ y \in Column /\ x.type = y.type /\ x.required = y.required
        BY <3>1, <3>3, <4>2
      <4>4. [x EXCEPT !.default = y.default] = y
        BY <4>3 DEF Column
      <4>5. QED
        BY <4>1, <4>2, <4>4
    <3>6. CASE ~DefaultDrift(d, l, t, c)
      <4>1. s.cols[t][c] = l.cols[t][c]
        BY <1>3, <2>1, <3>2, <3>4, <3>6
      <4>2. d.cols[t][c].default = l.cols[t][c].default
        <5>1. CASE c \in SystemColumns
          BY <1>1, <2>4, <3>1, <3>2, <5>1 DEF Plain
        <5>2. CASE c \notin SystemColumns
          BY <2>4, <3>1, <3>2, <3>6, <5>2 DEF DefaultDrift, HasColumn
        <5>3. QED
          BY <5>1, <5>2
      <4>3. QED
        BY <3>1, <3>3, <4>1, <4>2, SameColumn
    <3>7. QED
      BY <3>5, <3>6
  <2>5. QED
    BY <2>3, <2>4
<1>6. ASSUME NEW t \in Tables, NEW o \in Objects PROVE s.objs[t][o] = d.objs[t][o]
  <2>1. s.objs[t][o] = IF <<"add-object", t, o>> \in ops THEN d.objs[t][o] ELSE l.objs[t][o]
    BY <1>4, SyncedObjects
  <2>2. CASE l.objs[t][o] # None
    BY <2>1, <2>2, NothingBlocks
  <2>3. CASE l.objs[t][o] = None /\ d.objs[t][o] = None
    BY <2>1, <2>3
  <2>4. CASE l.objs[t][o] = None /\ d.objs[t][o] # None
    <3>1. HasObject(d, t, o) /\ ~HasObject(l, t, o)
      BY <1>1, <2>4 DEF HasObject, Bare
    <3>2. MissingObject(d, l, rows, t, o) /\ ~Unconvertible(d, l, rows, t, o)
      BY <3>1, NothingBlocks DEF MissingObject
    <3>3. QED
      BY <1>3, <2>1, <3>2
  <2>5. QED
    BY <2>2, <2>3, <2>4
<1>7. s.tables = d.tables
  <2>1. s.tables = l.tables \cup {t \in Tables : <<"create-table", t, t>> \in ops}
    BY <1>4 DEF Synced
  <2>2. l.tables \subseteq d.tables /\ d.tables \subseteq Tables
    BY <1>1, NothingBlocks DEF Schema
  <2>3. QED
    BY <1>3, <2>1, <2>2
<1>8. s \in Schema
  <2> DEFINE cols == [t \in Tables |-> [c \in Columns |-> d.cols[t][c]]]
             objs == [t \in Tables |-> [o \in Objects |-> d.objs[t][o]]]
  <2>1. s = [tables |-> s.tables, cols |-> s.cols, objs |-> s.objs]
    BY <1>4 DEF Synced
  <2>2. /\ s.cols = [t \in Tables |-> [c \in Columns |-> s.cols[t][c]]]
        /\ s.objs = [t \in Tables |-> [o \in Objects |-> s.objs[t][o]]]
    BY <1>4 DEF Synced
  <2>3. /\ \A t \in Tables, c \in Columns : s.cols[t][c] \in Column \cup {None}
        /\ \A t \in Tables, o \in Objects : s.objs[t][o] \in Object \cup {None}
    BY <1>1, <1>5, <1>6, PlaceType
  <2>4. /\ s.cols \in [Tables -> [Columns -> Column \cup {None}]]
        /\ s.objs \in [Tables -> [Objects -> Object \cup {None}]]
    BY <2>2, <2>3
  <2>5. s.tables \in SUBSET Tables
    BY <1>1, <1>7 DEF Schema
  <2>6. QED
    BY <2>1, <2>4, <2>5 DEF Schema
<1>9. QED
  BY <1>1, <1>2, <1>4, <1>5, <1>6, <1>7, <1>8, SameSchema

LEMMA DroppedColumns ==
  ASSUME NEW l, NEW drops, NEW t \in Tables, NEW c \in Columns
  PROVE  Dropped(l, drops).cols[t][c] =
           IF <<"drop-table", t, t>> \in drops \/ <<"drop-column", t, c>> \in drops
           THEN None ELSE l.cols[t][c]
BY DEF Dropped

Lost(l, drops, t, o) ==
  \/ <<"drop-table", t, t>> \in drops \/ <<"drop-object", t, o>> \in drops
  \/ l.objs[t][o] # None /\ \E c \in l.objs[t][o].cols : <<"drop-column", t, c>> \in drops

LEMMA DroppedObjects ==
  ASSUME NEW l, NEW drops, NEW t \in Tables, NEW o \in Objects
  PROVE  Dropped(l, drops).objs[t][o] = IF Lost(l, drops, t, o) THEN None ELSE l.objs[t][o]
BY DEF Dropped, Lost

\* What is dropped stays a schema, with the same defaults.
LEMMA DroppedLive ==
  ASSUME NEW l, NEW drops, Live(l)
  PROVE  /\ Live(Dropped(l, drops))
         /\ Plain(l) => Plain(Dropped(l, drops))
<1>1. PICK s : s = Dropped(l, drops)
  OBVIOUS
<1>2. l \in Schema /\ Bare(l)
  BY DEF Live
<1>3. /\ s.tables = {t \in l.tables : <<"drop-table", t, t>> \notin drops}
      /\ s = [tables |-> s.tables, cols |-> s.cols, objs |-> s.objs]
      /\ s.cols = [t \in Tables |-> [c \in Columns |-> s.cols[t][c]]]
      /\ s.objs = [t \in Tables |-> [o \in Objects |-> s.objs[t][o]]]
  BY <1>1 DEF Dropped
<1>4. ASSUME NEW t \in Tables, NEW c \in Columns
      PROVE  /\ s.cols[t][c] \in {l.cols[t][c], None}
             /\ t \notin s.tables => s.cols[t][c] = None
  <2>1. s.cols[t][c] = IF <<"drop-table", t, t>> \in drops \/ <<"drop-column", t, c>> \in drops
                       THEN None ELSE l.cols[t][c]
    BY <1>1, DroppedColumns
  <2>2. t \notin l.tables => l.cols[t][c] = None
    BY <1>2 DEF Bare
  <2>3. QED
    BY <1>3, <2>1, <2>2
<1>5. ASSUME NEW t \in Tables, NEW o \in Objects
      PROVE  /\ s.objs[t][o] \in {l.objs[t][o], None}
             /\ t \notin s.tables => s.objs[t][o] = None
  <2>1. /\ s.objs[t][o] \in {l.objs[t][o], None}
        /\ <<"drop-table", t, t>> \in drops => s.objs[t][o] = None
    <3>1. s.objs[t][o] = IF Lost(l, drops, t, o) THEN None ELSE l.objs[t][o]
      BY <1>1, DroppedObjects
    <3>2. <<"drop-table", t, t>> \in drops => Lost(l, drops, t, o)
      BY DEF Lost
    <3>3. QED
      BY <3>1, <3>2
  <2>2. t \notin l.tables => l.objs[t][o] = None
    BY <1>2 DEF Bare
  <2>3. QED
    BY <1>3, <2>1, <2>2
<1>6. s \in Schema
  <2>1. /\ \A t \in Tables, c \in Columns : s.cols[t][c] \in Column \cup {None}
        /\ \A t \in Tables, o \in Objects : s.objs[t][o] \in Object \cup {None}
    BY <1>2, <1>4, <1>5, PlaceType
  <2>2. /\ s.cols \in [Tables -> [Columns -> Column \cup {None}]]
        /\ s.objs \in [Tables -> [Objects -> Object \cup {None}]]
    BY <1>3, <2>1
  <2>3. s.tables \in SUBSET Tables
    BY <1>2, <1>3 DEF Schema
  <2>4. QED
    BY <1>3, <2>2, <2>3 DEF Schema
<1>7. Live(s)
  BY <1>4, <1>5, <1>6 DEF Live, Bare
<1>8. ASSUME Plain(l) PROVE Plain(s)
  <2>1. ASSUME NEW t \in Tables, NEW c \in SystemColumns, s.cols[t][c] # None
        PROVE  s.cols[t][c].default = None
    <3>1. s.cols[t][c] = l.cols[t][c]
      BY <1>4, <2>1, SchemaConstants
    <3>2. QED
      BY <1>8, <2>1, <3>1 DEF Plain
  <2>2. QED
    BY <2>1 DEF Plain
<1>9. QED
  BY <1>1, <1>7, <1>8

\* A prune that finds no blocker leaves of a database that needs no sync exactly
\* what the metadata asks for; in particular, what PostgreSQL drops along with a
\* column was not the metadata's (BuildSchemaPrunePlan, executeSchemaPrune).
THEOREM PruneReaches ==
  ASSUME NEW d, NEW l, NEW rows, Desired(d), Live(l), Plain(l),
         Unsafe(d, l, rows) = {}, Operations(d, l, rows) = {}
  PROVE  Dropped(l, Extra(d, l)) = d
<1>1. /\ d \in Schema /\ l \in Schema /\ Bare(d) /\ Bare(l)
      /\ \A t \in d.tables, c \in SystemColumns : d.cols[t][c] # None => d.cols[t][c].default = None
      /\ \A t \in d.tables, o \in Objects : d.objs[t][o] # None =>
           \A c \in d.objs[t][o].cols : d.cols[t][c] # None
  BY DEF Desired, Live
<1>2. PICK drops : drops = Extra(d, l)
  OBVIOUS
<1>3. /\ \A t \in Tables : <<"drop-table", t, t>> \in drops <=> ExtraTable(d, l, t)
      /\ \A t \in Tables, c \in Columns :
           <<"drop-column", t, c>> \in drops <=> ExtraColumn(d, l, t, c)
      /\ \A t \in Tables, o \in Objects :
           <<"drop-object", t, o>> \in drops <=> ExtraObject(d, l, t, o)
  BY <1>2, WhatIsExtra
<1>4. /\ \A t \in Tables, c \in Columns : ~Unaddable(d, l, rows, t, c) /\ ~ColumnDrift(d, l, t, c)
      /\ \A t \in Tables, o \in Objects :
           ~Unconvertible(d, l, rows, t, o) /\ ~ObjectDrift(d, l, rows, t, o)
  BY NothingUnsafe
<1>5. d.tables \subseteq Tables /\ l.tables \subseteq Tables
  BY <1>1 DEF Schema
<1>6. /\ d.tables \subseteq l.tables
      /\ \A t \in Tables, c \in Columns :
           ~DefaultDrift(d, l, t, c) /\ (t \in l.tables => ~MissingColumn(d, l, t, c))
      /\ \A t \in Tables, o \in Objects : ~MissingObject(d, l, rows, t, o)
  <2>1. PICK ops : ops = Operations(d, l, rows)
    OBVIOUS
  <2>2. /\ \A t \in Tables : <<"create-table", t, t>> \in ops <=> t \in d.tables \ l.tables
        /\ \A t \in Tables, c \in Columns :
             /\ <<"add-column", t, c>> \in ops <=>
                  /\ MissingColumn(d, l, t, c) /\ ~Unaddable(d, l, rows, t, c)
                  /\ t \in l.tables \/ c \notin SystemColumns
             /\ <<"set-default", t, c>> \in ops <=> DefaultDrift(d, l, t, c)
        /\ \A t \in Tables, o \in Objects :
             <<"add-object", t, o>> \in ops <=>
               MissingObject(d, l, rows, t, o) /\ ~Unconvertible(d, l, rows, t, o)
    BY <1>5, <2>1, WhatIsDone
  <2>3. ops = {}
    BY <2>1
  <2>4. QED
    BY <1>4, <1>5, <2>2, <2>3
<1>7. ASSUME NEW t \in Tables, NEW o \in Objects, HasObject(d, t, o)
      PROVE  d.objs[t][o] = l.objs[t][o] /\ HasObject(l, t, o)
  <2>1. d.objs[t][o].cols \subseteq Columns
    <3>1. d.objs[t][o] \in Object
      BY <1>1, <1>7, PlaceType DEF HasObject
    <3>2. QED
      BY <3>1 DEF Object
  <2>2. Available(d, l, rows, t, o)
    BY <1>4, <1>7, <2>1 DEF Available
  <2>3. HasObject(l, t, o)
    BY <1>6, <2>2 DEF MissingObject
  <2>4. QED
    BY <1>4, <2>2, <2>3 DEF ObjectDrift
<1>8. PICK s : s = Dropped(l, drops)
  OBVIOUS
<1>9. s.tables = d.tables
  <2>1. s.tables = {t \in l.tables : <<"drop-table", t, t>> \notin drops}
    BY <1>8 DEF Dropped
  <2>2. QED
    BY <1>3, <1>5, <1>6, <2>1 DEF ExtraTable
<1>10. ASSUME NEW t \in Tables, NEW c \in Columns PROVE s.cols[t][c] = d.cols[t][c]
  <2>1. s.cols[t][c] = IF <<"drop-table", t, t>> \in drops \/ <<"drop-column", t, c>> \in drops
                       THEN None ELSE l.cols[t][c]
    BY <1>8, DroppedColumns
  <2>2. CASE t \notin d.tables
    <3>1. d.cols[t][c] = None
      BY <1>1, <2>2 DEF Bare
    <3>2. t \notin l.tables => l.cols[t][c] = None
      BY <1>1 DEF Bare
    <3>3. QED
      BY <1>3, <2>1, <2>2, <3>1, <3>2 DEF ExtraTable
  <2>3. CASE t \in d.tables /\ d.cols[t][c] = None
    <3>1. l.cols[t][c] # None => <<"drop-column", t, c>> \in drops
      BY <1>3, <1>6, <2>3 DEF ExtraColumn, HasColumn
    <3>2. QED
      BY <2>1, <2>3, <3>1
  <2>4. CASE t \in d.tables /\ d.cols[t][c] # None
    <3>1. HasColumn(d, t, c) /\ HasColumn(l, t, c)
      BY <1>6, <2>4 DEF MissingColumn, HasColumn
    <3>2. s.cols[t][c] = l.cols[t][c]
      BY <1>3, <2>1, <2>4, <3>1 DEF ExtraTable, ExtraColumn
    <3>3. d.cols[t][c] \in Column /\ l.cols[t][c] \in Column
      BY <1>1, <3>1, PlaceType DEF HasColumn
    <3>4. d.cols[t][c].type = l.cols[t][c].type /\ d.cols[t][c].required = l.cols[t][c].required
      BY <1>4, <3>1 DEF ColumnDrift
    <3>5. d.cols[t][c].default = l.cols[t][c].default
      <4>1. CASE c \in SystemColumns
        BY <1>1, <2>4, <3>1, <4>1 DEF Plain, HasColumn
      <4>2. CASE c \notin SystemColumns
        BY <1>6, <3>1, <4>2 DEF DefaultDrift
      <4>3. QED
        BY <4>1, <4>2
    <3>6. QED
      BY <3>2, <3>3, <3>4, <3>5, SameColumn
  <2>5. QED
    BY <2>2, <2>3, <2>4
<1>11. ASSUME NEW t \in Tables, NEW o \in Objects PROVE s.objs[t][o] = d.objs[t][o]
  <2>1. s.objs[t][o] = IF Lost(l, drops, t, o) THEN None ELSE l.objs[t][o]
    BY <1>8, DroppedObjects
  <2>2. CASE ~HasObject(d, t, o)
    <3>1. d.objs[t][o] = None
      BY <1>1, <2>2 DEF HasObject, Bare
    <3>2. CASE t \in d.tables
      <4>1. l.objs[t][o] # None => <<"drop-object", t, o>> \in drops
        BY <1>3, <1>6, <2>2, <3>2 DEF ExtraObject, HasObject
      <4>2. QED
        BY <2>1, <3>1, <4>1 DEF Lost
    <3>3. CASE t \notin d.tables
      <4>1. l.objs[t][o] # None => <<"drop-table", t, t>> \in drops
        BY <1>1, <1>3, <3>3 DEF ExtraTable, Bare
      <4>2. QED
        BY <2>1, <3>1, <4>1 DEF Lost
    <3>4. QED
      BY <3>2, <3>3
  <2>3. CASE HasObject(d, t, o)
    <3>1. t \in d.tables /\ t \in l.tables /\ d.objs[t][o] = l.objs[t][o] /\ d.objs[t][o] # None
      BY <1>6, <1>7, <2>3 DEF HasObject
    <3>2. <<"drop-table", t, t>> \notin drops
      BY <1>3, <3>1 DEF ExtraTable
    <3>3. <<"drop-object", t, o>> \notin drops
      BY <1>3, <2>3 DEF ExtraObject
    <3>4. ASSUME NEW c \in l.objs[t][o].cols PROVE <<"drop-column", t, c>> \notin drops
      <4>1. d.objs[t][o] \in Object
        BY <1>1, <3>1, PlaceType
      <4>2. c \in Columns /\ d.cols[t][c] # None
        BY <1>1, <3>1, <4>1 DEF Object
      <4>3. QED
        BY <1>3, <3>1, <4>2 DEF ExtraColumn, HasColumn
    <3>5. QED
      BY <2>1, <3>1, <3>2, <3>3, <3>4 DEF Lost
  <2>4. QED
    BY <2>2, <2>3
<1>12. s \in Schema
  BY <1>8, DroppedLive DEF Live
<1>13. QED
  BY <1>1, <1>2, <1>8, <1>9, <1>10, <1>11, <1>12, SameSchema

-----------------------------------------------------------------------------
(* The schema of metadata.                                                 *)

LEMMA StringTypes ==
  /\ \A t \in StoredTypes : SqlType(t) \in Types
  /\ "text" \in Types /\ "timestamptz" \in Types /\ "bigint" \in Types
<1>1. \A t \in StoredTypes : SqlType(t) \in Types
  BY MetadataConstants
<1>2. "text" \in StoredTypes /\ "datetime" \in StoredTypes /\ "bigint" \in StoredTypes
  BY DEF StoredTypes, FieldTypes, Scalars
<1>3. SqlType("text") = "text" /\ SqlType("datetime") = "timestamptz" /\ SqlType("bigint") = "bigint"
  BY DEF SqlType
<1>4. QED
  BY <1>1, <1>2, <1>3

LEMMA EntityParts ==
  ASSUME NEW e \in Entity
  PROVE  /\ e.fields \in Seq(Field) /\ e.indexes \in Seq(Index) /\ e.constraints \in Seq(Constraint)
         /\ \A f \in Range(e.fields) : f \in Field
         /\ \A x \in Range(e.indexes) : x \in Index
         /\ \A x \in Range(e.constraints) : x \in Constraint
<1>1. e.fields \in Seq(Field) /\ e.indexes \in Seq(Index) /\ e.constraints \in Seq(Constraint)
  BY DEF Entity
<1>2. \A S : \A s \in Seq(S) : \A x \in Range(s) : x \in S
  BY DEF Range
<1>3. QED
  BY <1>1, <1>2

\* The field of a name.
LEMMA NamedField ==
  ASSUME NEW e, NEW n \in NamesOf(e)
  PROVE  FieldOf(e, n) \in Range(e.fields) /\ FieldOf(e, n).name = n
BY DEF NamesOf, FieldOf

\* The columns of an Entity's table.
Present(e) == OwnColumns(e) \cup {ColumnFor(f) : f \in StoredFields(e)}

LEMMA ColumnsPresent ==
  ASSUME NEW e \in Entity, Nameable(e), NEW c \in Columns
  PROVE  /\ ColumnsOf(e)[c] \in Column \cup {None}
         /\ ColumnsOf(e)[c] # None <=> c \in Present(e)
         /\ c \in SystemColumns => IF ColumnsOf(e)[c] = None THEN c \in RowColumns
                                   ELSE ColumnsOf(e)[c].default = None
<1>1. SystemColumn(c) \in Column /\ SystemColumn(c).default = None
  BY StringTypes DEF SystemColumn, Column
<1>2. ASSUME NEW f \in StoredFields(e) PROVE FieldColumn(f) \in Column
  <2>1. f \in Field /\ f.type \in StoredTypes
    BY <1>2, EntityParts DEF StoredFields
  <2>2. f.required \in BOOLEAN
    BY <2>1 DEF Field
  <2>3. SqlType(f.type) \in Types
    BY <2>1, StringTypes
  <2>4. DefaultFor(f) \in Defaults \cup {None}
    BY DEF DefaultFor
  <2>5. QED
    BY <2>2, <2>3, <2>4 DEF FieldColumn, Column
<1>3. None \notin Column
  BY NoneIsNoDefinition
<1>4. ColumnsOf(e)[c] = IF c \in OwnColumns(e) THEN SystemColumn(c)
        ELSE IF \E f \in StoredFields(e) : ColumnFor(f) = c
          THEN FieldColumn(CHOOSE f \in StoredFields(e) : ColumnFor(f) = c)
        ELSE None
  BY DEF ColumnsOf
<1>5. CASE c \in OwnColumns(e)
  BY <1>1, <1>3, <1>4, <1>5 DEF Present
<1>6. CASE c \notin OwnColumns(e) /\ \E f \in StoredFields(e) : ColumnFor(f) = c
  <2>1. PICK f \in StoredFields(e) : f = CHOOSE x \in StoredFields(e) : ColumnFor(x) = c
    BY <1>6
  <2>2. ColumnsOf(e)[c] = FieldColumn(f)
    BY <1>4, <1>6, <2>1
  <2>3. c \in Columns \ RowColumns
    BY <1>6 DEF Nameable
  <2>4. c \notin SystemColumns
    BY <1>6, <2>3 DEF OwnColumns
  <2>5. c \in Present(e)
    BY <1>6 DEF Present
  <2>6. QED
    BY <1>2, <1>3, <2>2, <2>4, <2>5
<1>7. CASE c \notin OwnColumns(e) /\ ~\E f \in StoredFields(e) : ColumnFor(f) = c
  <2>1. ColumnsOf(e)[c] = None /\ c \notin Present(e)
    BY <1>4, <1>7 DEF Present
  <2>2. c \in SystemColumns => c \in RowColumns
    BY <1>7 DEF OwnColumns
  <2>3. QED
    BY <2>1, <2>2
<1>8. QED
  BY <1>5, <1>6, <1>7

\* Whatever a check, an index or a constraint refers to has a column.
LEMMA ReferredPresent ==
  ASSUME NEW e \in Entity, Nameable(e), NEW n \in NamesOf(e), FieldOf(e, n).type \in StoredTypes
  PROVE  ColumnFor(FieldOf(e, n)) \in Present(e)
BY NamedField DEF Present, StoredFields

LEMMA PresentColumns ==
  ASSUME NEW e \in Entity, Nameable(e)
  PROVE  Present(e) \subseteq Columns
BY SchemaConstants DEF Present, OwnColumns, Nameable

LEMMA OverPresent ==
  ASSUME NEW e \in Entity, Nameable(e), NEW columns \in SUBSET Present(e),
         NEW shape \in {"unique", "index", "foreign-key", "check"}
  PROVE  Over(columns, shape) \in Object /\ Over(columns, shape).cols \subseteq Present(e)
BY PresentColumns, MetadataConstants DEF Over, Object

LEMMA NamedObject == \A n, object, from : Named(n, object, from).object = object
BY DEF Named

LEMMA ObjectsPresent ==
  ASSUME NEW e \in Entity, EntityValid(e), Nameable(e), NEW x \in ObjectsFor(e)
  PROVE  x.object \in Object /\ x.object.cols \subseteq Present(e)
<1>1. CASE x \in NameObjects(e)
  <2>1. {"name"} \subseteq Present(e)
    BY MetadataConstants DEF Present, OwnColumns
  <2>2. Over({"name"}, "unique") \in Object /\ Over({"name"}, "unique").cols \subseteq Present(e)
    BY <2>1, OverPresent
  <2>3. /\ [Over({"name"}, "check") EXCEPT !.single = TRUE] \in Object
        /\ [Over({"name"}, "check") EXCEPT !.single = TRUE].cols \subseteq Present(e)
    BY <2>1, PresentColumns, MetadataConstants DEF Over, Object
  <2>4. \/ x = Named(<<TableFor(e), <<"name">>, "key">>, Over({"name"}, "unique"), None)
        \/ x = Named(<<TableFor(e), <<"single">>, "check">>,
                     [Over({"name"}, "check") EXCEPT !.single = TRUE], None)
    BY <1>1 DEF NameObjects
  <2>5. \/ x.object = Over({"name"}, "unique")
        \/ x.object = [Over({"name"}, "check") EXCEPT !.single = TRUE]
    BY <2>4, NamedObject
  <2>6. QED
    BY <2>2, <2>3, <2>5
<1>2. CASE x \in RowObjects(e)
  <2>1. e.kind = "collection" /\ RowColumns \subseteq Present(e)
    BY <1>2, SchemaConstants DEF RowObjects, Present, OwnColumns
  <2>2. PICK columns \in SUBSET RowColumns, shape \in {"unique", "index", "foreign-key", "check"} :
          x.object = Over(columns, shape)
    <3>1. \/ \E c \in RowColumns : x = Named(<<TableFor(e), <<c>>, "fkey">>, Over({c}, "foreign-key"), None)
          \/ x = Named(<<TableFor(e), <<"parent_ordinal">>, "key">>, Over(RowColumns, "unique"), None)
          \/ x = Named(<<TableFor(e), <<"parent_lookup">>, "idx">>,
                       Over(RowColumns \ {"ordinal"}, "index"), None)
      BY <1>2, <2>1 DEF RowObjects
    <3>2. CASE \E c \in RowColumns : x = Named(<<TableFor(e), <<c>>, "fkey">>, Over({c}, "foreign-key"), None)
      <4>1. PICK c \in RowColumns : x = Named(<<TableFor(e), <<c>>, "fkey">>, Over({c}, "foreign-key"), None)
        BY <3>2
      <4>2. x.object = Over({c}, "foreign-key")
        BY <4>1, NamedObject
      <4>3. QED
        BY <4>2
    <3>3. CASE x = Named(<<TableFor(e), <<"parent_ordinal">>, "key">>, Over(RowColumns, "unique"), None)
      <4>1. x.object = Over(RowColumns, "unique")
        BY <3>3, NamedObject
      <4>2. QED
        BY <4>1
    <3>4. CASE x = Named(<<TableFor(e), <<"parent_lookup">>, "idx">>,
                       Over(RowColumns \ {"ordinal"}, "index"), None)
      <4>1. x.object = Over(RowColumns \ {"ordinal"}, "index")
        BY <3>4, NamedObject
      <4>2. QED
        BY <4>1
    <3>5. QED
      BY <3>1, <3>2, <3>3, <3>4
  <2>3. columns \in SUBSET Present(e)
    BY <2>1, <2>2
  <2>4. QED
    BY <2>2, <2>3, OverPresent
<1>3. CASE x \in FieldObjects(e)
  <2>1. PICK f \in StoredFields(e), shape \in {"unique", "index", "foreign-key", "check"} :
          x.object = Over({ColumnFor(f)}, shape)
    <3>1. \E f \in StoredFields(e), shape \in {"unique", "index", "foreign-key", "check"} :
            \E name : x = Named(name, Over({ColumnFor(f)}, shape), f)
      BY <1>3 DEF FieldObjects
    <3>2. QED
      BY <3>1, NamedObject
  <2>2. {ColumnFor(f)} \in SUBSET Present(e)
    BY <2>1 DEF Present
  <2>3. QED
    BY <2>1, <2>2, OverPresent
<1>4. CASE x \in EntityObjects(e)
  <2>1. PICK shape \in {"unique", "index", "foreign-key", "check"} : \E names :
          /\ x.object = Over(ColumnsFor(e, names), shape)
          /\ \A n \in Range(names) : n \in NamesOf(e) /\ FieldOf(e, n).type \in StoredTypes
    <3>1. CASE \E i \in Range(e.indexes) : x.object = Over(ColumnsFor(e, i.fields), "index")
      <4>1. PICK i \in Range(e.indexes) : x.object = Over(ColumnsFor(e, i.fields), "index")
        BY <3>1
      <4>2. References(e, i.fields, Indexable)
        BY <4>1 DEF EntityValid, IndexesValid
      <4>3. Indexable \subseteq StoredTypes
        BY DEF Indexable, StoredTypes, Structured
      <4>4. \A n \in Range(i.fields) : n \in NamesOf(e) /\ FieldOf(e, n).type \in StoredTypes
        BY <4>2, <4>3 DEF References
      <4>5. QED
        BY <4>1, <4>4
    <3>2. CASE \E k \in Range(e.constraints) :
                 x.object = Over(ColumnsFor(e, IF k.type = "check" THEN <<k.field>> ELSE k.fields),
                                 IF k.type = "unique" THEN "unique" ELSE "check")
      <4>1. PICK k \in Range(e.constraints) :
              x.object = Over(ColumnsFor(e, IF k.type = "check" THEN <<k.field>> ELSE k.fields),
                              IF k.type = "unique" THEN "unique" ELSE "check")
        BY <3>2
      <4>2. k.type \in {"unique", "check", "exactly-one"}
        BY <4>1, EntityParts DEF Constraint
      <4>3. /\ k.type = "unique" => UniqueValid(e, k)
            /\ k.type = "check" => CheckValid(e, k)
            /\ k.type = "exactly-one" => ExactlyOneValid(e, k)
        BY <4>1 DEF EntityValid, ConstraintsValid
      <4>4. Uniquable \subseteq StoredTypes /\ Checkable \subseteq StoredTypes
        BY DEF Uniquable, Indexable, Checkable, Defaultable, StoredTypes, Structured
      <4>5. CASE k.type = "check"
        <5>1. Range(<<k.field>>) = {k.field}
          BY DEF Range
        <5>2. x.object = Over(ColumnsFor(e, <<k.field>>), "check")
          BY <4>1, <4>5
        <5>3. k.field \in NamesOf(e) /\ FieldOf(e, k.field).type \in StoredTypes
          BY <4>3, <4>4, <4>5 DEF CheckValid
        <5>4. QED
          BY <5>1, <5>2, <5>3
      <4>6. CASE k.type # "check"
        <5>1. x.object = Over(ColumnsFor(e, k.fields), IF k.type = "unique" THEN "unique" ELSE "check")
          BY <4>1, <4>6
        <5>2. \A n \in Range(k.fields) : n \in NamesOf(e) /\ FieldOf(e, n).type \in StoredTypes
          BY <4>2, <4>3, <4>4, <4>6 DEF UniqueValid, ExactlyOneValid, References
        <5>3. QED
          BY <5>1, <5>2
      <4>7. QED
        BY <4>5, <4>6
    <3>3. QED
      BY <1>4, <3>1, <3>2 DEF EntityObjects, Named
  <2>2. PICK names : /\ x.object = Over(ColumnsFor(e, names), shape)
                     /\ \A n \in Range(names) : n \in NamesOf(e) /\ FieldOf(e, n).type \in StoredTypes
    BY <2>1
  <2>3. ColumnsFor(e, names) \in SUBSET Present(e)
    BY <2>2, ReferredPresent DEF ColumnsFor
  <2>4. QED
    BY <2>2, <2>3, OverPresent
<1>5. QED
  BY <1>1, <1>2, <1>3, <1>4 DEF ObjectsFor

\* What validated metadata asks for is a schema with everything that dygo and
\* its own objects need, one table for each Entity
\* (BuildMetadataSchemaPlan, buildExpectedTable).
THEOREM MetadataIsDesired ==
  ASSUME NEW es \in SUBSET Entity, Migratable(es)
  PROVE  Desired(SchemaFor(es)) /\ Plain(SchemaFor(es))
<1>1. PICK d : d = SchemaFor(es)
  OBVIOUS
<1>2. ASSUME NEW e \in es PROVE e \in Entity /\ EntityValid(e) /\ Nameable(e)
  BY DEF Migratable, CatalogValid
<1>3. /\ d.tables = {TableFor(e) : e \in es}
      /\ d = [tables |-> d.tables, cols |-> d.cols, objs |-> d.objs]
      /\ d.cols = [t \in Tables |-> IF t \in d.tables THEN ColumnsOf(EntityAt(es, t))
                                    ELSE [c \in Columns |-> None]]
      /\ d.objs = [t \in Tables |-> IF t \in d.tables THEN ObjectsOf(EntityAt(es, t))
                                    ELSE [n \in Objects |-> None]]
  BY <1>1 DEF SchemaFor
<1>4. d.tables \subseteq Tables
  BY <1>2, <1>3 DEF Nameable
<1>5. ASSUME NEW t \in d.tables
      PROVE  /\ EntityAt(es, t) \in es
             /\ d.cols[t] = ColumnsOf(EntityAt(es, t))
             /\ d.objs[t] = ObjectsOf(EntityAt(es, t))
  BY <1>3, <1>4 DEF EntityAt
<1>6. ASSUME NEW t \in d.tables, NEW c \in Columns
      PROVE  /\ d.cols[t][c] \in Column \cup {None}
             /\ d.cols[t][c] # None <=> c \in Present(EntityAt(es, t))
             /\ c \in SystemColumns => IF d.cols[t][c] = None THEN c \in RowColumns
                                       ELSE d.cols[t][c].default = None
  <2>1. PICK e \in es : e = EntityAt(es, t)
    BY <1>5
  <2>2. e \in Entity /\ Nameable(e)
    BY <1>2
  <2>3. d.cols[t] = ColumnsOf(e)
    BY <1>5, <2>1
  <2>4. QED
    BY <2>1, <2>2, <2>3, ColumnsPresent
<1>7. ASSUME NEW t \in d.tables, NEW o \in Objects
      PROVE  /\ d.objs[t][o] \in Object \cup {None}
             /\ d.objs[t][o] # None => d.objs[t][o].cols \subseteq Present(EntityAt(es, t))
  <2>1. PICK e \in es : e = EntityAt(es, t)
    BY <1>5
  <2>2. d.objs[t][o] = IF \E x \in ObjectsFor(e) : x.name = o
                       THEN (CHOOSE x \in ObjectsFor(e) : x.name = o).object ELSE None
    <3>1. d.objs[t] = ObjectsOf(e)
      BY <1>5, <2>1
    <3>2. ObjectsOf(e)[o] = IF \E x \in ObjectsFor(e) : x.name = o
                            THEN (CHOOSE x \in ObjectsFor(e) : x.name = o).object ELSE None
      BY DEF ObjectsOf
    <3>3. QED
      BY <3>1, <3>2
  <2>3. CASE \E x \in ObjectsFor(e) : x.name = o
    <3>1. PICK x \in ObjectsFor(e) : x = CHOOSE y \in ObjectsFor(e) : y.name = o
      BY <2>3
    <3>2. d.objs[t][o] = x.object
      BY <2>2, <2>3, <3>1
    <3>3. x.object \in Object /\ x.object.cols \subseteq Present(e)
      BY <1>2, ObjectsPresent
    <3>4. QED
      BY <2>1, <3>2, <3>3
  <2>4. CASE ~\E x \in ObjectsFor(e) : x.name = o
    BY <2>2, <2>4
  <2>5. QED
    BY <2>3, <2>4
<1>8. ASSUME NEW t \in Tables \ d.tables
      PROVE  /\ \A c \in Columns : d.cols[t][c] = None
             /\ \A o \in Objects : d.objs[t][o] = None
  BY <1>3
<1>9. d \in Schema
  <2>1. ASSUME NEW t \in Tables PROVE d.cols[t] \in [Columns -> Column \cup {None}]
    <3>1. d.cols[t] = [c \in Columns |-> d.cols[t][c]]
      <4>1. CASE t \in d.tables
        <5>1. PICK e : e = EntityAt(es, t)
          OBVIOUS
        <5>2. ColumnsOf(e) = [c \in Columns |-> ColumnsOf(e)[c]]
          BY DEF ColumnsOf
        <5>3. QED
          BY <1>5, <4>1, <5>1, <5>2
      <4>2. CASE t \notin d.tables
        BY <1>3, <4>2
      <4>3. QED
        BY <4>1, <4>2
    <3>2. \A c \in Columns : d.cols[t][c] \in Column \cup {None}
      BY <1>6, <1>8
    <3>3. QED
      BY <3>1, <3>2
  <2>2. ASSUME NEW t \in Tables PROVE d.objs[t] \in [Objects -> Object \cup {None}]
    <3>1. d.objs[t] = [o \in Objects |-> d.objs[t][o]]
      BY <1>3 DEF ObjectsOf
    <3>2. \A o \in Objects : d.objs[t][o] \in Object \cup {None}
      BY <1>7, <1>8
    <3>3. QED
      BY <3>1, <3>2
  <2>3. /\ d.cols \in [Tables -> [Columns -> Column \cup {None}]]
        /\ d.objs \in [Tables -> [Objects -> Object \cup {None}]]
    BY <1>3, <2>1, <2>2
  <2>4. QED
    BY <1>3, <1>4, <2>3 DEF Schema
<1>10. Bare(d)
  BY <1>8 DEF Bare
<1>11. ASSUME NEW t \in d.tables
       PROVE  /\ \A c \in SystemColumns : IF d.cols[t][c] = None THEN c \in RowColumns
                                           ELSE d.cols[t][c].default = None
              /\ \A o \in Objects : d.objs[t][o] # None =>
                   \A c \in d.objs[t][o].cols : d.cols[t][c] # None
  <2>1. \A c \in SystemColumns : IF d.cols[t][c] = None THEN c \in RowColumns
                                  ELSE d.cols[t][c].default = None
    BY <1>6, SchemaConstants
  <2>2. ASSUME NEW o \in Objects, d.objs[t][o] # None, NEW c \in d.objs[t][o].cols
        PROVE  d.cols[t][c] # None
    <3>1. c \in Present(EntityAt(es, t))
      BY <1>7, <2>2
    <3>2. Present(EntityAt(es, t)) \subseteq Columns
      BY <1>2, <1>5, PresentColumns
    <3>3. QED
      BY <1>6, <3>1, <3>2
  <2>3. QED
    BY <2>1, <2>2
<1>12. Plain(d)
  <2>1. ASSUME NEW t \in Tables, NEW c \in SystemColumns, d.cols[t][c] # None
        PROVE  d.cols[t][c].default = None
    <3>1. t \in d.tables
      BY <1>8, <2>1, SchemaConstants
    <3>2. QED
      BY <1>11, <2>1, <3>1
  <2>2. QED
    BY <2>1 DEF Plain
<1>13. QED
  BY <1>1, <1>9, <1>10, <1>11, <1>12 DEF Desired

-----------------------------------------------------------------------------
(* Recursion: the schemas that patches go through.                         *)

\* Every non-empty set of naturals has a least element.
LEMMA FirstExists ==
  ASSUME NEW S \in SUBSET Nat, S # {}
  PROVE  \E d \in S : \A e \in S : d <= e
<1>1. PICK d \in S : \A e \in S : ~ (<<e, d>> \in OpToRel(<, Nat))
  BY NatLessThanWellFounded, WFMin, Zenon
<1>2. ASSUME NEW e \in S, e < d PROVE FALSE
  <2>1. <<e, d>> \in Nat \X Nat
    OBVIOUS
  <2>2. <<e, d>>[1] = e /\ <<e, d>>[2] = d
    OBVIOUS
  <2>3. <<e, d>>[1] < <<e, d>>[2]
    BY <1>2, <2>2
  <2>4. <<e, d>> \in OpToRel(<, Nat)
    BY <2>1, <2>3, Zenon DEF OpToRel
  <2> QED
    BY <1>1, <2>4, Zenon
<1> QED
  BY <1>2

\* Iterating functions of a set N times, from s.
Iterable(N, D, s, F) ==
  \E f \in [0..N -> D] : f[0] = s /\ \A n \in 1..N : f[n] = F[n][f[n - 1]]

LEMMA Iteration ==
  ASSUME NEW D, NEW s \in D, NEW N \in Nat, NEW F \in [1..N -> [D -> D]]
  PROVE  Iterable(N, D, s, F)
<1> DEFINE Iterates(m, f) == f[0] = s /\ \A n \in 1..m : f[n] = F[n][f[n - 1]]
           Bad == {m \in 0..N : ~ \E f \in [0..m -> D] : Iterates(m, f)}
<1>1. SUFFICES Bad = {}
  <2>1. N \in 0..N
    OBVIOUS
  <2>2. QED
    BY <2>1 DEF Iterable
<1>2. SUFFICES ASSUME Bad # {} PROVE FALSE
  OBVIOUS
<1>3. PICK m \in Bad : \A k \in Bad : m <= k
  <2>1. Bad \in SUBSET Nat
    OBVIOUS
  <2> HIDE DEF Bad
  <2>2. QED
    BY <1>2, <2>1, FirstExists
<1>4. m \in 0..N /\ ~ \E f \in [0..m -> D] : Iterates(m, f)
  OBVIOUS
<1>5. CASE m = 0
  <2>1. [n \in 0..0 |-> s] \in [0..m -> D] /\ Iterates(m, [n \in 0..0 |-> s])
    BY <1>5
  <2>2. QED
    BY <1>4, <2>1
<1>6. CASE m # 0
  <2>1. m - 1 \in 0..N /\ m - 1 \notin Bad
    <3>1. m - 1 \in 0..N /\ ~ (m <= m - 1)
      BY <1>4, <1>6
    <3> HIDE DEF Bad
    <3>2. QED
      BY <1>3, <3>1
  <2>2. PICK g \in [0..m - 1 -> D] : Iterates(m - 1, g)
    BY <2>1
  <2> DEFINE h == [n \in 0..m |-> IF n = m THEN F[m][g[m - 1]] ELSE g[n]]
  <2>3. h \in [0..m -> D]
    <3>1. m \in 1..N /\ F[m] \in [D -> D] /\ g[m - 1] \in D
      BY <1>4, <1>6, <2>2
    <3>2. \A n \in 0..m : n # m => n \in 0..m - 1
      BY <1>4
    <3>3. QED
      BY <3>1, <3>2
  <2>4. h[0] = s
    BY <1>4, <1>6, <2>2
  <2>5. ASSUME NEW n \in 1..m PROVE h[n] = F[n][h[n - 1]]
    <3>1. CASE n = m
      BY <1>4, <1>6, <3>1
    <3>2. CASE n # m
      <4>1. n \in 1..m - 1 /\ n \in 0..m /\ n - 1 \in 0..m /\ n - 1 # m
        BY <1>4, <3>2
      <4>2. h[n] = g[n] /\ h[n - 1] = g[n - 1]
        BY <3>2, <4>1
      <4>3. QED
        BY <2>2, <4>1, <4>2
    <3>3. QED
      BY <3>1, <3>2
  <2>6. QED
    BY <1>4, <2>3, <2>4, <2>5
<1>7. QED
  BY <1>5, <1>6

LEMMA FlattenType ==
  ASSUME NEW S, NEW seqs \in Seq(Seq(S))
  PROVE  FlattenSeq(seqs) \in Seq(S)
<1>1. CASE Len(seqs) = 0
  <2>1. seqs = <<>>
    BY <1>1
  <2>2. QED
    BY <1>1, <2>1 DEF FlattenSeq
<1>2. CASE Len(seqs) # 0
  <2> DEFINE N == Len(seqs)
             Body(f) == [i \in 1..N |-> IF i = 1 THEN seqs[i] ELSE f[i - 1] \o seqs[i]]
             all == CHOOSE f : f = Body(f)
  <2>1. N \in Nat \ {0} /\ \A i \in 1..N : seqs[i] \in Seq(S)
    BY <1>2
  <2>2. \E f : f = Body(f)
    <3>1. PICK n, D, e : n \in Nat /\ n = N /\ D = Seq(S) /\ e = <<>>
      BY <2>1
    <3>2. PICK F : F = [i \in 1..n |-> [x \in D |-> IF i = 1 THEN seqs[1] ELSE x \o seqs[i]]]
      OBVIOUS
    <3>3. PICK f \in [0..N -> Seq(S)] : \A i \in 1..N : f[i] = F[i][f[i - 1]]
      <4>1. e \in D /\ F \in [1..n -> [D -> D]]
        BY <2>1, <3>1, <3>2
      <4>2. Iterable(n, D, e, F)
        BY <3>1, <4>1, Iteration
      <4>3. QED
        BY <3>1, <4>2 DEF Iterable
    <3>4. ASSUME NEW i \in 1..N PROVE f[i] = IF i = 1 THEN seqs[i] ELSE f[i - 1] \o seqs[i]
      <4>1. i - 1 \in 0..N
        BY <2>1
      <4>2. QED
        BY <3>1, <3>2, <3>3, <4>1
    <3> DEFINE g == [i \in 1..N |-> f[i]]
    <3>5. ASSUME NEW i \in 1..N PROVE g[i] = IF i = 1 THEN seqs[i] ELSE g[i - 1] \o seqs[i]
      <4>1. i # 1 => i - 1 \in 1..N
        BY <2>1
      <4>2. QED
        BY <3>4, <4>1
    <3>6. g = Body(g)
      BY <3>5
    <3>7. QED
      BY <3>6
  <2>3. all = Body(all)
    <3> HIDE DEF Body
    <3>1. QED
      BY <2>2
  <2>4. FlattenSeq(seqs) = all[N]
    BY <1>2 DEF FlattenSeq
  <2> HIDE DEF all
  <2>5. \A i \in 1..N : all[i] = IF i = 1 THEN seqs[i] ELSE all[i - 1] \o seqs[i]
    BY <2>3
  <2> DEFINE Bad == {i \in 1..N : all[i] \notin Seq(S)}
  <2>6. Bad = {}
    <3>1. SUFFICES ASSUME Bad # {} PROVE FALSE
      OBVIOUS
    <3>2. PICK m \in Bad : \A k \in Bad : m <= k
      <4>1. Bad \in SUBSET Nat
        BY <2>1
      <4> HIDE DEF Bad
      <4>2. QED
        BY <3>1, <4>1, FirstExists
    <3>3. m \in 1..N /\ all[m] \notin Seq(S)
      OBVIOUS
    <3>4. m # 1 => m - 1 \in 1..N /\ all[m - 1] \in Seq(S)
      BY <2>1, <3>2, <3>3
    <3>5. all[m] \in Seq(S)
      <4> HIDE DEF Bad
      <4>1. seqs[m] \in Seq(S)
        BY <2>1, <3>3
      <4>2. CASE m = 1
        BY <2>5, <3>3, <4>1, <4>2
      <4>3. CASE m # 1
        <5>1. PICK x \in Seq(S), y \in Seq(S) : x = all[m - 1] /\ y = seqs[m]
          BY <3>4, <4>1, <4>3
        <5>2. all[m] = x \o y
          BY <2>5, <3>3, <4>3, <5>1
        <5>3. QED
          BY <5>2
      <4>4. QED
        BY <4>2, <4>3
    <3>6. QED
      BY <3>3, <3>5
  <2>7. N \in 1..N
    BY <2>1
  <2>8. QED
    BY <2>4, <2>6, <2>7
<1>3. QED
  BY <1>1, <1>2

-----------------------------------------------------------------------------
(* The operations of patches.                                              *)

\* The schemas of databases that dygo migrated.
Plains == {s \in Schema : Live(s) /\ Plain(s)}
PlainsOrNone == Plains \cup {None}

ColumnsType == [Tables -> [Columns -> Column \cup {None}]]
ObjectsType == [Tables -> [Objects -> Object \cup {None}]]

LEMMA SchemaParts ==
  ASSUME NEW s \in Schema
  PROVE  /\ s = [tables |-> s.tables, cols |-> s.cols, objs |-> s.objs]
         /\ s.tables \subseteq Tables /\ s.cols \in ColumnsType /\ s.objs \in ObjectsType
BY DEF Schema, ColumnsType, ObjectsType

\* Places that have only what is of a type, and only in tables there are.
LEMMA PlainPlaces ==
  ASSUME NEW s, s = [tables |-> s.tables, cols |-> s.cols, objs |-> s.objs],
         s.tables \subseteq Tables, s.cols \in ColumnsType, s.objs \in ObjectsType,
         \A t \in Tables, c \in Columns : s.cols[t][c] # None => t \in s.tables,
         \A t \in Tables, c \in SystemColumns :
           s.cols[t][c] # None => s.cols[t][c].default = None,
         \A t \in Tables, o \in Objects : s.objs[t][o] # None => t \in s.tables
  PROVE  s \in Plains
<1>1. s \in Schema
  BY DEF Schema, ColumnsType, ObjectsType
<1>2. Bare(s) /\ Plain(s)
  BY DEF Bare, Plain
<1>3. QED
  BY <1>1, <1>2 DEF Plains, Live

LEMMA PlacesPlain ==
  ASSUME NEW s \in Plains
  PROVE  /\ s \in Schema
         /\ \A t \in Tables, c \in Columns : s.cols[t][c] # None => t \in s.tables
         /\ \A t \in Tables, c \in SystemColumns :
              s.cols[t][c] # None => s.cols[t][c].default = None
         /\ \A t \in Tables, o \in Objects : s.objs[t][o] # None => t \in s.tables
BY DEF Plains, Live, Plain, Bare

LEMMA OperationParts ==
  ASSUME NEW x \in Operation
  PROVE  /\ x.table \in Tables
         /\ x.kind = "rename-field" => x.from \in Columns /\ x.to \in FieldColumns
         /\ x.kind = "rename-entity" => x.to \in Tables
         /\ x.kind = "drop-field" => x.from \in Columns
         /\ x.kind = "retype" => x.from \in FieldColumns /\ x.to \in Types
         /\ x.kind = "data" => x.from \in Columns /\ x.to \in FieldColumns
         /\ x.kind \in {"rename-field", "rename-entity", "drop-field", "retype", "data"}
BY DEF Operation, Of

\* An edit of the columns of one table.
LEMMA ColumnEdit ==
  ASSUME NEW s \in Plains, NEW t \in s.tables, NEW row \in [Columns -> Column \cup {None}],
         \A c \in SystemColumns : row[c] # None => row[c].default = None
  PROVE  [s EXCEPT !.cols[t] = row] \in Plains
<1>1. /\ s = [tables |-> s.tables, cols |-> s.cols, objs |-> s.objs]
      /\ s.tables \subseteq Tables /\ s.cols \in ColumnsType /\ s.objs \in ObjectsType
  BY SchemaParts DEF Plains
<1>2. PICK cols : cols = [s.cols EXCEPT ![t] = row]
  OBVIOUS
<1>3. PICK r : r = [tables |-> s.tables, cols |-> cols, objs |-> s.objs]
  OBVIOUS
<1>4. [s EXCEPT !.cols[t] = row] = r
  BY <1>1, <1>2, <1>3
<1>5. cols \in ColumnsType /\ \A u \in Tables : cols[u] = IF u = t THEN row ELSE s.cols[u]
  BY <1>1, <1>2 DEF ColumnsType
<1>6. r \in Plains
  <2>1. /\ r = [tables |-> r.tables, cols |-> r.cols, objs |-> r.objs]
        /\ r.tables = s.tables /\ r.cols = cols /\ r.objs = s.objs
    BY <1>3
  <2>2. ASSUME NEW u \in Tables, NEW c \in Columns, cols[u][c] # None
        PROVE  u \in s.tables /\ (c \in SystemColumns => cols[u][c].default = None)
    <3>1. CASE u = t
      BY <1>5, <2>2, <3>1
    <3>2. CASE u # t
      BY <1>5, <2>2, <3>2, PlacesPlain
    <3>3. QED
      BY <3>1, <3>2
  <2>3. \A u \in Tables, o \in Objects : s.objs[u][o] # None => u \in s.tables
    BY PlacesPlain
  <2>4. /\ \A u \in Tables, c \in Columns : r.cols[u][c] # None => u \in r.tables
        /\ \A u \in Tables, c \in SystemColumns :
             r.cols[u][c] # None => r.cols[u][c].default = None
        /\ \A u \in Tables, o \in Objects : r.objs[u][o] # None => u \in r.tables
    BY <2>1, <2>2, <2>3, SchemaConstants
  <2>5. QED
    BY <1>1, <1>5, <2>1, <2>4, PlainPlaces
<1>7. QED
  BY <1>4, <1>6

\* An edit of the objects of one table.
LEMMA ObjectEdit ==
  ASSUME NEW s \in Plains, NEW t \in s.tables, NEW row \in [Objects -> Object \cup {None}]
  PROVE  [s EXCEPT !.objs[t] = row] \in Plains
<1>1. /\ s = [tables |-> s.tables, cols |-> s.cols, objs |-> s.objs]
      /\ s.tables \subseteq Tables /\ s.cols \in ColumnsType /\ s.objs \in ObjectsType
  BY SchemaParts DEF Plains
<1>2. PICK objs : objs = [s.objs EXCEPT ![t] = row]
  OBVIOUS
<1>3. PICK r : r = [tables |-> s.tables, cols |-> s.cols, objs |-> objs]
  OBVIOUS
<1>4. [s EXCEPT !.objs[t] = row] = r
  BY <1>1, <1>2, <1>3
<1>5. objs \in ObjectsType /\ \A u \in Tables : objs[u] = IF u = t THEN row ELSE s.objs[u]
  BY <1>1, <1>2 DEF ObjectsType
<1>6. /\ r = [tables |-> r.tables, cols |-> r.cols, objs |-> r.objs]
      /\ r.tables = s.tables /\ r.cols = s.cols /\ r.objs = objs
  BY <1>3
<1>7. \A u \in Tables, o \in Objects : objs[u][o] # None => u \in s.tables
  <2>1. \A u \in Tables : u # t => \A o \in Objects : s.objs[u][o] # None => u \in s.tables
    BY PlacesPlain
  <2>2. QED
    BY <1>5, <2>1
<1>8. /\ \A u \in Tables, c \in Columns : r.cols[u][c] # None => u \in r.tables
      /\ \A u \in Tables, c \in SystemColumns :
           r.cols[u][c] # None => r.cols[u][c].default = None
      /\ \A u \in Tables, o \in Objects : r.objs[u][o] # None => u \in r.tables
  BY <1>6, <1>7, PlacesPlain
<1>9. r \in Plains
  BY <1>1, <1>5, <1>6, <1>8, PlainPlaces
<1>10. QED
  BY <1>4, <1>9

LEMMA TableRenamedPlain ==
  ASSUME NEW s \in Plains, NEW from \in s.tables, NEW to \in Tables \ s.tables
  PROVE  TableRenamed(s, from, to) \in Plains
<1>1. /\ s = [tables |-> s.tables, cols |-> s.cols, objs |-> s.objs]
      /\ s.tables \subseteq Tables /\ s.cols \in ColumnsType /\ s.objs \in ObjectsType
  BY SchemaParts DEF Plains
<1>2. PICK r : r = TableRenamed(s, from, to)
  OBVIOUS
<1>3. /\ r = [tables |-> r.tables, cols |-> r.cols, objs |-> r.objs]
      /\ r.tables = (s.tables \ {from}) \cup {to}
      /\ r.cols = [s.cols EXCEPT ![to] = s.cols[from], ![from] = EmptySchema.cols[from]]
      /\ r.objs = [s.objs EXCEPT ![to] = s.objs[from], ![from] = EmptySchema.objs[from]]
  BY <1>2 DEF TableRenamed
<1>4. /\ EmptySchema.cols[from] = [c \in Columns |-> None]
      /\ EmptySchema.objs[from] = [o \in Objects |-> None]
  BY <1>1 DEF EmptySchema
<1>5. /\ r.cols \in ColumnsType
      /\ \A u \in Tables : r.cols[u] = IF u = from THEN [c \in Columns |-> None]
                                       ELSE IF u = to THEN s.cols[from] ELSE s.cols[u]
  BY <1>1, <1>3, <1>4 DEF ColumnsType
<1>6. /\ r.objs \in ObjectsType
      /\ \A u \in Tables : r.objs[u] = IF u = from THEN [o \in Objects |-> None]
                                       ELSE IF u = to THEN s.objs[from] ELSE s.objs[u]
  BY <1>1, <1>3, <1>4 DEF ObjectsType
<1>7. ASSUME NEW u \in Tables, NEW c \in Columns, r.cols[u][c] # None
      PROVE  u \in r.tables /\ (c \in SystemColumns => r.cols[u][c].default = None)
  <2>1. u # from
    BY <1>5, <1>7
  <2>2. CASE u = to
    <3>1. r.cols[u][c] = s.cols[from][c]
      BY <1>5, <2>1, <2>2
    <3>2. QED
      BY <1>1, <1>3, <1>7, <2>2, <3>1, PlacesPlain
  <2>3. CASE u # to
    <3>1. r.cols[u][c] = s.cols[u][c]
      BY <1>5, <2>1, <2>3
    <3>2. QED
      BY <1>1, <1>3, <1>7, <2>1, <3>1, PlacesPlain
  <2>4. QED
    BY <2>2, <2>3
<1>8. ASSUME NEW u \in Tables, NEW o \in Objects, r.objs[u][o] # None
      PROVE  u \in r.tables
  <2>1. u # from
    BY <1>6, <1>8
  <2>2. CASE u # to
    <3>1. r.objs[u][o] = s.objs[u][o]
      BY <1>6, <2>1, <2>2
    <3>2. QED
      BY <1>1, <1>3, <1>8, <2>1, <3>1, PlacesPlain
  <2>3. QED
    BY <1>3, <2>2
<1>9. r.tables \subseteq Tables
  BY <1>1, <1>3
<1>10. \A u \in Tables, c \in SystemColumns :
         r.cols[u][c] # None => r.cols[u][c].default = None
  BY <1>7, SchemaConstants
<1>11. r \in Plains
  <2>1. \A u \in Tables, c \in Columns : r.cols[u][c] # None => u \in r.tables
    BY <1>7
  <2>2. \A u \in Tables, o \in Objects : r.objs[u][o] # None => u \in r.tables
    BY <1>8
  <2>3. r = [tables |-> r.tables, cols |-> r.cols, objs |-> r.objs]
    BY <1>3
  <2> HIDE <1>3, <1>2
  <2>4. QED
    BY <1>5, <1>6, <1>9, <1>10, <2>1, <2>2, <2>3, PlainPlaces
<1>12. QED
  BY <1>2, <1>11

\* What the planner makes of a schema, and that it is refused otherwise.
LEMMA PlannedPlain ==
  ASSUME NEW x \in Operation, NEW s \in Plains
  PROVE  /\ Planned(x, s) \in PlainsOrNone
         /\ Planned(x, s) # None /\ x.kind # "rename-entity" =>
              /\ x.table \in s.tables /\ Planned(x, s).tables = s.tables
              /\ Planned(x, s).objs = s.objs
<1>1. /\ s = [tables |-> s.tables, cols |-> s.cols, objs |-> s.objs]
      /\ s.tables \subseteq Tables /\ s.cols \in ColumnsType /\ s.objs \in ObjectsType
  BY SchemaParts DEF Plains
<1>2. PICK t : t = x.table
  OBVIOUS
<1>3. t \in Tables /\ s.cols[t] \in [Columns -> Column \cup {None}]
  BY <1>1, <1>2, OperationParts DEF ColumnsType
<1>4. \A c \in SystemColumns : s.cols[t][c] # None => s.cols[t][c].default = None
  BY <1>3, PlacesPlain
<1>5. CASE x.kind = "rename-field"
  <2>1. x.from \in Columns /\ x.to \in FieldColumns /\ FieldColumns \subseteq Columns
    BY <1>5, OperationParts DEF FieldColumns
  <2>2. Planned(x, s) = RenameField(x, s)
    BY <1>5 DEF Planned
  <2>3. CASE RenameField(x, s) = None
    BY <2>2, <2>3 DEF PlainsOrNone
  <2>4. CASE RenameField(x, s) # None
    <3>1. RenameField(x, s) = ColumnRenamed(s, t, x.from, x.to) /\ t \in s.tables
      BY <1>2, <2>4 DEF RenameField, HasColumn
    <3>2. PICK row : row = [s.cols[t] EXCEPT ![x.to] = s.cols[t][x.from], ![x.from] = None]
      OBVIOUS
    <3>3. /\ row \in [Columns -> Column \cup {None}]
          /\ \A c \in SystemColumns : row[c] # None => row[c] = s.cols[t][c]
      BY <1>3, <2>1, <3>2, SchemaConstants DEF FieldColumns
    <3>4. ColumnRenamed(s, t, x.from, x.to) = [s EXCEPT !.cols[t] = row]
      BY <1>1, <1>3, <3>2 DEF ColumnRenamed, ColumnsType
    <3>5. [s EXCEPT !.cols[t] = row] \in Plains
      BY <1>4, <3>1, <3>3, ColumnEdit
    <3>6. QED
      BY <1>1, <1>2, <2>2, <3>1, <3>4, <3>5 DEF PlainsOrNone
  <2>5. QED
    BY <2>3, <2>4
<1>6. CASE x.kind = "rename-entity"
  <2>1. Planned(x, s) = RenameEntity(x, s) /\ x.to \in Tables
    BY <1>6, OperationParts DEF Planned
  <2>2. QED
    BY <1>6, <2>1, TableRenamedPlain DEF RenameEntity, PlainsOrNone
<1>7. CASE x.kind = "data"
  <2>1. Planned(x, s) = CopyField(x, s)
    BY <1>7 DEF Planned
  <2>2. QED
    BY <2>1 DEF CopyField, PlainsOrNone, HasColumn
<1>8. CASE x.kind = "drop-field"
  <2>1. Planned(x, s) = DropField(x, s) /\ x.from \in Columns
    BY <1>8, OperationParts DEF Planned
  <2>2. CASE DropField(x, s) = None
    BY <2>1, <2>2 DEF PlainsOrNone
  <2>3. CASE DropField(x, s) # None
    <3>1. DropField(x, s) = [s EXCEPT !.cols[t][x.from] = None] /\ t \in s.tables
      BY <1>2, <2>3 DEF DropField, HasColumn
    <3>2. PICK row : row = [s.cols[t] EXCEPT ![x.from] = None]
      OBVIOUS
    <3>3. /\ row \in [Columns -> Column \cup {None}]
          /\ \A c \in SystemColumns : row[c] # None => row[c] = s.cols[t][c]
      BY <1>3, <2>1, <3>2, SchemaConstants
    <3>4. [s EXCEPT !.cols[t][x.from] = None] = [s EXCEPT !.cols[t] = row]
      BY <1>1, <1>3, <3>2 DEF ColumnsType
    <3>5. [s EXCEPT !.cols[t] = row] \in Plains
      BY <1>4, <3>1, <3>3, ColumnEdit
    <3>6. QED
      BY <1>1, <1>2, <2>1, <3>1, <3>4, <3>5 DEF PlainsOrNone
  <2>4. QED
    BY <2>2, <2>3
<1>9. CASE x.kind = "retype"
  <2>1. /\ Planned(x, s) = ChangeFieldType(x, s)
        /\ x.from \in FieldColumns /\ x.to \in Types /\ FieldColumns \subseteq Columns
    BY <1>9, OperationParts DEF Planned, FieldColumns
  <2>2. CASE ChangeFieldType(x, s) = None
    BY <2>1, <2>2 DEF PlainsOrNone
  <2>3. CASE ChangeFieldType(x, s) # None
    <3>1. /\ ChangeFieldType(x, s) = [s EXCEPT !.cols[t][x.from].type = x.to]
          /\ t \in s.tables /\ s.cols[t][x.from] # None
      BY <1>2, <2>3 DEF ChangeFieldType, HasColumn
    <3>2. PICK b : b = s.cols[t][x.from]
      OBVIOUS
    <3>3. b \in Column /\ [b EXCEPT !.type = x.to] \in Column
      BY <1>3, <2>1, <3>1, <3>2 DEF Column
    <3>4. PICK row : row = [s.cols[t] EXCEPT ![x.from] = [b EXCEPT !.type = x.to]]
      OBVIOUS
    <3>5. /\ row \in [Columns -> Column \cup {None}]
          /\ \A c \in SystemColumns : row[c] = s.cols[t][c]
      BY <1>3, <2>1, <3>3, <3>4, SchemaConstants DEF FieldColumns
    <3>6. [s EXCEPT !.cols[t][x.from].type = x.to] = [s EXCEPT !.cols[t] = row]
      BY <1>1, <1>3, <2>1, <3>2, <3>4 DEF ColumnsType
    <3>7. [s EXCEPT !.cols[t] = row] \in Plains
      BY <1>4, <3>1, <3>5, ColumnEdit
    <3>8. QED
      BY <1>1, <1>2, <2>1, <3>1, <3>6, <3>7 DEF PlainsOrNone
  <2>4. QED
    BY <2>2, <2>3
<1>10. QED
  BY <1>5, <1>6, <1>7, <1>8, <1>9, OperationParts

LEMMA ExecutePlain ==
  ASSUME NEW x \in Operation, NEW s \in Plains
  PROVE  Execute(x, s) \in PlainsOrNone
<1>1. PICK r : r = Planned(x, s)
  OBVIOUS
<1>2. CASE r = None \/ x.kind = "rename-entity"
  BY <1>1, <1>2, PlannedPlain DEF Execute
<1>3. CASE r # None /\ x.kind # "rename-entity"
  <2>1. r \in Plains /\ x.table \in r.tables
    BY <1>1, <1>3, PlannedPlain DEF PlainsOrNone
  <2>2. PICK t : t = x.table
    OBVIOUS
  <2>3. t \in Tables /\ r.objs \in ObjectsType
    BY <2>1, <2>2, SchemaParts DEF Plains
  <2>4. PICK row : row = [i \in Objects |-> Carried(x, r.objs[t][i])]
    OBVIOUS
  <2>5. row \in [Objects -> Object \cup {None}]
    <3>1. ASSUME NEW b \in Object \cup {None} PROVE Carried(x, b) \in Object \cup {None}
      <4>1. CASE x.kind = "rename-field" /\ b # None /\ x.from \in b.cols
        <5>1. x.to \in Columns
          BY <4>1, OperationParts DEF FieldColumns
        <5>2. b \in Object /\ b.cols \subseteq Columns
          BY <4>1 DEF Object
        <5>3. [b EXCEPT !.cols = (b.cols \ {x.from}) \cup {x.to}] \in Object
          BY <5>1, <5>2 DEF Object
        <5>4. QED
          BY <4>1, <5>3 DEF Carried
      <4>2. CASE ~(x.kind = "rename-field" /\ b # None /\ x.from \in b.cols)
        BY <4>2 DEF Carried
      <4>3. QED
        BY <4>1, <4>2
    <3>2. \A i \in Objects : r.objs[t][i] \in Object \cup {None}
      BY <2>3 DEF ObjectsType
    <3>3. QED
      BY <2>4, <3>1, <3>2
  <2>6. Execute(x, s) = [r EXCEPT !.objs[t] = row]
    BY <1>1, <1>3, <2>1, <2>2, <2>3, <2>4, SchemaParts DEF Execute, ObjectsType
  <2>7. QED
    BY <2>1, <2>2, <2>5, <2>6, ObjectEdit DEF PlainsOrNone
<1>4. QED
  BY <1>2, <1>3

\* The schemas that executing, or simulating, goes through.
ExecutionRuns(ops, s, f) ==
  /\ f[0] = s /\ Executed(ops, s) = f[Len(ops)]
  /\ \A n \in 1..Len(ops) : f[n] = IF f[n - 1] = None THEN None ELSE Execute(ops[n], f[n - 1])

LEMMA ExecutionExists ==
  ASSUME NEW ops \in Seq(Operation), NEW s \in Plains
  PROVE  \E f \in [0..Len(ops) -> PlainsOrNone] : ExecutionRuns(ops, s, f)
<1> DEFINE N == Len(ops)
           Step(n, x) == IF x = None THEN None ELSE Execute(ops[n], x)
           Body(f) == [n \in 0..N |->
                         IF n = 0 THEN s
                         ELSE IF f[n - 1] = None THEN None ELSE Execute(ops[n], f[n - 1])]
           after == CHOOSE f : f = Body(f)
<1>1. N \in Nat /\ \A n \in 1..N : ops[n] \in Operation
  OBVIOUS
<1>2. ASSUME NEW n \in 1..N, NEW x \in PlainsOrNone PROVE Step(n, x) \in PlainsOrNone
  BY <1>1, <1>2, ExecutePlain DEF PlainsOrNone
<1>3. \E f : f = Body(f)
  <2>1. PICK m, F : m \in Nat /\ m = N /\ F = [n \in 1..m |-> [x \in PlainsOrNone |-> Step(n, x)]]
    BY <1>1
  <2>2. F \in [1..m -> [PlainsOrNone -> PlainsOrNone]]
    <3> HIDE DEF Step
    <3>1. QED
      BY <1>2, <2>1
  <2>3. s \in PlainsOrNone
    BY DEF PlainsOrNone
  <2>4. Iterable(m, PlainsOrNone, s, F)
    BY <2>1, <2>2, <2>3, Iteration
  <2>5. PICK f \in [0..N -> PlainsOrNone] : f[0] = s /\ \A n \in 1..N : f[n] = F[n][f[n - 1]]
    BY <2>1, <2>4 DEF Iterable
  <2>6. ASSUME NEW n \in 0..N PROVE f[n] = IF n = 0 THEN s ELSE Step(n, f[n - 1])
    <3>1. CASE n = 0
      BY <2>5, <3>1
    <3>2. CASE n # 0
      <4>1. n \in 1..N /\ n - 1 \in 0..N
        BY <1>1, <3>2
      <4>2. f[n] = F[n][f[n - 1]] /\ f[n - 1] \in PlainsOrNone
        BY <2>5, <4>1
      <4> HIDE DEF Step
      <4>3. QED
        BY <2>1, <3>2, <4>1, <4>2
    <3>3. QED
      BY <3>1, <3>2
  <2>7. f = Body(f)
    BY <2>5, <2>6
  <2>8. QED
    BY <2>7
<1>4. after = Body(after)
  <2> HIDE DEF Body
  <2>1. QED
    BY <1>3
<1>5. Executed(ops, s) = after[N]
  BY DEF Executed
<1> HIDE DEF after
<1>6. after[0] = s /\ \A n \in 1..N : after[n] = Step(n, after[n - 1])
  BY <1>1, <1>4
<1> HIDE DEF Step
<1>7. \A n \in 0..N : after[n] \in PlainsOrNone
  <2> DEFINE Bad == {n \in 0..N : after[n] \notin PlainsOrNone}
  <2>1. SUFFICES ASSUME Bad # {} PROVE FALSE
    OBVIOUS
  <2>2. PICK m \in Bad : \A k \in Bad : m <= k
    <3>1. Bad \in SUBSET Nat
      BY <1>1
    <3> HIDE DEF Bad
    <3>2. QED
      BY <2>1, <3>1, FirstExists
  <2>3. m \in 0..N /\ after[m] \notin PlainsOrNone
    OBVIOUS
  <2>4. m # 0
    BY <1>6, <2>3 DEF PlainsOrNone
  <2>5. m \in 1..N /\ m - 1 \in 0..N /\ ~ (m <= m - 1)
    BY <1>1, <2>3, <2>4
  <2>6. after[m - 1] \in PlainsOrNone
    BY <2>2, <2>5
  <2>7. QED
    BY <1>2, <1>6, <2>3, <2>5, <2>6
<1>8. after = [n \in 0..N |-> after[n]]
  BY <1>4
<1>9. after \in [0..N -> PlainsOrNone]
  BY <1>7, <1>8
<1>10. ExecutionRuns(ops, s, after)
  BY <1>5, <1>6 DEF ExecutionRuns, Step
<1>11. QED
  BY <1>9, <1>10

SimulationRuns(ops, s, f) ==
  /\ f[0] = s /\ Simulate(ops, s) = f[Len(ops)]
  /\ \A n \in 1..Len(ops) :
       f[n] = IF f[n - 1] = None \/ ops[n].sql THEN f[n - 1] ELSE Planned(ops[n], f[n - 1])

LEMMA SimulationExists ==
  ASSUME NEW ops \in Seq(Operation), NEW s \in Plains
  PROVE  \E f \in [0..Len(ops) -> PlainsOrNone] : SimulationRuns(ops, s, f)
<1> DEFINE N == Len(ops)
           Step(n, x) == IF x = None \/ ops[n].sql THEN x ELSE Planned(ops[n], x)
           Body(f) == [n \in 0..N |->
                         IF n = 0 THEN s
                         ELSE IF f[n - 1] = None \/ ops[n].sql THEN f[n - 1]
                         ELSE Planned(ops[n], f[n - 1])]
           after == CHOOSE f : f = Body(f)
<1>1. N \in Nat /\ \A n \in 1..N : ops[n] \in Operation
  OBVIOUS
<1>2. ASSUME NEW n \in 1..N, NEW x \in PlainsOrNone PROVE Step(n, x) \in PlainsOrNone
  BY <1>1, <1>2, PlannedPlain DEF PlainsOrNone
<1>3. \E f : f = Body(f)
  <2>1. PICK m, F : m \in Nat /\ m = N /\ F = [n \in 1..m |-> [x \in PlainsOrNone |-> Step(n, x)]]
    BY <1>1
  <2>2. F \in [1..m -> [PlainsOrNone -> PlainsOrNone]]
    <3> HIDE DEF Step
    <3>1. QED
      BY <1>2, <2>1
  <2>3. s \in PlainsOrNone
    BY DEF PlainsOrNone
  <2>4. Iterable(m, PlainsOrNone, s, F)
    BY <2>1, <2>2, <2>3, Iteration
  <2>5. PICK f \in [0..N -> PlainsOrNone] : f[0] = s /\ \A n \in 1..N : f[n] = F[n][f[n - 1]]
    BY <2>1, <2>4 DEF Iterable
  <2>6. ASSUME NEW n \in 0..N PROVE f[n] = IF n = 0 THEN s ELSE Step(n, f[n - 1])
    <3>1. CASE n = 0
      BY <2>5, <3>1
    <3>2. CASE n # 0
      <4>1. n \in 1..N /\ n - 1 \in 0..N
        BY <1>1, <3>2
      <4>2. f[n] = F[n][f[n - 1]] /\ f[n - 1] \in PlainsOrNone
        BY <2>5, <4>1
      <4> HIDE DEF Step
      <4>3. QED
        BY <2>1, <3>2, <4>1, <4>2
    <3>3. QED
      BY <3>1, <3>2
  <2>7. f = Body(f)
    BY <2>5, <2>6
  <2>8. QED
    BY <2>7
<1>4. after = Body(after)
  <2> HIDE DEF Body
  <2>1. QED
    BY <1>3
<1>5. Simulate(ops, s) = after[N]
  BY DEF Simulate
<1> HIDE DEF after
<1>6. after[0] = s /\ \A n \in 1..N : after[n] = Step(n, after[n - 1])
  BY <1>1, <1>4
<1> HIDE DEF Step
<1>7. \A n \in 0..N : after[n] \in PlainsOrNone
  <2> DEFINE Bad == {n \in 0..N : after[n] \notin PlainsOrNone}
  <2>1. SUFFICES ASSUME Bad # {} PROVE FALSE
    OBVIOUS
  <2>2. PICK m \in Bad : \A k \in Bad : m <= k
    <3>1. Bad \in SUBSET Nat
      BY <1>1
    <3> HIDE DEF Bad
    <3>2. QED
      BY <2>1, <3>1, FirstExists
  <2>3. m \in 0..N /\ after[m] \notin PlainsOrNone
    OBVIOUS
  <2>4. m # 0
    BY <1>6, <2>3 DEF PlainsOrNone
  <2>5. m \in 1..N /\ m - 1 \in 0..N /\ ~ (m <= m - 1)
    BY <1>1, <2>3, <2>4
  <2>6. after[m - 1] \in PlainsOrNone
    BY <2>2, <2>5
  <2>7. QED
    BY <1>2, <1>6, <2>3, <2>5, <2>6
<1>8. after = [n \in 0..N |-> after[n]]
  BY <1>4
<1>9. after \in [0..N -> PlainsOrNone]
  BY <1>7, <1>8
<1>10. SimulationRuns(ops, s, after)
  BY <1>5, <1>6 DEF SimulationRuns, Step
<1>11. QED
  BY <1>9, <1>10

LEMMA ExecutedPlain ==
  ASSUME NEW ops \in Seq(Operation), NEW s \in Plains
  PROVE  Executed(ops, s) \in PlainsOrNone
<1>1. PICK f \in [0..Len(ops) -> PlainsOrNone] : ExecutionRuns(ops, s, f)
  BY ExecutionExists
<1>2. Len(ops) \in 0..Len(ops)
  OBVIOUS
<1>3. QED
  BY <1>1, <1>2 DEF ExecutionRuns

\* Schemas that a sync cannot tell apart unless their objects differ in more
\* than their presence.
Similar(a, b) ==
  /\ a.tables = b.tables /\ a.cols = b.cols
  /\ \A t \in Tables, o \in Objects : a.objs[t][o] = None <=> b.objs[t][o] = None

\* What the simulation of an operation leaves out is the columns of objects.
LEMMA ForeseenStep ==
  ASSUME NEW x \in Operation, NEW a \in Plains, NEW b \in Plains, Similar(a, b),
         x.kind # "drop-field", Planned(x, a) # None, Execute(x, b) # None
  PROVE  Similar(Planned(x, a), Execute(x, b))
<1>1. PICK p, q : p = Planned(x, a) /\ q = Planned(x, b)
  OBVIOUS
<1>2. q # None
  BY <1>1 DEF Execute
<1>3. p \in Plains /\ q \in Plains
  BY <1>1, <1>2, PlannedPlain DEF PlainsOrNone
<1>4. /\ a = [tables |-> a.tables, cols |-> a.cols, objs |-> a.objs]
      /\ b = [tables |-> b.tables, cols |-> b.cols, objs |-> b.objs]
      /\ a.objs \in ObjectsType /\ b.objs \in ObjectsType
      /\ a.cols = b.cols /\ a.tables = b.tables
      /\ a.cols \in ColumnsType
  BY SchemaParts DEF Plains, Similar
<1>5. CASE x.kind = "rename-entity"
  <2>1. p = RenameEntity(x, a) /\ q = RenameEntity(x, b) /\ Execute(x, b) = q
    BY <1>1, <1>5 DEF Planned, Execute
  <2>2. PICK f \in Tables, t \in Tables : f = x.table /\ t = x.to
    BY <1>5, OperationParts
  <2>3. p = TableRenamed(a, f, t) /\ q = TableRenamed(b, f, t)
    BY <1>1, <1>2, <2>1, <2>2 DEF RenameEntity
  <2>4. p.tables = q.tables /\ p.cols = q.cols
    BY <1>4, <2>3 DEF TableRenamed
  <2>5. /\ p.objs = [a.objs EXCEPT ![t] = a.objs[f], ![f] = EmptySchema.objs[f]]
        /\ q.objs = [b.objs EXCEPT ![t] = b.objs[f], ![f] = EmptySchema.objs[f]]
    BY <2>3 DEF TableRenamed
  <2>6. ASSUME NEW u \in Tables, NEW o \in Objects
        PROVE  p.objs[u][o] = None <=> q.objs[u][o] = None
    <3>1. /\ p.objs[u] = IF u = f THEN EmptySchema.objs[f] ELSE IF u = t THEN a.objs[f] ELSE a.objs[u]
          /\ q.objs[u] = IF u = f THEN EmptySchema.objs[f] ELSE IF u = t THEN b.objs[f] ELSE b.objs[u]
      BY <1>4, <2>2, <2>5 DEF ObjectsType
    <3>2. QED
      BY <2>2, <3>1 DEF Similar
  <2>7. QED
    BY <1>1, <2>1, <2>4, <2>6 DEF Similar
<1>6. CASE x.kind # "rename-entity"
  <2>1. /\ x.table \in q.tables /\ p.tables = a.tables /\ q.tables = b.tables
        /\ p.objs = a.objs /\ q.objs = b.objs
    BY <1>1, <1>2, <1>6, PlannedPlain
  <2>2. p.cols = q.cols
    <3>1. CASE x.kind = "rename-field"
      <4>1. /\ p = ColumnRenamed(a, x.table, x.from, x.to)
            /\ q = ColumnRenamed(b, x.table, x.from, x.to)
        BY <1>1, <1>2, <3>1 DEF Planned, RenameField
      <4>2. QED
        BY <1>4, <4>1 DEF ColumnRenamed
    <3>2. CASE x.kind = "data"
      <4>1. p = a /\ q = b
        BY <1>1, <1>2, <3>2 DEF Planned, CopyField
      <4>2. QED
        BY <1>4, <4>1
    <3>3. CASE x.kind = "retype"
      <4>1. /\ p = [a EXCEPT !.cols[x.table][x.from].type = x.to]
            /\ q = [b EXCEPT !.cols[x.table][x.from].type = x.to]
        BY <1>1, <1>2, <3>3 DEF Planned, ChangeFieldType
      <4>2. QED
        BY <1>4, <4>1
    <3>4. QED
      BY <1>6, <3>1, <3>2, <3>3, OperationParts
  <2>3. PICK t : t = x.table
    OBVIOUS
  <2>4. t \in Tables /\ q.objs \in ObjectsType
        /\ q = [tables |-> q.tables, cols |-> q.cols, objs |-> q.objs]
    BY <1>3, <2>1, <2>3, SchemaParts DEF Plains
  <2>5. PICK row : row = [i \in Objects |-> Carried(x, q.objs[t][i])]
    OBVIOUS
  <2>6. PICK e : e = Execute(x, b)
    OBVIOUS
  <2>7. /\ e.tables = q.tables /\ e.cols = q.cols
        /\ e.objs = [q.objs EXCEPT ![t] = row]
    BY <1>1, <1>2, <1>6, <2>3, <2>4, <2>5, <2>6 DEF Execute, ObjectsType
  <2>8. ASSUME NEW b1 \in Object \cup {None} PROVE Carried(x, b1) = None <=> b1 = None
    <3>1. CASE x.kind = "rename-field" /\ b1 # None /\ x.from \in b1.cols
      <4>1. x.to \in Columns
        BY <3>1, OperationParts DEF FieldColumns
      <4>2. b1 \in Object /\ b1.cols \subseteq Columns
        BY <3>1 DEF Object
      <4>3. [b1 EXCEPT !.cols = (b1.cols \ {x.from}) \cup {x.to}] \in Object
        BY <4>1, <4>2 DEF Object
      <4>4. QED
        BY <3>1, <4>3, NoneIsNoDefinition DEF Carried
    <3>2. CASE ~(x.kind = "rename-field" /\ b1 # None /\ x.from \in b1.cols)
      BY <3>2 DEF Carried
    <3>3. QED
      BY <3>1, <3>2
  <2>9. ASSUME NEW u \in Tables, NEW o \in Objects
        PROVE  e.objs[u][o] = None <=> q.objs[u][o] = None
    <3>1. CASE u = t
      <4>1. e.objs[u][o] = Carried(x, q.objs[t][o]) /\ q.objs[t][o] \in Object \cup {None}
        BY <2>4, <2>5, <2>7, <3>1 DEF ObjectsType
      <4>2. QED
        BY <2>8, <3>1, <4>1
    <3>2. CASE u # t
      BY <2>4, <2>7, <3>2 DEF ObjectsType
    <3>3. QED
      BY <3>1, <3>2
  <2>10. QED
    BY <1>1, <1>4, <2>1, <2>2, <2>6, <2>7, <2>9 DEF Similar
<1>7. QED
  BY <1>5, <1>6

LEMMA Foreseen ==
  ASSUME NEW ops \in Seq(Operation), NEW s \in Plains,
         \A i \in DOMAIN ops : ~ops[i].sql /\ ops[i].kind # "drop-field",
         Simulate(ops, s) # None, Executed(ops, s) # None
  PROVE  /\ Simulate(ops, s) \in Plains /\ Executed(ops, s) \in Plains
         /\ Similar(Simulate(ops, s), Executed(ops, s))
<1>1. PICK f \in [0..Len(ops) -> PlainsOrNone] : ExecutionRuns(ops, s, f)
  BY ExecutionExists
<1>2. PICK g \in [0..Len(ops) -> PlainsOrNone] : SimulationRuns(ops, s, g)
  BY SimulationExists
<1> DEFINE N == Len(ops)
           Bad == {n \in 0..N : f[n] # None /\ g[n] # None /\ ~Similar(g[n], f[n])}
<1>3. N \in Nat /\ N \in 0..N /\ \A n \in 1..N : n \in DOMAIN ops /\ ops[n] \in Operation
  OBVIOUS
<1>4. Bad = {}
  <2>1. SUFFICES ASSUME Bad # {} PROVE FALSE
    OBVIOUS
  <2>2. PICK m \in Bad : \A k \in Bad : m <= k
    <3>1. Bad \in SUBSET Nat
      BY <1>3
    <3> HIDE DEF Bad
    <3>2. QED
      BY <2>1, <3>1, FirstExists
  <2>3. m \in 0..N /\ f[m] # None /\ g[m] # None /\ ~Similar(g[m], f[m])
    OBVIOUS
  <2>4. m # 0
    BY <1>1, <1>2, <2>3 DEF ExecutionRuns, SimulationRuns, Similar
  <2>5. m \in 1..N /\ m - 1 \in 0..N /\ ~ (m <= m - 1)
    BY <1>3, <2>3, <2>4
  <2>6. m - 1 \notin Bad
    BY <2>2, <2>5
  <2> HIDE DEF Bad
  <2>7. /\ f[m - 1] # None /\ f[m] = Execute(ops[m], f[m - 1])
        /\ g[m - 1] # None /\ g[m] = Planned(ops[m], g[m - 1])
    BY <1>1, <1>2, <1>3, <2>3, <2>5 DEF ExecutionRuns, SimulationRuns
  <2>8. Similar(g[m - 1], f[m - 1])
    BY <2>5, <2>6, <2>7 DEF Bad
  <2>9. f[m - 1] \in Plains /\ g[m - 1] \in Plains
    BY <1>1, <1>2, <2>5, <2>7 DEF PlainsOrNone
  <2>10. ops[m] \in Operation /\ ops[m].kind # "drop-field"
    BY <1>3, <2>5
  <2>11. Similar(Planned(ops[m], g[m - 1]), Execute(ops[m], f[m - 1]))
    BY <2>3, <2>7, <2>8, <2>9, <2>10, ForeseenStep
  <2>12. QED
    BY <2>3, <2>7, <2>11
<1>5. f[N] = Executed(ops, s) /\ g[N] = Simulate(ops, s)
  BY <1>1, <1>2 DEF ExecutionRuns, SimulationRuns
<1>6. f[N] \in Plains /\ g[N] \in Plains
  BY <1>1, <1>2, <1>3, <1>5 DEF PlainsOrNone
<1>7. QED
  BY <1>3, <1>4, <1>5, <1>6

\* When nothing blocks, the operations of a sync follow from what is there.
LEMMA SameOperations ==
  ASSUME NEW d, NEW a \in Plains, NEW b \in Plains, NEW r, NEW q, Desired(d), Similar(a, b),
         Diagnostics(d, a, r) = {}, Diagnostics(d, b, q) = {}
  PROVE  Operations(d, a, r) = Operations(d, b, q)
<1>1. /\ a.tables = b.tables /\ a.cols = b.cols /\ Live(a) /\ Live(b)
      /\ \A t \in Tables, o \in Objects : HasObject(a, t, o) <=> HasObject(b, t, o)
  BY DEF Plains, Similar, HasObject
<1>2. \A t \in Tables, c \in Columns : HasColumn(a, t, c) <=> HasColumn(b, t, c)
  BY <1>1 DEF HasColumn
<1>3. \A t \in Tables, c \in Columns :
        (MissingColumn(d, a, t, c) /\ ~Unaddable(d, a, r, t, c))
          <=> (MissingColumn(d, b, t, c) /\ ~Unaddable(d, b, q, t, c))
  <2>1. /\ \A t \in Tables, c \in Columns : MissingColumn(d, a, t, c) => ~Unaddable(d, a, r, t, c)
        /\ \A t \in Tables, c \in Columns : MissingColumn(d, b, t, c) => ~Unaddable(d, b, q, t, c)
    BY <1>1, NothingBlocks
  <2>2. \A t \in Tables, c \in Columns : MissingColumn(d, a, t, c) <=> MissingColumn(d, b, t, c)
    BY <1>2 DEF MissingColumn
  <2>3. QED
    BY <2>1, <2>2
<1>4. \A t \in Tables, c \in Columns : DefaultDrift(d, a, t, c) <=> DefaultDrift(d, b, t, c)
  BY <1>1, <1>2 DEF DefaultDrift
<1>5. \A t \in Tables, o \in Objects :
        (MissingObject(d, a, r, t, o) /\ ~Unconvertible(d, a, r, t, o))
          <=> (MissingObject(d, b, q, t, o) /\ ~Unconvertible(d, b, q, t, o))
  <2>1. /\ \A t \in Tables, o \in Objects : HasObject(d, t, o) => Available(d, a, r, t, o)
        /\ \A t \in Tables, o \in Objects : HasObject(d, t, o) => Available(d, b, q, t, o)
        /\ \A t \in Tables, o \in Objects : MissingObject(d, a, r, t, o) => ~Unconvertible(d, a, r, t, o)
        /\ \A t \in Tables, o \in Objects : MissingObject(d, b, q, t, o) => ~Unconvertible(d, b, q, t, o)
    BY <1>1, NothingBlocks
  <2>2. ASSUME NEW t \in Tables, NEW o \in Objects
        PROVE  MissingObject(d, a, r, t, o) <=> MissingObject(d, b, q, t, o)
    <3>1. /\ MissingObject(d, a, r, t, o) <=> HasObject(d, t, o) /\ ~HasObject(a, t, o)
          /\ MissingObject(d, b, q, t, o) <=> HasObject(d, t, o) /\ ~HasObject(b, t, o)
      BY <2>1 DEF MissingObject, Available
    <3>2. QED
      BY <1>1, <3>1
  <2>3. QED
    BY <2>1, <2>2
<1>6. {x \in {"add-column"} \X Tables \X Columns :
          /\ MissingColumn(d, a, x[2], x[3]) /\ ~Unaddable(d, a, r, x[2], x[3])
          /\ x[2] \in a.tables \/ x[3] \notin SystemColumns}
      = {x \in {"add-column"} \X Tables \X Columns :
          /\ MissingColumn(d, b, x[2], x[3]) /\ ~Unaddable(d, b, q, x[2], x[3])
          /\ x[2] \in b.tables \/ x[3] \notin SystemColumns}
  BY <1>1, <1>3
<1>7. {x \in {"set-default"} \X Tables \X Columns : DefaultDrift(d, a, x[2], x[3])}
      = {x \in {"set-default"} \X Tables \X Columns : DefaultDrift(d, b, x[2], x[3])}
  BY <1>4
<1>8. {x \in {"add-object"} \X Tables \X Objects :
          MissingObject(d, a, r, x[2], x[3]) /\ ~Unconvertible(d, a, r, x[2], x[3])}
      = {x \in {"add-object"} \X Tables \X Objects :
          MissingObject(d, b, q, x[2], x[3]) /\ ~Unconvertible(d, b, q, x[2], x[3])}
  BY <1>5
<1>9. QED
  BY <1>1, <1>6, <1>7, <1>8 DEF Operations

-----------------------------------------------------------------------------
(* Sources, ledgers and plans.                                             *)

LEMMA SourceParts ==
  ASSUME NEW s \in Sources
  PROVE  /\ Source[s].patches \in Seq(Patch)
         /\ DOMAIN Source[s].patches = 1..Len(Source[s].patches)
         /\ \A i \in DOMAIN Source[s].patches :
              /\ Source[s].patches[i].id \in Patches
              /\ Source[s].patches[i].phase \in {"pre-sync", "post-sync"}
              /\ Source[s].patches[i].sum \in Sums
              /\ Source[s].patches[i].ops \in Seq(Operation)
         /\ \A i, j \in DOMAIN Source[s].patches :
              Source[s].patches[i].id = Source[s].patches[j].id => i = j
<1>1. /\ Source[s].patches \in Seq(Patch)
      /\ \A i, j \in DOMAIN Source[s].patches :
           Source[s].patches[i].id = Source[s].patches[j].id => i = j
  BY MigrationConstants
<1>2. /\ DOMAIN Source[s].patches = 1..Len(Source[s].patches)
      /\ \A i \in DOMAIN Source[s].patches : Source[s].patches[i] \in Patch
  BY <1>1
<1>3. QED
  BY <1>1, <1>2 DEF Patch

LEMMA SchemasPlain ==
  ASSUME NEW s \in Sources
  PROVE  Desired(SchemaOf[s]) /\ SchemaOf[s] \in Plains
<1>1. PICK es : es = Source[s].entities
  OBVIOUS
<1>2. es \in SUBSET Entity /\ Migratable(es)
  BY <1>1, MigrationConstants
<1>3. Desired(SchemaFor(es)) /\ Plain(SchemaFor(es))
  BY <1>2, MetadataIsDesired
<1>4. SchemaOf[s] = SchemaFor(es)
  BY <1>1 DEF SchemaOf
<1>5. QED
  BY <1>3, <1>4 DEF Plains, Live, Desired

LEMMA OpsType ==
  ASSUME NEW s \in Sources, NEW chosen
  PROVE  OpsOf(s, chosen) \in Seq(Operation)
<1>1. PICK ps : ps = Source[s].patches
  OBVIOUS
<1>2. ps \in Seq(Patch) /\ \A i \in DOMAIN ps : ps[i].ops \in Seq(Operation)
  BY <1>1, SourceParts
<1>3. PICK seqs : seqs = [i \in DOMAIN ps |-> IF i \in chosen THEN ps[i].ops ELSE <<>>]
  OBVIOUS
<1>4. seqs \in Seq(Seq(Operation))
  <2>1. PICK n \in Nat : DOMAIN ps = 1..n
    BY <1>2
  <2>2. PICK S : S = Seq(Operation)
    OBVIOUS
  <2>3. seqs \in [1..n -> S]
    BY <1>2, <1>3, <2>1, <2>2
  <2>4. seqs \in Seq(S)
    BY <2>3
  <2>5. QED
    BY <2>2, <2>4
<1>5. OpsOf(s, chosen) = FlattenSeq(seqs)
  BY <1>1, <1>3 DEF OpsOf
<1>6. QED
  BY <1>4, <1>5, FlattenType

LEMMA IdsType ==
  ASSUME NEW s \in Sources, NEW chosen \in SUBSET DOMAIN Source[s].patches
  PROVE  Ids(s, chosen) \subseteq Patches
BY SourceParts DEF Ids

LedgerType == [Patches -> Run \cup {None}]

\* What became of a ledger.
Records(ledger, new, ids, outcome) ==
  /\ new \in LedgerType
  /\ \A p \in Patches : /\ p \in ids => new[p] # None /\ new[p].outcome = outcome
                        /\ p \notin ids => new[p] = ledger[p]

LEMMA RecordedLedger ==
  ASSUME NEW s \in Sources, NEW chosen \in SUBSET DOMAIN Source[s].patches,
         NEW ledger \in LedgerType, NEW outcome \in {"applied", "baselined"}
  PROVE  Records(ledger, Recorded(ledger, s, chosen, outcome), Ids(s, chosen), outcome)
<1>1. PICK r : r = Recorded(ledger, s, chosen, outcome)
  OBVIOUS
<1>2. ASSUME NEW p \in Ids(s, chosen)
      PROVE  (CHOOSE x \in Range(Source[s].patches) : x.id = p).sum \in Sums
  <2>1. PICK i \in chosen : p = Source[s].patches[i].id
    BY <1>2 DEF Ids
  <2>2. Source[s].patches[i] \in Range(Source[s].patches)
    BY <2>1 DEF Range
  <2>3. PICK x \in Range(Source[s].patches) : x = CHOOSE y \in Range(Source[s].patches) : y.id = p
    BY <2>1, <2>2
  <2>4. PICK j \in DOMAIN Source[s].patches : x = Source[s].patches[j]
    BY <2>3 DEF Range
  <2>5. QED
    BY <2>3, <2>4, SourceParts
<1>3. ASSUME NEW p \in Patches
      PROVE  /\ r[p] \in Run \cup {None}
             /\ IF p \in Ids(s, chosen) THEN r[p] # None /\ r[p].outcome = outcome
                ELSE r[p] = ledger[p]
  <2>1. CASE p \in Ids(s, chosen)
    <3>1. r[p] = [sum |-> (CHOOSE x \in Range(Source[s].patches) : x.id = p).sum,
                  outcome |-> outcome]
      BY <1>1, <2>1 DEF Recorded
    <3>2. r[p] \in Run /\ r[p].outcome = outcome
      BY <1>2, <2>1, <3>1 DEF Run
    <3>3. QED
      BY <2>1, <3>2, MigrationConstants
  <2>2. CASE p \notin Ids(s, chosen)
    <3>1. r[p] = ledger[p]
      BY <1>1, <2>2 DEF Recorded
    <3>2. QED
      BY <2>2, <3>1 DEF LedgerType
  <2>3. QED
    BY <2>1, <2>2
<1>4. r = [p \in Patches |-> r[p]]
  BY <1>1 DEF Recorded
<1>5. r \in LedgerType
  BY <1>3, <1>4 DEF LedgerType
<1>6. QED
  BY <1>1, <1>3, <1>5 DEF Records

\* Which patches are pending depends on the ledger and the Apps alone.
LEMMA PendingSame ==
  ASSUME NEW s, NEW d, NEW e, NEW phase, d.ledger = e.ledger, d.app = e.app
  PROVE  /\ Installing(d) = Installing(e)
         /\ \A installing : Pending(s, d, phase, installing) = Pending(s, e, phase, installing)
         /\ Baseline(s, d) = Baseline(s, e)
BY DEF Installing, Pending, Baseline

LEMMA PendingParts ==
  ASSUME NEW s, NEW d, NEW phase, NEW installing
  PROVE  /\ Pending(s, d, phase, installing) \in SUBSET DOMAIN Source[s].patches
         /\ \A p \in Ids(s, Pending(s, d, phase, installing)) : d.ledger[p] = None
BY DEF Pending, Ids

LEMMA BaselineParts ==
  ASSUME NEW s, NEW d
  PROVE  /\ Baseline(s, d) \in SUBSET DOMAIN Source[s].patches
         /\ \A p \in Ids(s, Baseline(s, d)) : d.ledger[p] = None
BY DEF Baseline, Ids

AppType == [Apps -> [status : {"none", "installed", "active", "disabled"},
                     version : Versions \cup {None}]]

LEMMA DatabaseParts ==
  ASSUME NEW d \in Database
  PROVE  /\ d = [live |-> d.live, rows |-> d.rows, app |-> d.app, ledger |-> d.ledger, meta |-> d.meta]
         /\ d.live \in Schema /\ d.rows \subseteq Tables /\ d.app \in AppType
         /\ d.ledger \in LedgerType /\ d.meta \in Sources \cup {None}
BY DEF Database, AppType, LedgerType

LEMMA IsDatabase ==
  ASSUME NEW d, d = [live |-> d.live, rows |-> d.rows, app |-> d.app, ledger |-> d.ledger,
                     meta |-> d.meta],
         d.live \in Schema, d.rows \subseteq Tables, d.app \in AppType,
         d.ledger \in LedgerType, d.meta \in Sources \cup {None}
  PROVE  d \in Database
BY DEF Database, AppType, LedgerType

LEMMA PersistedType ==
  ASSUME NEW d \in Database, NEW s \in Sources
  PROVE  /\ Persisted(d, s) = [live |-> d.live, rows |-> d.rows, app |-> Persisted(d, s).app,
                               ledger |-> d.ledger, meta |-> s]
         /\ Persisted(d, s).app \in AppType
<1>1. PICK r : r = Persisted(d, s)
  OBVIOUS
<1>2. d = [live |-> d.live, rows |-> d.rows, app |-> d.app, ledger |-> d.ledger, meta |-> d.meta]
  BY DatabaseParts
<1>3. /\ r = [live |-> d.live, rows |-> d.rows, app |-> r.app, ledger |-> d.ledger, meta |-> s]
      /\ r.app = [a \in Apps |-> IF ~Found(s, a) THEN d.app[a]
           ELSE [status |-> IF d.app[a].status = "none" THEN "installed" ELSE d.app[a].status,
                 version |-> Source[s].version[a]]]
  BY <1>1, <1>2 DEF Persisted
<1>4. ASSUME NEW a \in Apps
      PROVE  r.app[a] \in [status : {"none", "installed", "active", "disabled"},
                           version : Versions \cup {None}]
  <2>1. d.app[a] \in [status : {"none", "installed", "active", "disabled"},
                      version : Versions \cup {None}]
    BY DatabaseParts DEF AppType
  <2>2. Source[s].version[a] \in Versions \cup {None}
    BY MigrationConstants
  <2>3. QED
    BY <1>3, <2>1, <2>2
<1>5. r.app \in AppType
  BY <1>3, <1>4 DEF AppType
<1>6. QED
  BY <1>1, <1>3, <1>5

-----------------------------------------------------------------------------
(* The inductive invariant: what an operator's command has done so far,    *)
(* against the database, which nobody else changes but for its rows while  *)
(* a transaction is open.  p is where the command is, w its work, sh the   *)
(* plan it was shown and d the database.                                   *)

InTx(p) == p \in {"locked", "patched", "synced", "ended"}

\* The patches a migration of w's tree runs before the sync.
RunFirst(w, d) == Pending(w.tree, d, "pre-sync", Installing(d))

Fits(w) ==
  /\ w = [db |-> w.db, tree |-> w.tree, ran |-> w.ran, did |-> w.did,
          drops |-> w.drops, ahead |-> w.ahead, dumps |-> w.dumps]
  /\ w.db \in Database /\ w.tree \in Sources /\ w.ran \subseteq Patches
  /\ w.ahead \in BOOLEAN /\ w.dumps \in BOOLEAN
  /\ w.db.live \in Plains /\ w.db.rows \subseteq w.db.live.tables

Typed(p, w) == /\ InTx(p) \/ p = "pruning" => Fits(w)
               /\ p = "save" => Live(w.live)

\* The approved plan was made again under the lock.
Approved(p, w, sh, d) ==
  /\ p \in {"idle", "prune?", "pruning", "dump", "save"} => sh = None
  /\ p \in {"migrate?", "locked", "patched", "synced"} =>
       sh.valid /\ (sh.deferred \/ sh.blockers = {})
  /\ p \in {"locked", "patched", "synced"} =>
       \E r \in SUBSET Tables : sh = Plan(w.tree, [d EXCEPT !.rows = r])

\* How far the transaction has taken the schema, the metadata and the patches.
Stage(p, w, d) ==
  /\ p \in {"locked", "patched", "synced"} => w.dumps
  /\ p \in {"locked", "patched"} => w.db.app = d.app
  /\ p = "locked" => w.db.live = d.live /\ w.db.ledger = d.ledger /\ w.ran = {}
  /\ p = "patched" => /\ w.db.live = Executed(OpsOf(w.tree, RunFirst(w, d)), d.live)
                      /\ w.db.live # None
  /\ p \in {"patched", "synced"} =>
       /\ w.db.ledger = Recorded(d.ledger, w.tree, RunFirst(w, d), "applied")
       /\ w.ran = Ids(w.tree, RunFirst(w, d))
  /\ p = "synced" => w.db.live = SchemaOf[w.tree] /\ w.db.meta = w.tree
  /\ p = "ended" => /\ w.db.meta # None /\ ~w.ahead => w.db.live = SchemaOf[w.db.meta]
                    /\ ~w.dumps => w.db.live = d.live

\* What a prune is about to do was planned on a database of its own.
Prunes(p, w) ==
  p = "pruning" =>
    /\ Unsafe(SchemaOf[w.tree], w.db.live, w.db.rows) = {}
    /\ w.drops = Extra(SchemaOf[w.tree], w.db.live)
    /\ w.ran = {}
    /\ ~w.dumps => w.drops = {}
    /\ ~w.ahead => Operations(SchemaOf[w.tree], w.db.live, w.db.rows) = {}

\* A transaction ran the patches that its ledger calls applied and the
\* database's does not name.
Ledgers(p, w, d) ==
  InTx(p) =>
    \A x \in Patches :
      /\ w.db.ledger[x] = d.ledger[x] \/ (d.ledger[x] = None /\ w.db.ledger[x] # None)
      /\ x \in w.ran <=> /\ d.ledger[x] = None /\ w.db.ledger[x] # None
                         /\ w.db.ledger[x].outcome = "applied"

Shows(p, w, sh) ==
  /\ p \in {"synced", "ended"} /\ sh # None /\ ~sh.deferred /\ ~sh.drops => w.did = sh.ops
  /\ p = "ended" /\ sh # None => w.ran = sh.pre \cup sh.post

Consistent(p, w, sh, d) ==
  /\ Typed(p, w) /\ Approved(p, w, sh, d) /\ Stage(p, w, d) /\ Prunes(p, w)
  /\ Ledgers(p, w, d) /\ Shows(p, w, sh)

OneTransaction == \A o, x \in Operators : InTx(pc[o]) /\ InTx(pc[x]) => o = x

Writes(p) == p \in {"dump", "save"}

Snapshots(x) == DOMAIN x = Roots /\ \A r \in Roots : Live(x[r])

Places == {"idle", "migrate?", "locked", "patched", "synced", "ended",
           "prune?", "pruning", "dump", "save"}

TypeInv ==
  /\ db \in Database /\ db.live \in Plains /\ db.rows \subseteq db.live.tables
  /\ root \in [Operators -> Roots]
  /\ pc \in [Operators -> Places]
  /\ DOMAIN work = Operators /\ DOMAIN shown = Operators
  /\ Snapshots(snapshot)
  /\ commands \in 0..MaxCommands
  /\ ran \in [Patches -> 0..1]

Inv == /\ TypeInv /\ OneTransaction
       /\ \A o \in Operators : Consistent(pc[o], work[o], shown[o], db)
       /\ LedgerTellsEffects /\ MetadataIsLive /\ SnapshotExplained

-----------------------------------------------------------------------------
(* What each step of a command makes of its work.                          *)

\* Outside of a transaction nothing is owed to the database.
LEMMA OutsideTransaction ==
  ASSUME NEW p, NEW w, NEW sh, NEW d, NEW e, ~InTx(p), Consistent(p, w, sh, d)
  PROVE  Consistent(p, w, sh, e)
BY DEF Consistent, Approved, Stage, Ledgers, InTx

\* Rows that others insert do not matter.
LEMMA RowsAside ==
  ASSUME NEW p, NEW w, NEW sh, NEW d \in Database, NEW rows \in SUBSET Tables,
         Consistent(p, w, sh, d)
  PROVE  Consistent(p, w, sh, [d EXCEPT !.rows = rows])
<1>1. PICK e : e = [d EXCEPT !.rows = rows]
  OBVIOUS
<1>2. e.live = d.live /\ e.app = d.app /\ e.ledger = d.ledger /\ e.meta = d.meta
  BY <1>1, DatabaseParts
<1>3. \A r : [e EXCEPT !.rows = r] = [d EXCEPT !.rows = r]
  BY <1>1, DatabaseParts
<1>4. RunFirst(w, e) = RunFirst(w, d)
  BY <1>2, PendingSame DEF RunFirst
<1>5. Approved(p, w, sh, e)
  BY <1>3 DEF Consistent, Approved
<1>6. Stage(p, w, e)
  BY <1>2, <1>4 DEF Consistent, Stage
<1>7. Ledgers(p, w, e)
  BY <1>2 DEF Consistent, Ledgers
<1>8. QED
  BY <1>1, <1>5, <1>6, <1>7 DEF Consistent

\* A command that holds nothing.
LEMMA AtRest ==
  ASSUME NEW p \in {"idle", "prune?", "dump"}, NEW w, NEW d
  PROVE  Consistent(p, w, None, d)
BY DEF Consistent, Typed, Approved, Stage, Prunes, Ledgers, Shows, InTx

LEMMA Locked ==
  ASSUME NEW d \in Database, NEW s \in Sources, NEW sh, NEW w, NEW v,
         d.live \in Plains, d.rows \subseteq d.live.tables,
         Consistent("migrate?", w, sh, d), sh = Plan(s, d),
         v = [db |-> d, tree |-> s, ran |-> {}, did |-> {}, drops |-> {},
              ahead |-> FALSE, dumps |-> TRUE]
  PROVE  Consistent("locked", v, sh, d)
<1>1. Typed("locked", v)
  BY DEF Typed, Fits, InTx
<1>2. Approved("locked", v, sh, d)
  <2>1. sh.valid /\ (sh.deferred \/ sh.blockers = {})
    BY DEF Consistent, Approved
  <2>2. d = [d EXCEPT !.rows = d.rows] /\ d.rows \in SUBSET Tables
    BY DatabaseParts
  <2>3. sh = Plan(v.tree, [d EXCEPT !.rows = d.rows])
    BY <2>2
  <2>4. QED
    BY <2>1, <2>2, <2>3 DEF Approved
<1>3. Stage("locked", v, d)
  BY DEF Stage
<1>4. Ledgers("locked", v, d)
  BY DEF Ledgers
<1>5. Prunes("locked", v) /\ Shows("locked", v, sh)
  BY DEF Prunes, Shows
<1>6. QED
  BY <1>1, <1>2, <1>3, <1>4, <1>5 DEF Consistent

LEMMA Patched ==
  ASSUME NEW d \in Database, NEW sh, NEW w, NEW v, NEW live, NEW rows \in SUBSET live.tables,
         NEW pre, Consistent("locked", w, sh, d),
         pre = Pending(w.tree, w.db, "pre-sync", Installing(w.db)),
         live = Executed(OpsOf(w.tree, pre), w.db.live), live # None,
         v = [w EXCEPT !.ran = Ids(w.tree, pre),
                       !.db = [@ EXCEPT !.live = live, !.rows = rows,
                                        !.ledger = Recorded(w.db.ledger, w.tree, pre, "applied")]]
  PROVE  Consistent("patched", v, sh, d)
<1>1. /\ Fits(w) /\ w.tree \in Sources /\ w.db \in Database
      /\ w.db.live \in Plains /\ w.db.live = d.live /\ w.db.ledger = d.ledger
      /\ w.db.app = d.app /\ w.dumps
  BY DEF Consistent, Typed, Fits, Stage, InTx
<1>2. pre = RunFirst(w, d) /\ pre \in SUBSET DOMAIN Source[w.tree].patches
  BY <1>1, PendingSame, PendingParts DEF RunFirst
<1>3. PICK ledger : ledger = Recorded(d.ledger, w.tree, pre, "applied")
  OBVIOUS
<1>4. Records(d.ledger, ledger, Ids(w.tree, pre), "applied")
  <2>1. d.ledger \in LedgerType
    BY DatabaseParts
  <2>2. QED
    BY <1>1, <1>2, <1>3, <2>1, RecordedLedger
<1>5. live \in Plains
  BY <1>1, OpsType, ExecutedPlain DEF PlainsOrNone
<1>6. PICK e : e = [live |-> live, rows |-> rows, app |-> w.db.app, ledger |-> ledger,
                    meta |-> w.db.meta]
  OBVIOUS
<1>7. PICK u : u = [db |-> e, tree |-> w.tree, ran |-> Ids(w.tree, pre), did |-> w.did,
                   drops |-> w.drops, ahead |-> w.ahead, dumps |-> w.dumps]
  OBVIOUS
<1>v. v = u
  <2>1. w.db = [live |-> w.db.live, rows |-> w.db.rows, app |-> w.db.app,
                ledger |-> w.db.ledger, meta |-> w.db.meta]
    BY <1>1, DatabaseParts
  <2>2. w = [db |-> w.db, tree |-> w.tree, ran |-> w.ran, did |-> w.did,
             drops |-> w.drops, ahead |-> w.ahead, dumps |-> w.dumps]
    BY <1>1 DEF Fits
  <2>3. w.db.ledger = d.ledger
    BY <1>1
  <2>4. PICK b : b = [w.db EXCEPT !.live = live, !.rows = rows,
                                  !.ledger = Recorded(w.db.ledger, w.tree, pre, "applied")]
    OBVIOUS
  <2>5. b = e
    <3>1. PICK c : c = w.db
      OBVIOUS
    <3>2. b = [c EXCEPT !.live = live, !.rows = rows, !.ledger = ledger]
      BY <1>3, <2>3, <2>4, <3>1
    <3>3. c = [live |-> c.live, rows |-> c.rows, app |-> c.app, ledger |-> c.ledger,
               meta |-> c.meta]
      BY <2>1, <3>1
    <3>4. b = [live |-> live, rows |-> rows, app |-> c.app, ledger |-> ledger, meta |-> c.meta]
      BY <3>2, <3>3
    <3>5. QED
      BY <1>6, <3>1, <3>4
  <2>6. v = [w EXCEPT !.ran = Ids(w.tree, pre), !.db = b]
    BY <2>2, <2>4
  <2>7. QED
    BY <1>7, <2>2, <2>5, <2>6
<1>8. e \in Database
  <2>1. live \in Schema /\ rows \subseteq Tables
    BY <1>5, SchemaParts DEF Plains
  <2>2. QED
    BY <1>1, <1>4, <1>6, <2>1, DatabaseParts, IsDatabase DEF Records
<1>9. Typed("patched", u)
  <2>1. Ids(w.tree, pre) \subseteq Patches
    BY <1>1, <1>2, IdsType
  <2>2. Fits(u)
    BY <1>1, <1>5, <1>6, <1>7, <1>8, <2>1 DEF Fits
  <2>3. QED
    BY <2>2 DEF Typed
<1>10. Approved("patched", u, sh, d)
  BY <1>7 DEF Consistent, Approved
<1>11. Stage("patched", u, d)
  <2>1. RunFirst(u, d) = pre
    BY <1>2, <1>7 DEF RunFirst
  <2>2. QED
    BY <1>1, <1>3, <1>6, <1>7, <2>1 DEF Stage
<1>12. Ledgers("patched", u, d)
  <2>1. \A x \in Ids(w.tree, pre) : d.ledger[x] = None
    BY <1>2, PendingParts DEF RunFirst
  <2>2. u.db.ledger = ledger /\ u.ran = Ids(w.tree, pre)
    BY <1>6, <1>7
  <2>3. QED
    BY <1>4, <2>1, <2>2 DEF Ledgers, Records
<1>13. Prunes("patched", u) /\ Shows("patched", u, sh)
  BY DEF Prunes, Shows
<1>14. QED
  BY <1>v, <1>9, <1>10, <1>11, <1>12, <1>13 DEF Consistent

LEMMA PlanParts ==
  ASSUME NEW s, NEW e, NEW pre, NEW ops, NEW sim,
         pre = Pending(s, e, "pre-sync", Installing(e)), ops = OpsOf(s, pre),
         sim = Simulate(ops, e.live)
  PROVE  /\ Plan(s, e).pre = Ids(s, pre)
         /\ Plan(s, e).post = Ids(s, Pending(s, e, "post-sync", Installing(e)))
         /\ ~Plan(s, e).deferred => \A i \in DOMAIN ops : ~ops[i].sql
         /\ ~Plan(s, e).drops => \A i \in DOMAIN ops : ops[i].kind # "drop-field"
         /\ Plan(s, e).valid => sim # None
         /\ sim # None => \E rows : /\ Plan(s, e).ops = Operations(SchemaOf[s], sim, rows)
                                    /\ Plan(s, e).blockers = Diagnostics(SchemaOf[s], sim, rows)
BY DEF Plan

\* What the operator was shown is what the sync does.
LEMMA DoneAsShown ==
  ASSUME NEW d \in Database, NEW sh, NEW w, NEW rows, d.live \in Plains,
         Consistent("patched", w, sh, d),
         Diagnostics(SchemaOf[w.tree], w.db.live, rows) = {},
         ~sh.deferred, ~sh.drops
  PROVE  Operations(SchemaOf[w.tree], w.db.live, rows) = sh.ops
<1>1. /\ w.tree \in Sources /\ w.db.live \in Plains
      /\ w.db.live = Executed(OpsOf(w.tree, RunFirst(w, d)), d.live)
      /\ sh.valid /\ sh.blockers = {}
  BY DEF Consistent, Typed, Fits, Stage, Approved, InTx
<1>2. PICK r \in SUBSET Tables : sh = Plan(w.tree, [d EXCEPT !.rows = r])
  BY DEF Consistent, Approved
<1>3. PICK e : e = [d EXCEPT !.rows = r]
  OBVIOUS
<1>4. e.live = d.live /\ e.ledger = d.ledger /\ e.app = d.app
  BY <1>3, DatabaseParts
<1>5. PICK pre : pre = Pending(w.tree, e, "pre-sync", Installing(e))
  OBVIOUS
<1>6. pre = RunFirst(w, d)
  BY <1>4, <1>5, PendingSame DEF RunFirst
<1>7. PICK ops : ops = OpsOf(w.tree, pre)
  OBVIOUS
<1>8. PICK sim : sim = Simulate(ops, e.live)
  OBVIOUS
<1>9. PICK before :
      /\ \A i \in DOMAIN ops : ~ops[i].sql /\ ops[i].kind # "drop-field"
      /\ sim # None
      /\ sh.ops = Operations(SchemaOf[w.tree], sim, before)
      /\ sh.blockers = Diagnostics(SchemaOf[w.tree], sim, before)
  <2>1. sh = Plan(w.tree, e)
    BY <1>2, <1>3
  <2>2. sim # None
    BY <1>1, <1>5, <1>7, <1>8, <2>1, PlanParts
  <2>3. \A i \in DOMAIN ops : ~ops[i].sql /\ ops[i].kind # "drop-field"
    BY <1>5, <1>7, <1>8, <2>1, PlanParts
  <2>4. \E before : /\ sh.ops = Operations(SchemaOf[w.tree], sim, before)
                    /\ sh.blockers = Diagnostics(SchemaOf[w.tree], sim, before)
    BY <1>5, <1>7, <1>8, <2>1, <2>2, PlanParts
  <2>5. QED
    BY <2>2, <2>3, <2>4
<1>10. w.db.live = Executed(ops, d.live) /\ sim = Simulate(ops, d.live)
  BY <1>1, <1>4, <1>6, <1>7, <1>8
<1>11. w.db.live # None
  BY DEF Consistent, Stage
<1>12. ops \in Seq(Operation)
  BY <1>1, <1>7, OpsType
<1>13. sim \in Plains /\ Similar(sim, w.db.live)
  BY <1>9, <1>10, <1>11, <1>12, Foreseen
<1>14. Desired(SchemaOf[w.tree])
  BY <1>1, SchemasPlain
<1>15. QED
  BY <1>1, <1>9, <1>13, <1>14, SameOperations

LEMMA SchemaReplaced ==
  ASSUME NEW c, NEW b, NEW live, NEW rows,
         c = [live |-> c.live, rows |-> c.rows, app |-> c.app, ledger |-> c.ledger, meta |-> c.meta],
         b = [c EXCEPT !.live = live, !.rows = rows]
  PROVE  b = [live |-> live, rows |-> rows, app |-> c.app, ledger |-> c.ledger, meta |-> c.meta]
OBVIOUS

LEMMA SyncDone ==
  ASSUME NEW d \in Database, NEW sh, NEW w, NEW v, NEW ops, NEW rows \in SUBSET w.db.live.tables,
         d.live \in Plains, Consistent("patched", w, sh, d),
         ops = Operations(SchemaOf[w.tree], w.db.live, rows),
         Diagnostics(SchemaOf[w.tree], w.db.live, rows) = {},
         v = [w EXCEPT !.did = ops,
                !.db = [Persisted(w.db, w.tree) EXCEPT !.live = Synced(SchemaOf[w.tree], w.db.live, ops),
                                                       !.rows = rows \cup Singles(w.tree)]]
  PROVE  Consistent("synced", v, sh, d)
<1>1. /\ Fits(w) /\ w.tree \in Sources /\ w.db \in Database
      /\ w.db.live \in Plains /\ w.dumps
      /\ w.db.ledger = Recorded(d.ledger, w.tree, RunFirst(w, d), "applied")
      /\ w.ran = Ids(w.tree, RunFirst(w, d))
  BY DEF Consistent, Typed, Fits, Stage, InTx
<1>2. PICK s : s = SchemaOf[w.tree]
  OBVIOUS
<1>3. Desired(s) /\ s \in Plains
  BY <1>1, <1>2, SchemasPlain
<1>4. Synced(s, w.db.live, ops) = s /\ w.db.live.tables \subseteq s.tables
  BY <1>1, <1>2, <1>3, SyncReaches, NothingBlocks DEF Plains
<1>5. Singles(w.tree) \subseteq s.tables
  BY <1>2, <1>1 DEF Singles, SchemaOf, SchemaFor
<1>6. PICK app \in AppType :
        Persisted(w.db, w.tree) = [live |-> w.db.live, rows |-> w.db.rows, app |-> app,
                                   ledger |-> w.db.ledger, meta |-> w.tree]
  BY <1>1, PersistedType
<1>7. PICK e : e = [live |-> s, rows |-> rows \cup Singles(w.tree), app |-> app,
                    ledger |-> w.db.ledger, meta |-> w.tree]
  OBVIOUS
<1>8. PICK u : u = [db |-> e, tree |-> w.tree, ran |-> w.ran, did |-> ops,
                    drops |-> w.drops, ahead |-> w.ahead, dumps |-> w.dumps]
  OBVIOUS
<1>9. v = u
  <2>1. PICK b : b = [Persisted(w.db, w.tree) EXCEPT
                        !.live = Synced(SchemaOf[w.tree], w.db.live, ops),
                        !.rows = rows \cup Singles(w.tree)]
    OBVIOUS
  <2>2. b = e
    <3>1. PICK c : c = Persisted(w.db, w.tree)
      OBVIOUS
    <3>2. PICK q, g : q = rows \cup Singles(w.tree) /\ g = w.db.ledger
      OBVIOUS
    <3>3. b = [c EXCEPT !.live = s, !.rows = q]
      BY <1>2, <1>4, <2>1, <3>1, <3>2
    <3>4. /\ c = [live |-> c.live, rows |-> c.rows, app |-> c.app, ledger |-> c.ledger,
                  meta |-> c.meta]
          /\ c.app = app /\ c.ledger = g /\ c.meta = w.tree
      BY <1>6, <3>1, <3>2
    <3>5. b = [live |-> s, rows |-> q, app |-> c.app, ledger |-> c.ledger, meta |-> c.meta]
      BY <3>3, <3>4, SchemaReplaced
    <3>6. QED
      BY <1>7, <3>2, <3>4, <3>5
  <2>3. v = [w EXCEPT !.did = ops, !.db = b]
    BY <2>1
  <2>4. w = [db |-> w.db, tree |-> w.tree, ran |-> w.ran, did |-> w.did,
             drops |-> w.drops, ahead |-> w.ahead, dumps |-> w.dumps]
    BY <1>1 DEF Fits
  <2>5. QED
    BY <1>8, <2>2, <2>3, <2>4
<1>10. e \in Database /\ e.rows \subseteq e.live.tables
  <2>1. e.rows \subseteq e.live.tables
    BY <1>4, <1>5, <1>7
  <2>2. s \in Schema /\ s.tables \subseteq Tables
    BY <1>3, SchemaParts DEF Plains
  <2>3. QED
    BY <1>1, <1>7, <2>1, <2>2, DatabaseParts, IsDatabase
<1>11. Typed("synced", u)
  BY <1>1, <1>3, <1>7, <1>8, <1>10 DEF Typed, Fits
<1>12. Approved("synced", u, sh, d)
  BY <1>8 DEF Consistent, Approved
<1>13. Stage("synced", u, d)
  <2>1. RunFirst(u, d) = RunFirst(w, d)
    BY <1>8 DEF RunFirst
  <2>2. QED
    BY <1>1, <1>2, <1>7, <1>8, <2>1 DEF Stage
<1>14. Ledgers("synced", u, d)
  <2>1. u.db.ledger = w.db.ledger /\ u.ran = w.ran
    BY <1>7, <1>8
  <2>2. QED
    BY <2>1 DEF Consistent, Ledgers, InTx
<1>15. Prunes("synced", u)
  BY DEF Prunes
<1>16. Shows("synced", u, sh)
  BY <1>8, DoneAsShown DEF Shows
<1>17. QED
  BY <1>9, <1>11, <1>12, <1>13, <1>14, <1>15, <1>16 DEF Consistent

\* The patches after the sync are those that were planned: neither the patches
\* before it nor the baselines are among them.
LEMMA PostPlanned ==
  ASSUME NEW d \in Database, NEW s \in Sources, NEW f, NEW e, NEW ledger, NEW first \in LedgerType,
         f.ledger = ledger, e.ledger = first, e.app = d.app,
         first = Recorded(d.ledger, s, Pending(s, d, "pre-sync", Installing(d)), "applied"),
         ledger = Recorded(first, s, Baseline(s, e), "baselined")
  PROVE  Pending(s, f, "post-sync", Installing(d)) = Pending(s, d, "post-sync", Installing(d))
<1>1. PICK pre, base : pre = Pending(s, d, "pre-sync", Installing(d)) /\ base = Baseline(s, e)
  OBVIOUS
<1>2. /\ Records(d.ledger, first, Ids(s, pre), "applied")
      /\ Records(first, ledger, Ids(s, base), "baselined")
  <2>1. d.ledger \in LedgerType
    BY DatabaseParts
  <2>2. pre \in SUBSET DOMAIN Source[s].patches /\ base \in SUBSET DOMAIN Source[s].patches
    BY <1>1, PendingParts, BaselineParts
  <2>3. QED
    BY <1>1, <2>1, <2>2, RecordedLedger
<1>3. ASSUME NEW i \in DOMAIN Source[s].patches, Source[s].patches[i].phase = "post-sync",
             Source[s].patches[i].app \in Installing(d) => Source[s].patches[i].runOn # "migrate"
      PROVE  ledger[Source[s].patches[i].id] = d.ledger[Source[s].patches[i].id]
  <2>1. PICK x \in Patches : x = Source[s].patches[i].id
    BY SourceParts
  <2>2. x \notin Ids(s, pre)
    <3>1. SUFFICES ASSUME x \in Ids(s, pre) PROVE FALSE
      OBVIOUS
    <3>2. PICK j \in pre : x = Source[s].patches[j].id
      BY <3>1 DEF Ids
    <3>3. j \in DOMAIN Source[s].patches /\ Source[s].patches[j].phase = "pre-sync"
      BY <1>1, <3>2 DEF Pending
    <3>4. i = j
      BY <2>1, <3>2, <3>3, SourceParts
    <3>5. QED
      BY <1>3, <3>3, <3>4
  <2>3. x \notin Ids(s, base)
    <3>1. SUFFICES ASSUME x \in Ids(s, base) PROVE FALSE
      OBVIOUS
    <3>2. PICK j \in base : x = Source[s].patches[j].id
      BY <3>1 DEF Ids
    <3>3. /\ j \in DOMAIN Source[s].patches /\ Source[s].patches[j].runOn = "migrate"
          /\ Source[s].patches[j].app \in Installing(e)
      BY <1>1, <3>2 DEF Baseline
    <3>4. i = j
      BY <2>1, <3>2, <3>3, SourceParts
    <3>5. Installing(e) = Installing(d)
      BY DEF Installing
    <3>6. QED
      BY <1>3, <3>3, <3>4, <3>5
  <2>4. QED
    BY <1>2, <2>1, <2>2, <2>3 DEF Records
<1>4. QED
  BY <1>3 DEF Pending

LEMMA FinishDone ==
  ASSUME NEW d \in Database, NEW sh, NEW w, NEW v, NEW e, NEW s, NEW ledger, NEW post, NEW live,
         NEW g, NEW h, NEW base, NEW new, NEW more \in BOOLEAN,
         Consistent("synced", w, sh, d), s = w.tree,
         h.ledger = w.db.ledger, h.app = d.app, base = Baseline(s, h),
         ledger = Recorded(w.db.ledger, s, base, "baselined"),
         g.ledger = ledger, post = Pending(s, g, "post-sync", Installing(d)),
         live = Executed(OpsOf(s, post), w.db.live), live # None,
         e \in Database, e.live = live, e.rows \subseteq live.tables, e.meta = w.db.meta,
         e.ledger = Recorded(ledger, s, post, "applied"),
         new = w.ran \cup Ids(s, post), ~more => live = w.db.live,
         v = [db |-> e, tree |-> w.tree, ran |-> new, did |-> w.did, drops |-> w.drops,
              ahead |-> more, dumps |-> w.dumps]
  PROVE  Consistent("ended", v, sh, d)
<1>1. /\ Fits(w) /\ s \in Sources /\ w.db \in Database
      /\ w.db.live \in Plains /\ w.db.live = SchemaOf[s] /\ w.db.meta = s /\ w.dumps
      /\ w.db.ledger = Recorded(d.ledger, s, RunFirst(w, d), "applied")
      /\ w.ran = Ids(s, RunFirst(w, d))
  BY DEF Consistent, Typed, Fits, Stage, InTx
<1>3. /\ base \in SUBSET DOMAIN Source[s].patches /\ post \in SUBSET DOMAIN Source[s].patches
      /\ \A x \in Ids(s, base) : w.db.ledger[x] = None
      /\ \A x \in Ids(s, post) : ledger[x] = None
  <2>1. base \in SUBSET DOMAIN Source[s].patches /\ \A x \in Ids(s, base) : h.ledger[x] = None
    BY BaselineParts
  <2>2. post \in SUBSET DOMAIN Source[s].patches /\ \A x \in Ids(s, post) : g.ledger[x] = None
    BY PendingParts
  <2>3. QED
    BY <2>1, <2>2
<1>4. w.db.ledger \in LedgerType
  BY <1>1, DatabaseParts
<1>5. Records(w.db.ledger, ledger, Ids(s, base), "baselined")
  BY <1>1, <1>3, <1>4, RecordedLedger
<1>6. Records(ledger, e.ledger, Ids(s, post), "applied")
  <2>1. ledger \in LedgerType
    BY <1>5 DEF Records
  <2>2. QED
    BY <1>1, <1>3, <2>1, RecordedLedger
<1>9. v.ran = w.ran \cup Ids(s, post) /\ v.db = e /\ v.dumps = w.dumps /\ v.did = w.did
  OBVIOUS
<1>10. Typed("ended", v)
  <2>1. Ids(s, post) \subseteq Patches
    BY <1>1, <1>3, IdsType
  <2>2. live \in Plains
    BY <1>1, OpsType, ExecutedPlain DEF PlainsOrNone
  <2>4. Fits(v)
    BY <1>1, <2>1, <2>2 DEF Fits
  <2>5. QED
    BY <2>4 DEF Typed
<1>11. Stage("ended", v, d)
  <2>1. v.dumps
    BY <1>1, <1>9
  <2>2. ASSUME ~v.ahead PROVE live = w.db.live
    BY <2>2
  <2>3. v.db.live = live /\ v.db.meta = s
    BY <1>1, <1>9
  <2>4. v.db.meta # None /\ ~v.ahead => v.db.live = SchemaOf[v.db.meta]
    BY <1>1, <2>2, <2>3
  <2>5. QED
    BY <2>1, <2>4 DEF Stage
<1>12. Ledgers("ended", v, d)
  <2>1. ASSUME NEW x \in Patches
        PROVE  /\ e.ledger[x] = d.ledger[x] \/ (d.ledger[x] = None /\ e.ledger[x] # None)
               /\ x \in v.ran <=> /\ d.ledger[x] = None /\ e.ledger[x] # None
                                  /\ e.ledger[x].outcome = "applied"
    <3>1. /\ w.db.ledger[x] = d.ledger[x] \/ (d.ledger[x] = None /\ w.db.ledger[x] # None)
          /\ x \in w.ran <=> /\ d.ledger[x] = None /\ w.db.ledger[x] # None
                             /\ w.db.ledger[x].outcome = "applied"
      BY DEF Consistent, Ledgers, InTx
    <3>2. /\ x \in Ids(s, base) => ledger[x] # None /\ ledger[x].outcome = "baselined"
                                     /\ w.db.ledger[x] = None
          /\ x \notin Ids(s, base) => ledger[x] = w.db.ledger[x]
      BY <1>3, <1>5 DEF Records
    <3>3. /\ x \in Ids(s, post) => e.ledger[x] # None /\ e.ledger[x].outcome = "applied"
                                     /\ ledger[x] = None
          /\ x \notin Ids(s, post) => e.ledger[x] = ledger[x]
      BY <1>3, <1>6 DEF Records
    <3>4. x \in v.ran <=> x \in w.ran \/ x \in Ids(s, post)
      BY <1>9
    <3>5. CASE x \in Ids(s, post)
      BY <3>1, <3>2, <3>3, <3>4, <3>5
    <3>6. CASE x \notin Ids(s, post) /\ x \in Ids(s, base)
      BY <3>1, <3>2, <3>3, <3>4, <3>6
    <3>7. CASE x \notin Ids(s, post) /\ x \notin Ids(s, base)
      BY <3>1, <3>2, <3>3, <3>4, <3>7
    <3>8. QED
      BY <3>5, <3>6, <3>7
  <2>2. QED
    BY <1>9, <2>1 DEF Ledgers
<1>13. Shows("ended", v, sh)
  <2>1. ~sh.deferred /\ ~sh.drops /\ sh # None => v.did = sh.ops
    BY <1>9 DEF Consistent, Shows
  <2>2. PICK r \in SUBSET Tables : sh = Plan(s, [d EXCEPT !.rows = r])
    BY DEF Consistent, Approved
  <2>3. PICK f : f = [d EXCEPT !.rows = r]
    OBVIOUS
  <2>4. f.ledger = d.ledger /\ f.app = d.app
    BY <2>3, DatabaseParts
  <2>p. sh = Plan(s, f)
    BY <2>2, <2>3
  <2>q. PICK pre, after : /\ pre = Pending(s, f, "pre-sync", Installing(f))
                          /\ after = Pending(s, f, "post-sync", Installing(f))
    OBVIOUS
  <2>r. sh.pre = Ids(s, pre) /\ sh.post = Ids(s, after)
    <3>1. PICK ops : ops = OpsOf(s, pre)
      OBVIOUS
    <3>2. PICK sim : sim = Simulate(ops, f.live)
      OBVIOUS
    <3>3. QED
      BY <2>p, <2>q, <3>1, <3>2, PlanParts
  <2>5. pre = RunFirst(w, d)
    BY <1>1, <2>4, <2>q, PendingSame DEF RunFirst
  <2>6. after = Pending(s, d, "post-sync", Installing(d))
    BY <2>4, <2>q, PendingSame
  <2>7. post = Pending(s, d, "post-sync", Installing(d))
    <3>3. w.db.ledger = Recorded(d.ledger, s, Pending(s, d, "pre-sync", Installing(d)), "applied")
      BY <1>1 DEF RunFirst
    <3>4. ledger = Recorded(w.db.ledger, s, Baseline(s, h), "baselined")
      OBVIOUS
    <3>5. Pending(s, g, "post-sync", Installing(d)) = Pending(s, d, "post-sync", Installing(d))
      BY <1>1, <1>4, <3>3, <3>4, PostPlanned
    <3>6. QED
      BY <3>5
  <2>8. v.ran = sh.pre \cup sh.post
    BY <1>1, <1>9, <2>r, <2>5, <2>6, <2>7
  <2>9. QED
    BY <2>1, <2>8 DEF Shows
<1>14. Approved("ended", v, sh, d) /\ Prunes("ended", v)
  BY DEF Approved, Prunes
<1>15. QED
  BY <1>10, <1>11, <1>12, <1>13, <1>14 DEF Consistent

LEMMA DroppedNothing ==
  ASSUME NEW l \in Plains
  PROVE  Dropped(l, {}) = l
<1>1. PICK s : s = Dropped(l, {})
  OBVIOUS
<1>2. l \in Schema /\ Live(l) /\ s \in Schema
  BY <1>1, DroppedLive DEF Plains, Live
<1>3. s.tables = l.tables
  BY <1>1 DEF Dropped
<1>4. ASSUME NEW t \in Tables, NEW c \in Columns PROVE s.cols[t][c] = l.cols[t][c]
  <2>1. PICK drops : drops = {}
    OBVIOUS
  <2>2. <<"drop-column", t, c>> \notin drops /\ <<"drop-table", t, t>> \notin drops
    BY <2>1
  <2>3. s = Dropped(l, drops)
    BY <1>1, <2>1
  <2>4. Dropped(l, drops).cols[t][c] = l.cols[t][c]
    BY <2>2, DroppedColumns
  <2>5. QED
    BY <2>3, <2>4
<1>5. ASSUME NEW t \in Tables, NEW o \in Objects PROVE s.objs[t][o] = l.objs[t][o]
  <2>1. ~Lost(l, {}, t, o)
    BY DEF Lost
  <2>2. QED
    BY <1>1, <2>1, DroppedObjects
<1>6. QED
  BY <1>1, <1>2, <1>3, <1>4, <1>5, SameSchema

LEMMA PrunePlanned ==
  ASSUME NEW d \in Database, NEW s \in Sources, NEW v, NEW b, d.live \in Plains,
         d.rows \subseteq d.live.tables, Unsafe(SchemaOf[s], d.live, d.rows) = {},
         b = [db |-> d, tree |-> s, ran |-> {}, did |-> {}, drops |-> {},
              ahead |-> FALSE, dumps |-> TRUE],
         v = [b EXCEPT !.drops = Extra(SchemaOf[s], d.live),
                       !.dumps = (Extra(SchemaOf[s], d.live) # {}),
                       !.ahead = (Operations(SchemaOf[s], d.live, d.rows) # {})]
  PROVE  Consistent("pruning", v, None, d)
<1>1. PICK x, y, z : /\ x = Extra(SchemaOf[s], d.live) /\ y = (x # {})
                     /\ z = (Operations(SchemaOf[s], d.live, d.rows) # {})
  OBVIOUS
<1>2. PICK u : u = [db |-> d, tree |-> s, ran |-> {}, did |-> {}, drops |-> x,
                    ahead |-> z, dumps |-> y]
  OBVIOUS
<1>v. v = u
  <2>1. v = [b EXCEPT !.drops = x, !.dumps = y, !.ahead = z]
    BY <1>1
  <2>2. QED
    BY <1>2, <2>1
<1>3. y \in BOOLEAN /\ z \in BOOLEAN
  BY <1>1
<1>4. Fits(u)
  BY <1>2, <1>3 DEF Fits
<1>5. Prunes("pruning", u)
  <2>1. u.db = d /\ u.tree = s /\ u.drops = x /\ u.ran = {} /\ u.dumps = y /\ u.ahead = z
    BY <1>2
  <2>2. ~y => x = {}
    BY <1>1
  <2>3. ~z => Operations(SchemaOf[s], d.live, d.rows) = {}
    BY <1>1
  <2>4. QED
    BY <1>1, <2>1, <2>2, <2>3 DEF Prunes
<1>6. QED
  BY <1>v, <1>4, <1>5 DEF Consistent, Typed, Approved, Stage, Ledgers, Shows, InTx

LEMMA Pruned ==
  ASSUME NEW d \in Database, NEW e, NEW w, NEW v, NEW live, d.live \in Plains,
         Consistent("pruning", w, None, e), live = Dropped(d.live, w.drops),
         v = [w EXCEPT !.ahead = w.ahead \/ d.live # w.db.live,
                !.db = [Persisted(d, w.tree) EXCEPT !.live = live, !.rows = d.rows \cap live.tables]]
  PROVE  Consistent("ended", v, None, d)
<1>1. /\ Fits(w) /\ w.tree \in Sources /\ w.db.live \in Plains
      /\ Unsafe(SchemaOf[w.tree], w.db.live, w.db.rows) = {}
      /\ w.drops = Extra(SchemaOf[w.tree], w.db.live)
      /\ w.ran = {} /\ w.ahead \in BOOLEAN /\ w.dumps \in BOOLEAN
      /\ ~w.dumps => w.drops = {}
      /\ ~w.ahead => Operations(SchemaOf[w.tree], w.db.live, w.db.rows) = {}
  BY DEF Consistent, Typed, Fits, Prunes, InTx
<1>2. live \in Plains
  BY DroppedLive DEF Plains, Live
<1>3. PICK app \in AppType :
        Persisted(d, w.tree) = [live |-> d.live, rows |-> d.rows, app |-> app,
                                ledger |-> d.ledger, meta |-> w.tree]
  BY <1>1, PersistedType
<1>4. PICK q, y : q = d.rows \cap live.tables /\ y = (w.ahead \/ d.live # w.db.live)
  OBVIOUS
<1>5. PICK f : f = [live |-> live, rows |-> q, app |-> app, ledger |-> d.ledger, meta |-> w.tree]
  OBVIOUS
<1>6. PICK u : u = [db |-> f, tree |-> w.tree, ran |-> w.ran, did |-> w.did,
                    drops |-> w.drops, ahead |-> y, dumps |-> w.dumps]
  OBVIOUS
<1>7. v = u
  <2>1. PICK b : b = [Persisted(d, w.tree) EXCEPT !.live = live, !.rows = d.rows \cap live.tables]
    OBVIOUS
  <2>2. b = f
    <3>1. PICK c : c = Persisted(d, w.tree)
      OBVIOUS
    <3>2. b = [c EXCEPT !.live = live, !.rows = q]
      BY <1>4, <2>1, <3>1
    <3>3. /\ c = [live |-> c.live, rows |-> c.rows, app |-> c.app, ledger |-> c.ledger,
                  meta |-> c.meta]
          /\ c.app = app /\ c.ledger = d.ledger /\ c.meta = w.tree
      BY <1>3, <3>1
    <3>4. b = [live |-> live, rows |-> q, app |-> c.app, ledger |-> c.ledger, meta |-> c.meta]
      BY <3>2, <3>3, SchemaReplaced
    <3>5. QED
      BY <1>5, <3>3, <3>4
  <2>3. v = [w EXCEPT !.ahead = y, !.db = b]
    BY <1>4, <2>1
  <2>4. w = [db |-> w.db, tree |-> w.tree, ran |-> w.ran, did |-> w.did,
             drops |-> w.drops, ahead |-> w.ahead, dumps |-> w.dumps]
    BY <1>1 DEF Fits
  <2>5. QED
    BY <1>6, <2>2, <2>3, <2>4
<1>8. f \in Database /\ f.live = live /\ f.rows \subseteq live.tables /\ f.ledger = d.ledger
      /\ f.meta = w.tree
  <2>1. live \in Schema /\ live.tables \subseteq Tables
    BY <1>2, SchemaParts DEF Plains
  <2>2. q \subseteq Tables /\ q \subseteq live.tables
    BY <1>4, <2>1
  <2>3. d.ledger \in LedgerType
    BY DatabaseParts
  <2>4. QED
    BY <1>1, <1>5, <2>1, <2>2, <2>3, IsDatabase
<1>9. Typed("ended", u)
  <2>1. y \in BOOLEAN
    BY <1>4
  <2>2. Fits(u)
    BY <1>1, <1>2, <1>6, <1>8, <2>1 DEF Fits
  <2>3. QED
    BY <2>2 DEF Typed
<1>10. Stage("ended", u, d)
  <2>1. u.db = f /\ u.ahead = y /\ u.dumps = w.dumps
    BY <1>6
  <2>2. ASSUME ~y PROVE live = SchemaOf[w.tree]
    <3>1. ~w.ahead /\ d.live = w.db.live
      BY <1>1, <1>4, <2>2
    <3>2. PICK s : s = SchemaOf[w.tree]
      OBVIOUS
    <3>3. Desired(s) /\ Live(w.db.live) /\ Plain(w.db.live)
      BY <1>1, <3>2, SchemasPlain DEF Plains
    <3>4. Dropped(w.db.live, Extra(s, w.db.live)) = s
      BY <1>1, <3>1, <3>2, <3>3, PruneReaches
    <3>5. QED
      BY <1>1, <3>1, <3>2, <3>4
  <2>3. ASSUME ~w.dumps PROVE live = d.live
    BY <1>1, <2>3, DroppedNothing
  <2>4. QED
    BY <1>8, <2>1, <2>2, <2>3 DEF Stage
<1>11. Ledgers("ended", u, d)
  <2>1. u.db.ledger = d.ledger /\ u.ran = {}
    BY <1>1, <1>6, <1>8
  <2>2. QED
    BY <2>1 DEF Ledgers
<1>12. Approved("ended", u, None, d) /\ Prunes("ended", u) /\ Shows("ended", u, None)
  BY DEF Approved, Prunes, Shows
<1>13. QED
  BY <1>7, <1>9, <1>10, <1>11, <1>12 DEF Consistent

-----------------------------------------------------------------------------
(* The state.                                                              *)

\* The database that a migration leaves when its Apps are activated.
LEMMA ActivatedType ==
  ASSUME NEW s \in Sources, NEW e \in Database, db \in Database
  PROVE  /\ Activated(s, e) = [live |-> e.live, rows |-> e.rows, app |-> Activated(s, e).app,
                               ledger |-> e.ledger, meta |-> e.meta]
         /\ Activated(s, e).app \in AppType
<1>1. PICK r : r = Activated(s, e)
  OBVIOUS
<1>2. e = [live |-> e.live, rows |-> e.rows, app |-> e.app, ledger |-> e.ledger, meta |-> e.meta]
  BY DatabaseParts
<1>3. /\ r = [live |-> e.live, rows |-> e.rows, app |-> r.app, ledger |-> e.ledger,
              meta |-> e.meta]
      /\ r.app = [a \in Apps |-> IF Found(s, a) /\ ~Disabled(db, a)
                                 THEN [e.app[a] EXCEPT !.status = "active"] ELSE e.app[a]]
  BY <1>1, <1>2 DEF Activated
<1>4. ASSUME NEW a \in Apps
      PROVE  r.app[a] \in [status : {"none", "installed", "active", "disabled"},
                           version : Versions \cup {None}]
  <2>1. e.app[a] \in [status : {"none", "installed", "active", "disabled"},
                      version : Versions \cup {None}]
    BY DatabaseParts DEF AppType
  <2>2. [e.app[a] EXCEPT !.status = "active"]
          \in [status : {"none", "installed", "active", "disabled"}, version : Versions \cup {None}]
    BY <2>1
  <2>3. r.app[a] = IF Found(s, a) /\ ~Disabled(db, a)
                   THEN [e.app[a] EXCEPT !.status = "active"] ELSE e.app[a]
    BY <1>3
  <2>4. QED
    BY <2>1, <2>2, <2>3
<1>5. r.app \in AppType
  BY <1>3, <1>4 DEF AppType
<1>6. QED
  BY <1>1, <1>3, <1>5

\* A step of one command.
Moved(o, p, w, sh) ==
  /\ pc'[o] = p /\ work'[o] = w /\ shown'[o] = sh
  /\ pc' \in [Operators -> Places] /\ DOMAIN work' = Operators /\ DOMAIN shown' = Operators
  /\ \A x \in Operators \ {o} : pc'[x] = pc[x] /\ work'[x] = work[x] /\ shown'[x] = shown[x]

LEMMA Moves ==
  ASSUME TypeInv, NEW o \in Operators, NEW p \in Places, NEW w, NEW sh,
         pc' = [pc EXCEPT ![o] = p],
         work' = [work EXCEPT ![o] = w] \/ (work' = work /\ w = work[o]),
         shown' = [shown EXCEPT ![o] = sh] \/ (shown' = shown /\ sh = shown[o])
  PROVE  Moved(o, p, w, sh)
<1>1. pc \in [Operators -> Places] /\ DOMAIN work = Operators /\ DOMAIN shown = Operators
  BY DEF TypeInv
<1>2. pc'[o] = p /\ work'[o] = w /\ shown'[o] = sh
  BY <1>1
<1>3. pc' \in [Operators -> Places] /\ DOMAIN work' = Operators /\ DOMAIN shown' = Operators
  BY <1>1
<1>4. ASSUME NEW x \in Operators \ {o}
      PROVE  pc'[x] = pc[x] /\ work'[x] = work[x] /\ shown'[x] = shown[x]
  BY <1>1
<1>5. QED
  BY <1>2, <1>3, <1>4 DEF Moved

\* A command's step leaves the invariant when its work is consistent, it
\* begins no transaction beside another, and it keeps the snapshot explained.
LEMMA Keeps ==
  ASSUME Inv, NEW o \in Operators, NEW p, NEW w, NEW sh, Moved(o, p, w, sh),
         UNCHANGED <<db, root, ran, ahead>>,
         commands' \in 0..MaxCommands, Snapshots(snapshot'), Consistent(p, w, sh, db),
         InTx(p) => InTx(pc[o]) \/ Unlocked,
         \/ UNCHANGED <<snapshot, missed>> /\ (Writes(pc[o]) => Writes(p))
         \/ /\ \A r \in Roots \ {root[o]} : snapshot'[r] = snapshot[r] /\ (r \in missed' <=> r \in missed)
            /\ root[o] \in missed' \/ snapshot'[root[o]] = db.live
  PROVE  Inv'
<1>1. TypeInv'
  BY DEF Inv, TypeInv, Moved
<1>2. OneTransaction'
  <2>1. SUFFICES ASSUME NEW x \in Operators, NEW y \in Operators, InTx(pc'[x]), InTx(pc'[y])
                 PROVE  x = y
    BY DEF OneTransaction
  <2>2. \A z \in Operators \ {o} : pc'[z] = pc[z]
    BY DEF Moved
  <2>3. pc'[o] = p
    BY DEF Moved
  <2>4. \A a, b \in Operators : InTx(pc[a]) /\ InTx(pc[b]) => a = b
    BY DEF Inv, OneTransaction
  <2>5. Unlocked => \A a \in Operators : ~InTx(pc[a])
    BY DEF Unlocked, InTransaction, InTx
  <2>6. QED
    BY <2>1, <2>2, <2>3, <2>4, <2>5
<1>3. \A x \in Operators : Consistent(pc'[x], work'[x], shown'[x], db')
  <2>1. TAKE x \in Operators
  <2>2. CASE x = o
    BY <2>2 DEF Moved
  <2>3. CASE x # o
    <3>1. pc'[x] = pc[x] /\ work'[x] = work[x] /\ shown'[x] = shown[x]
      BY <2>3 DEF Moved
    <3>2. Consistent(pc[x], work[x], shown[x], db)
      BY DEF Inv
    <3>3. QED
      BY <3>1, <3>2
  <2>4. QED
    BY <2>2, <2>3
<1>4. LedgerTellsEffects' /\ MetadataIsLive'
  BY DEF Inv, LedgerTellsEffects, MetadataIsLive
<1>5. SnapshotExplained'
  <2>1. SUFFICES ASSUME NEW r \in Roots, r \notin missed',
                        \A x \in Operators : root[x] = r => ~Writes(pc'[x])
                 PROVE  snapshot'[r] = db.live
    BY DEF SnapshotExplained, Writes
  <2>2. r \notin missed /\ (\A x \in Operators : root[x] = r => ~Writes(pc[x])) => snapshot[r] = db.live
    BY DEF Inv, SnapshotExplained, Writes
  <2>3. pc'[o] = p /\ \A x \in Operators \ {o} : pc'[x] = pc[x]
    BY DEF Moved
  <2>4. CASE UNCHANGED <<snapshot, missed>> /\ (Writes(pc[o]) => Writes(p))
    BY <2>1, <2>2, <2>3, <2>4
  <2>5. CASE /\ \A q \in Roots \ {root[o]} : snapshot'[q] = snapshot[q] /\ (q \in missed' <=> q \in missed)
             /\ root[o] \in missed' \/ snapshot'[root[o]] = db.live
    <3>1. CASE r = root[o]
      BY <2>1, <2>5, <3>1
    <3>2. CASE r # root[o]
      BY <2>1, <2>2, <2>3, <2>5, <3>2
    <3> QED
      BY <3>1, <3>2
  <2> QED
    BY <2>4, <2>5
<1>6. QED
  BY <1>1, <1>2, <1>3, <1>4, <1>5 DEF Inv

\* The end of the only transaction leaves the others as they were.
LEMMA OthersOutside ==
  ASSUME NEW o \in Operators, NEW p \in {"idle", "dump"}, Moved(o, p, None, None),
         InTx(pc[o]), OneTransaction,
         \A x \in Operators : Consistent(pc[x], work[x], shown[x], db)
  PROVE  \A x \in Operators : Consistent(pc'[x], work'[x], shown'[x], db')
<1>1. TAKE x \in Operators
<1>2. CASE x = o
  <2>1. pc'[x] = p /\ work'[x] = None /\ shown'[x] = None
    BY <1>2 DEF Moved
  <2>2. Consistent(p, None, None, db')
    BY AtRest
  <2>3. QED
    BY <2>1, <2>2
<1>3. CASE x # o
  <2>1. pc'[x] = pc[x] /\ work'[x] = work[x] /\ shown'[x] = shown[x]
    BY <1>3 DEF Moved
  <2>2. ~InTx(pc[x])
    BY <1>3 DEF OneTransaction
  <2>3. Consistent(pc[x], work[x], shown[x], db)
    OBVIOUS
  <2>4. Consistent(pc[x], work[x], shown[x], db')
    BY <2>2, <2>3, OutsideTransaction
  <2>5. QED
    BY <2>1, <2>4
<1>4. QED
  BY <1>2, <1>3

-----------------------------------------------------------------------------
(* One lemma per step of a command.                                        *)

LEMMA ThePart ==
  ASSUME Inv, NEW o \in Operators
  PROVE  /\ TypeInv /\ Consistent(pc[o], work[o], shown[o], db)
         /\ db \in Database /\ db.live \in Plains /\ db.rows \subseteq db.live.tables
         /\ root \in [Operators -> Roots] /\ root[o] \in Roots
         /\ Snapshots(snapshot) /\ commands \in 0..MaxCommands
BY DEF Inv, TypeInv

LEMMA PlanMigrationStep ==
  ASSUME Inv, NEW o \in Operators, NEW s \in Sources, PlanMigration(o, s) PROVE Inv'
<1>1. PICK plan : plan = Plan(s, db)
  OBVIOUS
<1>2. plan.valid /\ (plan.deferred \/ plan.blockers = {}) /\ shown' = [shown EXCEPT ![o] = plan]
  BY <1>1 DEF PlanMigration
<1>3. Moved(o, "migrate?", work[o], plan)
  BY <1>2, ThePart, Moves DEF PlanMigration, Places
<1>4. Consistent("migrate?", work[o], plan, db)
  BY <1>2 DEF Consistent, Typed, Approved, Stage, Prunes, Ledgers, Shows, InTx
<1>5. commands' \in 0..MaxCommands
  <2>1. commands \in 0..MaxCommands /\ commands < MaxCommands /\ commands' = commands + 1
    BY ThePart DEF PlanMigration
  <2>2. QED
    BY <2>1, MigrationConstants
<1>6. QED
  BY <1>3, <1>4, <1>5, ThePart, Keeps DEF PlanMigration, InTx, Writes

LEMMA PlanPruneStep ==
  ASSUME Inv, NEW o \in Operators, NEW s \in Sources, PlanPrune(o, s) PROVE Inv'
<1>1. Moved(o, "prune?", work[o], shown[o])
  BY ThePart, Moves DEF PlanPrune, Places
<1>2. shown[o] = None
  BY ThePart DEF PlanPrune, Consistent, Approved
<1>3. Consistent("prune?", work[o], shown[o], db)
  BY <1>2, AtRest
<1>4. commands' \in 0..MaxCommands
  <2>1. commands \in 0..MaxCommands /\ commands < MaxCommands /\ commands' = commands + 1
    BY ThePart DEF PlanPrune
  <2>2. QED
    BY <2>1, MigrationConstants
<1>5. QED
  BY <1>1, <1>3, <1>4, ThePart, Keeps DEF PlanPrune, InTx, Writes

LEMMA CancelStep ==
  ASSUME Inv, NEW o \in Operators, Cancel(o) \/ \E s \in Sources : Changed(o, s) PROVE Inv'
<1>1. Moved(o, "idle", work[o], None)
  BY ThePart, Moves DEF Cancel, Changed, Places
<1>2. Consistent("idle", work[o], None, db)
  BY AtRest
<1>3. QED
  BY <1>1, <1>2, ThePart, Keeps DEF Cancel, Changed, InTx, Writes

LEMMA LockStep ==
  ASSUME Inv, NEW o \in Operators, NEW s \in Sources, Lock(o, s) PROVE Inv'
<1>1. PICK v : v = Begun(s)
  OBVIOUS
<1>2. Moved(o, "locked", v, shown[o])
  BY <1>1, ThePart, Moves DEF Lock, Goes, Places
<1>3. Consistent("locked", v, shown[o], db)
  <2>1. pc[o] = "migrate?" /\ shown[o] = Plan(s, db)
    BY DEF Lock
  <2>2. v = [db |-> db, tree |-> s, ran |-> {}, did |-> {}, drops |-> {},
             ahead |-> FALSE, dumps |-> TRUE]
    BY <1>1 DEF Begun
  <2>3. Consistent("migrate?", work[o], shown[o], db)
    BY <2>1, ThePart
  <2>4. QED
    BY <2>1, <2>2, <2>3, ThePart, Locked
<1>4. QED
  BY <1>2, <1>3, ThePart, Keeps DEF Lock, Writes

LEMMA PatchBeforeStep ==
  ASSUME Inv, NEW o \in Operators, PatchBefore(o) PROVE Inv'
<1>1. PICK w : w = work[o]
  OBVIOUS
<1>2. PICK pre : pre = Pending(w.tree, w.db, "pre-sync", Installing(w.db))
  OBVIOUS
<1>3. PICK live : live = Executed(OpsOf(w.tree, pre), w.db.live)
  OBVIOUS
<1>4. PICK rows \in SUBSET live.tables :
        /\ live # None
        /\ Goes(o, "patched", [w EXCEPT !.ran = Ids(w.tree, pre),
             !.db = [@ EXCEPT !.live = live, !.rows = rows,
                              !.ledger = Recorded(w.db.ledger, w.tree, pre, "applied")]])
  BY <1>1, <1>2, <1>3 DEF PatchBefore
<1>5. PICK v : v = [w EXCEPT !.ran = Ids(w.tree, pre),
                     !.db = [@ EXCEPT !.live = live, !.rows = rows,
                               !.ledger = Recorded(w.db.ledger, w.tree, pre, "applied")]]
  OBVIOUS
<1>6. Moved(o, "patched", v, shown[o])
  BY <1>4, <1>5, ThePart, Moves DEF PatchBefore, Goes, Places
<1>7. Consistent("patched", v, shown[o], db)
  <2>1. Consistent("locked", w, shown[o], db)
    BY <1>1, ThePart DEF PatchBefore
  <2>2. QED
    BY <1>2, <1>3, <1>4, <1>5, <2>1, ThePart, Patched
<1>8. QED
  BY <1>6, <1>7, ThePart, Keeps DEF PatchBefore, InTx, Writes

LEMMA SyncStep ==
  ASSUME Inv, NEW o \in Operators, Sync(o) PROVE Inv'
<1>1. PICK w : w = work[o]
  OBVIOUS
<1>2. PICK rows : rows = w.db.rows \cup (db.rows \cap w.db.live.tables)
  OBVIOUS
<1>3. PICK ops : ops = Operations(SchemaOf[w.tree], w.db.live, rows)
  OBVIOUS
<1>4. PICK v : v = [w EXCEPT !.did = ops,
                !.db = [Persisted(w.db, w.tree) EXCEPT
                          !.live = Synced(SchemaOf[w.tree], w.db.live, ops),
                          !.rows = rows \cup Singles(w.tree)]]
  OBVIOUS
<1>5. Diagnostics(SchemaOf[w.tree], w.db.live, rows) = {} /\ Goes(o, "synced", v)
  BY <1>1, <1>2, <1>3, <1>4 DEF Sync
<1>6. Moved(o, "synced", v, shown[o])
  BY <1>5, ThePart, Moves DEF Sync, Goes, Places
<1>7. Consistent("synced", v, shown[o], db)
  <2>1. Consistent("patched", w, shown[o], db)
    BY <1>1, ThePart DEF Sync
  <2>2. rows \in SUBSET w.db.live.tables
    BY <1>2, <2>1 DEF Consistent, Typed, Fits, InTx
  <2>3. QED
    BY <1>3, <1>4, <1>5, <2>1, <2>2, ThePart, SyncDone
<1>8. QED
  BY <1>6, <1>7, ThePart, Keeps DEF Sync, InTx, Writes

LEMMA FinishStep ==
  ASSUME Inv, NEW o \in Operators, Finish(o) PROVE Inv'
<1>1. PICK w, s : w = work[o] /\ s = w.tree
  OBVIOUS
<1>2. PICK ledger : ledger = Recorded(w.db.ledger, s, Baseline(s, [w.db EXCEPT !.app = db.app]),
                                      "baselined")
  OBVIOUS
<1>3. PICK post : post = Pending(s, [w.db EXCEPT !.ledger = ledger], "post-sync", Installing(db))
  OBVIOUS
<1>4. PICK live : live = Executed(OpsOf(s, post), w.db.live)
  OBVIOUS
<1>5. PICK patched : patched = [w.db EXCEPT !.live = live,
                                  !.ledger = Recorded(ledger, s, post, "applied"),
                                  !.rows = w.db.rows \cap live.tables]
  OBVIOUS
<1>6. PICK e : e = Activated(s, Fixtured(s, patched))
  OBVIOUS
<1>7. PICK v : v = [w EXCEPT !.ran = w.ran \cup Ids(s, post), !.ahead = (live # w.db.live),
                             !.db = e]
  OBVIOUS
<1>8. live # None /\ FixtureTables(s) \subseteq live.tables /\ Goes(o, "ended", v)
  BY <1>1, <1>2, <1>3, <1>4, <1>5, <1>6, <1>7 DEF Finish
<1>9. Moved(o, "ended", v, shown[o])
  BY <1>8, ThePart, Moves DEF Finish, Goes, Places
<1>10. Consistent("synced", w, shown[o], db)
  BY <1>1, ThePart DEF Finish
<1>11. s \in Sources /\ w.db \in Database /\ w.db.live \in Plains
  BY <1>1, <1>10 DEF Consistent, Typed, Fits, InTx
<1>12. PICK g : g = [w.db EXCEPT !.ledger = ledger]
  OBVIOUS
<1>13. PICK h : h = [w.db EXCEPT !.app = db.app]
  OBVIOUS
<1>14. PICK base : base = Baseline(s, h)
  OBVIOUS
<1>15. ledger \in LedgerType
  <2>1. base \in SUBSET DOMAIN Source[s].patches
    BY <1>14, BaselineParts
  <2>2. w.db.ledger \in LedgerType
    BY <1>11, DatabaseParts
  <2>3. ledger = Recorded(w.db.ledger, s, base, "baselined")
    BY <1>2, <1>13, <1>14
  <2>4. Records(w.db.ledger, ledger, Ids(s, base), "baselined")
    BY <1>11, <2>1, <2>2, <2>3, RecordedLedger
  <2>5. QED
    BY <2>4 DEF Records
<1>16. post \in SUBSET DOMAIN Source[s].patches
  <2>1. post = Pending(s, g, "post-sync", Installing(db))
    BY <1>3, <1>12
  <2>2. QED
    BY <2>1, PendingParts
<1>17. live \in Plains
  BY <1>4, <1>8, <1>11, <1>16, OpsType, ExecutedPlain DEF PlainsOrNone
<1>18. PICK last : last = Recorded(ledger, s, post, "applied")
  OBVIOUS
<1>19. last \in LedgerType
  BY <1>11, <1>15, <1>16, <1>18, RecordedLedger DEF Records
<1>20. PICK f : f = Fixtured(s, patched)
  OBVIOUS
<1>21. /\ f \in Database /\ f.live = live /\ f.rows \subseteq live.tables
       /\ f.ledger = last /\ f.meta = w.db.meta
  <2>1. PICK q : q = w.db.rows \cap live.tables
    OBVIOUS
  <2>2. PICK c : c = w.db
    OBVIOUS
  <2>3. c = [live |-> c.live, rows |-> c.rows, app |-> c.app, ledger |-> c.ledger,
             meta |-> c.meta]
    BY <1>11, <2>2, DatabaseParts
  <2>4. patched = [c EXCEPT !.live = live, !.ledger = last, !.rows = q]
    BY <1>5, <1>18, <2>1, <2>2
  <2>5. patched = [live |-> live, rows |-> q, app |-> c.app, ledger |-> last, meta |-> c.meta]
    BY <2>3, <2>4
  <2>6. PICK r : r = q \cup FixtureTables(s)
    OBVIOUS
  <2>7. f = [live |-> live, rows |-> r, app |-> c.app, ledger |-> last, meta |-> c.meta]
    BY <1>20, <2>5, <2>6 DEF Fixtured
  <2>8. r \subseteq live.tables
    BY <1>8, <2>1, <2>6
  <2>9. live \in Schema /\ live.tables \subseteq Tables
    BY <1>17, SchemaParts DEF Plains
  <2>10. c.app \in AppType /\ c.meta \in Sources \cup {None}
    BY <1>11, <2>2, DatabaseParts
  <2>11. QED
    BY <1>19, <2>2, <2>7, <2>8, <2>9, <2>10, IsDatabase
<1>22. /\ e \in Database /\ e.live = live /\ e.rows \subseteq live.tables
       /\ e.ledger = last /\ e.meta = w.db.meta
  <2>1. PICK app \in AppType :
          e = [live |-> f.live, rows |-> f.rows, app |-> app, ledger |-> f.ledger, meta |-> f.meta]
    BY <1>6, <1>11, <1>20, <1>21, ThePart, ActivatedType
  <2>2. /\ f.live \in Schema /\ f.rows \subseteq Tables /\ f.ledger \in LedgerType
        /\ f.meta \in Sources \cup {None}
    BY <1>21, DatabaseParts
  <2>3. e \in Database
    BY <2>1, <2>2, IsDatabase
  <2>4. QED
    BY <1>21, <2>1, <2>3
<1>23. Consistent("ended", v, shown[o], db)
  <2>1. PICK new, more : new = w.ran \cup Ids(s, post) /\ more = (live # w.db.live)
    OBVIOUS
  <2>2. v = [db |-> e, tree |-> w.tree, ran |-> new, did |-> w.did, drops |-> w.drops,
             ahead |-> more, dumps |-> w.dumps]
    <3>1. v = [w EXCEPT !.ran = new, !.ahead = more, !.db = e]
      BY <1>7, <2>1
    <3>2. w = [db |-> w.db, tree |-> w.tree, ran |-> w.ran, did |-> w.did,
               drops |-> w.drops, ahead |-> w.ahead, dumps |-> w.dumps]
      BY <1>10 DEF Consistent, Typed, Fits, InTx
    <3>3. QED
      BY <3>1, <3>2
  <2>3. more \in BOOLEAN /\ (~more => live = w.db.live)
    BY <2>1
  <2>4. /\ h.ledger = w.db.ledger /\ h.app = db.app /\ g.ledger = ledger
        /\ e.ledger = Recorded(ledger, s, post, "applied")
    BY <1>11, <1>12, <1>13, <1>18, <1>22, DatabaseParts
  <2>5. /\ ledger = Recorded(w.db.ledger, s, base, "baselined")
        /\ post = Pending(s, g, "post-sync", Installing(db))
    BY <1>2, <1>3, <1>12, <1>13, <1>14
  <2>6. /\ s = w.tree /\ live # None /\ new = w.ran \cup Ids(s, post) /\ db \in Database
        /\ e \in Database /\ e.live = live /\ e.rows \subseteq live.tables
        /\ e.meta = w.db.meta
    BY <1>1, <1>8, <1>22, <2>1, ThePart
  <2>7. QED
    BY <1>4, <1>10, <1>14, <2>2, <2>3, <2>4, <2>5, <2>6, FinishDone
<1>24. QED
  BY <1>9, <1>23, ThePart, Keeps DEF Finish, InTx, Writes

LEMMA PlanPruneAgainStep ==
  ASSUME Inv, NEW o \in Operators, NEW s \in Sources, PlanPruneAgain(o, s) PROVE Inv'
<1>2. shown[o] = None
  BY ThePart DEF PlanPruneAgain, Consistent, Approved
<1>3. CASE Unsafe(SchemaOf[s], db.live, db.rows) # {}
  <2>1. Goes(o, "idle", None)
    BY <1>3 DEF PlanPruneAgain
  <2>2. Moved(o, "idle", None, shown[o])
    BY <2>1, ThePart, Moves DEF PlanPruneAgain, Goes, Places
  <2>3. Consistent("idle", None, shown[o], db)
    BY <1>2, AtRest
  <2>4. QED
    BY <2>2, <2>3, ThePart, Keeps DEF PlanPruneAgain, InTx, Writes
<1>4. CASE Unsafe(SchemaOf[s], db.live, db.rows) = {}
  <2>1. PICK b : b = Begun(s)
    OBVIOUS
  <2>2. PICK v : v = [b EXCEPT !.drops = Extra(SchemaOf[s], db.live),
                               !.dumps = (Extra(SchemaOf[s], db.live) # {}),
                               !.ahead = (Operations(SchemaOf[s], db.live, db.rows) # {})]
    OBVIOUS
  <2>3. Goes(o, "pruning", v)
    BY <1>4, <2>1, <2>2 DEF PlanPruneAgain
  <2>4. Moved(o, "pruning", v, shown[o])
    BY <2>3, ThePart, Moves DEF PlanPruneAgain, Goes, Places
  <2>5. b = [db |-> db, tree |-> s, ran |-> {}, did |-> {}, drops |-> {},
             ahead |-> FALSE, dumps |-> TRUE]
    BY <2>1 DEF Begun
  <2>6. Consistent("pruning", v, shown[o], db)
    BY <1>2, <1>4, <2>2, <2>5, ThePart, PrunePlanned
  <2>7. QED
    BY <2>4, <2>6, ThePart, Keeps DEF PlanPruneAgain, InTx, Writes
<1>5. QED
  BY <1>3, <1>4

LEMMA PruneStep ==
  ASSUME Inv, NEW o \in Operators, Prune(o) PROVE Inv'
<1>1. PICK w : w = work[o]
  OBVIOUS
<1>2. PICK live : live = Dropped(db.live, w.drops)
  OBVIOUS
<1>3. PICK v : v = [w EXCEPT !.ahead = w.ahead \/ db.live # w.db.live,
                     !.db = [Persisted(db, w.tree) EXCEPT !.live = live,
                                                          !.rows = db.rows \cap live.tables]]
  OBVIOUS
<1>4. Goes(o, "ended", v)
  BY <1>1, <1>2, <1>3 DEF Prune
<1>5. Moved(o, "ended", v, shown[o])
  BY <1>4, ThePart, Moves DEF Prune, Goes, Places
<1>6. shown[o] = None
  BY ThePart DEF Prune, Consistent, Approved
<1>7. Consistent("pruning", w, None, db)
  BY <1>1, <1>6, ThePart DEF Prune
<1>8. Consistent("ended", v, shown[o], db)
  BY <1>2, <1>3, <1>6, <1>7, ThePart, Pruned
<1>9. QED
  BY <1>5, <1>8, ThePart, Keeps DEF Prune, Writes

LEMMA PruneFailsStep ==
  ASSUME Inv, NEW o \in Operators, PruneFails(o) PROVE Inv'
<1>1. Moved(o, "idle", None, shown[o])
  BY ThePart, Moves DEF PruneFails, Goes, Places
<1>2. shown[o] = None
  BY ThePart DEF PruneFails, Consistent, Approved
<1>3. Consistent("idle", None, shown[o], db)
  BY <1>2, AtRest
<1>4. QED
  BY <1>1, <1>3, ThePart, Keeps DEF PruneFails, InTx, Writes

LEMMA FailsStep ==
  ASSUME Inv, NEW o \in Operators, Fails(o) PROVE Inv'
<1>1. Moved(o, "idle", None, None)
  BY ThePart, Moves DEF Fails, Goes, Places
<1>2. Consistent("idle", None, None, db)
  BY AtRest
<1>3. QED
  BY <1>1, <1>2, ThePart, Keeps DEF Fails, InTransaction, InTx, Writes

LEMMA DumpStep ==
  ASSUME Inv, NEW o \in Operators, Dump(o) PROVE Inv'
<1>1. PICK v : v = [live |-> db.live]
  OBVIOUS
<1>2. Moved(o, "save", v, shown[o])
  BY <1>1, ThePart, Moves DEF Dump, Goes, Places
<1>3. shown[o] = None
  BY ThePart DEF Dump, Consistent, Approved
<1>4. Live(v.live)
  BY <1>1, ThePart DEF Plains
<1>5. Consistent("save", v, shown[o], db)
  BY <1>3, <1>4 DEF Consistent, Typed, Approved, Stage, Prunes, Ledgers, Shows, InTx
<1>6. QED
  BY <1>2, <1>5, ThePart, Keeps DEF Dump, InTx, Writes

LEMMA SaveStep ==
  ASSUME Inv, NEW o \in Operators, Save(o) PROVE Inv'
<1>1. Moved(o, "idle", None, shown[o])
  BY ThePart, Moves DEF Save, Goes, Places
<1>2. shown[o] = None /\ Live(work[o].live)
  BY ThePart DEF Save, Consistent, Typed, Approved
<1>3. Consistent("idle", None, shown[o], db)
  BY <1>2, AtRest
<1>4. /\ snapshot' = [snapshot EXCEPT ![root[o]] = work[o].live]
      /\ missed' = IF work[o].live = db.live THEN missed \ {root[o]} ELSE missed \cup {root[o]}
  BY DEF Save
<1>5. Snapshots(snapshot)
  BY ThePart
<1>6. Snapshots(snapshot')
  BY <1>2, <1>4, <1>5 DEF Snapshots
<1>7. /\ \A r \in Roots \ {root[o]} : snapshot'[r] = snapshot[r] /\ (r \in missed' <=> r \in missed)
      /\ root[o] \in missed' \/ snapshot'[root[o]] = db.live
  <2>1. root[o] \in Roots /\ DOMAIN snapshot = Roots
    BY <1>5, ThePart DEF Snapshots
  <2> QED
    BY <1>4, <2>1
<1>8. QED
  BY <1>1, <1>3, <1>6, <1>7, ThePart, Keeps DEF Save, InTx

LEMMA DumpFailsStep ==
  ASSUME Inv, NEW o \in Operators, DumpFails(o) PROVE Inv'
<1>1. Moved(o, "idle", None, shown[o])
  BY ThePart, Moves DEF DumpFails, Goes, Places
<1>2. shown[o] = None
  BY ThePart DEF DumpFails, Consistent, Approved
<1>3. Consistent("idle", None, shown[o], db)
  BY <1>2, AtRest
<1>4. /\ \A r \in Roots \ {root[o]} : snapshot'[r] = snapshot[r] /\ (r \in missed' <=> r \in missed)
      /\ root[o] \in missed'
  BY DEF DumpFails
<1>5. QED
  BY <1>1, <1>3, <1>4, ThePart, Keeps DEF DumpFails, InTx

-----------------------------------------------------------------------------
(* The ends of transactions, the environment, and the theorems.            *)

\* A committed transaction.
LEMMA EndedStep ==
  ASSUME Inv, NEW o \in Operators, pc[o] = "ended", Ended(o), NEW p \in {"idle", "dump"},
         Goes(o, p, None), UNCHANGED <<root, snapshot, commands>>,
         NEW roots, Behind(o, roots), roots = Roots \/ (roots = Roots \ {root[o]} /\ p = Dumps(o))
  PROVE  Inv'
<1>1. PICK w, sh : w = work[o] /\ sh = shown[o]
  OBVIOUS
<1>2. Consistent("ended", w, sh, db)
  BY <1>1, ThePart
<1>3. w.db \in Database /\ w.db.live \in Plains /\ w.db.rows \subseteq w.db.live.tables
      /\ w.ahead \in BOOLEAN
  BY <1>2 DEF Consistent, Typed, Fits, InTx
<1>4. PICK rows : rows = w.db.rows \cup (db.rows \cap w.db.live.tables)
  OBVIOUS
<1>5. db' = [w.db EXCEPT !.rows = rows]
  BY <1>1, <1>4 DEF Ended
<1>6. db' = [live |-> w.db.live, rows |-> rows, app |-> w.db.app, ledger |-> w.db.ledger,
             meta |-> w.db.meta]
  <2>1. w.db = [live |-> w.db.live, rows |-> w.db.rows, app |-> w.db.app,
                ledger |-> w.db.ledger, meta |-> w.db.meta]
    BY <1>3, DatabaseParts
  <2>2. PICK c : c = w.db
    OBVIOUS
  <2>3. db' = [c EXCEPT !.rows = rows]
    BY <1>5, <2>2
  <2>4. db' = [live |-> c.live, rows |-> rows, app |-> c.app, ledger |-> c.ledger, meta |-> c.meta]
    BY <2>1, <2>2, <2>3
  <2>5. QED
    BY <2>2, <2>4
<1>7. db' \in Database /\ db'.live = w.db.live /\ db'.rows \subseteq db'.live.tables
      /\ db'.ledger = w.db.ledger /\ db'.meta = w.db.meta
  <2>1. /\ w.db.live \in Schema /\ w.db.app \in AppType /\ w.db.ledger \in LedgerType
        /\ w.db.meta \in Sources \cup {None} /\ w.db.live.tables \subseteq Tables
    BY <1>3, DatabaseParts, SchemaParts
  <2>2. rows \subseteq w.db.live.tables
    BY <1>3, <1>4
  <2>3. PICK e : e = [live |-> w.db.live, rows |-> rows, app |-> w.db.app, ledger |-> w.db.ledger,
                      meta |-> w.db.meta]
    OBVIOUS
  <2>4. e \in Database /\ e.live = w.db.live /\ e.rows \subseteq e.live.tables
        /\ e.ledger = w.db.ledger /\ e.meta = w.db.meta
    BY <2>1, <2>2, <2>3, IsDatabase
  <2>5. db' = e
    BY <1>6, <2>3
  <2>6. QED
    BY <2>4, <2>5
<1>8. Moved(o, p, None, None)
  <2>1. pc' = [pc EXCEPT ![o] = p] /\ work' = [work EXCEPT ![o] = None]
        /\ shown' = [shown EXCEPT ![o] = None]
    BY DEF Goes, Ended
  <2>2. TypeInv /\ p \in Places
    BY ThePart DEF Places
  <2>3. QED
    BY <2>1, <2>2, Moves
<1>9. \A x \in Patches :
        ran'[x] = IF db'.ledger[x] # None /\ db'.ledger[x].outcome = "applied" THEN 1 ELSE 0
  <2>1. TAKE x \in Patches
  <2>2. ran[x] = IF db.ledger[x] # None /\ db.ledger[x].outcome = "applied" THEN 1 ELSE 0
    BY DEF Inv, LedgerTellsEffects
  <2>3. ran'[x] = ran[x] + IF x \in w.ran THEN 1 ELSE 0
    BY <1>1 DEF Ended
  <2>4. /\ w.db.ledger[x] = db.ledger[x] \/ (db.ledger[x] = None /\ w.db.ledger[x] # None)
        /\ x \in w.ran <=> /\ db.ledger[x] = None /\ w.db.ledger[x] # None
                           /\ w.db.ledger[x].outcome = "applied"
    BY <1>2 DEF Consistent, Ledgers, InTx
  <2>5. db'.ledger[x] = w.db.ledger[x]
    BY <1>7
  <2>6. QED
    BY <2>2, <2>3, <2>4, <2>5
<1>10. TypeInv'
  <2>1. ran' \in [Patches -> 0..1]
    BY <1>9 DEF Ended
  <2>2. db'.live \in Plains
    BY <1>3, <1>7
  <2>3. TypeInv
    BY DEF Inv
  <2>4. QED
    BY <1>7, <1>8, <2>1, <2>2, <2>3 DEF TypeInv, Moved
<1>11. InTx(pc[o]) /\ OneTransaction /\ \A x \in Operators : Consistent(pc[x], work[x], shown[x], db)
  BY DEF Inv, InTx
<1>12. OneTransaction'
  <2>1. ~InTx(pc'[o])
    BY <1>8 DEF Moved, InTx
  <2>2. \A x \in Operators \ {o} : pc'[x] = pc[x]
    BY <1>8 DEF Moved
  <2>3. QED
    BY <1>11, <2>1, <2>2 DEF OneTransaction
<1>13. \A x \in Operators : Consistent(pc'[x], work'[x], shown'[x], db')
  BY <1>8, <1>11, OthersOutside
<1>14. LedgerTellsEffects'
  BY <1>9 DEF LedgerTellsEffects
<1>15. MetadataIsLive'
  <2>1. w.db.meta # None /\ ~w.ahead => w.db.live = SchemaOf[w.db.meta]
    BY <1>2 DEF Consistent, Stage
  <2>2. ahead' = w.ahead
    BY <1>1 DEF Ended
  <2>3. QED
    BY <1>7, <2>1, <2>2 DEF MetadataIsLive
<1>16. SnapshotExplained'
  <2>1. SUFFICES ASSUME NEW r \in Roots, r \notin missed',
                        \A x \in Operators : root[x] = r => ~Writes(pc'[x])
                 PROVE  snapshot[r] = db'.live
    BY DEF SnapshotExplained, Writes
  <2>2. pc'[o] = p /\ \A x \in Operators \ {o} : pc'[x] = pc[x]
    BY <1>8 DEF Moved
  <2>3. CASE w.db.live = db.live
    <3>1. r \notin missed /\ db'.live = db.live
      BY <1>1, <1>7, <2>1, <2>3 DEF Behind
    <3>2. \A x \in Operators : root[x] = r => ~Writes(pc[x])
      BY <2>1, <2>2 DEF Writes
    <3> QED
      BY <3>1, <3>2 DEF Inv, SnapshotExplained, Writes
  <2>4. CASE w.db.live # db.live
    <3>1. r \notin roots
      BY <1>1, <2>1, <2>4 DEF Behind
    <3>2. r = root[o] /\ p = Dumps(o)
      BY <3>1
    <3>3. w.dumps
      BY <1>2, <2>4 DEF Consistent, Stage
    <3>4. Writes(pc'[o])
      BY <1>1, <2>2, <3>2, <3>3 DEF Dumps, Writes
    <3> QED
      BY <2>1, <3>2, <3>4
  <2> QED
    BY <2>3, <2>4
<1>17. QED
  BY <1>10, <1>12, <1>13, <1>14, <1>15, <1>16 DEF Inv

LEMMA CommitStep ==
  ASSUME Inv, NEW o \in Operators, Commit(o) \/ CommitUnseen(o) PROVE Inv'
<1>1. CASE Commit(o)
  <2>1. PICK p : p = Dumps(o)
    OBVIOUS
  <2>2. p \in {"idle", "dump"}
    BY <2>1 DEF Dumps
  <2>3. PICK roots : roots = Roots \ {root[o]}
    OBVIOUS
  <2>4. QED
    BY <1>1, <2>1, <2>2, <2>3, EndedStep DEF Commit
<1>2. CASE CommitUnseen(o)
  BY <1>2, EndedStep DEF CommitUnseen
<1>3. QED
  BY <1>1, <1>2

LEMMA InsertStep ==
  ASSUME Inv, NEW t \in Tables, Insert(t) PROVE Inv'
<1>1. PICK d : d = db
  OBVIOUS
<1>2. PICK rows : rows = d.rows \cup {t}
  OBVIOUS
<1>3. db' = [d EXCEPT !.rows = rows]
  BY <1>1, <1>2 DEF Insert
<1>4. d \in Database /\ d.live \in Plains /\ d.rows \subseteq d.live.tables
  BY <1>1 DEF Inv, TypeInv
<1>5. d = [live |-> d.live, rows |-> d.rows, app |-> d.app, ledger |-> d.ledger, meta |-> d.meta]
  BY <1>4, DatabaseParts
<1>6. PICK e : e = [live |-> d.live, rows |-> rows, app |-> d.app, ledger |-> d.ledger,
                    meta |-> d.meta]
  OBVIOUS
<1>7. db' = e
  BY <1>3, <1>5, <1>6
<1>8. rows \subseteq Tables /\ rows \subseteq d.live.tables
  <2>1. t \in d.live.tables
    BY <1>1 DEF Insert
  <2>2. d.live.tables \subseteq Tables
    BY <1>4, SchemaParts DEF Plains
  <2>3. QED
    BY <1>2, <1>4, <2>1, <2>2
<1>9. e \in Database /\ e.live = d.live /\ e.rows = rows /\ e.ledger = d.ledger /\ e.meta = d.meta
  <2>1. /\ d.live \in Schema /\ d.app \in AppType /\ d.ledger \in LedgerType
        /\ d.meta \in Sources \cup {None}
    BY <1>4, DatabaseParts
  <2>2. QED
    BY <1>6, <1>8, <2>1, IsDatabase
<1>10. TypeInv'
  BY <1>1, <1>4, <1>7, <1>8, <1>9 DEF Inv, TypeInv, Insert
<1>11. \A x \in Operators : Consistent(pc'[x], work'[x], shown'[x], db')
  <2>1. TAKE x \in Operators
  <2>2. Consistent(pc[x], work[x], shown[x], d)
    BY <1>1 DEF Inv
  <2>3. Consistent(pc[x], work[x], shown[x], [d EXCEPT !.rows = rows])
    BY <1>4, <1>8, <2>2, RowsAside
  <2>4. pc'[x] = pc[x] /\ work'[x] = work[x] /\ shown'[x] = shown[x]
    BY DEF Insert
  <2>5. QED
    BY <1>3, <2>3, <2>4
<1>12. LedgerTellsEffects' /\ MetadataIsLive' /\ SnapshotExplained' /\ OneTransaction'
  <2>1. UNCHANGED <<pc, root, snapshot, ran, ahead, missed>>
    BY DEF Insert
  <2>2. db'.live = db.live /\ db'.ledger = db.ledger /\ db'.meta = db.meta
    BY <1>1, <1>7, <1>9
  <2>3. QED
    BY <2>1, <2>2 DEF Inv, LedgerTellsEffects, MetadataIsLive, SnapshotExplained, OneTransaction
<1>13. QED
  BY <1>10, <1>11, <1>12 DEF Inv

LEMMA DisableStep ==
  ASSUME Inv, NEW a \in Apps, Disable(a) PROVE Inv'
<1>1. PICK d : d = db
  OBVIOUS
<1>2. PICK app : app = [d.app EXCEPT ![a].status = "disabled"]
  OBVIOUS
<1>3. d \in Database /\ d.live \in Plains /\ d.rows \subseteq d.live.tables
  BY <1>1 DEF Inv, TypeInv
<1>4. /\ d = [live |-> d.live, rows |-> d.rows, app |-> d.app, ledger |-> d.ledger, meta |-> d.meta]
      /\ d.live \in Schema /\ d.rows \subseteq Tables /\ d.app \in AppType
      /\ d.ledger \in LedgerType /\ d.meta \in Sources \cup {None}
  BY <1>3, DatabaseParts
<1>5. app \in AppType
  BY <1>2, <1>4 DEF AppType
<1>6. PICK e : e = [live |-> d.live, rows |-> d.rows, app |-> app, ledger |-> d.ledger,
                    meta |-> d.meta]
  OBVIOUS
<1>7. db' = e
  <2>1. db' = [d EXCEPT !.app = app]
    BY <1>1, <1>2, <1>4 DEF Disable
  <2>2. QED
    BY <1>4, <1>6, <2>1
<1>8. e \in Database /\ e.live = d.live /\ e.rows = d.rows /\ e.ledger = d.ledger /\ e.meta = d.meta
  BY <1>4, <1>5, <1>6, IsDatabase
<1>9. TypeInv'
  BY <1>1, <1>3, <1>7, <1>8 DEF Inv, TypeInv, Disable
<1>10. \A x \in Operators : Consistent(pc'[x], work'[x], shown'[x], db')
  <2>1. TAKE x \in Operators
  <2>2. Consistent(pc[x], work[x], shown[x], db)
    BY DEF Inv
  <2>3. ~InTx(pc[x])
    BY DEF Disable, Unlocked, InTransaction, InTx
  <2>4. Consistent(pc[x], work[x], shown[x], db')
    BY <2>2, <2>3, OutsideTransaction
  <2>5. QED
    BY <2>4 DEF Disable
<1>11. LedgerTellsEffects' /\ MetadataIsLive' /\ SnapshotExplained' /\ OneTransaction'
  <2>1. UNCHANGED <<pc, root, snapshot, ran, ahead, missed>>
    BY DEF Disable
  <2>2. db'.live = db.live /\ db'.ledger = db.ledger /\ db'.meta = db.meta
    BY <1>1, <1>7, <1>8
  <2>3. QED
    BY <2>1, <2>2 DEF Inv, LedgerTellsEffects, MetadataIsLive, SnapshotExplained, OneTransaction
<1>12. QED
  BY <1>9, <1>10, <1>11 DEF Inv

LEMMA Start == Init => Inv
<1> SUFFICES ASSUME Init PROVE Inv
  OBVIOUS
<1>1. EmptySchema \in Plains
  <2>1. PICK cols, objs : /\ cols = [t \in Tables |-> [c \in Columns |-> None]]
                          /\ objs = [t \in Tables |-> [x \in Objects |-> None]]
    OBVIOUS
  <2>2. EmptySchema = [tables |-> {}, cols |-> cols, objs |-> objs]
    BY <2>1 DEF EmptySchema
  <2>3. cols \in ColumnsType /\ objs \in ObjectsType
    BY <2>1 DEF ColumnsType, ObjectsType
  <2>4. EmptySchema \in Schema
    BY <2>2, <2>3 DEF Schema, ColumnsType, ObjectsType
  <2>5. /\ \A t \in Tables, c \in Columns : EmptySchema.cols[t][c] = None
        /\ \A t \in Tables, x \in Objects : EmptySchema.objs[t][x] = None
    BY <2>1, <2>2
  <2>6. QED
    BY <2>4, <2>5, SchemaConstants DEF Plains, Plain, Live, Bare
<1>2. db \in Database /\ db.live = EmptySchema /\ db.rows = {} /\ db.meta = None
      /\ \A p \in Patches : db.ledger[p] = None
  <2>1. PICK app, ledger : /\ app = [a \in Apps |-> [status |-> "none", version |-> None]]
                           /\ ledger = [p \in Patches |-> None]
    OBVIOUS
  <2>2. db = [live |-> EmptySchema, rows |-> {}, app |-> app, ledger |-> ledger, meta |-> None]
    BY <2>1 DEF Init
  <2>3. app \in AppType /\ ledger \in LedgerType
    BY <2>1 DEF AppType, LedgerType
  <2>4. db \in Database
    BY <1>1, <2>2, <2>3, IsDatabase DEF Plains
  <2>5. QED
    BY <2>1, <2>2, <2>4
<1>3. \A o \in Operators : pc[o] = "idle" /\ shown[o] = None
  BY DEF Init
<1>4. TypeInv
  <2>1. pc \in [Operators -> Places] /\ DOMAIN work = Operators /\ DOMAIN shown = Operators
    BY DEF Init, Places
  <2>2. commands \in 0..MaxCommands /\ ran \in [Patches -> 0..1]
    BY MigrationConstants DEF Init
  <2>3. Snapshots(snapshot)
    BY <1>1 DEF Init, Plains, Snapshots
  <2>4. root \in [Operators -> Roots]
    BY DEF Init
  <2>5. QED
    BY <1>1, <1>2, <2>1, <2>2, <2>3, <2>4 DEF TypeInv
<1>5. OneTransaction
  BY <1>3 DEF OneTransaction, InTx
<1>6. \A o \in Operators : Consistent(pc[o], work[o], shown[o], db)
  BY <1>3, AtRest
<1>7. LedgerTellsEffects /\ MetadataIsLive /\ SnapshotExplained
  <2>1. snapshot = [r \in Roots |-> EmptySchema] /\ ran = [p \in Patches |-> 0]
    BY DEF Init
  <2>2. QED
    BY <1>2, <2>1 DEF LedgerTellsEffects, MetadataIsLive, SnapshotExplained
<1>8. QED
  BY <1>4, <1>5, <1>6, <1>7 DEF Inv

LEMMA Idle == ASSUME Inv, UNCHANGED vars PROVE Inv'
BY DEF Inv, TypeInv, OneTransaction, LedgerTellsEffects, MetadataIsLive, SnapshotExplained, vars

LEMMA Induction == Inv /\ [Next]_vars => Inv'
<1> SUFFICES ASSUME Inv, [Next]_vars PROVE Inv'
  OBVIOUS
<1>1. ASSUME NEW o \in Operators, NEW s \in Sources,
             \/ PlanMigration(o, s) \/ Lock(o, s) \/ Changed(o, s)
             \/ PlanPrune(o, s) \/ PlanPruneAgain(o, s)
      PROVE  Inv'
  BY <1>1, PlanMigrationStep, CancelStep, LockStep, PlanPruneStep, PlanPruneAgainStep
<1>2. ASSUME NEW o \in Operators,
             \/ Cancel(o) \/ PatchBefore(o) \/ Sync(o) \/ Finish(o)
             \/ Prune(o) \/ PruneFails(o)
      PROVE  Inv'
  BY <1>2, CancelStep, PatchBeforeStep, SyncStep, FinishStep, PruneStep, PruneFailsStep
<1>3. ASSUME NEW o \in Operators,
             \/ Commit(o) \/ CommitUnseen(o) \/ Fails(o)
             \/ Dump(o) \/ Save(o) \/ DumpFails(o)
      PROVE  Inv'
  BY <1>3, CommitStep, FailsStep, DumpStep, SaveStep, DumpFailsStep
<1>4. ASSUME NEW t \in Tables, Insert(t) PROVE Inv'
  BY <1>4, InsertStep
<1>5. ASSUME NEW a \in Apps, Disable(a) PROVE Inv'
  BY <1>5, DisableStep
<1>6. CASE UNCHANGED vars
  BY <1>6, Idle
<1>7. QED
  BY <1>1, <1>2, <1>3, <1>4, <1>5, <1>6 DEF Next

LEMMA Invariance == Spec => []Inv
BY Start, Induction, PTL DEF Spec

LEMMA WhatFollows == ASSUME Inv PROVE TypeOK /\ AsShown /\ SnapshotExplained
<1>1. \A o \in Operators : Consistent(pc[o], work[o], shown[o], db)
  BY DEF Inv
<1>2. TypeOK
  <2>1. ASSUME NEW o \in Operators, InTransaction(o)
        PROVE  /\ work[o].db \in Database /\ Live(work[o].db.live) /\ work[o].ran \subseteq Patches
    <3>1. Fits(work[o])
      BY <1>1, <2>1 DEF Consistent, Typed, InTransaction, InTx
    <3>2. QED
      BY <3>1 DEF Fits, Plains
  <2>2. Live(db.live)
    BY DEF Inv, TypeInv, Plains
  <2>3. QED
    BY <2>1, <2>2 DEF Inv, TypeInv, TypeOK, Places, Snapshots
<1>3. AsShown
  BY <1>1 DEF Consistent, Shows, AsShown
<1>4. SnapshotExplained
  BY DEF Inv
<1>5. QED
  BY <1>2, <1>3, <1>4

\* The database, what every transaction has made of it, and the snapshot file
\* are schemas, rows and ledgers of the right kinds, whatever the patches do.
THEOREM TypeCorrect == Spec => []TypeOK
BY Invariance, WhatFollows, PTL

\* Through racing operators, failed attempts and lost commits, a patch that
\* the ledger calls applied ran exactly once and any other one never.
THEOREM LedgerIsTrue == Spec => []LedgerTellsEffects
<1>1. Inv => LedgerTellsEffects
  BY DEF Inv
<1>2. QED
  BY <1>1, Invariance, PTL

\* The live schema is the one that the persisted metadata asks for, but for a
\* prune ahead of its database and patches that follow the sync.
THEOREM MetadataFollowed == Spec => []MetadataIsLive
<1>1. Inv => MetadataIsLive
  BY DEF Inv
<1>2. QED
  BY <1>1, Invariance, PTL

\* What a migration did is what its operator approved: a plan that was
\* simulated outside of the lock, compared again under it, and executed.
THEOREM ShownIsDone == Spec => []AsShown
BY Invariance, WhatFollows, PTL

\* The snapshot of a root that no command is left to write is the live schema,
\* unless since the schema last changed nobody refreshed it, or an older dump
\* overwrote a newer one.
THEOREM SnapshotIsExplained == Spec => []SnapshotExplained
BY Invariance, WhatFollows, PTL
=============================================================================
