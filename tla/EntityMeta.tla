----------------------------- MODULE EntityMeta -----------------------------
(***************************************************************************)
(* Entity metadata (internal/entity): which definitions of Entities a      *)
(* project may have, and the schema they ask of the database (the first    *)
(* half of internal/db/schema_plan.go).  Everything the migrations of a    *)
(* project do starts from metadata that passed these checks.  Names are    *)
(* members of sets, and a name made of other names is a tuple of them;     *)
(* values that a check rule may have are told apart by their form.         *)
(***************************************************************************)
EXTENDS SchemaPlan, Sequences, SequencesExt, FiniteSets

CONSTANTS
  Apps, Core,
  EntityNames, FieldNames,
  ReservedFields, ReservedSlugs,
  TableOf,   \* TableOf[a, e]: the table of Entity e of App a
  ColumnOf   \* ColumnOf[n, x]: the column of field n with suffix x

-----------------------------------------------------------------------------
(* Field types                                                             *)

Scalars == {"text", "email", "phone", "long-text", "int", "bigint", "decimal", "currency",
            "boolean", "date", "datetime", "time", "attachment", "json"}
FieldTypes == Scalars \cup {"secret", "password", "select", "link", "collection"}
StoredTypes == FieldTypes \ {"collection"}
WriteOnly == {"secret", "password"}
Structured == {"attachment", "json", "secret", "password", "collection"}
Indexable == FieldTypes \ (Structured \cup {"long-text"})
Uniquable == Indexable
Defaultable == FieldTypes \ Structured
Checkable == Defaultable \ {"link"}
NameRenderable == Indexable

Suffix(t) == CASE t = "secret" -> "_encrypted" [] t = "password" -> "_hash"
               [] t = "link" -> "_id" [] OTHER -> ""
SqlType(t) == CASE t \in {"link", "bigint"} -> "bigint" [] t = "int" -> "integer"
                [] t \in {"decimal", "currency"} -> "numeric" [] t = "datetime" -> "timestamptz"
                [] t = "json" -> "jsonb" [] t \in {"boolean", "date", "time"} -> t
                [] OTHER -> "text"

ASSUME MetadataConstants ==
  /\ Core \in Apps
  /\ "name" \in FieldNames \cap ReservedFields /\ "name" \in SystemColumns \ RowColumns
  /\ {SqlType(t) : t \in StoredTypes} \subseteq Types
  /\ {"unique", "index", "foreign-key", "check"} \subseteq Shapes
  /\ DOMAIN TableOf = Apps \X EntityNames
  /\ DOMAIN ColumnOf = FieldNames \X {Suffix(t) : t \in StoredTypes}

-----------------------------------------------------------------------------
(* One Entity, as written in its file.  A default is none, a value, null,  *)
(* or a YAML list or map; a check is none or an operator with the form of  *)
(* its value.                                                              *)

CheckOperators == {"eq", "neq", "gt", "gte", "lt", "lte", "in", "not-in"}
ValueForms == {"none", "scalar", "null", "list", "empty-list", "list-of-lists"}
Rule == [operator : CheckOperators \cup {"other"}, value : ValueForms]
Filter == [field : FieldNames, operator : {"eq", "other"},
           from : FieldNames \cup {None}, value : BOOLEAN]
Options == [values : Seq(STRING), app : Apps \cup {None}, entity : EntityNames \cup {None},
            foreignKey : {"unset", "yes", "no"}, display : FieldNames \cup {None},
            filters : SUBSET Filter]
Field == [name : FieldNames, type : FieldTypes, required : BOOLEAN, unique : BOOLEAN,
          index : BOOLEAN, default : Defaults \cup {None, "null", "list"},
          check : Rule \cup {None}, fetch : Seq(FieldNames), options : Options]
Index == [name : STRING \cup {None}, fields : Seq(FieldNames)]
Constraint == [name : STRING \cup {None}, type : {"unique", "check", "exactly-one"},
               fields : Seq(FieldNames), field : FieldNames \cup {None}, rule : Rule \cup {None}]
Naming == [strategy : {"manual", "random", "series", "format", "other"}, label : BOOLEAN,
           length : Nat, pattern : Seq({"text", "year", "month", "counter", "other"}),
           format : Seq(FieldNames)]
Tree == [parent : FieldNames, label : FieldNames \cup {None}]
Entity == [app : Apps, name : EntityNames, kind : {"normal", "single", "collection"},
           slug : STRING \cup {None}, owner : FieldNames \cup {None}, private : BOOLEAN,
           fields : Seq(Field), indexes : Seq(Index), constraints : Seq(Constraint),
           naming : Naming \cup {None}, tree : Tree \cup {None}]

NoOptions == [values |-> <<>>, app |-> None, entity |-> None, foreignKey |-> "unset",
              display |-> None, filters |-> {}]
\* Field names that the rows of a collection cannot have.
RowFields == {"ordinal", "parent-entity-id", "parent-record-id", "parent-field-id"}

NamesOf(e) == {f.name : f \in Range(e.fields)}
FieldOf(e, n) == CHOOSE f \in Range(e.fields) : f.name = n

-----------------------------------------------------------------------------
(* The checks of one Entity.                                               *)

SelectOptions(o) ==
  /\ o.values # <<>> /\ IsInjective(o.values)
  /\ o = [NoOptions EXCEPT !.values = o.values]

EntityOptions(o) ==
  /\ o.values = <<>> /\ o.entity # None
  /\ \A x \in o.filters : x.value <=> x.from = None

OptionsValid(f) ==
  CASE f.type = "select" -> SelectOptions(f.options)
    [] f.type = "link" -> EntityOptions(f.options)
    [] f.type = "collection" -> EntityOptions(f.options) /\ f.options.foreignKey = "unset"
    [] OTHER -> f.options = NoOptions

\* A list for the operators that take one, a scalar for the others.
RuleValid(r) ==
  /\ r.operator \in CheckOperators
  /\ r.value = IF r.operator \in {"in", "not-in"} THEN "list" ELSE "scalar"

\* A path goes through at least one link.
FetchValid(f) == f.fetch = <<>> \/ Len(f.fetch) >= 2

FieldValid(f) ==
  /\ f.name \notin ReservedFields
  /\ f.unique => f.type \in Uniquable
  /\ f.index => f.type \in Indexable
  /\ f.default # None => f.type \in Defaultable
  /\ f.check # None => f.type \in Checkable /\ RuleValid(f.check)
  /\ FetchValid(f) /\ OptionsValid(f)

References(e, names, types) ==
  /\ IsInjective(names)
  /\ \A n \in Range(names) : n \in NamesOf(e) /\ FieldOf(e, n).type \in types

EffectiveIndexName(e, x) == IF x.name # None THEN <<x.name>> ELSE <<e.name, x.fields, "idx">>
EffectiveConstraintName(e, x) ==
  CASE x.name # None -> <<x.name>>
    [] x.name = None /\ x.type = "check" -> <<e.name, <<x.field>>, x.rule.operator, "check">>
    [] OTHER -> <<e.name, x.fields, IF x.type = "unique" THEN "key" ELSE x.type>>

IndexesValid(e) ==
  /\ \A x \in Range(e.indexes) : x.fields # <<>> /\ References(e, x.fields, Indexable)
  /\ IsInjective([i \in DOMAIN e.indexes |-> EffectiveIndexName(e, e.indexes[i])])
  /\ IsInjective([i \in DOMAIN e.indexes |-> e.indexes[i].fields])

UniqueValid(e, x) ==
  /\ Len(x.fields) >= 2 /\ x.field = None /\ x.rule = None
  /\ References(e, x.fields, Uniquable)

CheckValid(e, x) ==
  /\ x.fields = <<>> /\ x.field \in NamesOf(e) /\ FieldOf(e, x.field).type \in Checkable
  /\ x.rule # None /\ RuleValid(x.rule)

ExactlyOneValid(e, x) ==
  /\ Len(x.fields) >= 2 /\ x.field = None /\ x.rule = None
  /\ References(e, x.fields, StoredTypes)

ConstraintsValid(e) ==
  /\ \A x \in Range(e.constraints) :
       CASE x.type = "unique" -> UniqueValid(e, x)
         [] x.type = "check" -> CheckValid(e, x)
         [] OTHER -> ExactlyOneValid(e, x)
  /\ IsInjective([i \in DOMAIN e.constraints |-> EffectiveConstraintName(e, e.constraints[i])])
  /\ IsInjective([i \in DOMAIN e.constraints |-> [e.constraints[i] EXCEPT !.name = None]])

RandomNaming(n) == /\ ~n.label /\ n.pattern = <<>> /\ n.format = <<>>
                   /\ n.length = 0 \/ n.length \in 8..64
SeriesNaming(n) == /\ ~n.label /\ n.length = 0 /\ n.format = <<>>
                   /\ "other" \notin Range(n.pattern)
                   /\ Cardinality({i \in DOMAIN n.pattern : n.pattern[i] = "counter"}) = 1
FormatNaming(e, n) ==
  /\ ~n.label /\ n.length = 0 /\ n.pattern = <<>> /\ n.format # <<>>
  /\ \A x \in Range(n.format) :
       x \in NamesOf(e) /\ FieldOf(e, x).required /\ FieldOf(e, x).type \in NameRenderable

NamingValid(e) ==
  /\ e.kind = "normal" <=> e.naming # None
  /\ e.naming # None =>
       LET n == e.naming
       IN CASE n.strategy = "manual" -> n.length = 0 /\ n.pattern = <<>> /\ n.format = <<>>
            [] n.strategy = "random" -> RandomNaming(n)
            [] n.strategy = "series" -> SeriesNaming(n)
            [] n.strategy = "format" -> FormatNaming(e, n)
            [] OTHER -> FALSE

\* The one record of a single Entity is created from the defaults.
SingleDefault(f) ==
  f.required /\ f.type \in StoredTypes => f.default \notin {None, "null", "list"}

TreeValid(e) ==
  e.tree # None =>
    /\ e.kind = "normal" /\ e.tree.parent \in NamesOf(e)
    /\ LET f == FieldOf(e, e.tree.parent)
       IN /\ f.type = "link" /\ ~f.required /\ ~f.unique /\ f.default = None
          /\ f.fetch = <<>> /\ f.options.foreignKey # "no"
          /\ f.index \/ \E x \in Range(e.indexes) : x.fields # <<>> /\ x.fields[1] = f.name
    /\ e.tree.label # None =>
         e.tree.label \in NamesOf(e) /\ FieldOf(e, e.tree.label).type = "text"

PrivateValid(e) ==
  e.private => e.owner \in NamesOf(e) /\ FieldOf(e, e.owner).type = "link"

EntityValid(e) ==
  /\ e.fields # <<>>
  /\ IsInjective([i \in DOMAIN e.fields |-> e.fields[i].name])
  /\ \A f \in Range(e.fields) :
       /\ FieldValid(f)
       /\ e.kind = "collection" => f.type # "collection" /\ f.name \notin RowFields
       /\ e.kind = "single" => SingleDefault(f)
  /\ PrivateValid(e) /\ IndexesValid(e) /\ TreeValid(e)
  /\ ConstraintsValid(e) /\ NamingValid(e)

-----------------------------------------------------------------------------
(* The checks across the Entities of a project.                            *)

\* An Entity is named with its App, or is the owner's own, or the only one of
\* that name.
Candidates(es, e, o) ==
  LET named == {x \in es : x.name = o.entity}
      own == {x \in named : x.app = e.app}
  IN IF o.app # None THEN {x \in named : x.app = o.app}
     ELSE IF own # {} THEN own ELSE named
Resolves(es, e, o) == Cardinality(Candidates(es, e, o)) = 1
Resolve(es, e, o) == CHOOSE x \in Candidates(es, e, o) : TRUE

\* The field name stands for the record's name, a text.
TypeOfPath(e, n) == IF n = "name" THEN "text" ELSE FieldOf(e, n).type

LinkOptionsValid(e, f, target) ==
  /\ e.tree # None /\ e.tree.parent = f.name => target = e
  /\ f.options.display # None =>
       /\ f.options.display \in NamesOf(target) \cup {"name"}
       /\ TypeOfPath(target, f.options.display) \in StoredTypes \ WriteOnly
  /\ \A x \in f.options.filters :
       /\ x.field \in NamesOf(target) \cup {"name"}
       /\ x.from # None => /\ x.from \in NamesOf(e)
                           /\ FieldOf(e, x.from).type = TypeOfPath(target, x.field)
       /\ x.operator = "eq"

TargetValid(es, e, f) ==
  f.type \in {"link", "collection"} =>
    /\ Resolves(es, e, f.options)
    /\ LET target == Resolve(es, e, f.options)
       IN /\ target.kind = IF f.type = "collection" THEN "collection" ELSE "normal"
          /\ f.type = "link" => LinkOptionsValid(e, f, target)

\* Where the first n segments of a fetch path lead: an Entity, or None.
Walk(es, e, path) ==
  FoldLeft(LAMBDA x, n :
    IF x = None \/ n \notin NamesOf(x) THEN None
    ELSE LET f == FieldOf(x, n)
         IN IF f.type = "link" /\ Resolves(es, x, f.options) THEN Resolve(es, x, f.options)
            ELSE None, e, path)

FetchResolves(es, e, f) ==
  f.fetch # <<>> =>
    LET from == Walk(es, e, Front(f.fetch))
        last == Last(f.fetch)
    IN /\ f.type \in StoredTypes \ WriteOnly
       /\ from # None /\ last \in NamesOf(from) \cup {"name"}
       /\ TypeOfPath(from, last) = f.type
       /\ f.type = "link" => /\ Resolves(es, e, f.options)
                             /\ Resolves(es, from, FieldOf(from, last).options)
                             /\ Resolve(es, from, FieldOf(from, last).options)
                                  = Resolve(es, e, f.options)

RouteSlug(e) == IF e.slug # None THEN e.slug ELSE e.name

CatalogValid(es) ==
  /\ \A e \in es : EntityValid(e)
  /\ \A e, x \in es :
       /\ e.app = x.app /\ e.name = x.name => e = x
       /\ e.kind # "collection" /\ x.kind # "collection" /\ RouteSlug(e) = RouteSlug(x) => e = x
  /\ \A e \in es : /\ e.kind = "collection" => e.slug = None
                   /\ e.kind # "collection" => RouteSlug(e) \notin ReservedSlugs
                   /\ \A f \in Range(e.fields) : TargetValid(es, e, f) /\ FetchResolves(es, e, f)

-----------------------------------------------------------------------------
(* The schema that metadata asks for.                                      *)

SystemColumn(c) == [type |-> CASE c = "name" -> "text"
                               [] c \in {"created_at", "updated_at"} -> "timestamptz"
                               [] OTHER -> "bigint",
                    required |-> c # Owner, default |-> None]
OwnColumns(e) == IF e.kind = "collection" THEN SystemColumns ELSE SystemColumns \ RowColumns

TableFor(e) == TableOf[e.app, e.name]
ColumnFor(f) == ColumnOf[f.name, Suffix(f.type)]
StoredFields(e) == {f \in Range(e.fields) : f.type \in StoredTypes}
DefaultFor(f) == IF f.default \in Defaults THEN f.default ELSE None
FieldColumn(f) == [type |-> SqlType(f.type), required |-> f.required /\ f.type # "secret",
                   default |-> DefaultFor(f)]

Over(columns, shape) == [cols |-> columns, shape |-> shape, single |-> FALSE]
ColumnsFor(e, names) == {ColumnFor(FieldOf(e, n)) : n \in Range(names)}

\* An object, its name in the database, and the metadata it comes from.
Named(name, object, from) == [name |-> name, object |-> object, from |-> from]

\* Every Entity has unique names; the one of a single Entity is fixed.
NameObjects(e) ==
  {Named(<<TableFor(e), <<"name">>, "key">>, Over({"name"}, "unique"), None)} \cup
  IF e.kind = "single"
  THEN {Named(<<TableFor(e), <<"single">>, "check">>,
              [Over({"name"}, "check") EXCEPT !.single = TRUE], None)} ELSE {}

RowObjects(e) ==
  IF e.kind # "collection" THEN {}
  ELSE {Named(<<TableFor(e), <<c>>, "fkey">>, Over({c}, "foreign-key"), None) :
          c \in RowColumns \cap {"parent_entity_id", "parent_field_id"}} \cup
       {Named(<<TableFor(e), <<"parent_ordinal">>, "key">>, Over(RowColumns, "unique"), None),
        Named(<<TableFor(e), <<"parent_lookup">>, "idx">>, Over(RowColumns \ {"ordinal"}, "index"), None)}

FieldObjects(e) ==
  LET on(chosen, suffix, shape) ==
        {Named(<<TableFor(e), <<ColumnFor(f)>>, suffix>>, Over({ColumnFor(f)}, shape), f) : f \in chosen}
      fields == StoredFields(e)
  IN on({f \in fields : f.unique}, "key", "unique")
     \cup on({f \in fields : f.index}, "idx", "index")
     \cup on({f \in fields : f.type = "link" /\ f.options.foreignKey # "no"}, "fkey", "foreign-key")
     \cup on({f \in fields : f.type = "select"}, "check", "check")
     \cup {Named(<<TableFor(e), <<ColumnFor(f)>>, f.check.operator, "check">>,
                 Over({ColumnFor(f)}, "check"), f) : f \in {x \in fields : x.check # None}}

\* A default name is stored as that of a table of the Core App, and of columns
\* without their suffixes, would be.
StoredName(n) ==
  IF Len(n) = 1 THEN n
  ELSE [n EXCEPT ![1] = TableOf[Core, n[1]], ![2] = [i \in DOMAIN n[2] |-> ColumnOf[n[2][i], ""]]]

EntityObjects(e) ==
  {Named(StoredName(EffectiveIndexName(e, x)), Over(ColumnsFor(e, x.fields), "index"), x) :
     x \in Range(e.indexes)}
  \cup {Named(StoredName(EffectiveConstraintName(e, x)),
              Over(ColumnsFor(e, IF x.type = "check" THEN <<x.field>> ELSE x.fields),
                   IF x.type = "unique" THEN "unique" ELSE "check"), x) :
          x \in Range(e.constraints)}

ObjectsFor(e) == NameObjects(e) \cup RowObjects(e) \cup FieldObjects(e) \cup EntityObjects(e)

\* Metadata that passes every check and has no schema: two Entities with one
\* table, a default that is no scalar, two indexes or two constraints of one
\* name.
SchemaErrors(es) ==
  \/ \E e, x \in es : e # x /\ TableFor(e) = TableFor(x)
  \/ \E e \in es :
       \/ \E f \in StoredFields(e) : f.default = "list"
       \/ \E o, p \in ObjectsFor(e) :
            /\ o # p /\ o.name = p.name
            /\ (o.object.shape = "index") = (p.object.shape = "index")

\* What nobody but PostgreSQL notices: a column that two fields share or that
\* dygo has itself, and an index with the name of a constraint.
Clashes(e) ==
  \/ \E f \in StoredFields(e) : ColumnFor(f) \in OwnColumns(e)
                                  \/ \E g \in StoredFields(e) : f # g /\ ColumnFor(f) = ColumnFor(g)
  \/ \E o, p \in ObjectsFor(e) : o # p /\ o.name = p.name

\* The names the schema has room for; bound: no field has a column that is
\* called like one of the rows of a collection.
Nameable(e) ==
  /\ TableFor(e) \in Tables
  /\ \A f \in StoredFields(e) : ColumnFor(f) \in Columns \ RowColumns
  /\ \A x \in ObjectsFor(e) : x.name \in Objects

Migratable(es) ==
  /\ CatalogValid(es) /\ ~SchemaErrors(es)
  /\ \A e \in es : ~Clashes(e) /\ Nameable(e)

EntityAt(es, t) == CHOOSE e \in es : TableFor(e) = t

ColumnsOf(e) ==
  [c \in Columns |->
    IF c \in OwnColumns(e) THEN SystemColumn(c)
    ELSE IF \E f \in StoredFields(e) : ColumnFor(f) = c
      THEN FieldColumn(CHOOSE f \in StoredFields(e) : ColumnFor(f) = c)
    ELSE None]

ObjectsOf(e) ==
  [n \in Objects |->
    IF \E x \in ObjectsFor(e) : x.name = n
      THEN (CHOOSE x \in ObjectsFor(e) : x.name = n).object
    ELSE None]

SchemaFor(es) ==
  LET tables == {TableFor(e) : e \in es}
  IN [tables |-> tables,
      cols |-> [t \in Tables |-> IF t \in tables THEN ColumnsOf(EntityAt(es, t))
                                 ELSE [c \in Columns |-> None]],
      objs |-> [t \in Tables |-> IF t \in tables THEN ObjectsOf(EntityAt(es, t))
                                 ELSE [n \in Objects |-> None]]]
=============================================================================
