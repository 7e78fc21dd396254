------------------------------ MODULE Listing -------------------------------
(***************************************************************************)
(* Queries over Records (internal/recordfilter, internal/recordquery and   *)
(* the reading half of internal/db/records.go and db/query.go): which      *)
(* filters and sorts a list may have, the rows they select, the order and  *)
(* the page of them, and aggregates; and what a write reads through links: *)
(* fetched fields and the filters of links.  A row has an id and the       *)
(* columns of its Entity: integers ordered as their values are, a text     *)
(* being blank when it is 0 and a link being the id of its target.         *)
(***************************************************************************)
EXTENDS Fixtures, Integers

CONSTANT Within  \* <<t, u>>: the text t occurs in the text u

Blank == 0

-----------------------------------------------------------------------------
(* Operators and paths                                                     *)

Textual == {"text", "email", "phone", "long-text", "select", "attachment"}
Numeric == {"int", "bigint", "decimal", "currency"}
Temporal == {"date", "datetime", "time"}

Emptiness == {"empty", "not-empty"}
Comparisons == {"gt", "gte", "lt", "lte", "between"}
Patterns == {"contains", "not-contains"}
OperatorsFor(t) ==
  CASE t \in {"link", "select", "boolean"} -> Emptiness \cup {"eq", "ne"}
    [] t \in Temporal -> Emptiness \cup {"eq", "before", "after", "between"}
    [] t \in Textual \ {"select"} -> Emptiness \cup Patterns \cup {"eq", "ne"}
    [] t \in Numeric -> Emptiness \cup Comparisons \cup {"eq", "ne"}
    [] OTHER -> {}

\* The fields every Record has.
SystemType == [id |-> "bigint", name |-> "text", createdAt |-> "datetime",
               updatedAt |-> "datetime", owner |-> "bigint"]

ListType(e, n) ==
  CASE n \in DOMAIN SystemType -> SystemType[n]
    [] \E f \in StoredFields(e) : f.name = n /\ f.type \notin WriteOnly -> FieldOf(e, n).type
    [] OTHER -> None

\* A path goes through links; at the end of one a link stands for a name.
PathType(es, e, path) ==
  LET x == Walk(es, e, Front(path))
      t == IF x = None THEN None ELSE ListType(x, Last(path))
  IN IF t = "link" /\ Len(path) > 1 THEN "text" ELSE t

Cell(r, n) == IF n = "id" THEN r.id ELSE r.values[n]
RowNamed(rs, e, name) == {x \in rs : x.entity = Identity(e) /\ x.values["name"] = name}
Linked(rs, es, r, n) ==
  LET target == Target(es, EntityNamed(es, r.entity), n)
      at == {x \in rs : x.entity = Identity(target) /\ x.id = r.values[n]}
  IN IF r = None \/ at = {} THEN None ELSE CHOOSE x \in at : TRUE

\* What a reader is shown: the name of a link's target.
Shown(rs, es, r, n) ==
  IF r = None THEN None
  ELSE IF ListType(EntityNamed(es, r.entity), n) # "link" THEN Cell(r, n)
  ELSE LET x == Linked(rs, es, r, n) IN IF x = None THEN None ELSE x.values["name"]

Follow(rs, es, r, path) ==
  Shown(rs, es, FoldLeft(LAMBDA x, n : Linked(rs, es, x, n), r, Front(path)), Last(path))

ValueAt(rs, es, r, path) ==
  IF Len(path) = 1 THEN Cell(r, path[1]) ELSE Follow(rs, es, r, path)

-----------------------------------------------------------------------------
(* Filters.  Nothing compares with null; only emptiness tells of it.       *)

ArityHolds(operator, value) ==
  CASE operator \in Emptiness -> value = <<>>
    [] operator = "between" -> Len(value) = 2
    [] OTHER -> Len(value) = 1

FilterValid(rs, es, e, f) ==
  LET t == PathType(es, e, f.path)
  IN /\ t # None /\ f.operator \in OperatorsFor(t) /\ ArityHolds(f.operator, f.value)
     /\ t = "link" /\ f.value # <<>> =>
          RowNamed(rs, Target(es, e, f.path[1]), f.value[1]) # {}

Compares(operator, v, w) ==
  CASE operator = "eq" -> v = w[1]
    [] operator = "ne" -> v # w[1]
    [] operator \in {"gt", "after"} -> v > w[1]
    [] operator = "gte" -> v >= w[1]
    [] operator \in {"lt", "before"} -> v < w[1]
    [] operator = "lte" -> v <= w[1]
    [] operator = "between" -> w[1] <= v /\ v <= w[2]
    [] operator = "contains" -> <<w[1], v>> \in Within
    [] operator = "not-contains" -> <<w[1], v>> \notin Within

Matches(rs, es, e, r, f) ==
  LET v == ValueAt(rs, es, r, f.path)
      t == PathType(es, e, f.path)
      empty == v = None \/ (t \in Textual /\ v = Blank)
      id(name) == (CHOOSE x \in RowNamed(rs, Target(es, e, f.path[1]), name) : TRUE).id
  IN CASE f.operator = "empty" -> empty
       [] f.operator = "not-empty" -> ~empty
       [] t = "link" -> v # None /\ Compares(f.operator, v, <<id(f.value[1])>>)
       [] OTHER -> v # None /\ Compares(f.operator, v, f.value)

Selected(rs, es, e, filters) ==
  {r \in rs : r.entity = Identity(e) /\ \A f \in filters : Matches(rs, es, e, r, f)}

-----------------------------------------------------------------------------
(* Order and pages.  PostgreSQL puts null last going up and first going    *)
(* down; rows that agree on every term are told apart by their id.         *)

Up(n) == [field |-> n, desc |-> FALSE]
SortedOn(sort) == {t.field : t \in Range(sort)}
SortValid(e, sort) ==
  /\ IsInjective([i \in DOMAIN sort |-> sort[i].field])
  /\ \A n \in SortedOn(sort) : ListType(e, n) # None

OrderBy(sort) == IF "id" \in SortedOn(sort) THEN sort ELSE Append(sort, Up("id"))
TreeSort(sort) ==
  IF SortedOn(sort) \cap {"id", "name"} # {} THEN sort ELSE Append(sort, Up("name"))

Less(a, b) == a # None /\ (b = None \/ a < b)
Before(t, r, s) ==
  IF t.desc THEN Less(Cell(s, t.field), Cell(r, t.field))
  ELSE Less(Cell(r, t.field), Cell(s, t.field))
Precedes(terms, r, s) ==
  \E i \in DOMAIN terms :
    /\ Before(terms[i], r, s)
    /\ \A j \in 1..(i - 1) : Cell(r, terms[j].field) = Cell(s, terms[j].field)

DefaultLimit == 20
MaxLimit == 2500
Limit(params) == IF params.limit = 0 THEN DefaultLimit ELSE params.limit
BoundsValid(params) == Limit(params) \in 1..MaxLimit /\ params.offset >= 0

ListValid(rs, es, e, params) ==
  /\ e.kind = "normal" /\ BoundsValid(params) /\ SortValid(e, params.sort)
  /\ \A f \in params.filters : FilterValid(rs, es, e, f)

Ranked(rows, sort) == SetToSortSeq(rows, LAMBDA r, s : Precedes(OrderBy(sort), r, s))

\* The total comes with the rows, so a page past the last one has none.
ListRecords(rs, es, e, params) ==
  LET rows == Ranked(Selected(rs, es, e, params.filters), params.sort)
      page == SelectSeq([i \in DOMAIN rows |-> <<i, rows[i]>>],
                LAMBDA x : params.offset < x[1] /\ x[1] <= params.offset + Limit(params))
  IN [records |-> [i \in DOMAIN page |-> page[i][2]],
      total |-> IF page = <<>> THEN 0 ELSE Len(rows)]

-----------------------------------------------------------------------------
(* Aggregates of the rows that a list would select; nulls count for        *)
(* nothing, but the rows do.                                               *)

AggregateValid(es, e, a) ==
  LET t == PathType(es, e, a.path)
  IN IF a.path = <<>> THEN a.function = "count"
     ELSE /\ t # None
          /\ a.function = "sum" => t \in Numeric \cup {"link"}
          /\ a.function \in {"min", "max"} => t \in Textual \cup Numeric \cup Temporal

Aggregate(rs, es, rows, a) ==
  LET given == {r \in rows : a.path = <<>> \/ ValueAt(rs, es, r, a.path) # None}
      value(r) == ValueAt(rs, es, r, a.path)
      best(x) == \A r \in given : IF a.function = "min" THEN x <= value(r) ELSE x >= value(r)
  IN CASE a.function = "count" -> Cardinality(given)
       [] given = {} -> None
       [] a.function = "sum" -> FoldSet(LAMBDA r, s : s + value(r), 0, given)
       [] OTHER -> CHOOSE x \in {value(r) : r \in given} : best(x)

GroupOf(rs, es, r, paths) == [i \in DOMAIN paths |-> ValueAt(rs, es, r, paths[i])]
Groups(rs, es, rows, paths, a) ==
  {[group |-> g, aggregate |-> Aggregate(rs, es, {r \in rows : GroupOf(rs, es, r, paths) = g}, a)] :
     g \in {GroupOf(rs, es, r, paths) : r \in rows}}

-----------------------------------------------------------------------------
(* What a write reads through links.  The base is the row it updates.      *)

Given(rs, es, base, input, n) ==
  IF n \in DOMAIN input THEN input[n] ELSE IF base = None THEN None ELSE Shown(rs, es, base, n)

\* The value to write: none when the target of the first link is not there.
Fetch(rs, es, e, base, input, path) ==
  LET name == Given(rs, es, base, input, path[1])
      at == RowNamed(rs, Target(es, e, path[1]), name)
  IN IF name = None THEN {None} ELSE {Follow(rs, es, x, Tail(path)) : x \in at}

Fetched(rs, es, e, base, input) ==
  FoldLeft(LAMBDA in, f :
    IF in = None \/ f.fetch = <<>> \/ f.type \notin StoredTypes \ WriteOnly THEN in
    ELSE LET values == Fetch(rs, es, e, base, in, f.fetch)
         IN IF values = {} THEN None ELSE (f.name :> CHOOSE v \in values : TRUE) @@ in,
    input, e.fields)

\* A filter of a link takes its value from another field of the write.  One
\* with no value is left out; but a null of the base is a text, "<nil>".
Nil == -1
FilterValue(rs, es, base, input, f) ==
  LET stored == IF base = None THEN None ELSE Shown(rs, es, base, f.from)
  IN CASE f.from = None -> f.value
       [] f.from \in DOMAIN input -> input[f.from]
       [] base # None -> IF stored = None THEN Nil ELSE stored
       [] OTHER -> None

LinkHolds(rs, es, e, base, input, n, filters) ==
  LET name == Given(rs, es, base, input, n)
      target == Target(es, e, n)
      value(f) == FilterValue(rs, es, base, input, f)
      applied == {[path |-> f.path, operator |-> f.operator,
                   value |-> IF value(f) = None THEN <<>> ELSE <<value(f)>>] :
                    f \in {x \in filters : value(x) # None \/ x.operator \in Emptiness}}
  IN name # None =>
       /\ \A f \in applied : FilterValid(rs, es, target, f)
       /\ RowNamed(rs, target, name) \cap Selected(rs, es, target, applied) # {}
=============================================================================
