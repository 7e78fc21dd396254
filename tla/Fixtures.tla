------------------------------ MODULE Fixtures ------------------------------
(***************************************************************************)
(* Fixtures (internal/fixtures): the files of seed Records that Apps ship. *)
(* Which files a project may have, the order they are applied in, what     *)
(* applying them makes of the Records, and what an export of Records       *)
(* writes.  Records are a set; each has a value for every stored field of  *)
(* its Entity and a name, a tuple.  A link holds the name of its target.   *)
(***************************************************************************)
EXTENDS EntityMeta

CONSTANT Denied  \* identities of Entities that belong in access files

-----------------------------------------------------------------------------
(* Files.  A value is null, a scalar, or a reference: the unique fields    *)
(* that pick a record out.  References inside references are left out.     *)

Null == [form |-> "null", value |-> None, match |-> <<>>]
Scalar(v) == [form |-> "scalar", value |-> v, match |-> <<>>]
Reference(match) == [form |-> "match", value |-> None, match |-> match]

Identity(e) == <<e.app, e.name>>
EntityOf(es, file) == CHOOSE e \in es : Identity(e) = file.entity
Addressable(e) == {"name"} \cup {f.name : f \in StoredFields(e)}
IsLink(e, n) == TypeOfPath(e, n) = "link"
Target(es, e, n) == Resolve(es, e, FieldOf(e, n).options)

\* What is unique in the records of an Entity.
UniqueGroups(e) ==
  {{"name"}} \cup {{f.name} : f \in {x \in StoredFields(e) : x.unique}}
  \cup {Range(x.fields) : x \in {c \in Range(e.constraints) : c.type = "unique"}}

MatchValid(e, names) == names \subseteq Addressable(e) /\ names \in UniqueGroups(e)

ReferenceValid(es, e, n, v) ==
  /\ v.form = "match" /\ Resolves(es, e, FieldOf(e, n).options)
  /\ LET target == Target(es, e, n)
     IN /\ target.kind # "collection" /\ MatchValid(target, DOMAIN v.match)
        /\ \A m \in DOMAIN v.match : /\ v.match[m].form = "scalar"
                                     /\ TypeOfPath(target, m) \notin {"secret", "link"}

RecordValid(es, e, match, r) ==
  /\ Range(match) \subseteq DOMAIN r /\ \A m \in Range(match) : r[m].form # "null"
  /\ \A n \in DOMAIN r : /\ n \in Addressable(e) /\ TypeOfPath(e, n) # "secret"
                         /\ IsLink(e, n) => ReferenceValid(es, e, n, r[n])

DependsOn(es, files, i, j) ==
  LET e == EntityOf(es, files[i])
  IN /\ i # j
     /\ \E r \in Range(files[i].records) : \E n \in DOMAIN r :
          IsLink(e, n) /\ Identity(Target(es, e, n)) = files[j].entity

\* Passes over the files, each taking those whose targets have been taken.
Ordered(es, files) ==
  LET ids == [i \in DOMAIN files |-> i]
      taken(order, j) == j \in Range(order)
      pass(order) ==
        FoldLeft(LAMBDA o, i :
          IF taken(o, i) \/ \E j \in DOMAIN files : DependsOn(es, files, i, j) /\ ~taken(o, j)
          THEN o ELSE Append(o, i), order, ids)
      order == FoldLeft(LAMBDA o, i : pass(o), <<>>, ids)
  IN IF Len(order) = Len(files) THEN [i \in DOMAIN files |-> files[order[i]]] ELSE None

FileValid(es, file) ==
  /\ file.entity \notin Denied
  /\ \E e \in es : Identity(e) = file.entity
  /\ LET e == EntityOf(es, file)
     IN /\ e.kind # "collection"
        /\ IsInjective(file.match) /\ MatchValid(e, Range(file.match))
        /\ \A r \in Range(file.records) : RecordValid(es, e, file.match, r)

FilesValid(es, files) ==
  /\ \A i \in DOMAIN files : FileValid(es, files[i])
  /\ IsInjective([i \in DOMAIN files |-> files[i].entity])
  /\ Ordered(es, files) # None

-----------------------------------------------------------------------------
(* The Records as the fixtures find them, create them and update them.     *)

Find(rs, e, match) ==
  {r \in rs : r.entity = Identity(e) /\ \A n \in DOMAIN match : r.values[n] = match[n]}

\* The values a file's value may stand for: none when its target is missing.
Resolved(rs, es, e, n, v) ==
  IF ~IsLink(e, n) THEN {v.value}
  ELSE {r.values["name"] :
          r \in Find(rs, Target(es, e, n), [m \in DOMAIN v.match |-> v.match[m].value])}

RequiredGiven(e, input) ==
  \A f \in StoredFields(e) : f.required =>
    IF f.name \in DOMAIN input THEN input[f.name] # None ELSE f.default # None

\* Two records agree on something unique; nulls do not agree.
Conflict(rs, e, r) ==
  \E x \in Find(rs, e, <<>>) : x # r /\
    \E u \in UniqueGroups(e) : \A n \in u : r.values[n] # None /\ x.values[n] = r.values[n]

\* A name is written only by the clients of an Entity with manual naming.
NameFor(rs, e, input) ==
  CASE e.naming.strategy = "manual" -> input["name"]
    [] e.naming.strategy = "format" ->
         [i \in DOMAIN e.naming.format |-> input[e.naming.format[i]]]
    [] OTHER -> <<"generated", Cardinality(rs)>>

CreatedRecord(rs, e, input) ==
  LET value(n) == IF n = "name" THEN NameFor(rs, e, input)
                  ELSE IF n \in DOMAIN input THEN input[n] ELSE DefaultFor(FieldOf(e, n))
      record == [entity |-> Identity(e), values |-> [n \in Addressable(e) |-> value(n)]]
  IN IF /\ e.kind = "normal" /\ RequiredGiven(e, input)
        /\ ("name" \in DOMAIN input) = (e.naming.strategy = "manual")
        /\ e.naming.strategy = "format" => Range(e.naming.format) \subseteq DOMAIN input
        /\ ~Conflict(rs, e, record)
     THEN rs \cup {record} ELSE None

\* The name of a record is not updated.
UpdatedRecord(rs, e, r, input) ==
  LET record == [r EXCEPT !.values = [n \in DOMAIN @ |->
                   IF n \in DOMAIN input \ {"name"} THEN input[n] ELSE @[n]]]
  IN IF /\ \A n \in DOMAIN input \ {"name"} : FieldOf(e, n).required => input[n] # None
        /\ ~Conflict(rs \ {r}, e, record)
     THEN (rs \ {r}) \cup {record} ELSE None

\* One record of a file, with what has been counted so far.
Upserted(es, e, match, at, values) ==
  LET found(n) == Resolved(at.rows, es, e, n, values[n])
      input == [n \in DOMAIN values |-> CHOOSE v \in found(n) : TRUE]
      old == Find(at.rows, e, [m \in Range(match) |-> input[m]])
      rows == IF old = {} THEN CreatedRecord(at.rows, e, input)
              ELSE IF DOMAIN input = {"name"} THEN at.rows
              ELSE UpdatedRecord(at.rows, e, CHOOSE r \in old : TRUE, input)
  IN IF (\E n \in DOMAIN values : found(n) = {}) \/ rows = None THEN None
     ELSE [rows |-> rows, created |-> at.created + (IF old = {} THEN 1 ELSE 0)]

\* One failure undoes everything: the files share a transaction.
Applied(es, files, rs) ==
  LET file(at, x) == FoldLeft(LAMBDA r, values :
                       IF r = None THEN None
                       ELSE Upserted(es, EntityOf(es, x), x.match, r, values), at, x.records)
      ordered == Ordered(es, files)
  IN IF ordered = None THEN None
     ELSE FoldLeft(file, [rows |-> rs, created |-> 0], ordered)

-----------------------------------------------------------------------------
(* Export                                                                  *)

EntityNamed(es, id) == CHOOSE e \in es : Identity(e) = id
LinksOf(es, r) ==
  LET e == EntityNamed(es, r.entity)
  IN {<<n, Identity(Target(es, e, n)), r.values[n]>> :
        n \in {x \in Addressable(e) : IsLink(e, x) /\ r.values[x] # None}}
LinksTo(es, r, x) == \E l \in LinksOf(es, r) : l[2] = x.entity /\ l[3] = x.values["name"]

\* Every record of the Entity and, when links are included, those they reach.
ExportedRecords(es, rs, e, links) ==
  LET base == Find(rs, e, <<>>)
      closed(S) == \A r \in S, x \in rs : LinksTo(es, r, x) => x \in S
  IN IF links THEN {x \in rs : \A S \in SUBSET rs : base \subseteq S /\ closed(S) => x \in S}
     ELSE base

\* The links of the export that its files leave open.
UnresolvedLinks(es, exported) ==
  {open \in UNION {{r} \X LinksOf(es, r) : r \in exported} :
     \A x \in exported : ~(open[2][2] = x.entity /\ open[2][3] = x.values["name"])}

ExportedValues(e, r) ==
  [n \in {x \in Addressable(e) : /\ TypeOfPath(e, x) \notin WriteOnly
                                 /\ IsLink(e, x) => r.values[x] # None} |->
    IF IsLink(e, n) THEN Reference([m \in {"name"} |-> Scalar(r.values[n])])
    ELSE IF r.values[n] = None THEN Null ELSE Scalar(r.values[n])]

\* A file of an Entity's records, which the code sorts by name.
ExportedFile(e, records) ==
  [entity |-> Identity(e), match |-> <<"name">>,
   records |-> [i \in DOMAIN records |-> ExportedValues(e, records[i])]]
=============================================================================
