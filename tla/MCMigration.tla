---------------------------- MODULE MCMigration -----------------------------
(* Two operators and four revisions of one project: v1; v2, with a renamed   *)
(* field, an index, a required field, a second App with a collection Entity  *)
(* and the patches for it; v3, which drops that field by SQL and has a       *)
(* single Entity; and v4, with an edited patch and without the second App,   *)
(* that Entity and the field.                                                *)
EXTENDS Migration, Listing, AppCatalog, TLC

CONSTANTS o1, o2, r1, r2

MCTables == {"task", "note", "shop_note"}
MCFieldNames == {"name", "owner-id", "a", "b", "c", "notes"}
MCColumns == {"name", "owner_id", "ordinal", "a", "b", "c"}
MCObjects == {<<t, <<"name">>, "key">> : t \in MCTables} \cup
             {<<"shop_note", <<"parent_ordinal">>, "key">>, <<"shop_note", <<"parent_lookup">>, "idx">>,
              <<"note", <<"single">>, "check">>, <<"task", <<"b">>, "idx">>}
MCTableOf == [x \in {"core", "shop"} \X {"task", "note"} |->
                IF x[1] = "core" THEN x[2] ELSE "shop_" \o x[2]]
MCColumnOf == [x \in MCFieldNames \X {"", "_id", "_hash", "_encrypted"} |->
                 IF x[1] = "owner-id" THEN "owner_id" \o x[2] ELSE x[1] \o x[2]]
MCPatches == {"rename", "fill", "seed", "drop"}

text(n) == [name |-> n, type |-> "text", required |-> FALSE, unique |-> FALSE, index |-> FALSE,
            default |-> None, check |-> None, fetch |-> <<>>, options |-> NoOptions]
count == [text("c") EXCEPT !.type = "int", !.required = TRUE, !.default = "zero"]
notes == [text("notes") EXCEPT !.type = "collection", !.options.app = "shop",
                               !.options.entity = "note"]

MCDenied == {<<"core", "note">>}

random == [strategy |-> "random", label |-> FALSE, length |-> 0, pattern |-> <<>>, format |-> <<>>]
manual == [random EXCEPT !.strategy = "manual"]
Task(fields, indexes) ==
  [app |-> "core", name |-> "task", kind |-> "normal", slug |-> None, owner |-> None,
   private |-> FALSE, fields |-> fields, indexes |-> indexes, constraints |-> <<>>,
   naming |-> manual, tree |-> None]
note == [Task(<<text("a")>>, <<>>) EXCEPT !.app = "shop", !.name = "note",
                                          !.kind = "collection", !.naming = None]
settings == [Task(<<[text("c") EXCEPT !.default = "zero"]>>, <<>>) EXCEPT
              !.name = "note", !.kind = "single", !.naming = None]
byb == [name |-> None, fields |-> <<"b">>]

Op(kind, sql, from, to) == [kind |-> kind, sql |-> sql, table |-> "task", from |-> from, to |-> to]
File(id, app, phase, runOn, sum, op) ==
  [id |-> id, app |-> app, phase |-> phase, runOn |-> runOn, sum |-> sum, ops |-> <<op>>]

rename == File("rename", "core", "pre-sync", "migrate", "s1", Op("rename-field", FALSE, "a", "b"))
fill == File("fill", "core", "post-sync", "both", "s1", Op("data", FALSE, "b", "b"))
edited == File("fill", "core", "post-sync", "both", "s2", Op("data", FALSE, "b", "b"))
seed == File("seed", "shop", "post-sync", "install", "s1", Op("data", FALSE, "b", "b"))
drop == File("drop", "core", "pre-sync", "migrate", "s1", Op("drop-field", TRUE, "c", None))

tasks == [app |-> "shop", entity |-> <<"core", "task">>, match |-> <<"name">>,
          records |-> <<[name |-> Scalar(<<"t1">>), b |-> Scalar("x")]>>]

Revision(core, shop, entities, patches, fixtures) ==
  [version |-> [x \in Apps |-> IF x = "core" THEN core ELSE shop],
   needs |-> [x \in Apps |-> IF x = "shop" THEN {"core"} ELSE {}],
   entities |-> entities, patches |-> patches, fixtures |-> fixtures]

MCSource ==
  [v1 |-> Revision(1, None, {Task(<<text("a")>>, <<>>)}, <<>>, <<>>),
   v2 |-> Revision(2, 1, {Task(<<text("b"), count, notes>>, <<byb>>), note},
               <<fill, rename, seed>>, <<tasks>>),
   v3 |-> Revision(2, 1, {Task(<<text("b"), notes>>, <<byb>>), note, settings}, <<drop, fill, rename>>, <<>>),
   v4 |-> Revision(2, None, {Task(<<text("b")>>, <<byb>>)}, <<edited, rename>>, <<>>)]

\* What the checks of metadata refuse, each Entity for one reason.
link == [text("b") EXCEPT !.type = "link", !.options.entity = "task"]
parents == [parent |-> "b", label |-> "a"]
Refused ==
  {Task(<<>>, <<>>), Task(<<text("name")>>, <<>>), Task(<<text("a"), text("a")>>, <<>>),
   Task(<<text("a")>>, <<byb>>), Task(<<text("b")>>, <<byb, byb>>),
   Task(<<[text("b") EXCEPT !.type = "json"]>>, <<byb>>),
   Task(<<[text("a") EXCEPT !.type = "select"]>>, <<>>),
   Task(<<[text("a") EXCEPT !.check = [operator |-> "in", value |-> "scalar"]]>>, <<>>),
   Task(<<link, [text("a") EXCEPT !.fetch = <<"b", "c">>]>>, <<>>),
   Task(<<[link EXCEPT !.options.entity = "note"]>>, <<>>),
   Task(<<[notes EXCEPT !.options.app = "core", !.options.entity = "task"]>>, <<>>),
   [Task(<<text("a")>>, <<>>) EXCEPT !.naming = None],
   [Task(<<text("a")>>, <<>>) EXCEPT !.naming = [random EXCEPT !.length = 7]],
   [Task(<<text("a")>>, <<>>) EXCEPT !.naming = [manual EXCEPT !.strategy = "format", !.format = <<"a">>]],
   [Task(<<count>>, <<>>) EXCEPT !.kind = "single"],
   [Task(<<text("a")>>, <<>>) EXCEPT !.private = TRUE, !.owner = "a"],
   [Task(<<text("a"), link>>, <<>>) EXCEPT !.tree = parents],
   [Task(<<text("a")>>, <<>>) EXCEPT !.slug = "login"],
   [Task(<<text("a")>>, <<>>) EXCEPT !.constraints =
      <<[name |-> None, type |-> "unique", fields |-> <<"a">>, field |-> None, rule |-> None]>>]}

\* What they accept: a tree, and a fetch through a link.
Accepted ==
  {[Task(<<text("a"), link>>, <<byb>>) EXCEPT !.tree = parents],
   Task(<<text("a"), link, [text("c") EXCEPT !.fetch = <<"b", "a">>]>>, <<>>),
   [Task(<<[count EXCEPT !.default = "zero"]>>, <<>>) EXCEPT !.kind = "single", !.naming = None]}

\* An index declared twice is found when the schema is planned; a column that
\* dygo has itself is found by nobody before PostgreSQL.
Twice == Task(<<[text("b") EXCEPT !.index = TRUE]>>, <<byb>>)
Owned == Task(<<text("owner-id")>>, <<>>)

ASSUME MetadataChecks ==
  /\ \A e \in Refused : ~CatalogValid({e})
  /\ \A e \in Accepted : CatalogValid({e}) /\ ~SchemaErrors({e}) /\ ~Clashes(e)
  /\ CatalogValid({Twice}) /\ SchemaErrors({Twice})
  /\ CatalogValid({Owned}) /\ ~SchemaErrors({Owned}) /\ Clashes(Owned)

\* Fixtures of three Entities: tasks link to the notes of the other App by a
\* unique field, those to its tasks by name; names are given or made.
linkTo(n, app, entity) ==
  [text(n) EXCEPT !.type = "link", !.options.app = app, !.options.entity = entity]
unique(n) == [text(n) EXCEPT !.unique = TRUE]
A(naming) == [Task(<<unique("a"), linkTo("b", "shop", "note")>>, <<>>) EXCEPT !.naming = naming]
B == [Task(<<unique("a"), linkTo("b", "shop", "task"), [text("c") EXCEPT !.required = TRUE]>>, <<>>)
        EXCEPT !.app = "shop", !.name = "note"]
C(target) == [Task(<<unique("a"), linkTo("b", target.app, target.name)>>, <<>>) EXCEPT !.app = "shop"]
formatted == [manual EXCEPT !.strategy = "format", !.format = <<"a">>]

FixtureOf(e, match, records) == [entity |-> Identity(e), match |-> match, records |-> records]
fixA == FixtureOf(A(formatted), <<"a">>,
  <<[a |-> Scalar("x"), b |-> Reference([a |-> Scalar("p")])], [a |-> Scalar("y")]>>)
fixB == FixtureOf(B, <<"name">>,
  <<[name |-> Scalar(<<"b1">>), a |-> Scalar("p"), c |-> Scalar("1"),
     b |-> Reference([name |-> Scalar(<<"c1">>)])],
    [name |-> Scalar(<<"b2">>), c |-> Scalar("2")], [name |-> Scalar(<<"b2">>), c |-> Scalar("3")]>>)
fixC == FixtureOf(C(B), <<"name">>, <<[name |-> Scalar(<<"c1">>), a |-> Scalar("z")]>>)
fixTwo == FixtureOf(C(B), <<"a">>, <<[name |-> Scalar(<<"c1">>), a |-> Scalar("z")],
                                    [name |-> Scalar(<<"c2">>), a |-> Scalar("w")]>>)
cyclic == [fixC EXCEPT !.records[1] = [name |-> Scalar(<<"c1">>), b |-> Reference([a |-> Scalar("p")])]]

Chain == {A(formatted), B, C(B)}
After(es, files) == Applied(es, files, {})
RowsOf(es, files) == After(es, files).rows

\* Files are applied in an order in which targets come first, when there is
\* one; what they leave does not depend on how they were found, and applying
\* them again creates and changes nothing.
ASSUME FixturesAreIdempotent ==
  /\ \A three \in {{fixA, fixB, fixC}, {fixA, fixB, fixTwo}} : \A files \in SetToSeqs(three) :
       /\ FilesValid(Chain, files) /\ After(Chain, files) # None
       /\ \A i, j \in 1..3 : LET order == Ordered(Chain, files)
                            IN DependsOn(Chain, order, i, j) => j < i
       /\ RowsOf(Chain, files) = RowsOf(Chain, SetToSeq(three))
       /\ Applied(Chain, files, RowsOf(Chain, files)) = [rows |-> RowsOf(Chain, files), created |-> 0]
  /\ Applied(Chain, <<fixA>>, {}) = None /\ After(Chain, <<fixC, fixB, fixA>>).created = 5
  /\ \A files \in SetToSeqs({fixB, cyclic}) : Ordered(Chain, files) = None
  /\ ~FilesValid(Chain, <<[fixA EXCEPT !.match = <<"b">>]>>)
  /\ ~FilesValid(Chain, <<fixA, fixA>>)
  /\ ~FilesValid({note}, <<FixtureOf(note, <<"name">>, <<[name |-> Scalar(<<"n">>)]>>)>>)
  /\ ~FilesValid({settings}, <<FixtureOf(settings, <<"name">>, <<[name |-> Scalar(<<"n">>)]>>)>>)

\* An export of an Entity with its links, applied to an empty database, gives
\* back the records that it exported when all their names are manual; a name
\* made by a format is one that the export writes and a create refuses.
Exported(es, rs, e) == ExportedRecords(es, rs, e, TRUE)
ExportFiles(es, records) ==
  LET exported == {e \in es : Find(records, e, <<>>) # {}}
  IN SetToSeq({ExportedFile(e, SetToSeq(Find(records, e, <<>>))) : e \in exported})
ASSUME ExportsApply ==
  LET given == {A(manual), B, C(B)}
      named == FixtureOf(A(manual), <<"name">>, <<fixA.records[1] @@ [name |-> Scalar(<<"a1">>)]>>)
      rs == RowsOf(given, <<named, fixB, fixTwo>>)
      made == RowsOf(Chain, <<fixA, fixB, fixC>>)
  IN /\ \A e \in given : LET records == Exported(given, rs, e)
                         IN /\ RowsOf(given, ExportFiles(given, records)) = records
                            /\ UnresolvedLinks(given, records) = {}
     /\ Cardinality(Exported(given, rs, A(manual))) = 3
     /\ Cardinality(UnresolvedLinks(given, ExportedRecords(given, rs, B, FALSE))) = 1
     /\ After(Chain, ExportFiles(Chain, Exported(Chain, made, A(formatted)))) = None

\* Rows to list: tasks of the core, linked to tasks of the shop, linked to
\* each other.
MCWithin == {<<1, 1>>, <<2, 2>>, <<1, 2>>}
Listed == {Task(<<text("a"), [text("c") EXCEPT !.type = "int"], linkTo("b", "shop", "task"),
                  [text("notes") EXCEPT !.type = "date"]>>, <<>>),
           [C(A(manual)) EXCEPT !.fields[2].options.app = "shop"]}
CoreTask == CHOOSE e \in Listed : e.app = "core"
ShopTask == CHOOSE e \in Listed : e.app = "shop"
Row(e, id, values) == [entity |-> Identity(e), id |-> id, values |-> values]
TaskRow(id, a, b, c, d) == Row(CoreTask, id, [name |-> id, a |-> a, b |-> b, c |-> c, notes |-> d])
Rows ==
  {TaskRow(1, None, 1, 1, 3), TaskRow(2, 0, 2, 1, 4), TaskRow(3, 1, None, None, None),
   TaskRow(4, 2, 2, 2, 3), TaskRow(5, 2, 1, 1, 3)}
  \cup {Row(ShopTask, 1, [name |-> 1, a |-> 7, b |-> None]), Row(ShopTask, 2, [name |-> 2, a |-> 8, b |-> 1])}
TaskRows == Find(Rows, CoreTask, <<>>)

Terms == {[field |-> n, desc |-> d] : n \in {"a", "b", "c", "id"}, d \in BOOLEAN}
Sorts == {s \in {<<>>} \cup {<<t>> : t \in Terms} \cup (Terms \X Terms) : SortValid(CoreTask, s)}
Listing(filters, sort, limit, offset) ==
  ListRecords(Rows, Listed, CoreTask,
              [filters |-> filters, sort |-> sort, limit |-> limit, offset |-> offset])

\* Whatever the sort, the pages of a list hold every row once, in one order,
\* and say how many there are; a page past the end says that there are none.
ASSUME PagesCover ==
  \A sort \in Sorts \cup {TreeSort(s) : s \in Sorts}, limit \in 1..6 :
    LET all == Listing({}, sort, 0, 0).records
        pages == [i \in 1..6 |-> Listing({}, sort, limit, (i - 1) * limit)]
    IN /\ Range(all) = TaskRows /\ Len(all) = 5
       /\ FoldLeft(LAMBDA s, p : s \o p.records, <<>>, pages) = all
       /\ \A i \in 1..6 : pages[i].total = IF pages[i].records = <<>> THEN 0 ELSE 5
       /\ \A i, j \in 1..5 : i < j <=> Precedes(OrderBy(sort), all[i], all[j])
       /\ SortedOn(sort) \cap {"id"} = {} =>
            \A i \in 1..4 : Precedes(sort, all[i], all[i + 1]) \/ all[i].id < all[i + 1].id

\* A filter and its opposite part the rows that have a value; what is empty
\* and what is not part them all; a range is what its two ends allow.
Chosen(path, operator, value) ==
  LET f == [path |-> path, operator |-> operator, value |-> value]
  IN IF FilterValid(Rows, Listed, CoreTask, f) THEN Selected(Rows, Listed, CoreTask, {f}) ELSE {None}
Parts(whole, parts) ==
  /\ UNION parts = whole
  /\ \A p, q \in parts : p # q => p \cap q = {}
ASSUME FiltersPart ==
  \A path \in {<<"a">>, <<"b">>, <<"c">>, <<"notes">>, <<"b", "a">>, <<"b", "b">>, <<"b", "b", "a">>} :
    LET t == PathType(Listed, CoreTask, path)
        known == {r \in TaskRows : ValueAt(Rows, Listed, r, path) # None}
        filled == Chosen(path, "not-empty", <<>>)
    IN /\ Parts(TaskRows, {Chosen(path, "empty", <<>>), filled})
       /\ filled \subseteq known /\ (t \notin Textual => filled = known)
       /\ Chosen(path, "eq", <<>>) = {None} /\ Chosen(path, "empty", <<1>>) = {None}
       /\ \A w \in 1..2 :
            LET is(operator) == Chosen(path, operator, <<w>>)
            IN CASE t \in Temporal -> Parts(known, {is("eq"), is("before"), is("after")})
                 [] t \in Numeric -> /\ Parts(known, {is("eq"), is("lt"), is("gt")})
                                     /\ is("lte") = known \ is("gt") /\ is("gte") = known \ is("lt")
                                     /\ Chosen(path, "between", <<1, w>>) = is("lte")
                 [] t \in Textual -> /\ Parts(known, {is("contains"), is("not-contains")})
                                     /\ Parts(known, {is("eq"), is("ne")})
                 [] OTHER -> Parts(known, {is("eq"), is("ne")}) /\ is("gt") = {None}
ASSUME PathsLead ==
  /\ PathType(Listed, CoreTask, <<"b", "b">>) = "text" /\ PathType(Listed, CoreTask, <<"b">>) = "link"
  /\ PathType(Listed, CoreTask, <<"a", "b">>) = None
  /\ Chosen(<<"b", "b", "a">>, "eq", <<7>>) = {r \in TaskRows : r.values["b"] = 2}
  /\ Chosen(<<"b", "b">>, "eq", <<1>>) = Chosen(<<"b", "b", "a">>, "eq", <<7>>)
  /\ Chosen(<<"b">>, "eq", <<3>>) = {None}

\* The groups of a list hold every row once, and their counts and sums add up.
ASSUME GroupsAddUp ==
  \A paths \in {<<<<"a">>>>, <<<<"c">>, <<"b", "a">>>>} :
    LET groups(f, path) == Groups(Rows, Listed, TaskRows, paths, [function |-> f, path |-> path])
        total(gs) == FoldSet(LAMBDA g, s : s + (IF g.aggregate = None THEN 0 ELSE g.aggregate), 0, gs)
        all(f, path) == Aggregate(Rows, Listed, TaskRows, [function |-> f, path |-> path])
    IN /\ total(groups("count", <<>>)) = 5 /\ total(groups("count", <<"c">>)) = all("count", <<"c">>)
       /\ total(groups("sum", <<"c">>)) = all("sum", <<"c">>)
       /\ all("max", <<"c">>) \in {g.aggregate : g \in groups("max", <<"c">>)}

\* A fetched field is what the link of the write leads to, or that of the row
\* it updates.  The filter of a link is left out while the field it depends
\* on has no value in the write; an update that leaves out that field looks
\* at the row, and a null there refuses every link.
Fetching == [CoreTask EXCEPT !.fields[1].fetch = <<"b", "a">>]
Fetches(base, input) == Fetched(Rows, {Fetching, ShopTask}, Fetching, base, input)
FirstRow == CHOOSE r \in TaskRows : r.id = 1
ThirdRow == CHOOSE r \in TaskRows : r.id = 3
LinkAllowed(base, input) ==
  LinkHolds(Rows, Listed, CoreTask, base, input, "b",
            {[path |-> <<"a">>, operator |-> "eq", from |-> "c", value |-> None]})
ASSUME WritesReadLinks ==
  /\ Fetches(None, [b |-> 2]) = [b |-> 2, a |-> 8] /\ Fetches(None, [a |-> 1]) = [a |-> None]
  /\ Fetches(FirstRow, [c |-> 1]) = [c |-> 1, a |-> 7] /\ Fetches(FirstRow, [b |-> 9]) = None
  /\ Fetches(FirstRow, [b |-> None, a |-> 3]) = [b |-> None, a |-> None]
  /\ LinkAllowed(None, [b |-> 1, c |-> 7]) /\ ~LinkAllowed(None, [b |-> 1, c |-> 8])
  /\ LinkAllowed(None, [b |-> 1]) /\ LinkAllowed(ThirdRow, [b |-> 1, c |-> None])
  /\ LinkAllowed(ThirdRow, [a |-> 1]) /\ ~LinkAllowed(ThirdRow, [b |-> 1])

\* The Apps and the files of patches of a revision: the order its patches are
\* in is the one that they are discovered in, whatever order they lie in.
MCNameOrder == <<"core", "drop", "fill", "rename", "seed", "shop">>
AppOf(source, n) == [name |-> n, needs |-> SetToSeq(Source[source].needs[n]), framework |-> n = "core"]
AppsOf(source) == {AppOf(source, n) : n \in {x \in Apps : Source[source].version[x] # None}}
FileOf(p) == [app |-> p.app, file |-> p.id, id |-> p.id, phase |-> p.phase, runOn |-> p.runOn,
              ops |-> [i \in DOMAIN p.ops |-> IF p.ops[i].sql THEN "sql" ELSE
                         IF p.ops[i].kind = "data" THEN "copy-field" ELSE p.ops[i].kind]]
FilesOf(source) == {FileOf(p) : p \in Range(Source[source].patches)}
ASSUME PatchesAreOrdered ==
  \A s \in Sources : \A apps \in SetToSeqs(AppsOf(s)), files \in SetToSeqs(FilesOf(s)) :
    /\ AppsValid(apps)
    /\ DiscoveredPatches(apps, files) = [i \in DOMAIN Source[s].patches |-> FileOf(Source[s].patches[i])]

\* Apps in the order of their needs, for every way that three Apps can need
\* each other: there is one unless they need each other in a circle.
Needs == [{"fill", "seed", "shop"} -> SUBSET {"fill", "seed", "shop"}]
Needy(n) == [x \in DOMAIN n |-> [name |-> x, needs |-> SetToSeq(n[x]), framework |-> FALSE]]
Circular(n) ==
  \E s \in SUBSET DOMAIN n : s # {} /\ \A x \in s : n[x] \cap s # {}
ASSUME NeedsComeFirst ==
  \A n \in Needs : \A apps \in SetToSeqs(Range(Needy(n))) :
    LET order == DependencyOrder(apps)
    IN /\ order = None <=> Circular(n)
       /\ order # None =>
            /\ Range(order) = Range(apps)
            /\ \A i, j \in DOMAIN order :
                 order[j].name \in n[order[i].name] => j < i
            /\ order = DependencyOrder(SetToSeq(Range(apps)))

\* A retry waits between half its initial delay and its longest, longer each
\* time, whatever the attempt and whichever delays a Job sets.
Retries == [attempts : {2}, initial : (1..9) \cup {None}, max : (1..9) \cup {None}]
ASSUME DelaysAreBounded ==
  \A r \in {EffectiveRetry(x) : x \in {y \in Retries : RetryValid(y)}}, attempt \in 1..6 :
    /\ RetryDelay(r, attempt) # {} /\ RetryDelay(r, attempt) \subseteq 1..r.max
    /\ Delay(r, 1) = r.initial /\ Delay(r, attempt) <= Delay(r, attempt + 1)
    /\ Delay(r, attempt) < r.max => Delay(r, attempt) = r.initial * 2^(attempt - 1)

\* Jobs and Schedules that go together, and what each refusal is for.
Nightly == [app |-> "core", name |-> "fill", queue |-> None, cron |-> "valid", timeout |-> 1,
            retry |-> [attempts |-> 2, initial |-> None, max |-> None]]
Weekly == [app |-> "core", name |-> <<"weekly">>, cron |-> "valid", zone |-> "valid",
           job |-> <<"core", "fill">>, enabled |-> FALSE]
QueueConfig == [retention |-> 30, queues |-> <<[name |-> "default", concurrency |-> 4]>>]
ASSUME JobsGoTogether ==
  /\ QueuesValid(QueueConfig) /\ ~QueuesValid([QueueConfig EXCEPT !.queues = <<>>])
  /\ ~QueuesValid([QueueConfig EXCEPT !.queues[1].concurrency = 0])
  /\ JobsValid(<<Nightly>>, QueueConfig) /\ ~JobsValid(<<Nightly, Nightly>>, QueueConfig)
  /\ \A j \in {[Nightly EXCEPT !.queue = "seed"], [Nightly EXCEPT !.timeout = 0],
                [Nightly EXCEPT !.retry.attempts = 1], [Nightly EXCEPT !.retry.max = FirstDelay - 1]} :
       ~JobsValid(<<j>>, QueueConfig)
  /\ MaxAttempts(Nightly) = 2 /\ MaxAttempts([Nightly EXCEPT !.retry = None]) = 1
  /\ SchedulesValid(<<Weekly>>, <<Nightly>>) /\ ~EffectiveEnabled(Weekly)
  /\ AllSchedules(<<Weekly>>, <<Nightly>>) = <<Weekly, Own(Nightly)>>
  /\ ~SchedulesValid(<<Weekly>>, <<>>)
  /\ ~SchedulesValid(<<[Weekly EXCEPT !.name = <<"job-", "fill">>]>>, <<Nightly>>)

MCSymmetry == Permutations({o1, o2}) \cup Permutations({r1, r2})
=============================================================================
