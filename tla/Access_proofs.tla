--------------------------- MODULE Access_proofs ----------------------------
(***************************************************************************)
(* Theorems about Access, for every set of users, roles, policies and      *)
(* requests in flight and any number of changes to what they are allowed.  *)
(***************************************************************************)
EXTENDS Access, FiniteSetTheorems, TLAPS

-----------------------------------------------------------------------------
(* The inductive invariant.                                                *)

\* A scope that a request carries was compiled from grants its actor had at
\* one moment of the request, unless the actor became an administrator since
\* the middleware read it: then any scope is less than what was granted.
Witnessed(q) ==
  \E gs \in req[q].had : gs = {Everything} \/ req[q].scope = Compiled(gs, req[q].op)

RequestOf(q) ==
  Active(q) =>
    /\ Grants(req[q].user) \in req[q].had
    /\ req[q].admin => {Everything} \in req[q].had
    /\ req[q].at \in {"scoped", "loaded", "proposed"} =>
         /\ req[q].scope \in Scope /\ Witnessed(q)
         /\ req[q].input \in Bodies(req[q].op)
    /\ req[q].at = "loaded" => req[q].op \in {"update", "delete"}
    /\ req[q].at = "proposed" =>
         /\ req[q].op = "create"
         /\ \A f \in DOMAIN req[q].input : \E p \in req[q].scope.write[f] :
              AtProposal(p, req[q].then, req[q].user, Proposed(q))

Inv ==
  /\ TypeOK
  /\ req \in [Reqs -> {Idle} \cup Working]
  /\ \A q \in Reqs : RequestOf(q)

-----------------------------------------------------------------------------
(* Grants, scopes and rows.                                                *)

LEMMA Unlike ==
  /\ None \notin Users /\ None \notin Roles /\ None \notin Ids /\ None \notin Rule
  /\ Everything \in Rule /\ Idle \notin Working
  /\ \A r \in Working : r.at # "idle" /\ r # Idle
BY NoneAssumption DEF Everything, Rule, Idle, Working

LEMMA GrantsType ==
  ASSUME TypeOK, NEW u \in Users
  PROVE  Held(u) \in SUBSET Rule /\ Grants(u) \in SUBSET Rule
<1>1. Held(u) \in SUBSET Rule
  BY DEF TypeOK, Held
<1>2. QED
  BY <1>1, Unlike DEF Grants

\* Whether the actor is an administrator or not, what a compilation reads now
\* is granted, or the actor has become an administrator.
LEMMA HeldOrAdmin ==
  ASSUME NEW u \in Users PROVE Grants(u) = Held(u) \/ Grants(u) = {Everything}
BY DEF Grants

LEMMA CompiledType ==
  ASSUME NEW gs \in SUBSET Rule, NEW op \in Ops PROVE Compiled(gs, op) \in Scope
<1>1. \A g \in Rule : Pred(g) \in Predicates
  BY DEF Rule, Pred, Predicates
<1>2. {g \in gs : op \in g.ops} \in SUBSET Rule
  OBVIOUS
<1>3. ASSUME NEW S \in SUBSET Rule PROVE {Pred(g) : g \in S} \in SUBSET Predicates
  BY <1>1
<1>4. Compiled(gs, op).where \in SUBSET Predicates
  BY <1>2, <1>3 DEF Compiled
<1>5. \A f \in Fields :
        /\ {Pred(g) : g \in {h \in {g \in gs : op \in g.ops} : f \notin h.hide}}
             \in SUBSET Predicates
        /\ {Pred(g) : g \in {h \in {g \in gs : op \in g.ops} : f \notin h.hide \cup h.deny}}
             \in SUBSET Predicates
  BY <1>3
<1>6. QED
  BY <1>4, <1>5 DEF Compiled, Scope

\* A predicate of a scope comes from a grant of the set it was compiled from.
LEMMA WhereGrant ==
  ASSUME NEW gs, NEW op, NEW p \in Compiled(gs, op).where
  PROVE  \E g \in gs : op \in g.ops /\ p = Pred(g)
BY DEF Compiled

LEMMA ReadGrant ==
  ASSUME NEW gs, NEW op, NEW f \in Fields, NEW p \in Compiled(gs, op).read[f]
  PROVE  \E g \in gs : op \in g.ops /\ p = Pred(g) /\ f \notin g.hide
BY DEF Compiled

LEMMA WriteGrant ==
  ASSUME NEW gs, NEW op, NEW f \in Fields, NEW p \in Compiled(gs, op).write[f]
  PROVE  \E g \in gs : op \in g.ops /\ p = Pred(g) /\ f \notin g.hide \cup g.deny
BY DEF Compiled

\* A grant holds where its predicate does.
LEMMA PredHolds ==
  ASSUME NEW g, NEW u, NEW r
  PROVE  /\ Holds(Pred(g), u, r) <=> Holds(g, u, r)
         /\ \A m : AtProposal(Pred(g), m, u, r) <=> AtProposal(g, m, u, r)
BY DEF Holds, AtProposal, Pred

LEMMA EverythingHolds ==
  ASSUME NEW u, NEW r
  PROVE  /\ Holds(Everything, u, r) /\ \A m : AtProposal(Everything, m, u, r)
         /\ Everything.ops = Ops /\ Everything.hide = {} /\ Everything.deny = {}
BY DEF Holds, AtProposal, Everything

\* What a body may hold.
LEMMA BodyType ==
  ASSUME NEW op \in Ops, NEW x \in Bodies(op)
  PROVE  /\ x \in Input \cup {NoInput} /\ DOMAIN x \subseteq Fields
         /\ "team" \in DOMAIN x => x["team"] \in Teams
         /\ "note" \in DOMAIN x => x["note"] = "given"
         /\ op = "create" => "team" \in DOMAIN x
         /\ op \in {"create", "update"} => x \in Input
<1>1. x \in Input \cup {NoInput} /\ (op \in {"create", "update"} => x \in Input)
  BY DEF Bodies, Ops
<1>2. op = "create" => "team" \in DOMAIN x
  BY DEF Bodies
<1>3. CASE x \in Input
  BY <1>1, <1>2, <1>3 DEF Input, Fields
<1>4. CASE x = NoInput
  <2>1. DOMAIN x = {}
    BY <1>4 DEF NoInput
  <2>2. QED
    BY <1>1, <1>2, <2>1
<1>5. QED
  BY <1>1, <1>3, <1>4

LEMMA ChangedType ==
  ASSUME NEW op \in {"create", "update"}, NEW x \in Bodies(op),
         NEW r \in [owner : Users, team : Teams \cup {None}, note : Notes],
         op = "update" => r.team \in Teams
  PROVE  Changed(r, x) \in Row
<1>1. /\ "team" \in DOMAIN x => x["team"] \in Teams
      /\ "note" \in DOMAIN x => x["note"] = "given"
      /\ op = "create" => "team" \in DOMAIN x
  BY BodyType DEF Ops
<1>2. (IF "team" \in DOMAIN x THEN x["team"] ELSE r.team) \in Teams
  BY <1>1
<1>3. (IF "note" \in DOMAIN x THEN x["note"] ELSE r.note) \in Notes
  BY <1>1 DEF Notes
<1>4. QED
  BY <1>2, <1>3 DEF Changed, Row

LEMMA WorkingType ==
  ASSUME NEW q \in Reqs, req[q] \in {Idle} \cup Working, Active(q)
  PROVE  /\ req[q] \in Working
         /\ req[q].user \in Users /\ req[q].admin \in BOOLEAN /\ req[q].op \in Ops
         /\ req[q].id \in Ids /\ req[q].had \in SUBSET SUBSET Rule
         /\ req[q].then \in SUBSET (Users \X Teams)
<1>1. req[q] \in Working
  BY DEF Active
<1>2. QED
  BY <1>1 DEF Working

\* A place in the pipeline is that of an active request.
LEMMA AtActive ==
  ASSUME NEW q \in Reqs, req[q].at # "idle" PROVE Active(q)
BY DEF Active, Idle

-----------------------------------------------------------------------------
(* Changes of what actors are allowed.                                     *)

PolicyOK ==
  /\ users \in [Users -> [on : BOOLEAN, admin : BOOLEAN]]
  /\ role \in [Roles -> BOOLEAN \cup {None}]
  /\ held \in [Users -> SUBSET Roles]
  /\ perm \in [Roles -> Rule \cup {None}]
  /\ member \subseteq Users \X Teams
  /\ setup \in Users \cup {None}

LEMMA EffectiveItem ==
  ASSUME NEW items \in SUBSET Items, Resolvable(items), NEW k \in Roles, Group(items, k) # {}
  PROVE  (CHOOSE i \in Effective(Group(items, k)) : TRUE).rule \in Rule
<1>1. Cardinality(Effective(Group(items, k))) = 1
  BY DEF Resolvable
<1>2. Effective(Group(items, k)) # {}
  BY <1>1, FS_EmptySet
<1>3. Effective(Group(items, k)) \subseteq Items
  BY DEF Effective, Group
<1>4. (CHOOSE i \in Effective(Group(items, k)) : TRUE) \in Items
  BY <1>2, <1>3
<1>5. QED
  BY <1>4, ItemsAssumption

LEMMA AppliedType ==
  ASSUME NEW items \in SUBSET Items, Resolvable(items),
         NEW was \in [Roles -> Rule \cup {None}]
  PROVE  Applied(items, was) \in [Roles -> Rule \cup {None}]
BY EffectiveItem DEF Applied

LEMMA RoledType ==
  ASSUME NEW items, NEW was \in [Roles -> BOOLEAN \cup {None}]
  PROVE  Roled(items, was) \in [Roles -> BOOLEAN \cup {None}]
BY DEF Roled

Policy ==
  \/ ApplyPlan \/ Retire \/ SwitchRole \/ Assign \/ Join \/ SwitchUser \/ SetupCheck \/ SetupSave

LEMMA PolicyEffect ==
  ASSUME TypeOK, Policy
  PROVE  PolicyOK' /\ Remember /\ UNCHANGED <<session, row>> /\ changes' \in 0 .. Changes
<1>1. PolicyOK /\ changes \in 0 .. Changes
  BY DEF TypeOK, PolicyOK
<1>2. ASSUME Change PROVE Remember /\ UNCHANGED <<session, row>> /\ changes' \in 0 .. Changes
  BY <1>1, <1>2, ChangesAssumption DEF Change
<1>3. CASE ApplyPlan
  <2>1. PICK files \in Discovered : /\ role' = Roled(files, role) /\ perm' = Applied(files, perm)
                                    /\ UNCHANGED <<users, held, member, setup>> /\ Change
    BY <1>3 DEF ApplyPlan
  <2>2. files \in SUBSET Items /\ Resolvable(files)
    BY DEF Discovered
  <2>3. PolicyOK'
    BY <1>1, <2>1, <2>2, AppliedType, RoledType DEF PolicyOK
  <2>4. QED
    BY <1>2, <2>1, <2>3
<1>4. CASE Retire
  BY <1>1, <1>2, <1>4 DEF Retire, PolicyOK
<1>5. CASE SwitchRole
  BY <1>1, <1>2, <1>5 DEF SwitchRole, PolicyOK
<1>6. CASE Assign
  BY <1>1, <1>2, <1>6 DEF Assign, PolicyOK
<1>7. CASE Join
  BY <1>1, <1>2, <1>7 DEF Join, PolicyOK
<1>8. CASE SwitchUser
  <2>1. PICK u \in Users : /\ users' = [users EXCEPT ![u].on = ~@]
                           /\ UNCHANGED <<role, held, perm, member, setup>> /\ Change
    BY <1>8 DEF SwitchUser
  <2>2. users[u] \in [on : BOOLEAN, admin : BOOLEAN]
    BY <1>1 DEF PolicyOK
  <2>3. PICK on \in BOOLEAN : on = ~users[u].on
    BY <2>2
  <2>4. users' = [users EXCEPT ![u] = [users[u] EXCEPT !.on = on]]
    BY <2>1, <2>3
  <2>5. [users[u] EXCEPT !.on = on] \in [on : BOOLEAN, admin : BOOLEAN]
    BY <2>2
  <2>6. users' \in [Users -> [on : BOOLEAN, admin : BOOLEAN]]
    BY <1>1, <2>4, <2>5 DEF PolicyOK
  <2>7. QED
    BY <1>1, <1>2, <2>1, <2>6 DEF PolicyOK
<1>9. CASE SetupCheck
  BY <1>1, <1>2, <1>9 DEF SetupCheck, policy, PolicyOK
<1>10. CASE SetupSave
  BY <1>1, <1>10 DEF SetupSave, PolicyOK
<1>11. QED
  BY <1>3, <1>4, <1>5, <1>6, <1>7, <1>8, <1>9, <1>10 DEF Policy

\* A request in flight keeps what it knows and remembers what is granted now.
LEMMA Remembered ==
  ASSUME Inv, PolicyOK', Remember
  PROVE  /\ req' \in [Reqs -> {Idle} \cup Working]
         /\ \A q \in Reqs : RequestOf(q)' /\ (Active(q) => Active(q)')
<1>1. ASSUME NEW q \in Reqs, ~Active(q) PROVE req'[q] = Idle
  BY <1>1 DEF Remember, Active
<1>2. ASSUME NEW q \in Reqs, Active(q)
      PROVE  req'[q] \in Working /\ RequestOf(q)' /\ Active(q)'
  <2>1. req[q] \in Working /\ req[q].user \in Users /\ req[q].had \in SUBSET SUBSET Rule
    BY <1>2, WorkingType DEF Inv
  <2>2. PICK u \in Users : u = req[q].user
    BY <2>1
  <2>3. PICK now : now = Grants(u)'
    OBVIOUS
  <2>4. now \in SUBSET Rule
    <3>1. Held(u)' \in SUBSET Rule
      BY DEF PolicyOK, Held
    <3>2. QED
      BY <2>3, <3>1, Unlike DEF Grants
  <2>5. req'[q] = [req[q] EXCEPT !.had = @ \cup {now}]
    BY <1>2, <2>2, <2>3 DEF Remember, Granted
  <2>6. /\ req'[q] \in Working /\ req'[q].had = req[q].had \cup {now}
        /\ req'[q].at = req[q].at /\ req'[q].user = u /\ req'[q].admin = req[q].admin
        /\ req'[q].op = req[q].op /\ req'[q].input = req[q].input
        /\ req'[q].scope = req[q].scope /\ req'[q].then = req[q].then
    BY <2>1, <2>2, <2>4, <2>5 DEF Working
  <2>7. Grants(req[q].user)' = now
    BY <2>3, <2>6 DEF Grants, Held
  <2>8. Active(q)'
    BY <2>6, Unlike DEF Active
  <2>9. RequestOf(q)
    BY DEF Inv
  <2>10. RequestOf(q)'
    <3>1. req[q].at \in {"scoped", "loaded", "proposed"} => Witnessed(q)'
      BY <1>2, <2>6, <2>9 DEF RequestOf, Witnessed
    <3>2. QED
      BY <1>2, <2>2, <2>6, <2>7, <2>9, <3>1 DEF RequestOf, Proposed
  <2>11. QED
    BY <2>6, <2>8, <2>10
<1>3. req' \in [Reqs -> {Idle} \cup Working]
  <2>1. \A q \in Reqs : req'[q] \in {Idle} \cup Working
    BY <1>1, <1>2
  <2>2. QED
    BY <2>1 DEF Remember
<1>4. \A q \in Reqs : req'[q] = Idle => RequestOf(q)'
  BY DEF RequestOf, Active
<1>5. QED
  BY <1>1, <1>2, <1>3, <1>4

-----------------------------------------------------------------------------
(* The steps of a request.                                                 *)

\* They concern no other request.
LEMMA RequestFrame ==
  ASSUME Inv, UNCHANGED policy, NEW q \in Reqs, NEW r \in {Idle} \cup Working, Go(q, r)
  PROVE  /\ req' \in [Reqs -> {Idle} \cup Working] /\ req'[q] = r
         /\ \A v \in Reqs \ {q} : req'[v] = req[v] /\ RequestOf(v)'
<1>1. /\ req' \in [Reqs -> {Idle} \cup Working] /\ req'[q] = r
      /\ \A v \in Reqs \ {q} : req'[v] = req[v]
  BY DEF Inv, Go
<1>2. ASSUME NEW v \in Reqs \ {q} PROVE RequestOf(v)'
  <2>1. RequestOf(v) /\ req'[v] = req[v]
    BY <1>1 DEF Inv
  <2>2. Grants(req[v].user)' = Grants(req[v].user)
    BY <2>1 DEF Grants, Held, policy
  <2>3. QED
    BY <2>1, <2>2 DEF RequestOf, Active, Witnessed, Proposed
<1>3. QED
  BY <1>1, <1>2

LEMMA EndsKeep ==
  ASSUME Inv, UNCHANGED policy, NEW q \in Reqs, Go(q, Idle)
  PROVE  req' \in [Reqs -> {Idle} \cup Working] /\ \A v \in Reqs : RequestOf(v)'
<1>1. /\ req' \in [Reqs -> {Idle} \cup Working] /\ req'[q] = Idle
      /\ \A v \in Reqs \ {q} : RequestOf(v)'
  BY RequestFrame
<1>2. RequestOf(q)'
  BY <1>1 DEF RequestOf, Active
<1>3. QED
  BY <1>1, <1>2

\* A request that moves on remembers who it is for and what was granted.
LEMMA GoesKeep ==
  ASSUME Inv, UNCHANGED policy, NEW q \in Reqs, NEW r \in Working, Go(q, r),
         Grants(r.user) \in r.had, r.admin => {Everything} \in r.had,
         r.at \in {"scoped", "loaded", "proposed"} =>
           /\ r.scope \in Scope /\ r.input \in Bodies(r.op)
           /\ \E gs \in r.had : gs = {Everything} \/ r.scope = Compiled(gs, r.op),
         r.at = "loaded" => r.op \in {"update", "delete"},
         r.at = "proposed" =>
           /\ r.op = "create"
           /\ \A f \in DOMAIN r.input : \E p \in r.scope.write[f] :
                AtProposal(p, r.then, r.user,
                  Changed([owner |-> r.user, team |-> None, note |-> "default"], r.input))
  PROVE  req' \in [Reqs -> {Idle} \cup Working] /\ \A v \in Reqs : RequestOf(v)'
<1>1. /\ req' \in [Reqs -> {Idle} \cup Working] /\ req'[q] = r
      /\ \A v \in Reqs \ {q} : RequestOf(v)'
  BY RequestFrame
<1>2. Grants(req[q].user)' = Grants(r.user)
  BY <1>1 DEF Grants, Held, policy
<1>3. RequestOf(q)'
  BY <1>1, <1>2 DEF RequestOf, Witnessed, Proposed
<1>4. QED
  BY <1>1, <1>3

\* What is stored by an update, and by an insert.
LEMMA ChangedRow ==
  ASSUME Inv, NEW q \in Reqs, req[q].at = "loaded", req[q].op = "update",
         row[req[q].id] # None
  PROVE  Changed(row[req[q].id], req[q].input) \in Row
<1>1. Active(q)
  BY AtActive
<1>2. req[q].input \in Bodies("update") /\ req[q].id \in Ids
  BY <1>1, WorkingType DEF Inv, RequestOf
<1>3. row[req[q].id] \in Row
  BY <1>2 DEF Inv, TypeOK
<1>4. row[req[q].id] \in [owner : Users, team : Teams \cup {None}, note : Notes]
      /\ row[req[q].id].team \in Teams
  BY <1>3 DEF Row
<1>5. QED
  BY <1>2, <1>4, ChangedType

LEMMA ProposedRow ==
  ASSUME Inv, NEW q \in Reqs, req[q].at \in {"scoped", "proposed"}, req[q].op = "create"
  PROVE  Proposed(q) \in Row
<1>1. Active(q)
  BY AtActive
<1>2. req[q].input \in Bodies("create") /\ req[q].user \in Users
  BY <1>1, WorkingType DEF Inv, RequestOf
<1>3. [owner |-> req[q].user, team |-> None, note |-> "default"]
        \in [owner : Users, team : Teams \cup {None}, note : Notes]
  BY <1>2 DEF Notes
<1>4. QED
  BY <1>2, <1>3, ChangedType DEF Proposed

LEMMA InputSet == NoInput \in Input \cup {NoInput} /\ {} \in SUBSET (Users \X Teams)
OBVIOUS

LEMMA CurrentUserKeeps ==
  ASSUME Inv, NEW q \in Reqs, NEW t \in Tokens, CurrentUser(q, t)
  PROVE  req' \in [Reqs -> {Idle} \cup Working] /\ \A v \in Reqs : RequestOf(v)'
<1>1. PICK op \in Ops, i \in Ids :
        Go(q, [at |-> "known", user |-> session[t], admin |-> users[session[t]].admin,
               op |-> op, id |-> i, input |-> NoInput, scope |-> None, then |-> {},
               had |-> {Grants(session[t])}])
  BY DEF CurrentUser
<1> DEFINE r == [at |-> "known", user |-> session[t], admin |-> users[session[t]].admin,
                 op |-> op, id |-> i, input |-> NoInput, scope |-> None, then |-> {},
                 had |-> {Grants(session[t])}]
<1>2. session[t] \in Users /\ users[session[t]].on /\ UNCHANGED policy
  BY DEF CurrentUser, Inv, TypeOK, Quiet
<1>3. users[session[t]].admin \in BOOLEAN
  BY <1>2 DEF Inv, TypeOK
<1>4. Grants(session[t]) \in SUBSET Rule
  BY <1>2, GrantsType DEF Inv
<1>5. r \in Working
  BY <1>2, <1>3, <1>4 DEF Working
<1>6. users[session[t]].admin => Grants(session[t]) = {Everything}
  BY <1>2 DEF Grants
<1>7. QED
  BY <1>1, <1>2, <1>5, <1>6, GoesKeep

LEMMA AuthorizeKeeps ==
  ASSUME Inv, NEW q \in Reqs, Authorize(q)
  PROVE  req' \in [Reqs -> {Idle} \cup Working] /\ \A v \in Reqs : RequestOf(v)'
<1>1. Active(q)
  BY AtActive DEF Authorize
<1>2. req[q] \in Working /\ RequestOf(q)
  BY <1>1, WorkingType DEF Inv
<1> DEFINE r == [req[q] EXCEPT !.at = "authorized"]
<1>3. /\ r \in Working /\ r.at = "authorized"
      /\ r.user = req[q].user /\ r.had = req[q].had /\ r.admin = req[q].admin
  BY <1>2 DEF Working
<1>4. Go(q, r) /\ UNCHANGED policy
  BY DEF Authorize, Quiet
<1>5. Grants(r.user) \in r.had /\ (r.admin => {Everything} \in r.had)
  BY <1>1, <1>2, <1>3 DEF RequestOf
<1> HIDE DEF r
<1>6. QED
  BY <1>3, <1>4, <1>5, GoesKeep

LEMMA StoreForKeeps ==
  ASSUME Inv, NEW q \in Reqs, StoreFor(q)
  PROVE  req' \in [Reqs -> {Idle} \cup Working] /\ \A v \in Reqs : RequestOf(v)'
<1>1. Active(q)
  BY AtActive DEF StoreFor
<1>2. /\ req[q] \in Working /\ RequestOf(q) /\ req[q].op \in Ops /\ req[q].user \in Users
      /\ req[q].had \in SUBSET SUBSET Rule
  BY <1>1, WorkingType DEF Inv
<1>3. PICK x \in Bodies(req[q].op) :
        Go(q, [req[q] EXCEPT !.at = "scoped", !.input = x,
                 !.scope = Compiled(IF req[q].admin THEN {Everything} ELSE Held(req[q].user),
                                    req[q].op)])
  BY DEF StoreFor
<1>4. PICK gs : gs = IF req[q].admin THEN {Everything} ELSE Held(req[q].user)
  OBVIOUS
<1>5. PICK scope : scope = Compiled(gs, req[q].op)
  OBVIOUS
<1> DEFINE r == [req[q] EXCEPT !.at = "scoped", !.input = x, !.scope = scope]
<1>6. gs \in SUBSET Rule /\ scope \in Scope
  <2>1. gs \in SUBSET Rule
    BY <1>2, <1>4, GrantsType, Unlike DEF Inv
  <2>2. QED
    BY <1>2, <1>5, <2>1, CompiledType
<1>7. x \in Input \cup {NoInput}
  BY <1>2, BodyType
<1>8. /\ r \in Working /\ r.at = "scoped" /\ r.input = x /\ r.scope = scope /\ r.op = req[q].op
      /\ r.user = req[q].user /\ r.had = req[q].had /\ r.admin = req[q].admin
  BY <1>2, <1>6, <1>7 DEF Working
<1>9. Go(q, r) /\ UNCHANGED policy
  BY <1>3, <1>4, <1>5 DEF StoreFor, Quiet
<1>10. Grants(r.user) \in r.had /\ (r.admin => {Everything} \in r.had)
  BY <1>1, <1>2, <1>8 DEF RequestOf
<1>11. gs \in r.had \/ {Everything} \in r.had
  BY <1>2, <1>4, <1>8, <1>10, HeldOrAdmin
<1>12. \E g \in r.had : g = {Everything} \/ r.scope = Compiled(g, r.op)
  BY <1>5, <1>8, <1>11
<1> HIDE DEF r
<1>13. QED
  BY <1>6, <1>8, <1>9, <1>10, <1>12, GoesKeep

LEMMA LoadKeeps ==
  ASSUME Inv, NEW q \in Reqs, Load(q)
  PROVE  req' \in [Reqs -> {Idle} \cup Working] /\ \A v \in Reqs : RequestOf(v)'
<1>1. Active(q)
  BY AtActive DEF Load
<1>2. req[q] \in Working /\ RequestOf(q)
  BY <1>1, WorkingType DEF Inv
<1> DEFINE r == [req[q] EXCEPT !.at = "loaded"]
<1>3. /\ r \in Working /\ r.at = "loaded" /\ r.user = req[q].user /\ r.had = req[q].had
      /\ r.admin = req[q].admin /\ r.op = req[q].op /\ r.input = req[q].input
      /\ r.scope = req[q].scope
  BY <1>2 DEF Working
<1>4. Go(q, r) /\ UNCHANGED policy /\ req[q].at = "scoped" /\ req[q].op \in {"update", "delete"}
  BY DEF Load, Quiet
<1>5. /\ Grants(r.user) \in r.had /\ (r.admin => {Everything} \in r.had)
      /\ r.scope \in Scope /\ r.input \in Bodies(r.op)
      /\ \E gs \in r.had : gs = {Everything} \/ r.scope = Compiled(gs, r.op)
  BY <1>1, <1>2, <1>3, <1>4 DEF RequestOf, Witnessed
<1> HIDE DEF r
<1>6. QED
  BY <1>3, <1>4, <1>5, GoesKeep

LEMMA ValidateKeeps ==
  ASSUME Inv, NEW q \in Reqs, ValidateProposed(q)
  PROVE  req' \in [Reqs -> {Idle} \cup Working] /\ \A v \in Reqs : RequestOf(v)'
<1>1. Active(q)
  BY AtActive DEF ValidateProposed
<1>2. req[q] \in Working /\ RequestOf(q)
  BY <1>1, WorkingType DEF Inv
<1> DEFINE r == [req[q] EXCEPT !.at = "proposed", !.then = member]
<1>3. member \in SUBSET (Users \X Teams)
  BY DEF Inv, TypeOK
<1>4. /\ r \in Working /\ r.at = "proposed" /\ r.user = req[q].user /\ r.had = req[q].had
      /\ r.admin = req[q].admin /\ r.op = req[q].op /\ r.input = req[q].input
      /\ r.scope = req[q].scope /\ r.then = member
  BY <1>2, <1>3 DEF Working
<1>5. /\ Go(q, r) /\ UNCHANGED policy /\ req[q].at = "scoped" /\ req[q].op = "create"
      /\ MayWrite(q, Proposed(q))
  BY DEF ValidateProposed, Quiet
<1>6. /\ Grants(r.user) \in r.had /\ (r.admin => {Everything} \in r.had)
      /\ r.scope \in Scope /\ r.input \in Bodies(r.op)
      /\ \E gs \in r.had : gs = {Everything} \/ r.scope = Compiled(gs, r.op)
  BY <1>1, <1>2, <1>4, <1>5 DEF RequestOf, Witnessed
<1>7. ASSUME NEW f \in DOMAIN r.input
      PROVE  \E p \in r.scope.write[f] : AtProposal(p, r.then, r.user, Proposed(q))
  <2>1. PICK p \in req[q].scope.write[f] : Holds(p, req[q].user, Proposed(q))
    BY <1>4, <1>5, <1>7 DEF MayWrite, Some
  <2>2. AtProposal(p, member, req[q].user, Proposed(q))
    BY <2>1 DEF Holds, AtProposal, Meets
  <2>3. QED
    BY <1>4, <2>1, <2>2
<1>8. Proposed(q) = Changed([owner |-> r.user, team |-> None, note |-> "default"], r.input)
  BY <1>4 DEF Proposed
<1> HIDE DEF r
<1>9. QED
  BY <1>4, <1>5, <1>6, <1>7, <1>8, GoesKeep

-----------------------------------------------------------------------------
(* Invariance.                                                             *)

\* The tables other than the policies, and the requests.
LEMMA RequestStep ==
  ASSUME Inv, NEW q \in Reqs, Request(q)
  PROVE  /\ req' \in [Reqs -> {Idle} \cup Working] /\ \A v \in Reqs : RequestOf(v)'
         /\ UNCHANGED <<policy, session, setup, changes>>
         /\ row' \in [Ids -> Row \cup {None}]
<1>1. row \in [Ids -> Row \cup {None}]
  BY DEF Inv, TypeOK
<1>2. CASE \E t \in Tokens : CurrentUser(q, t)
  BY <1>1, <1>2, CurrentUserKeeps DEF CurrentUser, Quiet
<1>3. CASE Refuse(q) \/ Read(q)
  BY <1>1, <1>3, EndsKeep DEF Refuse, Read, Quiet
<1>4. CASE Authorize(q)
  BY <1>1, <1>4, AuthorizeKeeps DEF Authorize, Quiet
<1>5. CASE StoreFor(q)
  BY <1>1, <1>5, StoreForKeeps DEF StoreFor, Quiet
<1>6. CASE Load(q)
  BY <1>1, <1>6, LoadKeeps DEF Load, Quiet
<1>7. CASE ValidateProposed(q)
  BY <1>1, <1>7, ValidateKeeps DEF ValidateProposed, Quiet
<1>8. CASE Update(q)
  <2>1. /\ req[q].at = "loaded" /\ req[q].op = "update" /\ row[req[q].id] # None
        /\ row' = [row EXCEPT ![req[q].id] = Changed(row[req[q].id], req[q].input)]
        /\ UNCHANGED <<policy, session, setup, changes>> /\ Go(q, Idle)
    BY <1>8 DEF Update, Store, InScope
  <2>2. Changed(row[req[q].id], req[q].input) \in Row
    BY <2>1, ChangedRow
  <2>3. QED
    BY <1>1, <2>1, <2>2, EndsKeep
<1>9. CASE Delete(q)
  BY <1>1, <1>9, EndsKeep DEF Delete, Store
<1>10. CASE Insert(q)
  <2>1. /\ req[q].at = "proposed" /\ row' = [row EXCEPT ![req[q].id] = Proposed(q)]
        /\ UNCHANGED <<policy, session, setup, changes>> /\ Go(q, Idle)
    BY <1>10 DEF Insert, Store
  <2>2. req[q].op = "create"
    BY <2>1, AtActive DEF Inv, RequestOf
  <2>3. Proposed(q) \in Row
    BY <2>1, <2>2, ProposedRow
  <2>4. QED
    BY <1>1, <2>1, <2>3, EndsKeep
<1>11. QED
  BY <1>2, <1>3, <1>4, <1>5, <1>6, <1>7, <1>8, <1>9, <1>10 DEF Request

LEMMA SignStep ==
  ASSUME Inv, NEW t \in Tokens, Sign(t)
  PROVE  UNCHANGED <<policy, row, req, setup, changes>> /\ session' \in [Tokens -> Users \cup {None}]
BY DEF Sign, Login, Close, Hold, Inv, TypeOK

LEMMA RequestsKept ==
  ASSUME Inv, UNCHANGED policy, req' = req
  PROVE  req' \in [Reqs -> {Idle} \cup Working] /\ \A q \in Reqs : RequestOf(q)'
<1>1. ASSUME NEW q \in Reqs PROVE RequestOf(q)'
  <2>1. Grants(req[q].user)' = Grants(req[q].user)
    BY DEF Grants, Held, policy
  <2>2. QED
    BY <2>1 DEF Inv, RequestOf, Active, Witnessed, Proposed
<1>2. QED
  BY <1>1 DEF Inv

LEMMA TypeFrom ==
  ASSUME PolicyOK', session' \in [Tokens -> Users \cup {None}], row' \in [Ids -> Row \cup {None}],
         req' \in [Reqs -> {Idle} \cup Working], changes' \in 0 .. Changes,
         \A q \in Reqs : RequestOf(q)'
  PROVE  Inv'
BY DEF PolicyOK, TypeOK, Inv

LEMMA InitInv == Init => Inv
<1> SUFFICES ASSUME Init PROVE Inv
  OBVIOUS
<1>1. Shipped \in SUBSET Items /\ Resolvable(Shipped)
  BY ShippedAssumption
<1>2. role \in [Roles -> BOOLEAN \cup {None}] /\ perm \in [Roles -> Rule \cup {None}]
  BY <1>1, AppliedType, RoledType DEF Init
<1>3. held \in [Users -> SUBSET Roles] /\ member \subseteq Users \X Teams
  BY AssignedAssumption, JoinedAssumption DEF Init
<1>4. changes \in 0 .. Changes
  BY ChangesAssumption DEF Init
<1>5. TypeOK
  BY <1>2, <1>3, <1>4 DEF Init, TypeOK
<1>6. QED
  BY <1>5 DEF Init, Inv, RequestOf, Active

LEMMA InvStep == Inv /\ [Next]_vars => Inv'
<1> SUFFICES ASSUME Inv, [Next]_vars PROVE Inv'
  OBVIOUS
<1>1. /\ PolicyOK /\ session \in [Tokens -> Users \cup {None}] /\ row \in [Ids -> Row \cup {None}]
      /\ changes \in 0 .. Changes
  BY DEF Inv, TypeOK, PolicyOK
<1>2. ASSUME NEW q \in Reqs, Request(q) PROVE Inv'
  <2>1. PolicyOK'
    BY <1>1, <1>2, RequestStep DEF PolicyOK, policy
  <2>2. QED
    BY <1>1, <1>2, <2>1, RequestStep, TypeFrom
<1>3. ASSUME NEW t \in Tokens, Sign(t) PROVE Inv'
  <2>1. PolicyOK'
    BY <1>1, <1>3, SignStep DEF PolicyOK, policy
  <2>2. QED
    BY <1>1, <1>3, <2>1, SignStep, RequestsKept, TypeFrom
<1>4. CASE Policy
  <2>1. PolicyOK' /\ Remember /\ UNCHANGED <<session, row>> /\ changes' \in 0 .. Changes
    BY <1>4, PolicyEffect DEF Inv
  <2>2. QED
    BY <1>1, <2>1, Remembered, TypeFrom
<1>5. CASE UNCHANGED vars
  <2>1. PolicyOK'
    BY <1>1, <1>5 DEF PolicyOK, vars, policy
  <2>2. QED
    BY <1>1, <1>5, <2>1, RequestsKept, TypeFrom DEF vars
<1>6. QED
  BY <1>2, <1>3, <1>4, <1>5 DEF Next, Policy

LEMMA Invariance == Spec => []Inv
BY InitInv, InvStep, PTL DEF Spec

\* Rows, sessions, policies and requests stay well formed: in particular a
\* stored row has a team, although a body and a scope may hide it.
THEOREM TypeCorrect == Spec => []TypeOK
<1>1. Inv => TypeOK
  BY DEF Inv
<1>2. QED
  BY <1>1, Invariance, PTL

-----------------------------------------------------------------------------
(* What a scope lets through was granted.                                  *)

\* A row in scope is one that a grant of the witness covers.
LEMMA ScopeGranted ==
  ASSUME NEW gs, NEW op \in Ops, NEW u, NEW r, r # None,
         \/ gs = {Everything}
         \/ \E p \in Compiled(gs, op).where : Holds(p, u, r)
  PROVE  On(gs, op, u, r) # {}
<1>1. CASE gs = {Everything}
  BY <1>1, EverythingHolds DEF On
<1>2. CASE \E p \in Compiled(gs, op).where : Holds(p, u, r)
  <2>1. PICK p \in Compiled(gs, op).where : Holds(p, u, r)
    BY <1>2
  <2>2. PICK g \in gs : op \in g.ops /\ p = Pred(g)
    BY WhereGrant
  <2>3. Holds(g, u, r)
    BY <2>1, <2>2, PredHolds
  <2>4. QED
    BY <2>2, <2>3 DEF On
<1>3. QED
  BY <1>1, <1>2

LEMMA ShownGranted ==
  ASSUME NEW gs, NEW op \in Ops, NEW u, NEW r, r # None, NEW f \in Fields,
         \/ gs = {Everything}
         \/ \E p \in Compiled(gs, op).read[f] : Holds(p, u, r)
  PROVE  \E g \in On(gs, op, u, r) : f \notin g.hide
<1>1. CASE gs = {Everything}
  BY <1>1, EverythingHolds DEF On
<1>2. CASE \E p \in Compiled(gs, op).read[f] : Holds(p, u, r)
  <2>1. PICK p \in Compiled(gs, op).read[f] : Holds(p, u, r)
    BY <1>2
  <2>2. PICK g \in gs : op \in g.ops /\ p = Pred(g) /\ f \notin g.hide
    BY ReadGrant
  <2>3. Holds(g, u, r)
    BY <2>1, <2>2, PredHolds
  <2>4. QED
    BY <2>2, <2>3 DEF On
<1>3. QED
  BY <1>1, <1>2

LEMMA WriteGranted ==
  ASSUME NEW gs, NEW op \in Ops, NEW u, NEW r, r # None, NEW f \in Fields,
         \/ gs = {Everything}
         \/ \E p \in Compiled(gs, op).write[f] : Holds(p, u, r)
  PROVE  \E g \in On(gs, op, u, r) : f \notin g.hide \cup g.deny
<1>1. CASE gs = {Everything}
  BY <1>1, EverythingHolds DEF On
<1>2. CASE \E p \in Compiled(gs, op).write[f] : Holds(p, u, r)
  <2>1. PICK p \in Compiled(gs, op).write[f] : Holds(p, u, r)
    BY <1>2
  <2>2. PICK g \in gs : op \in g.ops /\ p = Pred(g) /\ f \notin g.hide \cup g.deny
    BY WriteGrant
  <2>3. Holds(g, u, r)
    BY <2>1, <2>2, PredHolds
  <2>4. QED
    BY <2>2, <2>3 DEF On
<1>3. QED
  BY <1>1, <1>2

LEMMA ProposalGranted ==
  ASSUME NEW gs, NEW m, NEW u, NEW r, NEW f \in Fields,
         \/ gs = {Everything}
         \/ \E p \in Compiled(gs, "create").write[f] : AtProposal(p, m, u, r)
  PROVE  \E g \in gs : "create" \in g.ops /\ AtProposal(g, m, u, r) /\ f \notin g.hide \cup g.deny
<1>1. CASE gs = {Everything}
  BY <1>1, EverythingHolds DEF Ops
<1>2. CASE \E p \in Compiled(gs, "create").write[f] : AtProposal(p, m, u, r)
  <2>1. PICK p \in Compiled(gs, "create").write[f] : AtProposal(p, m, u, r)
    BY <1>2
  <2>2. PICK g \in gs : "create" \in g.ops /\ p = Pred(g) /\ f \notin g.hide \cup g.deny
    BY WriteGrant
  <2>3. QED
    BY <2>1, <2>2, PredHolds
<1>3. QED
  BY <1>1, <1>2

LEMMA ReadAllowed ==
  ASSUME Inv, NEW q \in Reqs, Reading(q)
  PROVE  \E gs \in req[q].had :
           Allowed(gs, req[q], row[req[q].id], None, Shown(q, row[req[q].id]))
<1>1. req[q].at = "scoped" /\ req[q].op = "read" /\ InScope(q, row[req[q].id])
  BY DEF Reading
<1>2. PICK gs \in req[q].had : gs = {Everything} \/ req[q].scope = Compiled(gs, "read")
  BY <1>1, AtActive DEF Inv, RequestOf, Witnessed
<1>3. PICK r : r = row[req[q].id]
  OBVIOUS
<1>4. r # None /\ \E p \in req[q].scope.where : Holds(p, req[q].user, r)
  BY <1>1, <1>3 DEF InScope, Some
<1>5. On(gs, "read", req[q].user, r) # {}
  BY <1>2, <1>4, ScopeGranted DEF Ops
<1>6. ASSUME NEW f \in Shown(q, r)
      PROVE  \E g \in On(gs, "read", req[q].user, r) : f \notin g.hide
  <2>1. f \in Fields /\ \E p \in req[q].scope.read[f] : Holds(p, req[q].user, r)
    BY <1>6 DEF Shown, Some
  <2>2. QED
    BY <1>2, <1>4, <2>1, ShownGranted DEF Ops
<1>7. QED
  BY <1>1, <1>3, <1>5, <1>6 DEF Allowed


\* The grants behind the scope of a request that has one.
LEMMA ScopeWitness ==
  ASSUME Inv, NEW q \in Reqs, req[q].at \in {"scoped", "loaded", "proposed"}
  PROVE  /\ Witnessed(q) /\ req[q].op \in Ops /\ req[q].id \in Ids
         /\ req[q].input \in Bodies(req[q].op) /\ DOMAIN req[q].input \subseteq Fields
<1>1. Active(q)
  BY AtActive
<1>2. RequestOf(q) /\ req[q].op \in Ops /\ req[q].id \in Ids
  BY <1>1, WorkingType DEF Inv
<1>3. Witnessed(q) /\ req[q].input \in Bodies(req[q].op)
  BY <1>1, <1>2 DEF RequestOf
<1>4. QED
  BY <1>2, <1>3, BodyType

LEMMA UpdateAllowed ==
  ASSUME Inv, NEW q \in Reqs, Update(q)
  PROVE  \E gs \in req[q].had : Allowed(gs, req[q], row[req[q].id], row'[req[q].id], {})
<1>1. PICK r, n : r = row[req[q].id] /\ n = Changed(r, req[q].input)
  OBVIOUS
<1>2. /\ req[q].at = "loaded" /\ req[q].op = "update" /\ InScope(q, r) /\ MayWrite(q, r)
      /\ InScope(q, n) /\ row' = [row EXCEPT ![req[q].id] = n]
  BY <1>1 DEF Update, Store
<1>3. PICK gs \in req[q].had : gs = {Everything} \/ req[q].scope = Compiled(gs, "update")
  BY <1>2, ScopeWitness DEF Witnessed
<1>4. row'[req[q].id] = n
  BY <1>2, ScopeWitness DEF Inv, TypeOK
<1>5. On(gs, "update", req[q].user, r) # {}
  BY <1>2, <1>3, ScopeGranted DEF InScope, Some, Ops
<1>6. On(gs, "update", req[q].user, n) # {}
  BY <1>2, <1>3, ScopeGranted DEF InScope, Some, Ops
<1>7. ASSUME NEW f \in DOMAIN req[q].input
      PROVE  \E g \in On(gs, "update", req[q].user, r) : f \notin g.hide \cup g.deny
  <2>1. f \in Fields /\ \E p \in req[q].scope.write[f] : Holds(p, req[q].user, r)
    BY <1>2, <1>7, ScopeWitness DEF MayWrite, Some
  <2>2. r # None
    BY <1>2 DEF InScope
  <2>3. QED
    BY <1>3, <2>1, <2>2, WriteGranted DEF Ops
<1>8. QED
  BY <1>1, <1>2, <1>4, <1>5, <1>6, <1>7 DEF Allowed

LEMMA DeleteAllowed ==
  ASSUME Inv, NEW q \in Reqs, Delete(q)
  PROVE  \E gs \in req[q].had : Allowed(gs, req[q], row[req[q].id], row'[req[q].id], {})
<1>1. req[q].at = "loaded" /\ req[q].op = "delete" /\ InScope(q, row[req[q].id])
  BY DEF Delete
<1>2. PICK gs \in req[q].had : gs = {Everything} \/ req[q].scope = Compiled(gs, "delete")
  BY <1>1, ScopeWitness DEF Witnessed
<1>3. On(gs, "delete", req[q].user, row[req[q].id]) # {}
  BY <1>1, <1>2, ScopeGranted DEF InScope, Some, Ops
<1>4. QED
  BY <1>1, <1>3 DEF Allowed

LEMMA InsertAllowed ==
  ASSUME Inv, NEW q \in Reqs, Insert(q)
  PROVE  \E gs \in req[q].had : Allowed(gs, req[q], row[req[q].id], row'[req[q].id], {})
<1>1. PICK n : n = Proposed(q)
  OBVIOUS
<1>2. req[q].at = "proposed" /\ InScope(q, n) /\ row' = [row EXCEPT ![req[q].id] = n]
  BY <1>1 DEF Insert, Store
<1>3. /\ req[q].op = "create"
      /\ \A f \in DOMAIN req[q].input : \E p \in req[q].scope.write[f] :
           AtProposal(p, req[q].then, req[q].user, n)
  BY <1>1, <1>2, AtActive DEF Inv, RequestOf
<1>4. PICK gs \in req[q].had : gs = {Everything} \/ req[q].scope = Compiled(gs, "create")
  BY <1>2, <1>3, ScopeWitness DEF Witnessed
<1>5. row'[req[q].id] = n
  BY <1>2, ScopeWitness DEF Inv, TypeOK
<1>6. On(gs, "create", req[q].user, n) # {}
  BY <1>2, <1>4, ScopeGranted DEF InScope, Some, Ops
<1>7. ASSUME NEW f \in DOMAIN req[q].input
      PROVE  \E g \in gs : /\ "create" \in g.ops
                           /\ AtProposal(g, req[q].then, req[q].user, n)
                           /\ f \notin g.hide \cup g.deny
  <2>1. f \in Fields
    BY <1>2, <1>7, ScopeWitness
  <2>2. PICK p \in req[q].scope.write[f] : AtProposal(p, req[q].then, req[q].user, n)
    BY <1>3, <1>7
  <2>3. gs = {Everything} \/ \E x \in Compiled(gs, "create").write[f] :
                               AtProposal(x, req[q].then, req[q].user, n)
    BY <1>4, <2>2
  <2>4. QED
    BY <2>1, <2>3, ProposalGranted
<1>8. QED
  BY <1>3, <1>5, <1>6, <1>7 DEF Allowed

\* A request that is over in a step that stores a row is the one that stored it.
LEMMA StoredBy ==
  ASSUME Inv, Next, NEW q \in Reqs, Active(q), req'[q] = Idle, row' # row
  PROVE  Update(q) \/ Delete(q) \/ Insert(q)
<1>1. ASSUME NEW v \in Reqs, Request(v) PROVE Update(q) \/ Delete(q) \/ Insert(q)
  <2>1. Update(v) \/ Delete(v) \/ Insert(v)
    BY <1>1 DEF Request, CurrentUser, Refuse, Authorize, StoreFor, Read, Load, ValidateProposed,
                Quiet
  <2>2. Go(v, Idle)
    BY <2>1 DEF Update, Delete, Insert
  <2>3. ASSUME v # q PROVE req'[q] = req[q]
    BY <2>2, <2>3 DEF Go, Inv
  <2>4. v = q
    BY <2>3 DEF Active
  <2>5. QED
    BY <2>1, <2>4
<1>2. ASSUME NEW t \in Tokens, Sign(t) PROVE FALSE
  BY <1>2, SignStep
<1>3. CASE Policy
  BY <1>3, PolicyEffect DEF Inv
<1>4. QED
  BY <1>1, <1>2, <1>3 DEF Next, Policy

\* Whatever is revoked, disabled, assigned or migrated while requests run, a
\* row is read or written only as grants its actor held together, at one moment
\* of the request, allow it, the grants applied to the row and the assignments
\* at the statement (compileScope, recordScope, Records.Update and Create).
THEOREM AccessGranted == Spec => AccessIsGranted
<1> DEFINE Kept == \A q \in Reqs :
         LET r == req[q] IN
         /\ Reading(q) =>
              \E gs \in r.had : Allowed(gs, r, row[r.id], None, Shown(q, row[r.id]))
         /\ (Active(q) /\ req'[q] = Idle /\ row' # row) =>
              \E gs \in r.had : Allowed(gs, r, row[r.id], row'[r.id], {})
<1>1. Inv /\ [Next]_vars => [Kept]_vars
  <2> SUFFICES ASSUME Inv, Next, NEW q \in Reqs
               PROVE  /\ Reading(q) => \E gs \in req[q].had :
                           Allowed(gs, req[q], row[req[q].id], None, Shown(q, row[req[q].id]))
                      /\ (Active(q) /\ req'[q] = Idle /\ row' # row) => \E gs \in req[q].had :
                           Allowed(gs, req[q], row[req[q].id], row'[req[q].id], {})
    OBVIOUS
  <2>1. QED
    BY ReadAllowed, StoredBy, UpdateAllowed, DeleteAllowed, InsertAllowed
<1>2. QED
  BY <1>1, Invariance, PTL DEF Spec, AccessIsGranted
=============================================================================
