------------------------------- MODULE Access -------------------------------
(***************************************************************************)
(* Sessions, policies and scoped Records (internal/auth,                   *)
(* internal/access, internal/permissions, internal/db/record_scope.go and  *)
(* the record routes of internal/server).                                  *)
(*                                                                         *)
(* A request is a pipeline of separate database calls: the middleware      *)
(* resolves the session, the handler checks the action, a third query      *)
(* compiles the actor's grants into a scope, and only then does the Record *)
(* store run its statements, each constrained by that scope.  Roles,       *)
(* assignments, policies, users, sessions and other requests change in     *)
(* between.  One Entity with a Link (team) that row conditions use and a   *)
(* plain Field (note) stands for all of them.                              *)
(***************************************************************************)
EXTENDS Naturals, FiniteSets

CONSTANTS Apps, Users, Roles, Teams, Tokens, Reqs,
          Ids,        \* record ids an insert may draw
          Assigned,   \* the roles the fixtures assign to each user
          Joined,     \* the assignment rows they hold
          Items,      \* policy items the apps' access files may hold (bound: one
                      \* for an app and a role)
          Shipped,    \* those the first migration found
          Changes,    \* bound: how often users, roles, policies or assignments change
          None

Fields == {"team", "note"}
Ops    == {"read", "create", "update", "delete"}
Notes  == {"default", "given"}
Rule   == [ops : SUBSET Ops, match : {"all", "any"}, conds : SUBSET {"owner", "member"},
           hide : SUBSET Fields, deny : SUBSET Fields]

ASSUME ItemsAssumption ==
    /\ Items \subseteq [app : Apps, role : Roles, override : BOOLEAN, rule : Rule]
    /\ \A i, j \in Items : i.app = j.app /\ i.role = j.role => i = j
ASSUME AssignedAssumption == Assigned \in [Users -> SUBSET Roles]
ASSUME JoinedAssumption == Joined \subseteq Users \X Teams
ASSUME ChangesAssumption == Changes \in Nat
ASSUME NoneAssumption ==
    None \notin (Users \cup Roles \cup Ids \cup Rule)

VARIABLES
    users,      \* [on, admin] per user row
    role,       \* role row: None, or whether it is enabled
    held,       \* user_role rows: the roles of each user
    perm,       \* live permission row of each role on the Entity, or None
    member,     \* assignment rows <<user, team>> membership conditions look up
    session,    \* the user of each active, unexpired session, by token; else None
    row,        \* the Entity's rows
    req,        \* the requests in flight
    setup,      \* the user `dygo setup` is about to make administrator, or None
    changes

policy == <<users, role, held, perm, member>>
vars   == <<policy, session, row, req, setup, changes>>

Idle   == [at |-> "idle"]

------------------------------------------------------------------------------
(* What a grant says.  A missing `when` is match all of no condition.        *)

Meets(c, actor, r) == IF c = "owner" THEN r.owner = actor ELSE <<actor, r.team>> \in member

Holds(p, actor, r) == IF p.match = "all" THEN \A c \in p.conds : Meets(c, actor, r)
                                         ELSE \E c \in p.conds : Meets(c, actor, r)

Everything == [ops |-> Ops, match |-> "all", conds |-> {}, hide |-> {}, deny |-> {}]

\* The permission rows reached through user, user_role and enabled roles.
Held(u) == IF users[u].on
             THEN {perm[k] : k \in {x \in held[u] : role[x] = TRUE /\ perm[x] # None}}
             ELSE {}

Grants(u) == IF users[u].on /\ users[u].admin THEN {Everything} ELSE Held(u)

(* The compiled scope: predicates only, the grants they came from forgotten. *)

Pred(g) == [match |-> g.match, conds |-> g.conds]

Compiled(gs, op) ==
    LET on == {g \in gs : op \in g.ops} IN
    [where |-> {Pred(g) : g \in on},
     read  |-> [f \in Fields |-> {Pred(g) : g \in {h \in on : f \notin h.hide}}],
     write |-> [f \in Fields |-> {Pred(g) : g \in {h \in on : f \notin h.hide \cup h.deny}}]]

Some(ps, actor, r) == \E p \in ps : Holds(p, actor, r)

------------------------------------------------------------------------------
(* Access files and what a migration makes of them.                          *)

Group(items, k) == {i \in items : i.role = k}

\* One item stands; several need exactly one override, which replaces them.
Effective(group) == IF Cardinality(group) = 1 THEN group ELSE {i \in group : i.override}

Resolvable(items) ==
    \A k \in Roles : Group(items, k) = {} \/ Cardinality(Effective(Group(items, k))) = 1

\* Roles are created enabled and keep their switch; every effective item is
\* upserted and un-retired; nothing is retired by omission.
Roled(items, was) ==
    [k \in Roles |-> IF Group(items, k) # {} /\ was[k] = None THEN TRUE ELSE was[k]]
Applied(items, was) ==
    [k \in Roles |-> IF Group(items, k) = {} THEN was[k]
                     ELSE (CHOOSE i \in Effective(Group(items, k)) : TRUE).rule]

\* `dygo access export --in a`: the app's own items take the live rules, a live
\* role without one gets one, and no override is made; the files of the other
\* apps stay as they are.
LiveRoles(live) == {k \in Roles : live[k] # None}
Upserted(own, live, a) ==
    {IF i.role \in LiveRoles(live) THEN [i EXCEPT !.rule = live[i.role]] ELSE i : i \in own}
    \cup {[app |-> a, role |-> k, override |-> FALSE, rule |-> live[k]] :
            k \in LiveRoles(live) \ {i.role : i \in own}}
Exported(files, live, a) ==
    {i \in files : i.app # a} \cup Upserted({i \in files : i.app = a}, live, a)

\* A migrated project whose fixtures assigned roles and a team to its users.
ASSUME ShippedAssumption == Shipped \subseteq Items /\ Resolvable(Shipped)

Init ==
    /\ users   = [u \in Users |-> [on |-> TRUE, admin |-> FALSE]]
    /\ role    = Roled(Shipped, [k \in Roles |-> None])
    /\ perm    = Applied(Shipped, [k \in Roles |-> None])
    /\ held    = [u \in Users |-> {k \in Assigned[u] : role[k] # None}]
    /\ member  = Joined
    /\ session = [t \in Tokens |-> None]
    /\ row     = [i \in Ids |-> None]
    /\ req     = [q \in Reqs |-> Idle]
    /\ setup   = None
    /\ changes = 0

Active(q) == req[q] # Idle

Granted == [u \in Users |-> Grants(u)]

\* Requests in flight remember every set of grants their actor had since then.
Remember ==
    req' = [q \in Reqs |->
              IF Active(q) THEN [req[q] EXCEPT !.had = @ \cup {Granted'[req[q].user]}] ELSE req[q]]

Change ==
    /\ changes < Changes
    /\ changes' = changes + 1
    /\ Remember
    /\ UNCHANGED <<session, row>>

\* The access files of a project that discovery reads and validation lets
\* through, as they are when it plans.
Discovered == {files \in SUBSET Items : Resolvable(files)}

ApplyPlan ==
    \E files \in Discovered :
        /\ role' = Roled(files, role)
        /\ perm' = Applied(files, perm)
        /\ UNCHANGED <<users, held, member, setup>>
        /\ Change

Retire ==
    \E k \in Roles : /\ perm[k] # None
                     /\ perm' = [perm EXCEPT ![k] = None]
                     /\ UNCHANGED <<users, role, held, member, setup>>
                     /\ Change

SwitchRole ==
    \E k \in Roles : /\ role[k] # None
                     /\ role' = [role EXCEPT ![k] = ~@]
                     /\ UNCHANGED <<users, held, perm, member, setup>>
                     /\ Change

Assign ==
    \E u \in Users, k \in Roles :
        /\ role[k] # None
        /\ held' = [held EXCEPT ![u] = IF k \in @ THEN @ \ {k} ELSE @ \cup {k}]
        /\ UNCHANGED <<users, role, perm, member, setup>>
        /\ Change

Join ==
    \E u \in Users, t \in Teams :
        /\ member' = (IF <<u, t>> \in member THEN member \ {<<u, t>>} ELSE member \cup {<<u, t>>})
        /\ UNCHANGED <<users, role, held, perm, setup>>
        /\ Change

SwitchUser ==
    \E u \in Users : /\ users' = [users EXCEPT ![u].on = ~@]
                     /\ UNCHANGED <<role, held, perm, member, setup>>
                     /\ Change

\* dygo setup: two statements; SaveAdmin creates or promotes, and enables.
SetupCheck ==
    \E u \in Users : /\ setup = None
                     /\ \A x \in Users : ~users[x].admin
                     /\ setup' = u
                     /\ UNCHANGED policy
                     /\ Change

SetupSave ==
    /\ setup # None
    /\ users' = [users EXCEPT ![setup] = [on |-> TRUE, admin |-> TRUE]]
    /\ setup' = None
    /\ UNCHANGED <<role, held, perm, member, session, row, changes>>
    /\ Remember

------------------------------------------------------------------------------
(* Sessions.                                                                 *)

Hold(t, s) == /\ session' = [session EXCEPT ![t] = s]
              /\ UNCHANGED <<policy, row, req, setup, changes>>

\* The user is read, then the session row written; a user disabled in between
\* has the session a user disabled right after has, so one step stands for both.
Login(t) == \E u \in Users : /\ session[t] = None
                             /\ users[u].on
                             /\ Hold(t, u)

\* Revoked by a logout, or past its expiry: no later statement finds it active.
Close(t) == /\ session[t] # None
            /\ Hold(t, None)

------------------------------------------------------------------------------
(* One request.                                                              *)

Go(q, r)   == req' = [req EXCEPT ![q] = r]
Quiet      == UNCHANGED <<policy, session, row, setup, changes>>
Store(i, r) == /\ row' = [row EXCEPT ![i] = r]
               /\ UNCHANGED <<policy, session, setup, changes>>

\* The submitted Fields: a team, the note, or both.
Input == [{"team"} -> Teams] \cup [{"note"} -> {"given"}]
           \cup {x \in [Fields -> Teams \cup {"given"}] : x["team"] \in Teams /\ x["note"] = "given"}

NoInput == [f \in {} |-> "given"]

\* Mutant: a create need not carry the required team.
BodiesOptional(op) == IF op \in {"update", "create"} THEN Input ELSE {NoInput}

Bodies(op) == CASE op = "update" -> Input
                [] op = "create" -> {x \in Input : "team" \in DOMAIN x}
                [] OTHER -> {NoInput}

\* Middleware: an active session of an enabled user; the user is kept as read.
CurrentUser(q, t) ==
    /\ ~Active(q)
    /\ session[t] # None
    /\ users[session[t]].on
    /\ \E op \in Ops, i \in Ids :
         Go(q, [at |-> "known", user |-> session[t], admin |-> users[session[t]].admin,
                op |-> op, id |-> i, input |-> NoInput, scope |-> None, then |-> {},
                had |-> {Grants(session[t])}])
    /\ Quiet

Refuse(q) == /\ Active(q)
             /\ Go(q, Idle)
             /\ Quiet

\* One query; an administrator is the one the middleware read.
Checked(q) == req[q].admin \/ \E g \in Held(req[q].user) : req[q].op \in g.ops

Authorize(q) ==
    /\ req[q].at = "known"
    /\ Checked(q)
    /\ Go(q, [req[q] EXCEPT !.at = "authorized"])
    /\ Quiet

\* The body is decoded, then the grants are read and compiled.
StoreFor(q) ==
    /\ req[q].at = "authorized"
    /\ \E x \in Bodies(req[q].op) : Go(q, [req[q] EXCEPT
                !.at = "scoped",
                !.input = x,
                !.scope = Compiled(IF req[q].admin THEN {Everything} ELSE Held(req[q].user), req[q].op)])
    /\ Quiet

\* FOR UPDATE: the row a request in flight has loaded is locked until it ends.
Locked(i) == \E q \in Reqs : req[q].at = "loaded" /\ req[q].id = i

InScope(q, r) == r # None /\ Some(req[q].scope.where, req[q].user, r)

MayWrite(q, r) ==
    \A f \in DOMAIN req[q].input : Some(req[q].scope.write[f], req[q].user, r)

\* Fields a row is returned with: a hidden one is dropped from the result.
Shown(q, r) == {f \in Fields : Some(req[q].scope.read[f], req[q].user, r)}

Reading(q) == req[q].at = "scoped" /\ req[q].op = "read" /\ InScope(q, row[req[q].id])

Read(q) == /\ Reading(q)
           /\ Go(q, Idle)
           /\ Quiet

Load(q) ==
    /\ req[q].at = "scoped" /\ req[q].op \in {"update", "delete"}
    /\ ~Locked(req[q].id)
    /\ InScope(q, row[req[q].id])
    /\ Go(q, [req[q] EXCEPT !.at = "loaded"])
    /\ Quiet

Changed(r, x) == [owner |-> r.owner,
                  team  |-> IF "team" \in DOMAIN x THEN x["team"] ELSE r.team,
                  note  |-> IF "note" \in DOMAIN x THEN x["note"] ELSE r.note]

\* Mutant: the scope is checked when the row is loaded, not by the write.
UpdateTrustsLoad(q) ==
    /\ req[q].at = "loaded" /\ req[q].op = "update"
    /\ LET r == row[req[q].id]
           n == Changed(r, req[q].input) IN
       /\ MayWrite(q, r)
       /\ Store(req[q].id, n)
    /\ Go(q, Idle)

\* One statement: the stored row, the submitted Fields and the resulting row.
Update(q) ==
    /\ req[q].at = "loaded" /\ req[q].op = "update"
    /\ LET r == row[req[q].id]
           n == Changed(r, req[q].input) IN
       /\ InScope(q, r)
       /\ MayWrite(q, r)
       /\ InScope(q, n)
       /\ Store(req[q].id, n)
    /\ Go(q, Idle)

Delete(q) ==
    /\ req[q].at = "loaded" /\ req[q].op = "delete"
    /\ InScope(q, row[req[q].id])
    /\ Store(req[q].id, None)
    /\ Go(q, Idle)

Proposed(q) == Changed([owner |-> req[q].user, team |-> None, note |-> "default"], req[q].input)

ValidateProposed(q) ==
    /\ req[q].at = "scoped" /\ req[q].op = "create"
    /\ InScope(q, Proposed(q))
    /\ MayWrite(q, Proposed(q))
    /\ Go(q, [req[q] EXCEPT !.at = "proposed", !.then = member])
    /\ Quiet

\* The insert is unscoped; the row is read back under the scope before commit.
Insert(q) ==
    /\ req[q].at = "proposed"
    /\ row[req[q].id] = None
    /\ InScope(q, Proposed(q))
    /\ Store(req[q].id, Proposed(q))
    /\ Go(q, Idle)

------------------------------------------------------------------------------
Request(q) == \/ \E t \in Tokens : CurrentUser(q, t)
              \/ Refuse(q) \/ Authorize(q) \/ StoreFor(q) \/ Read(q) \/ Load(q)
              \/ Update(q) \/ Delete(q) \/ ValidateProposed(q) \/ Insert(q)

Sign(t) == Login(t) \/ Close(t)

Next == \/ \E q \in Reqs : Request(q)
        \/ \E t \in Tokens : Sign(t)
        \/ ApplyPlan \/ Retire \/ SwitchRole \/ Assign \/ Join
        \/ SwitchUser \/ SetupCheck \/ SetupSave

Spec == Init /\ [][Next]_vars
------------------------------------------------------------------------------
(* Rows, sessions, policies and requests stay well formed.                   *)
Row    == [owner : Users, team : Teams, note : Notes]
Predicates == [match : {"all", "any"}, conds : SUBSET {"owner", "member"}]
Scope  == [where : SUBSET Predicates, read : [Fields -> SUBSET Predicates],
           write : [Fields -> SUBSET Predicates]]
Working == [at : {"known", "authorized", "scoped", "loaded", "proposed"}, user : Users,
            admin : BOOLEAN, op : Ops, id : Ids, input : Input \cup {NoInput}, scope : Scope \cup {None},
            then : SUBSET (Users \X Teams), had : SUBSET SUBSET Rule]

TypeOK ==
    /\ users   \in [Users -> [on : BOOLEAN, admin : BOOLEAN]]
    /\ role    \in [Roles -> BOOLEAN \cup {None}]
    /\ held    \in [Users -> SUBSET Roles]
    /\ perm    \in [Roles -> Rule \cup {None}]
    /\ member  \subseteq Users \X Teams
    /\ session \in [Tokens -> Users \cup {None}]
    /\ row     \in [Ids -> Row \cup {None}]
    /\ \A q \in Reqs : req[q] \in {Idle} \cup Working
    /\ setup   \in Users \cup {None}
    /\ changes \in 0 .. Changes

(* What a set of grants allows, grant by grant.  The scope forgets which     *)
(* grant a predicate came from; this does not.                               *)
On(gs, op, u, r) == {g \in gs : op \in g.ops /\ r # None /\ Holds(g, u, r)}
AtProposal(g, m, u, r) ==
    LET meets(c) == IF c = "owner" THEN r.owner = u ELSE <<u, r.team>> \in m IN
    IF g.match = "all" THEN \A c \in g.conds : meets(c) ELSE \E c \in g.conds : meets(c)

Allowed(gs, r, pre, post, shown) ==
    CASE r.op = "read"   -> /\ On(gs, "read", r.user, pre) # {}
                            /\ \A f \in shown : \E g \in On(gs, "read", r.user, pre) : f \notin g.hide
      [] r.op = "delete" -> On(gs, "delete", r.user, pre) # {}
      [] r.op = "update" -> /\ On(gs, "update", r.user, post) # {}
                            /\ On(gs, "update", r.user, pre) # {}
                            /\ \A f \in DOMAIN r.input :
                                 \E g \in On(gs, "update", r.user, pre) : f \notin g.hide \cup g.deny
      [] r.op = "create" -> /\ On(gs, "create", r.user, post) # {}
                            /\ \A f \in DOMAIN r.input : \E g \in gs :
                                 /\ "create" \in g.ops
                                 /\ AtProposal(g, r.then, r.user, post)
                                 /\ f \notin g.hide \cup g.deny

(* A request that reads or writes a row was allowed to by the grants its     *)
(* actor held at one moment of the request, applied to the row and the       *)
(* assignments as they are at the statement (a created row's Fields: at the  *)
(* proposal), before and after the write; whatever was revoked, disabled or  *)
(* reassigned while it ran (record_scope.go, scope.go, records.go:639).      *)
AccessIsGranted ==
    [][\A q \in Reqs :
         LET r == req[q] IN
         /\ Reading(q) =>
              \E gs \in r.had : Allowed(gs, r, row[r.id], None, Shown(q, row[r.id]))
         /\ (Active(q) /\ req'[q] = Idle /\ row' # row) =>
              \E gs \in r.had : Allowed(gs, r, row[r.id], row'[r.id], {})]_vars
=============================================================================
