------------------------------ MODULE MCAccess ------------------------------
(* Two users, two roles: one confined to its own rows, one to its teams.     *)
EXTENDS Access, TLC

CONSTANTS core, shop, owners, officers, t1

MCItems ==
    {[app |-> core, role |-> owners, override |-> FALSE,
      rule |-> [ops |-> Ops, match |-> "all", conds |-> {"owner"}, hide |-> {}, deny |-> {"note"}]],
     [app |-> core, role |-> officers, override |-> FALSE,
      rule |-> [ops |-> {"read", "create", "update"}, match |-> "any", conds |-> {"member"},
                hide |-> {}, deny |-> {}]],
     [app |-> shop, role |-> officers, override |-> TRUE,
      rule |-> [ops |-> {"read", "update"}, match |-> "all", conds |-> {"owner", "member"},
                hide |-> {"note"}, deny |-> {}]]}

MCShipped == {i \in MCItems : ~i.override}

MCAssigned == [u \in Users |-> Roles]

MCJoined == Users \X {t1}

\* An export of live permissions, edited in the database or not, is written
\* once; when the files it leaves resolve, a migration grants what was live, but
\* for a role that an override of another app decides.
ASSUME ExportKeepsGrants ==
    \A files \in Discovered, live \in [Roles -> {i.rule : i \in MCItems} \cup {None}], a \in Apps :
        LET new == Exported(files, live, a) IN
        /\ Exported(new, live, a) = new
        /\ Resolvable(new) =>
             \A k \in LiveRoles(live) :
                 \/ Applied(new, live)[k] = live[k]
                 \/ \E i \in files : i.app # a /\ i.role = k /\ i.override

Interchangeable == Permutations(Users) \cup Permutations(Reqs)
=============================================================================
