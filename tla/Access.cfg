SPECIFICATION Spec
CONSTANTS
    core = core
    shop = shop
    Apps = {core, shop}
    owners = owners
    officers = officers
    t1 = t1
    Users = {u1, u2}
    Roles = {owners, officers}
    Teams = {t1, t2}
    Tokens = {k1}
    Reqs = {q1, q2}
    Ids = {i1}
    Items <- MCItems
    Joined <- MCJoined
    Shipped <- MCShipped
    Assigned <- MCAssigned
    Changes = 1
    None = None
SYMMETRY Interchangeable
INVARIANT TypeOK
PROPERTY AccessIsGranted
