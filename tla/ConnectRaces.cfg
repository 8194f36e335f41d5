SPECIFICATION Spec
CONSTANTS
    a1 = a1  a2 = a2  u1 = u1  u2 = u2  r1 = r1  r2 = r2
    k1 = k1  k2 = k2  c1 = c1  c2 = c2  p1 = p1  p2 = p2
    Clients = {a1}
    Users = {u1, u2}
    Requests = {r1}
    Keys = {k1, k2}
    Calls = {c1, c2}
    Purgers = {p1}
    PendingTtl = 1
    CodeTtl = 1
    MaxTime = 2
    None = None
SYMMETRY Symmetry
INVARIANTS TypeOK OneDelivery KeyOfItsOwner
PROPERTIES ImplementsContract
