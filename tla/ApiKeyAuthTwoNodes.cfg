SPECIFICATION Spec
CONSTANTS
    k1 = k1  k2 = k2  n1 = n1  n2 = n2  u1 = u1  c1 = c1  c2 = c2
    Keys = {k1}
    Users = {u1}
    OwnerOf <- OneOwner
    Nodes = {n1, n2}
    Calls = {c1, c2}
    Ttl = 1
    CallTime = 1
    MaxTime = 5
SYMMETRY Symmetry
INVARIANTS NoFalseRefusal RevocationBounded GrantLossImmediate
