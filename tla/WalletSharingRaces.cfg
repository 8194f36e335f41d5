SPECIFICATION Spec
CONSTANTS
    Users = {u1, u2, u3}
    Wallets = {w1}
    Grants = {g1, g2, g3}
    Keys = {k1}
    Calls = {c1, c2}
    Perms = {share, read}
    Share = share
    TrashWindow = 1
    MaxTime = 2
    MaxCalls = 4
    None = None
SYMMETRY Symmetry
INVARIANTS TypeOK NoAmplification KeysFollowGrants
PROPERTIES TrashWindowKept
CHECK_DEADLOCK FALSE
