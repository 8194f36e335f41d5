SPECIFICATION Spec
CONSTANTS
    a = a  b = b  u1 = u1  u2 = u2  u3 = u3  w1 = w1  w2 = w2  g1 = g1  g2 = g2  g3 = g3  k1 = k1  k2 = k2  s1 = s1  s2 = s2  c1 = c1  c2 = c2
    None = None
    Subs = {a, b}
    Ids = {u1, u2, u3}
    Sessions = {s1, s2}
    Wallets = {w1, w2}
    Grants = {g1, g2, g3}
    Keys = {k1, k2}
    Calls = {c1, c2}
    MaxAttempts = 2
    Ttl = 1
    User0 <- User0Def
    Wallet0 <- Wallet0Def
    Grant0 <- Grant0Def
    Key0 <- Key0Def
    MaxTime = 2
    MaxCalls = 4
INVARIANTS TypeOK RecoveryKeepsKeys ConsumedMeansDone OrphanWalletsAreLate MailIsTraced
SYMMETRY Symmetry
CHECK_DEADLOCK FALSE
