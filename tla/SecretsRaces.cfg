SPECIFICATION Spec
CONSTANTS
    w1 = w1  w2 = w2  n1 = n1  n2 = n2  f1 = f1  raw = raw  t1 = t1
    rv = rv  v1 = v1  v2 = v2  none = None
    Types = {raw, t1, t2}
    Raw = raw
    Versions = {rv, v1, v2, v3}
    Schema0 <- Schema0Def
    Current0 <- Current0Def
    Edits = {e1, e2}
    None = None
    Wallets = {w1, w2}
    Ids = {1, 2, 3}
    Names = {n1, n2}
    Folders = {f1}
    Prefix <- PrefixDef
    Like <- LikeDef
    Scopes <- ScopesDef
    Secret0 <- Secret0Def
    Calls = {c1, c2}
    PageSize = 1
    MaxTime = 2
    MaxCalls = 2
INVARIANTS TypeOK LinksStayInWallet TypedSecretsReadable VersionsGrow UntouchedListedOnce
SYMMETRY Symmetry
CHECK_DEADLOCK FALSE
