SPECIFICATION Spec
CONSTANTS
    None = none
    l1 = l1
    l2 = l2
    slug1 = slug1
    Draws = {d1, d2}
    Labels = {l1, l2}
    Slugs = {slug1}
    SlugOf <- SlugOfDef
    Calls = {c1, c2}
    Admins = {a1}
    Requests <- RequestsDef
    Sessions = {s1, s2}
    MaxAttempts = 1
    MaxAsked = 1
INVARIANTS CountedCallsBounded CredentialsAreOwn
PROPERTIES StreamingIsKept FollowsLifecycle
SYMMETRY Symmetry
CHECK_DEADLOCK FALSE
