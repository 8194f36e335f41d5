SPECIFICATION Spec
CONSTANTS
    s1 = s1  s2 = s2  m1 = m1  t1 = t1  g1 = g1
    Schedules = {s1}
    Crons = {1}
    Threshold = 0
    RunCalls = {m1}
    Changes = {t1}
    Triggers = {g1}
    PoolSize = 2
    MaxEdits = 1
    Nobody = Nobody
    MaxTime = 2
    MaxRestarts = 1
SYMMETRY Symmetry
INVARIANTS TypeOK LockHeldAtWork SlotRunOnce
