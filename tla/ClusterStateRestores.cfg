SPECIFICATION ClusterFairSpec
CONSTANTS
    Nodes = {n1}
    Tasks = {t1}
    Loop = loop
    Admins = {a1}
    Backups = {b1}
    MaxWrites = 1
    MaxRestores = 2
INVARIANTS MirrorsCommitted StaleNodeRefuses
PROPERTIES Converges
CHECK_DEADLOCK FALSE
