SPECIFICATION Spec
CONSTANTS
    n1 = n1  n2 = n2
    Nodes = {n1, n2}
    Writers = {n1}
    Newer = {n1}
    Resetting = {n1}
    TriggerRows = {0, 1}
    BatchSize = 2
    MaxSeq = 2
    MaxQueue = 1
    None = None
INVARIANTS AcknowledgedOnce PassedMeansSent
PROPERTIES ImplementsContract
