SPECIFICATION ExecFairSpec
CONSTANTS
    Sockets = {s1}
    Froms = {0, 1, 2, 3, 4, 5, 6, 7, 8}
    StepCalls = {c1, c2}
    Total = 2
INVARIANTS CompletedMeansReported
PROPERTIES DataKept WholeRunsEnd
