CONSTANTS
    p1 = p1
    p2 = p2
    t1 = t1
    t2 = t2
    Partitions = {p1}
    LogEnd = 2
    Threads = {t1, t2}
    QueueCap = 1
    MaxRebalances = 0
    MaxCrashes = 0
SPECIFICATION Spec
SYMMETRY Symmetry
INVARIANTS ConsumedBeforeCommit
