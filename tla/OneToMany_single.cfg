CONSTANTS
    p1 = p1
    p2 = p2
    t1 = t1
    t2 = t2
    Partitions = {p1}
    LogEnd = 3
    Threads = {t1}
    QueueCap = 6
    MaxRebalances = 1
    MaxCrashes = 1
SPECIFICATION Spec
SYMMETRY Symmetry
INVARIANTS ConsumedBeforeCommit
PROPERTIES CommitNeverRegresses
