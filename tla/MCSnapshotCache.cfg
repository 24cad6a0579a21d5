SPECIFICATION FairSpec
CONSTANTS
    A = A
    B = B
    D = D
    o1 = o1
    o2 = o2
    Key = {k1, k2}
    Object = {o1, o2}
    Catalog = {A, B, D}
    NodesOf <- MCNodesOf
    EdgesOf <- MCEdgesOf
    Declared <- MCDeclared
    Indexer = {i1, i2}
    NoOne = NoOne
    Absent = Absent
    MaxClock = 2
INVARIANTS
    TypeOK
    WholeGenerations
    CompleteMeansReconciled
    OneWriter
PROPERTIES
    SnapshotNeverVanishes
    NewerCacheUntouched
    ImplementsAtomicCache
    EveryRunEnds
    LockReleased
CHECK_DEADLOCK FALSE
