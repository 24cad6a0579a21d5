SPECIFICATION CachedSpec
CONSTANTS
    S = S
    L = L
    k1 = k1
    shop = shop
    Key = {k1}
    Object = {1, 2}
    Declared <- MCDeclared
    NoOne = NoOne
    MaxClock = 2
    Alias = {shop}
    AliasOf <- MCAliasOf
    Catalog = {S, L}
    NodesOf <- MCNodesOf
    EdgesOf <- MCEdgesOf
    Indexer = {i1, i2}
    Absent = Absent
    Reader = {r1}
    Request <- MCRequest
    MAX_OBJECT_PAGE_LIMIT = 2
    MAX_RELATIONSHIP_LIMIT = 2
INVARIANTS
    CheckedGate
    WholeGenerations
PROPERTIES
    ImplementsReaders
    SnapshotNeverVanishes
    NewerCacheUntouched
