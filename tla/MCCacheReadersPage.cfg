SPECIFICATION ReaderSpec
CONSTANTS
    S = S
    L = L
    k1 = k1
    k2 = k2
    shop = shop
    Key = {k1, k2}
    Alias = {shop}
    AliasOf <- MCAliasOf
    Catalog = {S, L}
    NodesOf <- MCNodesOf
    EdgesOf <- MCEdgesOf
    Reconciled = {S, L}
    Stamp = {0}
    Indexer = {i1}
    Absent = Absent
    Reader = {r1}
    Request <- MCRequest
    MAX_OBJECT_PAGE_LIMIT = 2
    MAX_RELATIONSHIP_LIMIT = 2
INVARIANT
    NothingSilentlyOmitted
