\* Every graph of at most three edges over three nodes.
SPECIFICATION Spec
CONSTANTS
    s = s
    u = u
    v = v
    Node = {s, u, v}
    Start = s
    EdgeType = {"TABLE_HAS_COLUMN", "FK_TO_COLUMN"}
    MaxEdges = 3
    MaxDepth = 2
    MaxLimit = 2
    Unbounded = Unbounded
SYMMETRY Interchangeable
INVARIANTS
    TraversalTypeOK
    PathsAreSimple
    DepthIsDistance
    CompleteUnlessTruncated
    LimitHolds
    EvidenceBeforeOwnership
