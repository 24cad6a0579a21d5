SPECIFICATION AdaptersSpec
CONSTANTS
    WellFormed <- MCWellFormed
    Target <- MCTarget
    MaxFaults = 2
INVARIANTS
    AdaptersTypeOK
    CertifiedEdgesHaveNodes
    OnlyUnprojectedDependenciesFail
    StoredIsDiscovered
    CountsAgree
    ReferencesAreStored
    LostRowsShiftNothing
    PlacementIsComplete
    StoredUnlessUnsupported
