\* MCCatalogDiscoveryScope.cfg
SPECIFICATION Spec
CONSTANTS
    Source = {"sqlserver"}
    Schema = {a, b}
    a = a
    b = b
    NQueries = 1
    MaxDdl = 1
    Reuse = {}
INVARIANTS
    RequestedScopeCovered
