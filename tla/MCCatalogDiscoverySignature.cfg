\* MCCatalogDiscoverySignature.cfg
SPECIFICATION Spec
CONSTANTS
    Source = {"mysql"}
    Schema = {a, b}
    a = a
    b = b
    NQueries = 2
    MaxDdl = 2
    Reuse = {"mysql"}
INVARIANTS
    AcceptedIsInstant
