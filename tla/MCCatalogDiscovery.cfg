\* MCCatalogDiscovery.cfg
SPECIFICATION Spec
CONSTANTS
    Source = {"sqlite", "ddl-sqlite", "postgres", "yugabytedb", "mysql", "mariadb", "sqlserver", "oracle", "odbc"}
    Schema = {a, b}
    a = a
    b = b
    NQueries = 2
    MaxDdl = 2
    Reuse = {"sqlite", "postgres", "yugabytedb", "oracle"}
INVARIANTS
    DiscoveryTypeOK
    ScopeSurvivesDdl
    AcceptedIsInstant
    EarlyCancellationFails
    CompleteIsRequestedProduct
    FailuresNameTheirCause
