SPECIFICATION ToolsSpec
CONSTANTS
    SnapshotKeys <- MCSnapshotKeys
    DiffAliasOf <- MCDiffAliasOf
    Generations <- MCGenerations
    Missing = Missing
    EdgeTypes <- MCEdgeTypes
    KeyTexts = {2}
    MAX_RESULT_LIMIT = 4
    AskedLimits = {0, 1, 5}
    MaxReplacements = 2
    NoBound = NoBound
    Width = 3
    MAX_PAGE_LIMIT = 3
    KeyPart <- MCKeyPart
    Place <- MCPlace
    KindText <- MCKindText
INVARIANTS
    AliasChangesAreNoSchemaChanges
CHECK_DEADLOCK FALSE
