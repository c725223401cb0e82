SPECIFICATION Spec
CONSTANTS
    server = server
    script = script
    c1 = c1
    c2 = c2
    Workers <- TwoWorkers
    Configs <- MCConfigs
    MaxEntries = 5
SYMMETRY Symmetric
INVARIANTS
    RowMatchesHistory
    RecreatedAfterDelete
    HistoryIsChained
    RollbacksRestore
    VersionsNameEntries
    AnsweredIsCommitted
PROPERTY
    ChangesAreRecorded
