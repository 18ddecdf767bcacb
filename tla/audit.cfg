SPECIFICATION Spec
CONSTANTS
    i1 = i1
    i2 = i2
    e1 = e1
    Instances = {i1, i2}
    Events = {e1, e2, e3}
    Origin <- TwoOrigins
    ReportCapacity = 1
    Concurrency = 2
    Attempts = 2
    WriteCapacity = 2
    BatchSize = 2
    MaxLogs = 1
    Unknown = Unknown
    MaxRestarts = 1
    MaxBreaks = 1
SYMMETRY Symmetry
INVARIANTS TypeOK CachedCountExact LogsAreNewest StoredIsKept LogsEndWithInstance
CHECK_DEADLOCK FALSE
