SPECIFICATION FairSpec
CONSTANTS
    i1 = i1
    i2 = i2
    e1 = e1
    Instances = {i1}
    Events = {e1, e2}
    Origin <- OneOrigin
    ReportCapacity = 1
    Concurrency = 1
    Attempts = 2
    WriteCapacity = 1
    BatchSize = 2
    MaxLogs = 1
    Unknown = Unknown
    MaxRestarts = 1
    MaxBreaks = 1
PROPERTIES ReportsEnd
CHECK_DEADLOCK FALSE
