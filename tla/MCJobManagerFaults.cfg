SPECIFICATION FairSpec
CONSTANTS
    j1 = j1
    j2 = j2
    Jobs = {j1, j2}
    Polled = {}
    Workers = 2
    QueueCapacity = 1
    MaxRecords = 2
    Retention = 1
    MaxClock = 2
    ThreadStartMayFail = TRUE
PROPERTIES
    ShutdownCompletes
    RecordsExpire
    ServicePromise
    StagingReclaimed
