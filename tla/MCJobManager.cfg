SPECIFICATION Spec
CONSTANTS
    j1 = j1
    j2 = j2
    j3 = j3
    Jobs = {j1, j2, j3}
    Polled = {j1}
    Workers = 1
    QueueCapacity = 1
    MaxRecords = 2
    Retention = 1
    MaxClock = 2
    ThreadStartMayFail = FALSE
SYMMETRY JobSymmetry
INVARIANTS
    PermitsAccounted
    AdmissionBounded
    RecordFollowsWork
    StagingOwned
    MetricsAddUp
    ClosedIsDrained
PROPERTIES
    RetentionKept
    ObservedForward
    ExpiredNotShown
    ImplementsService
