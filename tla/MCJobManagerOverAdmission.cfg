SPECIFICATION Spec
CONSTANTS
    j1 = j1
    j2 = j2
    j3 = j3
    j4 = j4
    Jobs = {j1, j2, j3, j4}
    Polled = {}
    Workers = 2
    QueueCapacity = 1
    MaxRecords = 4
    Retention = 1
    MaxClock = 0
    ThreadStartMayFail = TRUE
SYMMETRY JobSymmetry
INVARIANTS
    AdmissionBounded
