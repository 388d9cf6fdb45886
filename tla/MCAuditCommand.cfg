SPECIFICATION FairSpec
CONSTANTS
    Requested = {0, 1, 2}
    Cpus = {1, 4}
    MemoryBudgets = {0, 2}
    MaximumWorkers = 8
    ReserveCpus = 1
    WorkersMayDie = TRUE
    None = None
    Datasets <- MCDatasets
    Requests <- MCRequests
    MaxDepth = 3
INVARIANTS
    ResultInOrder
    ExitCodeHonest
PROPERTIES
    
    CommandEnds
\* The command exits.
CHECK_DEADLOCK FALSE
