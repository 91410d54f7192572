\* One node, two jobs and a queue of one: crashes between and inside the
\* handlers' writes, and writes that fail.
CONSTANTS
    n1 = n1  n2 = n2  j1 = j1  j2 = j2  k1 = k1  k2 = k2
    gpu = gpu
    Nodes = {n1}
    Jobs = {j1, j2}
    IdemKeys = {k1, k2}
    Capabilities = {gpu}
    Requests <- TwoJobs
    Statuses <- FullAndOdd
    QueueLimit = 1
    MaxCapacity = 2
    MaxInFlight = 1
    MaxClock = 1
    MaxCrashes = 1
    MaxSyncFailures = 0
    WritesFail = TRUE
SPECIFICATION Spec
INVARIANTS TypeOK MemIsLog PendingBounded
PROPERTIES TerminalForever
CHECK_DEADLOCK FALSE
