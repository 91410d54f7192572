\* Two nodes with a job each: fsyncs that fail although the record is in the
\* log, and crashes.
CONSTANTS
    n1 = n1  n2 = n2  j1 = j1  j2 = j2  k1 = k1  k2 = k2
    gpu = gpu
    Nodes = {n1, n2}
    Jobs = {j1, j2}
    IdemKeys = {k1, k2}
    Capabilities = {gpu}
    Requests <- JobPerNode
    Statuses <- Plain
    QueueLimit = 1
    MaxCapacity = 1
    MaxInFlight = 1
    MaxClock = 0
    MaxCrashes = 1
    MaxSyncFailures = 1
    WritesFail = FALSE
SPECIFICATION Spec
INVARIANTS HandedOnce AcceptedKept
CHECK_DEADLOCK FALSE
