\* One node with two jobs in its queue, and a crash: what LeaseJobs takes
\* from the queue and in which order.
CONSTANTS
    n1 = n1  n2 = n2  j1 = j1  j2 = j2  k1 = k1  k2 = k2
    gpu = gpu
    Nodes = {n1}
    Jobs = {j1, j2}
    IdemKeys = {k1, k2}
    Capabilities = {gpu}
    Requests <- TwoJobs
    Statuses <- FullAndLost
    QueueLimit = 2
    MaxCapacity = 2
    MaxInFlight = 1
    MaxClock = 1
    MaxCrashes = 1
    MaxSyncFailures = 0
    WritesFail = FALSE
SPECIFICATION FairSpec
INVARIANTS NoOvertaking OneJobPerKey
PROPERTIES ImplementsLifecycle QueuedLeaves
CHECK_DEADLOCK FALSE
