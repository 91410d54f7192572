\* One edge, two goroutines, a rotation: lost, repeated and late posts,
\* writes that fail, failed fsyncs, and crashes.
CONSTANTS
    Nodes = {n1}
    Handlers = {h1, h2}
    Retention = 2
    MaxGen = 2
    MaxBytes = 2
    MaxRanges = 2
    MaxCrashes = 1
    MaxSyncFailures = 1
    WritesFail = TRUE
SPECIFICATION FairSpec
INVARIANTS AckIsHeld WindowIsSuffix
PROPERTIES ImplementsDelivery AllShipped
CHECK_DEADLOCK FALSE
