\* Three requests, two starts, a failed fsync, writes that fail.
CONSTANTS
    r1 = r1
    r2 = r2
    r3 = r3
    Requests = {r1, r2, r3}
    Size <- MCSize
    Nobody = Nobody
    MaxStarts = 2
    MaxSyncFailures = 1
    WritesFail = TRUE
SPECIFICATION FairSpec
INVARIANTS TypeOK AnsweredIsLogged CleanExit
PROPERTIES StopEnds
CHECK_DEADLOCK FALSE
