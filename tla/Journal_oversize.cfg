\* A record that encodes to a line longer than the replay buffer.
CONSTANTS
    Records = {r1, r2}
    Oversize = {r2}
    TornWrites = FALSE
    MaxFailures = 1
    MaxCrashes = 1
SPECIFICATION Spec
INVARIANTS LogReopens
CHECK_DEADLOCK FALSE
