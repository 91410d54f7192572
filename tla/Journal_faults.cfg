\* Failed and torn writes, failed fsyncs, kills and power losses.
CONSTANTS
    Records = {r1, r2, r3, r4}
    Oversize = {}
    TornWrites = TRUE
    MaxFailures = 2
    MaxCrashes = 3
SPECIFICATION Spec
SYMMETRY Sym
INVARIANTS UngluedSurvive BoundedLoss
CHECK_DEADLOCK FALSE
