\* Writes that stop in the middle of a line, and the durability claim.
CONSTANTS
    Records = {r1, r2, r3, r4}
    Oversize = {}
    TornWrites = TRUE
    MaxFailures = 1
    MaxCrashes = 3
SPECIFICATION Spec
SYMMETRY Sym
INVARIANTS AckedSurvive
CHECK_DEADLOCK FALSE
