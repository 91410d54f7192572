\* One node, two telemetry handlers, three posts; a page read in between.
CONSTANTS
    Node = "n1"
    Handlers = {h1, h2}
    OtherPosts <- OtherBodies
    Retention = 3
    Stale = 1
    EventLimit = 2
    TimelineLimit = 2
    Text = {"sess-demo", "a", "b"}
    EdgeTimes = {2}
    MaxTime = 3
    MaxDelay = 1
    MaxPosts = 3
    WritesFail = TRUE
SYMMETRY Swaps
SPECIFICATION Spec
INVARIANTS LastSeenIsRecent BadBodiesLeaveNothing WindowAscends ListsReachHeader BadgeAgrees TimelinesRight BaselineIsOrderFree
CHECK_DEADLOCK FALSE
