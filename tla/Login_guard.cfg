\* Two sources, two logins at a time, a table full with two keys; the lockout is
\* as long as the window, as it is by default.
CONSTANTS
    Keys = {k1, k2}
    Handlers = {h1, h2}
    MaxFails = 2
    Window = 4
    Lockout = 4
    MaxKeys = 2
    MaxDelay = 1
    MaxTime = 6
SPECIFICATION Spec
SYMMETRY Goroutines
INVARIANTS TypeOK LockEarned GuessesBounded
PROPERTIES RecentKept
