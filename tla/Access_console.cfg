\* Two operators, two requests at a time, a failed save and a crash.
CONSTANTS
    admin = admin
    bob = bob
    upperAdmin = upperAdmin
    Users = {admin, bob}
    Spellings = {admin, bob}
    Normal <- MCNormal
    Bootstrap = admin
    NoUser = NoUser
    NoAccount = NoAccount
    Capabilities = {manage, view}
    Manage = manage
    Unknown = unknown
    Forms = {{view, unknown}, {unknown}}
    Handlers = {h1, h2}
    MaxSessions = 2
    MaxChanges = 2
    MaxCrashes = 1
    MaxFailures = 1
SPECIFICATION Spec
SYMMETRY Sym
INVARIANTS TypeOK AckedOnDisk ReloadGrantsNothing SessionsHaveOperators
PROPERTIES ManageIsTaken
CHECK_DEADLOCK FALSE
