------------------------------- MODULE Access -------------------------------
(***************************************************************************)
(* Operator accounts (internal/operators), their dashboard sessions        *)
(* (internal/center/session.go) and the requests that change accounts      *)
(* (internal/center/auth.go and operators.go).  A request is admitted, its *)
(* CSRF token is checked and its operator is looked up in separate steps,  *)
(* each reading the session anew; the account store is changed in memory   *)
(* first and then saved, and an error of the save does not undo it.        *)
(***************************************************************************)
EXTENDS Naturals, FiniteSets

CONSTANTS
    Users,          \* normalized user names
    Spellings,      \* what a form or a path may hold for a user name
    Normal,         \* normalizeUsername: the user a spelling stands for
    Bootstrap,      \* the operator the first start creates
    NoUser,         \* no session, and the empty name a lookup then returns
    NoAccount,
    Capabilities,   \* AllCapabilities
    Manage,         \* operators:manage
    Unknown,        \* a capability a form may name and the program does not
    Forms,          \* the sets of capabilities forms hold
    Handlers,       \* the goroutines that can serve operators at a time
    MaxSessions,    \* bound on logins
    MaxChanges,     \* bound on changes of accounts
    MaxCrashes,     \* bound on crashes of the center
    MaxFailures     \* bound on saves that fail

\* An account: its capabilities, and the changes that set its password and,
\* last, anything of it.
Accounts == [caps : SUBSET Capabilities, password : Nat, changed : Nat]

ASSUME AccessAssumption ==
    /\ Users \subseteq Spellings /\ Bootstrap \in Users /\ NoUser \notin Spellings
    /\ NoAccount \notin Accounts
    /\ Normal \in [Spellings -> Users] /\ \A u \in Users : Normal[u] = u
    /\ Manage \in Capabilities /\ Unknown \notin Capabilities
    /\ Forms \subseteq SUBSET (Capabilities \cup {Unknown})
    /\ MaxSessions \in Nat /\ MaxChanges \in Nat /\ MaxCrashes \in Nat /\ MaxFailures \in Nat

VARIABLES
    users,      \* Store.users
    disk,       \* operators.json
    sessions,   \* sessionStore.sessions: the user of each session token
    logins,     \* the session tokens made so far
    handler,    \* the request each goroutine serves
    changes,    \* the changes made so far: their number stands for their content
    acked,      \* each account's last change that was answered with success
    up, crashes, failures

store == <<users, disk, changes, acked>>
console == <<sessions, logins>>
faults == <<up, crashes, failures>>
vars == <<store, console, handler, faults>>

Tokens == 1 .. MaxSessions

Books == [Users -> Accounts \cup {NoAccount}]

-----------------------------------------------------------------------------
(* The account store *)

Exists(u) == users[u] # NoAccount

\* normalizeCapabilities: what the program does not know is dropped.
NormalizeCaps_All(caps) == caps   \* a mutant: unknown capabilities are kept
NormalizeCaps(caps) == caps \cap Capabilities

\* An account must be left with a capability.
CapsValid_AsGiven(caps) == caps # {}   \* a mutant: judged before unknown ones are dropped
CapsValid(caps) == NormalizeCaps(caps) # {}

\* load: an account saved without capabilities is an old one and gets all.
LoadedAccount(a) ==
    IF a # NoAccount /\ a.caps = {} THEN [a EXCEPT !.caps = Capabilities] ELSE a

Loaded(book) == [u \in Users |-> LoadedAccount(book[u])]

\* Open: the first operator is created when there is none.
Opened(book) ==
    IF \A u \in Users : book[u] = NoAccount
    THEN [Loaded(book) EXCEPT ![Bootstrap] =
             [caps |-> Capabilities, password |-> 0, changed |-> 0]]
    ELSE Loaded(book)

\* saveLocked writes the whole book, or fails and leaves the file as it is.
Saves(book, ok) ==
    /\ disk' = IF ok THEN book ELSE disk
    /\ ok \/ failures < MaxFailures
    /\ failures' = IF ok THEN failures ELSE failures + 1

\* What a request asks of the store, as a condition and a new account.
Allowed(r) ==
    LET u == Normal[r.target]
    IN  CASE r.op = "create" -> CapsValid(r.caps) /\ ~Exists(u)
          [] r.op = "update" -> CapsValid(r.caps) /\ Exists(u)
          [] r.op = "change" -> Exists(u) /\ users[u].password = r.password
          [] OTHER -> Exists(u)

Changed(r) ==
    LET u == Normal[r.target]
        n == changes + 1
    IN  [users EXCEPT ![u] =
            CASE r.op = "create" ->
                     [caps |-> NormalizeCaps(r.caps), password |-> n, changed |-> n]
              [] r.op = "update" -> [@ EXCEPT !.caps = NormalizeCaps(r.caps), !.changed = n]
              [] r.op \in {"reset", "change"} -> [@ EXCEPT !.password = n, !.changed = n]
              [] r.op = "profile" -> [@ EXCEPT !.changed = n]]

-----------------------------------------------------------------------------
(* Requests *)

\* POST /operators, POST /operators/{username} with and without "password",
\* POST /account, POST /account/password.
ManageOps == {"create", "update", "reset"}
OwnOps == {"profile", "change"}

\* How far a request is.
Stages == {"idle", "arrived", "admitted", "checked", "handled", "authenticated"}

Requests ==
    [stage : Stages, op : {"none"} \cup ManageOps \cup OwnOps, target : Spellings,
     caps : SUBSET (Capabilities \cup {Unknown}), password : Nat, token : Nat,
     owner : Users \cup {NoUser}, user : Users \cup {NoUser}]

Idle == [stage |-> "idle", op |-> "none", target |-> Bootstrap, caps |-> {},
         password |-> 0, token |-> 0, owner |-> NoUser, user |-> NoUser]

At(h, stage) == up /\ handler[h].stage = stage
GoTo(h, stage) == handler' = [handler EXCEPT ![h].stage = stage]
Answer(h) == handler' = [handler EXCEPT ![h] = Idle]

\* sessionStore.validate and csrf: the user of a live session.
UserOf(token) == IF token \in DOMAIN sessions THEN sessions[token] ELSE NoUser

\* A browser posts with the session it has.
Arrive(h, token) ==
    /\ At(h, "idle") /\ token \in DOMAIN sessions
    /\ \/ \E op \in {"create", "update"}, target \in Spellings, caps \in Forms :
             handler' = [handler EXCEPT ![h] =
                 [Idle EXCEPT !.stage = "arrived", !.op = op, !.target = target, !.caps = caps,
                              !.token = token, !.owner = sessions[token]]]
       \/ \E target \in Spellings :
             handler' = [handler EXCEPT ![h] =
                 [Idle EXCEPT !.stage = "arrived", !.op = "reset", !.target = target,
                              !.token = token, !.owner = sessions[token]]]
       \/ \E op \in OwnOps :
             handler' = [handler EXCEPT ![h] =
                 [Idle EXCEPT !.stage = "arrived", !.op = op, !.token = token,
                              !.password = users[sessions[token]].password,
                              !.owner = sessions[token]]]
    /\ UNCHANGED <<store, console, faults>>

\* requireAdmin and requireCapability.
Capable(h) ==
    LET user == UserOf(handler[h].token)
    IN  /\ user # NoUser
        /\ handler[h].op \in ManageOps => Exists(user) /\ Manage \in users[user].caps

Admit(h) ==
    /\ At(h, "arrived")
    /\ IF Capable(h) THEN GoTo(h, "admitted") ELSE Answer(h)
    /\ UNCHANGED <<store, console, faults>>

\* requireCSRF.
CheckCSRF(h) ==
    /\ At(h, "admitted")
    /\ IF UserOf(handler[h].token) # NoUser THEN GoTo(h, "checked") ELSE Answer(h)
    /\ UNCHANGED <<store, console, faults>>

\* handleOperatorUpdate: an operator must keep the capability to manage.  The
\* name in the path is compared as it is.
KeepsManage_Any(r, user) == TRUE   \* a mutant: the own account is as any other
KeepsManage(r, user) == r.op = "update" /\ r.target = user => Manage \in r.caps

\* The handler looks its user up and goes on, also without one.
Handle(h) ==
    /\ At(h, "checked")
    /\ LET user == UserOf(handler[h].token)
           r == handler[h]
       IN  IF r.op \in OwnOps
           THEN IF user = NoUser THEN Answer(h)
                ELSE handler' = [handler EXCEPT ![h].stage = "handled", ![h].user = user,
                                                ![h].target = user]
           ELSE IF ~KeepsManage(r, user) THEN Answer(h)
                ELSE handler' = [handler EXCEPT ![h].stage = "handled", ![h].user = user]
    /\ UNCHANGED <<store, console, faults>>

\* The store refuses.
Refuse(h) ==
    /\ At(h, "handled") /\ ~Allowed(handler[h])
    /\ Answer(h)
    /\ UNCHANGED <<store, console, faults>>

\* Memory is changed, then the book is saved: the answer is an error when that
\* fails, and the change stays.
SavedBook_Before(h) == users   \* a mutant: what was there before the change is saved
SavedBook(h) == Changed(handler[h])

Change(h) ==
    /\ At(h, "handled") /\ Allowed(handler[h]) /\ changes < MaxChanges
    /\ users' = Changed(handler[h])
    /\ changes' = changes + 1
    /\ \E ok \in BOOLEAN :
          /\ Saves(SavedBook(h), ok)
          /\ acked' = IF ok THEN [acked EXCEPT ![Normal[handler[h].target]] = changes + 1]
                      ELSE acked
    /\ Answer(h)
    /\ UNCHANGED <<console, up, crashes>>

-----------------------------------------------------------------------------
(* Logins and sessions *)

\* Authenticate records the login and saves the book, whatever comes of it.
Authenticate(h, u) ==
    /\ At(h, "idle") /\ Exists(u) /\ logins < MaxSessions
    /\ logins' = logins + 1
    /\ \E ok \in BOOLEAN : Saves(users, ok)
    /\ handler' = [handler EXCEPT ![h] = [Idle EXCEPT !.stage = "authenticated", !.user = u,
                                                     !.token = logins + 1]]
    /\ UNCHANGED <<users, changes, acked, sessions, up, crashes>>

CreateSession(h) ==
    /\ At(h, "authenticated")
    /\ sessions' = [t \in DOMAIN sessions \cup {handler[h].token} |->
                       IF t = handler[h].token THEN handler[h].user ELSE sessions[t]]
    /\ Answer(h)
    /\ UNCHANGED <<store, logins, faults>>

\* A session expires, or its operator logs out.
EndSession(token) ==
    /\ token \in DOMAIN sessions
    /\ sessions' = [t \in DOMAIN sessions \ {token} |-> sessions[t]]
    /\ UNCHANGED <<store, logins, handler, faults>>

-----------------------------------------------------------------------------
(* Crashes *)

NoSessions == [t \in {} |-> NoUser]
\* A mutant of SessionsLeft: sessions outlive the process.
SessionsLeft_All == sessions
SessionsLeft == NoSessions

Die ==
    /\ crashes < MaxCrashes
    /\ up' = FALSE
    /\ users' = [u \in Users |-> NoAccount]
    /\ sessions' = SessionsLeft
    /\ handler' = [h \in Handlers |-> Idle]
    /\ crashes' = crashes + 1

Crash ==
    /\ up /\ Die
    /\ UNCHANGED <<disk, changes, acked, logins, failures>>

\* The process dies when the file is renamed and nobody was answered.
KilledInChange(h) ==
    /\ At(h, "handled") /\ Allowed(handler[h]) /\ changes < MaxChanges
    /\ disk' = Changed(handler[h])
    /\ changes' = changes + 1
    /\ Die
    /\ UNCHANGED <<acked, logins, failures>>

\* Open, at a start or restart.
Open ==
    /\ ~up
    /\ up' = TRUE
    /\ users' = Opened(disk)
    /\ disk' = IF \A u \in Users : disk[u] = NoAccount THEN Opened(disk) ELSE disk
    /\ UNCHANGED <<changes, acked, console, handler, crashes, failures>>

-----------------------------------------------------------------------------
Init ==
    /\ disk = [u \in Users |-> NoAccount] /\ users = disk
    /\ sessions = NoSessions /\ logins = 0
    /\ handler = [h \in Handlers |-> Idle]
    /\ changes = 0 /\ acked = [u \in Users |-> 0]
    /\ up = FALSE /\ crashes = 0 /\ failures = 0

Next ==
    \/ \E h \in Handlers :
          \/ \E t \in Tokens : Arrive(h, t)
          \/ \E u \in Users : Authenticate(h, u)
          \/ Admit(h) \/ CheckCSRF(h) \/ Handle(h) \/ Refuse(h) \/ Change(h)
          \/ KilledInChange(h) \/ CreateSession(h)
    \/ \E t \in Tokens : EndSession(t)
    \/ Crash
    \/ Open

Spec == Init /\ [][Next]_vars

-----------------------------------------------------------------------------
(* Properties *)

\* The variables have the types the code gives them; no account holds a
\* capability the program does not know.
TypeOK ==
    /\ users \in Books /\ disk \in Books
    /\ DOMAIN sessions \subseteq Tokens /\ sessions \in [DOMAIN sessions -> Users]
    /\ logins \in 0 .. MaxSessions
    /\ handler \in [Handlers -> Requests]
    /\ changes \in 0 .. MaxChanges /\ acked \in [Users -> 0 .. MaxChanges]
    /\ up \in BOOLEAN /\ crashes \in 0 .. MaxCrashes /\ failures \in 0 .. MaxFailures

\* What an operator was told is done is on disk, however other requests, failed
\* saves and crashes interleave with it, or a later change of that account is.
AckedOnDisk ==
    \A u \in Users : acked[u] > 0 => disk[u] # NoAccount /\ disk[u].changed >= acked[u]

\* A restart gives nobody a capability: the rule that takes an account without
\* capabilities for an old one finds none.
ReloadGrantsNothing ==
    \A u \in Users : LoadedAccount(disk[u]) = disk[u] /\ LoadedAccount(users[u]) = users[u]

\* Every session is of an operator that exists, also of one whose creation was
\* never saved.
SessionsHaveOperators == \A t \in DOMAIN sessions : Exists(sessions[t])

\* An operator's own request takes the capability to manage operators from it
\* only when it spelled the own name differently, or when its session had ended
\* by the time the handler looked; all others lose it to somebody else.
Managers == {u \in Users : Exists(u) /\ Manage \in users[u].caps}

ManageIsTaken ==
    [][\A u \in Managers : up /\ up' /\ u \notin Managers' =>
          \E h \in Handlers :
              /\ At(h, "handled") /\ handler'[h] = Idle
              /\ handler[h].op = "update" /\ Normal[handler[h].target] = u
              /\ handler[h].owner = u => handler[h].target # u \/ handler[h].user = NoUser]_vars
=============================================================================
