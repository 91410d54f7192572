---------------------------- MODULE AccessProofs ----------------------------
(***************************************************************************)
(* Theorems about Access for any number of operators and requests.         *)
(***************************************************************************)
EXTENDS Access, TLAPS

-----------------------------------------------------------------------------
(* The inductive invariant *)

\* A request that has a stage has an operation.
Working ==
    \A h \in Handlers :
        handler[h].stage \in {"arrived", "admitted", "checked", "handled"} =>
            handler[h].op # "none"

\* A login that gets a session is of an operator that exists.
LoginsHaveOperators ==
    \A h \in Handlers :
        handler[h].stage = "authenticated" =>
            /\ handler[h].user \in Users /\ Exists(handler[h].user)
            /\ handler[h].token \in Tokens

\* A center that is down has nothing in memory.
Down == ~up => \A u \in Users : users[u] = NoAccount

\* Every account of a book has a capability.
Capped(book) == \A u \in Users : book[u] # NoAccount => book[u].caps # {}

\* A book has every change that was answered with success.
Holds(book) ==
    \A u \in Users : acked[u] > 0 => book[u] # NoAccount /\ book[u].changed >= acked[u]

\* No account's last answered change is later than the last change.
AckedMade == \A u \in Users : acked[u] <= changes

Inv ==
    /\ TypeOK /\ Working /\ Down
    /\ SessionsHaveOperators /\ LoginsHaveOperators
    /\ Capped(users) /\ Capped(disk)
    /\ AckedMade /\ Holds(disk) /\ (up => Holds(users))

-----------------------------------------------------------------------------
(* Books *)

\* A book that follows the one in memory by the next change, of account u.
Follows(book, u) ==
    /\ book \in Books
    /\ \A v \in Users \ {u} : book[v] = users[v]
    /\ book[u] \in Accounts /\ book[u].changed = changes + 1 /\ book[u].caps # {}

LEMMA ChangedFollows ==
  ASSUME TypeOK, Working, Capped(users), NEW h \in Handlers,
         handler[h].stage = "handled", Allowed(handler[h])
  PROVE  /\ Normal[handler[h].target] \in Users
         /\ Follows(Changed(handler[h]), Normal[handler[h].target])
<1> DEFINE r == handler[h]
           u == Normal[r.target]
           n == changes + 1
<1>1. r \in Requests /\ r.op # "none" /\ r.op \in ManageOps \cup OwnOps
  BY DEF TypeOK, Working, Requests
<1>2. u \in Users /\ n \in Nat /\ users \in [Users -> Accounts \cup {NoAccount}]
  BY <1>1, AccessAssumption DEF TypeOK, Requests, Books
<1>3. CASE r.op = "create"
  <2>1. Changed(r) = [users EXCEPT ![u] =
                        [caps |-> NormalizeCaps(r.caps), password |-> n, changed |-> n]]
    BY <1>3 DEF Changed
  <2>2. NormalizeCaps(r.caps) # {}
    BY <1>3 DEF Allowed, CapsValid
  <2>3. [caps |-> NormalizeCaps(r.caps), password |-> n, changed |-> n] \in Accounts
    BY <1>2 DEF Accounts, NormalizeCaps
  <2> QED
    BY <1>2, <2>1, <2>2, <2>3 DEF Follows, Books
<1>4. CASE r.op # "create"
  <2>1. users[u] \in Accounts /\ users[u].caps # {}
    BY <1>1, <1>2, <1>4 DEF Allowed, Exists, Capped, ManageOps, OwnOps
  <2>2. CASE r.op = "update"
    <3>1. Changed(r) = [users EXCEPT ![u] =
                          [users[u] EXCEPT !.caps = NormalizeCaps(r.caps), !.changed = n]]
      BY <2>2, <1>2 DEF Changed
    <3>2. NormalizeCaps(r.caps) # {}
      BY <2>2 DEF Allowed, CapsValid
    <3>3. /\ [users[u] EXCEPT !.caps = NormalizeCaps(r.caps), !.changed = n] \in Accounts
          /\ [users[u] EXCEPT !.caps = NormalizeCaps(r.caps), !.changed = n].changed = n
          /\ [users[u] EXCEPT !.caps = NormalizeCaps(r.caps), !.changed = n].caps
                = NormalizeCaps(r.caps)
      BY <1>2, <2>1 DEF Accounts, NormalizeCaps
    <3> QED
      BY <1>2, <3>1, <3>2, <3>3 DEF Follows, Books
  <2>3. CASE r.op \in {"reset", "change"}
    <3>1. Changed(r) = [users EXCEPT ![u] =
                          [users[u] EXCEPT !.password = n, !.changed = n]]
      BY <2>3, <1>2 DEF Changed
    <3>2. /\ [users[u] EXCEPT !.password = n, !.changed = n] \in Accounts
          /\ [users[u] EXCEPT !.password = n, !.changed = n].changed = n
          /\ [users[u] EXCEPT !.password = n, !.changed = n].caps = users[u].caps
      BY <1>2, <2>1 DEF Accounts
    <3> QED
      BY <1>2, <2>1, <3>1, <3>2 DEF Follows, Books
  <2>4. CASE r.op = "profile"
    <3>1. Changed(r) = [users EXCEPT ![u] = [users[u] EXCEPT !.changed = n]]
      BY <2>4, <1>2 DEF Changed
    <3>2. /\ [users[u] EXCEPT !.changed = n] \in Accounts
          /\ [users[u] EXCEPT !.changed = n].changed = n
          /\ [users[u] EXCEPT !.changed = n].caps = users[u].caps
      BY <1>2, <2>1 DEF Accounts
    <3> QED
      BY <1>2, <2>1, <3>1, <3>2 DEF Follows, Books
  <2> QED
    BY <1>1, <1>4, <2>2, <2>3, <2>4 DEF ManageOps, OwnOps
<1> QED
  BY <1>2, <1>3, <1>4

\* A start loads a book as it was saved; only an empty one gets an operator.
LEMMA OpenedKeeps ==
  ASSUME NEW book \in Books, Capped(book)
  PROVE  /\ Opened(book) \in Books /\ Capped(Opened(book))
         /\ \A u \in Users : book[u] # NoAccount => Opened(book)[u] = book[u]
<1>1. Loaded(book) = book
  <2>1. \A u \in Users : LoadedAccount(book[u]) = book[u]
    BY DEF Capped, LoadedAccount
  <2> QED
    BY <2>1 DEF Loaded, Books
<1>2. [caps |-> Capabilities, password |-> 0, changed |-> 0] \in Accounts
      /\ [caps |-> Capabilities, password |-> 0, changed |-> 0].caps # {}
  BY AccessAssumption DEF Accounts
<1>3. CASE \A u \in Users : book[u] = NoAccount
  <2>1. Opened(book) = [book EXCEPT ![Bootstrap] =
                          [caps |-> Capabilities, password |-> 0, changed |-> 0]]
    BY <1>1, <1>3 DEF Opened
  <2> QED
    BY <1>2, <1>3, <2>1 DEF Books, Capped
<1>4. CASE ~\A u \in Users : book[u] = NoAccount
  BY <1>1, <1>4 DEF Opened
<1> QED
  BY <1>3, <1>4

-----------------------------------------------------------------------------
(* The initial states and the steps *)

LEMMA IdleRequest == Idle \in Requests
BY AccessAssumption DEF Idle, Requests, Stages

LEMMA InitInv == Init => Inv
<1> SUFFICES ASSUME Init PROVE Inv
  OBVIOUS
<1>1. users \in Books /\ disk \in Books /\ acked \in [Users -> 0 .. MaxChanges]
  BY AccessAssumption DEF Init, Books
<1>2. sessions \in [DOMAIN sessions -> Users] /\ DOMAIN sessions = {}
  BY DEF Init, NoSessions
<1>3. handler \in [Handlers -> Requests] /\ \A h \in Handlers : handler[h].stage = "idle"
  BY IdleRequest DEF Init, Idle
<1>4. TypeOK
  <2>1. logins \in 0 .. MaxSessions /\ changes \in 0 .. MaxChanges
        /\ crashes \in 0 .. MaxCrashes /\ failures \in 0 .. MaxFailures
    BY AccessAssumption DEF Init
  <2>2. up \in BOOLEAN /\ DOMAIN sessions \subseteq Tokens
    BY <1>2, Zenon DEF Init
  <2> QED
    BY <1>1, <1>2, <1>3, <2>1, <2>2, Zenon DEF TypeOK
<1> QED
  BY <1>2, <1>3, <1>4, AccessAssumption
  DEF Init, Inv, Working, Down, SessionsHaveOperators, LoginsHaveOperators, Capped, AckedMade, Holds

LEMMA UserOfType ==
  ASSUME Inv, NEW t
  PROVE  /\ UserOf(t) \in Users \cup {NoUser}
         /\ UserOf(t) # NoUser => UserOf(t) \in Users /\ Exists(UserOf(t))
<1>1. CASE t \in DOMAIN sessions
  BY <1>1 DEF Inv, TypeOK, UserOf, SessionsHaveOperators
<1>2. CASE t \notin DOMAIN sessions
  BY <1>2 DEF UserOf
<1> QED
  BY <1>1, <1>2

\* A step that changes one request only.
LEMMA RequestStep ==
  ASSUME Inv, UNCHANGED <<store, console, faults>>, NEW h \in Handlers, NEW r \in Requests,
         handler' = [handler EXCEPT ![h] = r],
         r.stage # "authenticated",
         r.stage \in {"arrived", "admitted", "checked", "handled"} => r.op # "none"
  PROVE  Inv'
<1>1. handler' \in [Handlers -> Requests] /\ \A g \in Handlers : handler'[g] =
          IF g = h THEN r ELSE handler[g]
  BY DEF Inv, TypeOK
<1>2. TypeOK'
  BY <1>1 DEF Inv, TypeOK, store, console, faults
<1>3. Working' /\ LoginsHaveOperators'
  BY <1>1 DEF Inv, Working, LoginsHaveOperators, Exists, store
<1> QED
  BY <1>2, <1>3
  DEF Inv, Down, store, console, faults, SessionsHaveOperators, Exists, Capped, AckedMade, Holds

\* Answering a request, and taking it to its next stage.
LEMMA AnswerStep ==
  ASSUME Inv, UNCHANGED <<store, console, faults>>, NEW h \in Handlers, Answer(h)
  PROVE  Inv'
<1>1. Idle.stage = "idle"
  BY DEF Idle
<1> QED
  BY <1>1, IdleRequest, RequestStep DEF Answer

LEMMA GoToStep ==
  ASSUME Inv, UNCHANGED <<store, console, faults>>, NEW h \in Handlers,
         NEW stage \in {"admitted", "checked", "handled"},
         handler[h].op # "none", GoTo(h, stage)
  PROVE  Inv'
<1> DEFINE r == [handler[h] EXCEPT !.stage = stage]
<1>1. r \in Requests /\ r.stage = stage /\ r.op = handler[h].op
  BY DEF Inv, TypeOK, Requests, Stages
<1>2. handler' = [handler EXCEPT ![h] = r]
  BY DEF GoTo
<1> HIDE DEF r
<1> QED
  BY <1>1, <1>2, RequestStep

LEMMA ArriveStep ==
  ASSUME Inv, NEW h \in Handlers, NEW t \in Tokens, Arrive(h, t)
  PROVE  Inv'
<1>1. /\ t \in DOMAIN sessions /\ sessions[t] \in Users /\ t \in Nat
      /\ users[sessions[t]] \in Accounts
      /\ UNCHANGED <<store, console, faults>>
  <2>1. t \in DOMAIN sessions /\ UNCHANGED <<store, console, faults>>
    BY DEF Arrive
  <2>2. sessions[t] \in Users /\ users[sessions[t]] # NoAccount
    BY <2>1 DEF Inv, TypeOK, SessionsHaveOperators, Exists
  <2>3. users[sessions[t]] \in Accounts
    BY <2>2 DEF Inv, TypeOK, Books
  <2> QED
    BY <2>1, <2>2, <2>3 DEF Tokens
<1>2. ASSUME NEW op \in {"create", "update"}, NEW target \in Spellings, NEW caps \in Forms,
             handler' = [handler EXCEPT ![h] =
                 [Idle EXCEPT !.stage = "arrived", !.op = op, !.target = target, !.caps = caps,
                              !.token = t, !.owner = sessions[t]]]
      PROVE  Inv'
  <2> DEFINE r == [Idle EXCEPT !.stage = "arrived", !.op = op, !.target = target, !.caps = caps,
                               !.token = t, !.owner = sessions[t]]
  <2>1. r \in Requests /\ r.stage = "arrived" /\ r.op = op
    BY <1>1, IdleRequest, AccessAssumption DEF Requests, Stages, ManageOps, OwnOps, Idle
  <2> HIDE DEF r
  <2> QED
    BY <1>1, <1>2, <2>1, RequestStep DEF r
<1>3. ASSUME NEW target \in Spellings,
             handler' = [handler EXCEPT ![h] =
                 [Idle EXCEPT !.stage = "arrived", !.op = "reset", !.target = target,
                              !.token = t, !.owner = sessions[t]]]
      PROVE  Inv'
  <2> DEFINE r == [Idle EXCEPT !.stage = "arrived", !.op = "reset", !.target = target,
                               !.token = t, !.owner = sessions[t]]
  <2>1. r \in Requests /\ r.stage = "arrived" /\ r.op = "reset"
    BY <1>1, IdleRequest, AccessAssumption DEF Requests, Stages, ManageOps, OwnOps, Idle
  <2> HIDE DEF r
  <2> QED
    BY <1>1, <1>3, <2>1, RequestStep DEF r
<1>4. ASSUME NEW op \in OwnOps,
             handler' = [handler EXCEPT ![h] =
                 [Idle EXCEPT !.stage = "arrived", !.op = op, !.token = t,
                              !.password = users[sessions[t]].password,
                              !.owner = sessions[t]]]
      PROVE  Inv'
  <2> DEFINE r == [Idle EXCEPT !.stage = "arrived", !.op = op, !.token = t,
                               !.password = users[sessions[t]].password,
                               !.owner = sessions[t]]
  <2>1. r \in Requests /\ r.stage = "arrived" /\ r.op = op /\ op # "none"
    BY <1>1, IdleRequest, AccessAssumption DEF Requests, Stages, ManageOps, OwnOps, Idle, Accounts
  <2> HIDE DEF r
  <2> QED
    BY <1>1, <1>4, <2>1, RequestStep DEF r
<1> QED
  BY <1>2, <1>3, <1>4 DEF Arrive

LEMMA AdmitStep ==
  ASSUME Inv, NEW h \in Handlers, Admit(h)
  PROVE  Inv'
<1>1. handler[h].op # "none" /\ UNCHANGED <<store, console, faults>>
  BY DEF Admit, At, Inv, Working
<1> QED
  BY <1>1, AnswerStep, GoToStep DEF Admit

LEMMA CheckCSRFStep ==
  ASSUME Inv, NEW h \in Handlers, CheckCSRF(h)
  PROVE  Inv'
<1>1. handler[h].op # "none" /\ UNCHANGED <<store, console, faults>>
  BY DEF CheckCSRF, At, Inv, Working
<1> QED
  BY <1>1, AnswerStep, GoToStep DEF CheckCSRF

LEMMA HandleStep ==
  ASSUME Inv, NEW h \in Handlers, Handle(h)
  PROVE  Inv'
<1> DEFINE user == UserOf(handler[h].token)
           own == [handler[h] EXCEPT !.stage = "handled", !.user = user, !.target = user]
           other == [handler[h] EXCEPT !.stage = "handled", !.user = user]
<1>1. /\ handler[h] \in Requests /\ handler[h].op # "none"
      /\ UNCHANGED <<store, console, faults>>
  BY DEF Handle, At, Inv, Working, TypeOK
<1>2. user \in Users \cup {NoUser}
  BY UserOfType
<1>3. other \in Requests /\ other.stage = "handled" /\ other.op = handler[h].op
  BY <1>1, <1>2 DEF Requests, Stages
<1>4. user # NoUser =>
        own \in Requests /\ own.stage = "handled" /\ own.op = handler[h].op
  BY <1>1, <1>2, AccessAssumption DEF Requests, Stages
<1>5. \/ Answer(h)
      \/ user # NoUser /\ handler' = [handler EXCEPT ![h] = own]
      \/ handler' = [handler EXCEPT ![h] = other]
  BY DEF Handle
<1> HIDE DEF user, own, other
<1> QED
  BY <1>1, <1>3, <1>4, <1>5, AnswerStep, RequestStep

LEMMA RefuseStep ==
  ASSUME Inv, NEW h \in Handlers, Refuse(h)
  PROVE  Inv'
BY AnswerStep DEF Refuse

-----------------------------------------------------------------------------
(* The steps that change books and sessions *)

\* What a save leaves on disk.
LEMMA SavesType ==
  ASSUME Inv, NEW book, NEW ok \in BOOLEAN, Saves(book, ok)
  PROVE  disk' = (IF ok THEN book ELSE disk) /\ failures' \in 0 .. MaxFailures
BY AccessAssumption DEF Saves, Inv, TypeOK

LEMMA ChangeStep ==
  ASSUME Inv, NEW h \in Handlers, Change(h)
  PROVE  Inv'
<1> DEFINE u == Normal[handler[h].target]
           book == Changed(handler[h])
<1>1. PICK ok \in BOOLEAN :
          /\ Saves(book, ok)
          /\ acked' = IF ok THEN [acked EXCEPT ![u] = changes + 1] ELSE acked
  BY DEF Change, SavedBook
<1>2. /\ handler[h].stage = "handled" /\ Allowed(handler[h]) /\ up
      /\ users' = book /\ changes < MaxChanges /\ changes' = changes + 1
      /\ Answer(h) /\ UNCHANGED <<console, up, crashes>>
  BY DEF Change, At
<1>3. u \in Users /\ Follows(book, u)
  BY <1>2, ChangedFollows DEF Inv
<1>4. disk' = (IF ok THEN book ELSE disk) /\ failures' \in 0 .. MaxFailures
  BY <1>1, SavesType
<1> HIDE DEF book, u
<1>5. changes \in Nat /\ changes' \in 0 .. MaxChanges
      /\ acked \in [Users -> 0 .. MaxChanges] /\ acked' \in [Users -> 0 .. MaxChanges]
      /\ \A v \in Users : acked'[v] = IF ok /\ v = u THEN changes + 1 ELSE acked[v]
  BY <1>1, <1>2, <1>3, AccessAssumption DEF Inv, TypeOK
<1>6. /\ handler' \in [Handlers -> Requests]
      /\ \A g \in Handlers : handler'[g] = IF g = h THEN Idle ELSE handler[g]
      /\ Idle.stage = "idle"
  BY <1>2, IdleRequest DEF Inv, TypeOK, Answer, Idle
<1>7. users' \in Books /\ disk' \in Books
  BY <1>2, <1>3, <1>4 DEF Inv, TypeOK, Follows
<1>8. TypeOK'
  BY <1>2, <1>4, <1>5, <1>6, <1>7, Zenon DEF Inv, TypeOK, console
<1>9. \A v \in Users : users[v] # NoAccount => users'[v] # NoAccount
  BY <1>2, <1>3, AccessAssumption DEF Follows
<1>10. Working' /\ LoginsHaveOperators' /\ SessionsHaveOperators'
  <2>1. Working'
    BY <1>6 DEF Inv, Working
  <2>2. LoginsHaveOperators'
    BY <1>6, <1>9 DEF Inv, LoginsHaveOperators, Exists
  <2>3. SessionsHaveOperators'
    BY <1>2, <1>9 DEF Inv, TypeOK, SessionsHaveOperators, Exists, console
  <2> QED
    BY <2>1, <2>2, <2>3
<1>11. Capped(users)' /\ Capped(disk)'
  BY <1>2, <1>3, <1>4 DEF Inv, Capped, Follows
<1>12. AckedMade'
  BY <1>2, <1>5 DEF Inv, AckedMade
<1>13. Holds(users)'
  <2>1. ASSUME NEW v \in Users, acked'[v] > 0
        PROVE  users'[v] # NoAccount /\ users'[v].changed >= acked'[v]
    <3>1. CASE v = u
      BY <1>2, <1>3, <1>5, <3>1, AccessAssumption DEF Inv, AckedMade, Follows
    <3>2. CASE v # u
      BY <1>2, <1>3, <1>5, <2>1, <3>2 DEF Inv, Follows, Holds
    <3> QED
      BY <3>1, <3>2
  <2> QED
    BY <2>1 DEF Holds
<1>14. Holds(disk)'
  <2>1. CASE ok
    BY <1>2, <1>4, <1>13, <2>1 DEF Holds
  <2>2. CASE ~ok
    BY <1>4, <1>5, <2>2 DEF Inv, Holds
  <2> QED
    BY <2>1, <2>2
<1> QED
  BY <1>2, <1>8, <1>10, <1>11, <1>12, <1>13, <1>14 DEF Inv, Down

LEMMA AuthenticateStep ==
  ASSUME Inv, NEW h \in Handlers, NEW u \in Users, Authenticate(h, u)
  PROVE  Inv'
<1> DEFINE r == [Idle EXCEPT !.stage = "authenticated", !.user = u, !.token = logins + 1]
<1>1. PICK ok \in BOOLEAN : Saves(users, ok)
  BY DEF Authenticate
<1>2. /\ up /\ Exists(u) /\ logins < MaxSessions /\ logins' = logins + 1
      /\ handler' = [handler EXCEPT ![h] = r]
      /\ UNCHANGED <<users, changes, acked, sessions, up, crashes>>
  BY DEF Authenticate, At
<1>3. disk' = (IF ok THEN users ELSE disk) /\ failures' \in 0 .. MaxFailures
  BY <1>1, SavesType
<1>4. logins' \in 0 .. MaxSessions /\ logins + 1 \in Tokens /\ logins + 1 \in Nat
  BY <1>2, AccessAssumption DEF Inv, TypeOK, Tokens
<1>5. /\ r \in Requests /\ r.stage = "authenticated" /\ r.user = u /\ r.token \in Tokens
  BY <1>4, IdleRequest DEF Requests, Stages, Idle
<1> HIDE DEF r
<1>6. /\ handler' \in [Handlers -> Requests]
      /\ \A g \in Handlers : handler'[g] = IF g = h THEN r ELSE handler[g]
  BY <1>2, <1>5 DEF Inv, TypeOK
<1>7. disk' \in Books /\ Capped(disk)' /\ Holds(disk)'
  <2>1. CASE ok
    BY <1>2, <1>3, <2>1 DEF Inv, TypeOK, Capped, Holds
  <2>2. CASE ~ok
    BY <1>2, <1>3, <2>2 DEF Inv, TypeOK, Capped, Holds
  <2> QED
    BY <2>1, <2>2
<1>8. TypeOK'
  BY <1>2, <1>3, <1>4, <1>6, <1>7, Zenon DEF Inv, TypeOK
<1>9. Working' /\ LoginsHaveOperators' /\ SessionsHaveOperators'
  <2>1. Working'
    BY <1>5, <1>6 DEF Inv, Working
  <2>2. LoginsHaveOperators'
    BY <1>2, <1>5, <1>6 DEF Inv, LoginsHaveOperators, Exists
  <2>3. SessionsHaveOperators'
    BY <1>2 DEF Inv, SessionsHaveOperators, Exists
  <2> QED
    BY <2>1, <2>2, <2>3
<1>10. Capped(users)' /\ AckedMade' /\ Holds(users)'
  BY <1>2 DEF Inv, Capped, AckedMade, Holds
<1> QED
  BY <1>2, <1>7, <1>8, <1>9, <1>10 DEF Inv, Down

LEMMA CreateSessionStep ==
  ASSUME Inv, NEW h \in Handlers, CreateSession(h)
  PROVE  Inv'
<1> DEFINE t0 == handler[h].token
           u0 == handler[h].user
<1>1. /\ UNCHANGED <<store, logins, faults>> /\ Answer(h)
      /\ sessions' = [t \in DOMAIN sessions \cup {t0} |-> IF t = t0 THEN u0 ELSE sessions[t]]
      /\ handler[h].stage = "authenticated"
  BY DEF CreateSession, At
<1>2. u0 \in Users /\ Exists(u0) /\ t0 \in Tokens
  BY <1>1 DEF Inv, LoginsHaveOperators
<1>3. /\ handler' \in [Handlers -> Requests]
      /\ \A g \in Handlers : handler'[g] = IF g = h THEN Idle ELSE handler[g]
      /\ Idle.stage = "idle"
  BY <1>1, IdleRequest DEF Inv, TypeOK, Answer, Idle
<1>4. /\ DOMAIN sessions' = DOMAIN sessions \cup {t0}
      /\ DOMAIN sessions' \subseteq Tokens
      /\ sessions' \in [DOMAIN sessions' -> Users]
      /\ \A t \in DOMAIN sessions' :
            sessions'[t] = u0 \/ (t \in DOMAIN sessions /\ sessions'[t] = sessions[t])
  <2>1. /\ DOMAIN sessions' = DOMAIN sessions \cup {t0}
        /\ \A t \in DOMAIN sessions' : sessions'[t] = IF t = t0 THEN u0 ELSE sessions[t]
    BY <1>1
  <2>2. DOMAIN sessions \subseteq Tokens /\ \A t \in DOMAIN sessions : sessions[t] \in Users
    BY DEF Inv, TypeOK
  <2>3. \A t \in DOMAIN sessions' :
            sessions'[t] = u0 \/ (t \in DOMAIN sessions /\ sessions'[t] = sessions[t])
    BY <2>1
  <2>4. \A t \in DOMAIN sessions' : sessions'[t] \in Users
    <3> HIDE DEF t0, u0
    <3> QED
      BY <1>2, <2>2, <2>3
  <2>5. sessions' = [t \in DOMAIN sessions' |-> sessions'[t]]
    BY <1>1
  <2> HIDE DEF t0, u0
  <2>6. sessions' \in [DOMAIN sessions' -> Users]
    BY <2>4, <2>5
  <2> QED
    BY <1>2, <2>1, <2>2, <2>3, <2>6
<1> HIDE DEF t0, u0
<1>5. TypeOK'
  BY <1>1, <1>3, <1>4 DEF Inv, TypeOK, store, faults
<1>6. Working' /\ LoginsHaveOperators' /\ SessionsHaveOperators'
  <2>1. Working' /\ LoginsHaveOperators'
    BY <1>1, <1>3 DEF Inv, Working, LoginsHaveOperators, Exists, store
  <2>2. SessionsHaveOperators'
    BY <1>1, <1>2, <1>4 DEF Inv, SessionsHaveOperators, Exists, store
  <2> QED
    BY <2>1, <2>2
<1> QED
  BY <1>1, <1>5, <1>6 DEF Inv, Down, Capped, AckedMade, Holds, store, faults

LEMMA EndSessionStep ==
  ASSUME Inv, NEW t0 \in Tokens, EndSession(t0)
  PROVE  Inv'
<1>1. /\ UNCHANGED <<store, logins, handler, faults>>
      /\ sessions' = [t \in DOMAIN sessions \ {t0} |-> sessions[t]]
  BY DEF EndSession
<1>2. /\ DOMAIN sessions' \subseteq DOMAIN sessions
      /\ sessions' \in [DOMAIN sessions' -> Users]
      /\ \A t \in DOMAIN sessions' : sessions'[t] = sessions[t]
  BY <1>1 DEF Inv, TypeOK
<1>3. TypeOK'
  BY <1>1, <1>2 DEF Inv, TypeOK, store, faults
<1>4. SessionsHaveOperators' /\ Working' /\ LoginsHaveOperators'
  BY <1>1, <1>2 DEF Inv, SessionsHaveOperators, Working, LoginsHaveOperators, Exists, store
<1> QED
  BY <1>1, <1>3, <1>4 DEF Inv, Down, Capped, AckedMade, Holds, store, faults

\* The end of the process, with a book on disk that has what was answered.
LEMMA DieStep ==
  ASSUME Inv, Die, UNCHANGED <<acked, logins, failures>>,
         changes' \in {changes, changes + 1}, changes' \in 0 .. MaxChanges,
         disk' \in Books, Capped(disk)', Holds(disk)'
  PROVE  Inv'
<1>1. /\ up' = FALSE /\ users' = [u \in Users |-> NoAccount]
      /\ DOMAIN sessions' = {} /\ sessions' \in [DOMAIN sessions' -> Users]
      /\ handler' = [h \in Handlers |-> Idle]
  BY DEF Die, SessionsLeft, NoSessions
<1>2. crashes' \in 0 .. MaxCrashes
  BY AccessAssumption DEF Die, Inv, TypeOK
<1>3. handler' \in [Handlers -> Requests] /\ \A h \in Handlers : handler'[h].stage = "idle"
  BY <1>1, IdleRequest DEF Idle
<1>4. users' \in Books /\ Capped(users)'
  BY <1>1 DEF Books, Capped
<1>5. TypeOK'
  <2>1. up' \in BOOLEAN /\ DOMAIN sessions' \subseteq Tokens
    BY <1>1, Zenon
  <2> QED
    BY <1>1, <1>2, <1>3, <1>4, <2>1, Zenon DEF Inv, TypeOK
<1>6. Working' /\ LoginsHaveOperators' /\ SessionsHaveOperators'
  BY <1>1, <1>3 DEF Working, LoginsHaveOperators, SessionsHaveOperators
<1>7. AckedMade'
  BY DEF Inv, TypeOK, AckedMade
<1> QED
  BY <1>1, <1>4, <1>5, <1>6, <1>7 DEF Inv, Down

LEMMA CrashStep ==
  ASSUME Inv, Crash
  PROVE  Inv'
<1>1. Die /\ UNCHANGED <<disk, changes, acked, logins, failures>>
  BY DEF Crash
<1>2. disk' \in Books /\ Capped(disk)' /\ Holds(disk)' /\ changes' \in 0 .. MaxChanges
  BY <1>1 DEF Inv, TypeOK, Capped, Holds
<1> QED
  BY <1>1, <1>2, DieStep

LEMMA KilledInChangeStep ==
  ASSUME Inv, NEW h \in Handlers, KilledInChange(h)
  PROVE  Inv'
<1> DEFINE u == Normal[handler[h].target]
           book == Changed(handler[h])
<1>1. /\ handler[h].stage = "handled" /\ Allowed(handler[h]) /\ up
      /\ disk' = book /\ changes < MaxChanges /\ changes' = changes + 1
      /\ Die /\ UNCHANGED <<acked, logins, failures>>
  BY DEF KilledInChange, At
<1>2. u \in Users /\ Follows(book, u)
  BY <1>1, ChangedFollows DEF Inv
<1> HIDE DEF book, u
<1>3. changes \in Nat /\ changes' \in 0 .. MaxChanges
  BY <1>1, AccessAssumption DEF Inv, TypeOK
<1>4. disk' \in Books /\ Capped(disk)'
  BY <1>1, <1>2 DEF Inv, Capped, Follows
<1>5. Holds(disk)'
  <2>1. ASSUME NEW v \in Users, acked[v] > 0
        PROVE  disk'[v] # NoAccount /\ disk'[v].changed >= acked[v]
    <3>1. CASE v = u
      BY <1>1, <1>2, <1>3, <3>1, AccessAssumption DEF Inv, TypeOK, AckedMade, Follows
    <3>2. CASE v # u
      BY <1>1, <1>2, <2>1, <3>2 DEF Inv, Follows, Holds
    <3> QED
      BY <3>1, <3>2
  <2> QED
    BY <1>1, <2>1 DEF Holds
<1> QED
  BY <1>1, <1>3, <1>4, <1>5, DieStep

LEMMA OpenStep ==
  ASSUME Inv, Open
  PROVE  Inv'
<1>1. /\ up' = TRUE /\ users' = Opened(disk)
      /\ disk' = IF \A u \in Users : disk[u] = NoAccount THEN Opened(disk) ELSE disk
      /\ UNCHANGED <<changes, acked, console, handler, crashes, failures>>
      /\ ~up
  BY DEF Open
<1>2. /\ Opened(disk) \in Books /\ Capped(Opened(disk))
      /\ \A u \in Users : disk[u] # NoAccount => Opened(disk)[u] = disk[u]
  BY OpenedKeeps DEF Inv, TypeOK
<1>3. users' \in Books /\ disk' \in Books /\ Capped(users)' /\ Capped(disk)'
  BY <1>1, <1>2 DEF Inv, TypeOK, Capped
<1>4. Holds(users)' /\ Holds(disk)' /\ AckedMade'
  BY <1>1, <1>2 DEF Inv, Holds, AckedMade
<1>5. TypeOK'
  <2>1. up' \in BOOLEAN
    BY <1>1, Zenon
  <2> QED
    BY <1>1, <1>3, <2>1, Zenon DEF Inv, TypeOK, console
<1>6. Working' /\ LoginsHaveOperators' /\ SessionsHaveOperators'
  <2>1. Working'
    BY <1>1 DEF Inv, Working
  <2>2. SessionsHaveOperators'
    BY <1>1 DEF Inv, Down, TypeOK, SessionsHaveOperators, Exists, console
  <2>3. LoginsHaveOperators'
    BY <1>1 DEF Inv, Down, LoginsHaveOperators, Exists
  <2> QED
    BY <2>1, <2>2, <2>3
<1> QED
  BY <1>1, <1>3, <1>4, <1>5, <1>6 DEF Inv, Down

LEMMA StutterStep == Inv /\ UNCHANGED vars => Inv'
BY DEF vars, store, console, faults, Inv, TypeOK, Working, Down, SessionsHaveOperators,
       LoginsHaveOperators, Exists, Capped, AckedMade, Holds

LEMMA NextInv == Inv /\ [Next]_vars => Inv'
<1> SUFFICES ASSUME Inv, [Next]_vars PROVE Inv'
  OBVIOUS
<1>1. ASSUME NEW h \in Handlers, NEW t \in Tokens, Arrive(h, t) PROVE Inv'
  BY <1>1, ArriveStep
<1>2. ASSUME NEW h \in Handlers, NEW u \in Users, Authenticate(h, u) PROVE Inv'
  BY <1>2, AuthenticateStep
<1>3. ASSUME NEW h \in Handlers, Admit(h) PROVE Inv'
  BY <1>3, AdmitStep
<1>4. ASSUME NEW h \in Handlers, CheckCSRF(h) PROVE Inv'
  BY <1>4, CheckCSRFStep
<1>5. ASSUME NEW h \in Handlers, Handle(h) PROVE Inv'
  BY <1>5, HandleStep
<1>6. ASSUME NEW h \in Handlers, Refuse(h) PROVE Inv'
  BY <1>6, RefuseStep
<1>7. ASSUME NEW h \in Handlers, Change(h) PROVE Inv'
  BY <1>7, ChangeStep
<1>8. ASSUME NEW h \in Handlers, KilledInChange(h) PROVE Inv'
  BY <1>8, KilledInChangeStep
<1>9. ASSUME NEW h \in Handlers, CreateSession(h) PROVE Inv'
  BY <1>9, CreateSessionStep
<1>10. ASSUME NEW t \in Tokens, EndSession(t) PROVE Inv'
  BY <1>10, EndSessionStep
<1>11. CASE Crash
  BY <1>11, CrashStep
<1>12. CASE Open
  BY <1>12, OpenStep
<1>13. CASE UNCHANGED vars
  BY <1>13, StutterStep
<1> QED
  BY <1>1, <1>2, <1>3, <1>4, <1>5, <1>6, <1>7, <1>8, <1>9, <1>10, <1>11, <1>12, <1>13 DEF Next

-----------------------------------------------------------------------------
(* Who sends a request *)

\* No login that is still without its session has token t.
Fresh(t) ==
    \A h \in Handlers : handler[h].stage = "authenticated" => handler[h].token # t

SessionsAreOld == \A t \in DOMAIN sessions : t <= logins /\ Fresh(t)

LoginsDiffer ==
    \A h \in Handlers : handler[h].stage = "authenticated" =>
        /\ handler[h].token <= logins
        /\ \A g \in Handlers \ {h} :
              handler[g].stage = "authenticated" => handler[g].token # handler[h].token

\* The session a request came with is its owner's as long as it lives.
OwnedRequest(r) ==
    r.stage \in {"arrived", "admitted", "checked", "handled"} =>
        /\ r.token <= logins /\ Fresh(r.token)
        /\ r.token \in DOMAIN sessions => sessions[r.token] = r.owner

\* The handler found the owner or nobody, and compared the names.
ComparedRequest(r) ==
    r.stage = "handled" => r.user \in {r.owner, NoUser} /\ KeepsManage(r, r.user)

Owned ==
    /\ SessionsAreOld /\ LoginsDiffer
    /\ \A h \in Handlers : OwnedRequest(handler[h]) /\ ComparedRequest(handler[h])

\* A step that changes one request only, to r, and no session.
LEMMA OwnedRequestStep ==
  ASSUME Inv, Owned, UNCHANGED <<sessions, logins>>, NEW h \in Handlers, NEW r,
         handler' = [handler EXCEPT ![h] = r],
         r.stage # "authenticated", OwnedRequest(r), ComparedRequest(r)
  PROVE  Owned'
<1>1. \A g \in Handlers : handler'[g] = IF g = h THEN r ELSE handler[g]
  BY DEF Inv, TypeOK
<1>2. \A t : Fresh(t) => Fresh(t)'
  BY <1>1 DEF Fresh
<1>3. SessionsAreOld' /\ LoginsDiffer'
  BY <1>1, <1>2 DEF Owned, SessionsAreOld, LoginsDiffer
<1>4. ASSUME NEW g \in Handlers
      PROVE  (OwnedRequest(handler[g]) /\ ComparedRequest(handler[g]))'
  <2>1. OwnedRequest(handler'[g]) /\ ComparedRequest(handler'[g])
    BY <1>1 DEF Owned
  <2> QED
    BY <1>2, <2>1 DEF OwnedRequest, ComparedRequest
<1> QED
  BY <1>3, <1>4 DEF Owned

LEMMA OwnedAnswer ==
  ASSUME Inv, Owned, UNCHANGED <<sessions, logins>>, NEW h \in Handlers, Answer(h)
  PROVE  Owned'
<1>1. Idle.stage = "idle"
  BY DEF Idle
<1>2. OwnedRequest(Idle) /\ ComparedRequest(Idle)
  BY <1>1 DEF OwnedRequest, ComparedRequest
<1> QED
  BY <1>1, <1>2, OwnedRequestStep DEF Answer

LEMMA OwnedGoTo ==
  ASSUME Inv, Owned, UNCHANGED <<sessions, logins>>, NEW h \in Handlers,
         NEW stage \in {"admitted", "checked"},
         handler[h].stage \in {"arrived", "admitted"}, GoTo(h, stage)
  PROVE  Owned'
<1> DEFINE r == [handler[h] EXCEPT !.stage = stage]
<1>1. /\ handler[h] \in Requests /\ r.stage = stage
      /\ r.token = handler[h].token /\ r.owner = handler[h].owner
  BY DEF Inv, TypeOK, Requests
<1>2. handler' = [handler EXCEPT ![h] = r]
  BY DEF GoTo
<1>3. OwnedRequest(r) /\ ComparedRequest(r)
  <2>1. OwnedRequest(handler[h])
    BY DEF Owned
  <2> HIDE DEF r
  <2> QED
    BY <1>1, <2>1 DEF OwnedRequest, ComparedRequest
<1> HIDE DEF r
<1> QED
  BY <1>1, <1>2, <1>3, OwnedRequestStep

LEMMA OwnedArrive ==
  ASSUME Inv, Owned, NEW h \in Handlers, NEW t \in Tokens, Arrive(h, t)
  PROVE  Owned'
<1>1. t \in DOMAIN sessions /\ UNCHANGED <<sessions, logins>>
  BY DEF Arrive, console
<1>2. ASSUME NEW r, handler' = [handler EXCEPT ![h] = r],
             r.stage = "arrived", r.token = t, r.owner = sessions[t]
      PROVE  Owned'
  <2>1. OwnedRequest(r) /\ ComparedRequest(r)
    BY <1>1, <1>2 DEF Owned, SessionsAreOld, OwnedRequest, ComparedRequest
  <2> QED
    BY <1>1, <1>2, <2>1, OwnedRequestStep
<1>3. ASSUME NEW op \in {"create", "update"}, NEW target \in Spellings, NEW caps \in Forms,
             handler' = [handler EXCEPT ![h] =
                 [Idle EXCEPT !.stage = "arrived", !.op = op, !.target = target, !.caps = caps,
                              !.token = t, !.owner = sessions[t]]]
      PROVE  Owned'
  <2> DEFINE r == [Idle EXCEPT !.stage = "arrived", !.op = op, !.target = target,
                               !.caps = caps, !.token = t, !.owner = sessions[t]]
  <2>1. r.stage = "arrived" /\ r.token = t /\ r.owner = sessions[t]
    BY DEF Idle
  <2> HIDE DEF r
  <2> QED
    BY <1>2, <1>3, <2>1 DEF r
<1>4. ASSUME NEW target \in Spellings,
             handler' = [handler EXCEPT ![h] =
                 [Idle EXCEPT !.stage = "arrived", !.op = "reset", !.target = target,
                              !.token = t, !.owner = sessions[t]]]
      PROVE  Owned'
  <2> DEFINE r == [Idle EXCEPT !.stage = "arrived", !.op = "reset", !.target = target,
                               !.token = t, !.owner = sessions[t]]
  <2>1. r.stage = "arrived" /\ r.token = t /\ r.owner = sessions[t]
    BY DEF Idle
  <2> HIDE DEF r
  <2> QED
    BY <1>2, <1>4, <2>1 DEF r
<1>5. ASSUME NEW op \in OwnOps,
             handler' = [handler EXCEPT ![h] =
                 [Idle EXCEPT !.stage = "arrived", !.op = op, !.token = t,
                              !.password = users[sessions[t]].password,
                              !.owner = sessions[t]]]
      PROVE  Owned'
  <2> DEFINE r == [Idle EXCEPT !.stage = "arrived", !.op = op, !.token = t,
                               !.password = users[sessions[t]].password,
                               !.owner = sessions[t]]
  <2>1. r.stage = "arrived" /\ r.token = t /\ r.owner = sessions[t]
    BY DEF Idle
  <2> HIDE DEF r
  <2> QED
    BY <1>2, <1>5, <2>1 DEF r
<1> QED
  BY <1>3, <1>4, <1>5 DEF Arrive

LEMMA OwnedHandle ==
  ASSUME Inv, Owned, NEW h \in Handlers, Handle(h)
  PROVE  Owned'
<1> DEFINE q == handler[h]
           user == UserOf(q.token)
           own == [q EXCEPT !.stage = "handled", !.user = user, !.target = user]
           other == [q EXCEPT !.stage = "handled", !.user = user]
<1>1. /\ q \in Requests /\ q.stage = "checked" /\ UNCHANGED <<sessions, logins>>
      /\ OwnedRequest(q)
  BY DEF Handle, At, Inv, TypeOK, Owned, console
<1>2. user \in {q.owner, NoUser}
  BY <1>1 DEF OwnedRequest, UserOf
<1>3. /\ other.stage = "handled" /\ other.token = q.token /\ other.owner = q.owner
      /\ other.user = user /\ other.op = q.op /\ other.target = q.target /\ other.caps = q.caps
  BY <1>1 DEF Requests
<1>4. /\ own.stage = "handled" /\ own.token = q.token /\ own.owner = q.owner
      /\ own.user = user /\ own.op = q.op
  BY <1>1 DEF Requests
<1>5. \/ Answer(h)
      \/ q.op \in OwnOps /\ handler' = [handler EXCEPT ![h] = own]
      \/ KeepsManage(q, user) /\ handler' = [handler EXCEPT ![h] = other]
  BY DEF Handle
<1> HIDE DEF own, other, user, q
<1>6. CASE q.op \in OwnOps /\ handler' = [handler EXCEPT ![h] = own]
  <2>1. OwnedRequest(own)
    BY <1>1, <1>4 DEF OwnedRequest
  <2>2. ComparedRequest(own)
    BY <1>2, <1>4, <1>6 DEF ComparedRequest, KeepsManage, OwnOps
  <2> QED
    BY <1>1, <1>4, <1>6, <2>1, <2>2, OwnedRequestStep
<1>7. CASE KeepsManage(q, user) /\ handler' = [handler EXCEPT ![h] = other]
  <2>1. OwnedRequest(other)
    BY <1>1, <1>3 DEF OwnedRequest
  <2>2. ComparedRequest(other)
    BY <1>2, <1>3, <1>7 DEF ComparedRequest, KeepsManage
  <2> QED
    BY <1>1, <1>3, <1>7, <2>1, <2>2, OwnedRequestStep
<1> QED
  BY <1>1, <1>5, <1>6, <1>7, OwnedAnswer

LEMMA OwnedAuthenticate ==
  ASSUME Inv, Owned, NEW h \in Handlers, NEW u \in Users, Authenticate(h, u)
  PROVE  Owned'
<1> DEFINE r == [Idle EXCEPT !.stage = "authenticated", !.user = u, !.token = logins + 1]
<1>1. /\ logins' = logins + 1 /\ UNCHANGED sessions
      /\ handler' = [handler EXCEPT ![h] = r]
  BY DEF Authenticate
<1>2. r.stage = "authenticated" /\ r.token = logins + 1
  BY DEF Idle
<1> HIDE DEF r
<1>3. /\ \A g \in Handlers : handler'[g] = IF g = h THEN r ELSE handler[g]
      /\ \A g \in Handlers : handler[g] \in Requests /\ handler[g].token \in Nat
      /\ logins \in Nat /\ DOMAIN sessions \subseteq Nat
  BY <1>1 DEF Inv, TypeOK, Requests, Tokens
<1>4. \A t \in Nat : t <= logins /\ Fresh(t) => t <= logins' /\ Fresh(t)'
  BY <1>1, <1>2, <1>3 DEF Fresh
<1>5. SessionsAreOld'
  BY <1>1, <1>3, <1>4 DEF Owned, SessionsAreOld
<1>6. LoginsDiffer'
  BY <1>1, <1>2, <1>3 DEF Owned, LoginsDiffer
<1>7. ASSUME NEW g \in Handlers
      PROVE  (OwnedRequest(handler[g]) /\ ComparedRequest(handler[g]))'
  <2>1. CASE g = h
    BY <1>2, <1>3, <2>1 DEF OwnedRequest, ComparedRequest
  <2>2. CASE g # h
    <3>1. OwnedRequest(handler[g]) /\ ComparedRequest(handler[g]) /\ handler'[g] = handler[g]
      BY <1>3, <2>2 DEF Owned
    <3> QED
      BY <1>1, <1>3, <1>4, <3>1 DEF OwnedRequest, ComparedRequest
  <2> QED
    BY <2>1, <2>2
<1> QED
  BY <1>5, <1>6, <1>7 DEF Owned

LEMMA OwnedCreateSession ==
  ASSUME Inv, Owned, NEW h \in Handlers, CreateSession(h)
  PROVE  Owned'
<1>0. PICK t0, u0 : t0 = handler[h].token /\ u0 = handler[h].user
  OBVIOUS
<1>1. /\ logins' = logins /\ Answer(h) /\ handler[h].stage = "authenticated"
      /\ DOMAIN sessions' = DOMAIN sessions \cup {t0}
      /\ \A t \in DOMAIN sessions' : sessions'[t] = IF t = t0 THEN u0 ELSE sessions[t]
  BY <1>0 DEF CreateSession, At
<1>2. /\ \A g \in Handlers : handler'[g] = IF g = h THEN Idle ELSE handler[g]
      /\ Idle.stage = "idle"
  BY <1>1 DEF Inv, TypeOK, Answer, Idle
<1>3. /\ t0 <= logins
      /\ \A g \in Handlers \ {h} :
            handler[g].stage = "authenticated" => handler[g].token # t0
  BY <1>0, <1>1 DEF Owned, LoginsDiffer
<1>4. \A g \in Handlers : OwnedRequest(handler[g]) =>
          (handler[g].stage \in {"arrived", "admitted", "checked", "handled"}
               => handler[g].token # t0)
  BY <1>0, <1>1 DEF OwnedRequest, Fresh
<1>5. \A t : Fresh(t) => Fresh(t)'
  BY <1>2 DEF Fresh
<1>6. Fresh(t0)'
  BY <1>2, <1>3 DEF Fresh
<1>7. SessionsAreOld'
  BY <1>1, <1>3, <1>5, <1>6 DEF Owned, SessionsAreOld
<1>8. LoginsDiffer'
  BY <1>1, <1>2 DEF Owned, LoginsDiffer
<1>9. ASSUME NEW g \in Handlers
      PROVE  (OwnedRequest(handler[g]) /\ ComparedRequest(handler[g]))'
  <2>1. CASE g = h
    BY <1>2, <2>1 DEF OwnedRequest, ComparedRequest
  <2>2. CASE g # h
    <3>1. OwnedRequest(handler[g]) /\ ComparedRequest(handler[g]) /\ handler'[g] = handler[g]
      BY <1>2, <2>2 DEF Owned
    <3> QED
      BY <1>1, <1>4, <1>5, <3>1 DEF OwnedRequest, ComparedRequest
  <2> QED
    BY <2>1, <2>2
<1> QED
  BY <1>7, <1>8, <1>9 DEF Owned

LEMMA OwnedEndSession ==
  ASSUME Inv, Owned, NEW t0 \in Tokens, EndSession(t0)
  PROVE  Owned'
<1>1. /\ UNCHANGED <<logins, handler>>
      /\ DOMAIN sessions' \subseteq DOMAIN sessions
      /\ \A t \in DOMAIN sessions' : sessions'[t] = sessions[t]
  BY DEF EndSession
<1> QED
  BY <1>1 DEF Owned, SessionsAreOld, LoginsDiffer, OwnedRequest, ComparedRequest, Fresh

\* The end of the process leaves no session and no request.
LEMMA OwnedDie ==
  ASSUME Inv, Die, UNCHANGED logins
  PROVE  Owned'
<1>1. DOMAIN sessions' = {} /\ \A h \in Handlers : handler'[h].stage = "idle"
  BY DEF Die, SessionsLeft, NoSessions, Idle
<1> QED
  BY <1>1 DEF Owned, SessionsAreOld, LoginsDiffer, OwnedRequest, ComparedRequest

LEMMA OwnedInit == Init => Owned
<1> SUFFICES ASSUME Init PROVE Owned
  OBVIOUS
<1>1. DOMAIN sessions = {} /\ \A h \in Handlers : handler[h].stage = "idle"
  BY DEF Init, NoSessions, Idle
<1> QED
  BY <1>1 DEF Owned, SessionsAreOld, LoginsDiffer, OwnedRequest, ComparedRequest

LEMMA OwnedNext == Inv /\ Owned /\ [Next]_vars => Owned'
<1> SUFFICES ASSUME Inv, Owned, [Next]_vars PROVE Owned'
  OBVIOUS
<1>1. ASSUME NEW h \in Handlers, NEW t \in Tokens, Arrive(h, t) PROVE Owned'
  BY <1>1, OwnedArrive
<1>2. ASSUME NEW h \in Handlers, NEW u \in Users, Authenticate(h, u) PROVE Owned'
  BY <1>2, OwnedAuthenticate
<1>3. ASSUME NEW h \in Handlers, Admit(h) PROVE Owned'
  BY <1>3, OwnedAnswer, OwnedGoTo DEF Admit, At, console
<1>4. ASSUME NEW h \in Handlers, CheckCSRF(h) PROVE Owned'
  BY <1>4, OwnedAnswer, OwnedGoTo DEF CheckCSRF, At, console
<1>5. ASSUME NEW h \in Handlers, Handle(h) PROVE Owned'
  BY <1>5, OwnedHandle
<1>6. ASSUME NEW h \in Handlers, Refuse(h) PROVE Owned'
  BY <1>6, OwnedAnswer DEF Refuse, console
<1>7. ASSUME NEW h \in Handlers, Change(h) PROVE Owned'
  BY <1>7, OwnedAnswer DEF Change, console
<1>8. ASSUME NEW h \in Handlers, KilledInChange(h) PROVE Owned'
  BY <1>8, OwnedDie DEF KilledInChange
<1>9. ASSUME NEW h \in Handlers, CreateSession(h) PROVE Owned'
  BY <1>9, OwnedCreateSession
<1>10. ASSUME NEW t \in Tokens, EndSession(t) PROVE Owned'
  BY <1>10, OwnedEndSession
<1>11. CASE Crash
  BY <1>11, OwnedDie DEF Crash
<1>12. CASE UNCHANGED <<sessions, logins, handler>>
  BY <1>12 DEF Owned, SessionsAreOld, LoginsDiffer, OwnedRequest, ComparedRequest, Fresh
<1>13. CASE Open
  BY <1>12, <1>13 DEF Open, console
<1>14. CASE UNCHANGED vars
  BY <1>12, <1>14 DEF vars, console
<1> QED
  BY <1>1, <1>2, <1>3, <1>4, <1>5, <1>6, <1>7, <1>8, <1>9, <1>10, <1>11, <1>13, <1>14 DEF Next

\* A change takes the capability to manage from nobody but the account it is of,
\* and only when its form leaves the capability out.
LEMMA ChangeTakes ==
  ASSUME Inv, NEW h \in Handlers, Change(h), NEW u \in Managers, u \notin Managers'
  PROVE  /\ handler[h].op = "update" /\ Normal[handler[h].target] = u
         /\ Manage \notin handler[h].caps
<1> DEFINE r == handler[h]
           w == Normal[r.target]
           n == changes + 1
<1>1. /\ r.stage = "handled" /\ Allowed(r) /\ users' = Changed(r)
      /\ r \in Requests /\ r.op \in ManageOps \cup OwnOps
  BY DEF Change, At, Inv, TypeOK, Working, Requests
<1>2. w \in Users /\ Follows(Changed(r), w)
  BY <1>1, ChangedFollows DEF Inv
<1>3. users \in [Users -> Accounts \cup {NoAccount}] /\ u \in Users /\ users[u] \in Accounts
      /\ Manage \in users[u].caps
  BY DEF Inv, TypeOK, Books, Managers, Exists
<1>4. w = u
  BY <1>1, <1>2, <1>3 DEF Follows, Managers, Exists
<1>5. users'[u] \in Accounts /\ Manage \notin users'[u].caps
  BY <1>1, <1>2, <1>3, <1>4, AccessAssumption DEF Follows, Managers, Exists
<1>6. r.op # "create"
  BY <1>1, <1>3, <1>4, AccessAssumption DEF Allowed, Exists
<1>7. r.op \notin {"reset", "change"}
  <2>1. SUFFICES ASSUME r.op \in {"reset", "change"} PROVE FALSE
    OBVIOUS
  <2>2. Changed(r) = [users EXCEPT ![u] = [users[u] EXCEPT !.password = n, !.changed = n]]
    BY <1>3, <1>4, <2>1 DEF Changed
  <2>3. [users[u] EXCEPT !.password = n, !.changed = n].caps = users[u].caps
    BY <1>3 DEF Accounts
  <2> QED
    BY <1>1, <1>3, <1>5, <2>2, <2>3
<1>8. r.op # "profile"
  <2>1. SUFFICES ASSUME r.op = "profile" PROVE FALSE
    OBVIOUS
  <2>2. Changed(r) = [users EXCEPT ![u] = [users[u] EXCEPT !.changed = n]]
    BY <1>3, <1>4, <2>1 DEF Changed
  <2>3. [users[u] EXCEPT !.changed = n].caps = users[u].caps
    BY <1>3 DEF Accounts
  <2> QED
    BY <1>1, <1>3, <1>5, <2>2, <2>3
<1>9. r.op = "update"
  BY <1>1, <1>6, <1>7, <1>8 DEF ManageOps, OwnOps
<1>10. Manage \notin r.caps
  <2>1. Changed(r) = [users EXCEPT ![u] =
                        [users[u] EXCEPT !.caps = NormalizeCaps(r.caps), !.changed = n]]
    BY <1>3, <1>4, <1>9 DEF Changed
  <2>2. [users[u] EXCEPT !.caps = NormalizeCaps(r.caps), !.changed = n].caps
            = NormalizeCaps(r.caps)
    BY <1>3 DEF Accounts
  <2>3. Manage \notin NormalizeCaps(r.caps)
    BY <1>1, <1>3, <1>5, <2>1, <2>2
  <2> QED
    BY <2>3, AccessAssumption DEF NormalizeCaps
<1> QED
  BY <1>4, <1>9, <1>10

-----------------------------------------------------------------------------
(* The theorems *)

\* Inv holds throughout.
THEOREM Invariance == Spec => []Inv
<1>1. Init => Inv
  BY InitInv
<1>2. Inv /\ [Next]_vars => Inv'
  BY NextInv
<1> QED
  BY <1>1, <1>2, PTL DEF Spec

\* The variables keep their types: no operation gives an account a capability
\* the program does not know, whatever a form names.
THEOREM TypeCorrect == Spec => []TypeOK
<1>1. Inv => TypeOK
  BY DEF Inv
<1> QED
  BY <1>1, Invariance, PTL

\* What an operator was told is done is on disk, for any number of operators,
\* requests, failed saves and crashes.
THEOREM AnswersAreKept == Spec => []AckedOnDisk
<1>1. Inv => AckedOnDisk
  BY DEF Inv, Holds, AckedOnDisk
<1> QED
  BY <1>1, Invariance, PTL

\* No restart grants a capability.
THEOREM ReloadIsIdentity == Spec => []ReloadGrantsNothing
<1>1. Inv => ReloadGrantsNothing
  BY DEF Inv, Capped, LoadedAccount, ReloadGrantsNothing
<1> QED
  BY <1>1, Invariance, PTL

\* Every session is of an operator that exists.
THEOREM NoOrphanSessions == Spec => []SessionsHaveOperators
<1>1. Inv => SessionsHaveOperators
  BY DEF Inv
<1> QED
  BY <1>1, Invariance, PTL
\* An operator's own request takes the capability to manage operators from it
\* only when the name was spelled differently or its session had ended, for any
\* number of operators, spellings and concurrent requests.
THEOREM OwnManageIsKept == Spec => ManageIsTaken
<1> DEFINE Taken(u) ==
        \E h \in Handlers :
            /\ At(h, "handled") /\ handler'[h] = Idle
            /\ handler[h].op = "update" /\ Normal[handler[h].target] = u
            /\ handler[h].owner = u => handler[h].target # u \/ handler[h].user = NoUser
<1>1. Init => Owned
  BY OwnedInit
<1>2. Inv /\ Owned /\ [Next]_vars => Owned'
  BY OwnedNext
<1>3. Inv /\ Owned /\ [Next]_vars =>
          [\A u \in Managers : up /\ up' /\ u \notin Managers' => Taken(u)]_vars
  <2> SUFFICES ASSUME Inv, Owned, Next, NEW u \in Managers, up, up', u \notin Managers'
               PROVE  Taken(u)
    OBVIOUS
  <2>1. PICK h \in Handlers : Change(h)
    <3>1. users' # users
      BY DEF Managers, Exists
    <3>2. ~Open /\ ~Crash /\ \A h \in Handlers : ~KilledInChange(h)
      BY DEF Open, Crash, KilledInChange, Die
    <3> QED
      BY <3>1, <3>2
      DEF Next, Arrive, Authenticate, Admit, CheckCSRF, Handle, Refuse, CreateSession,
          EndSession, store
  <2>2. /\ At(h, "handled") /\ handler'[h] = Idle
    BY <2>1 DEF Change, Answer, Inv, TypeOK
  <2>3. /\ handler[h].op = "update" /\ Normal[handler[h].target] = u
        /\ Manage \notin handler[h].caps
    BY <2>1, ChangeTakes
  <2>4. ComparedRequest(handler[h]) /\ handler[h].stage = "handled"
    BY <2>2 DEF Owned, At
  <2>5. handler[h].owner = u => handler[h].target # u \/ handler[h].user = NoUser
    BY <2>3, <2>4 DEF ComparedRequest, KeepsManage
  <2> QED
    BY <2>2, <2>3, <2>5
<1>4. Spec => [][\A u \in Managers : up /\ up' /\ u \notin Managers' => Taken(u)]_vars
  BY <1>1, <1>2, <1>3, Invariance, PTL DEF Spec
<1> QED
  BY <1>4 DEF ManageIsTaken
=============================================================================
