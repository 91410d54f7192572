---------------------------- MODULE LoginProofs ----------------------------
(***************************************************************************)
(* Theorems about LoginGuard for any number of sources and of logins at a  *)
(* time, any thresholds and any delay.                                     *)
(***************************************************************************)
EXTENDS LoginGuard, FiniteSetTheorems, TLAPS

-----------------------------------------------------------------------------
(* The inductive invariant *)

\* The failures an entry counts are the last ones of its key; the window
\* starts with the first of them and holds them all.
CountsLast(e, fs) ==
    LET first == Len(fs) - e.fails + 1
    IN  /\ e.fails \in 1 .. Len(fs)
        /\ fs[first] = e.windowStart
        /\ \A j \in first .. Len(fs) : fs[j] <= e.windowStart + Window

\* Some MaxFails failures in a row lie in one window.
Earned(fs) ==
    \E i \in 1 .. Len(fs) :
        /\ i + MaxFails - 1 <= Len(fs)
        /\ \A j \in i .. i + MaxFails - 1 : fs[j] <= fs[i] + Window

Justified(e, fs) == CountsLast(e, fs) /\ (e.lockedUntil # Never => Earned(fs))

Inv ==
    /\ TypeOK
    /\ \A k \in DOMAIN keys : Justified(keys[k], failures[k])

-----------------------------------------------------------------------------
(* Entries *)

LEMMA EarnedStays ==
  ASSUME NEW fs \in Seq(Nat), NEW at \in Nat, Earned(fs)
  PROVE  Earned(Append(fs, at))
<1>1. PICK i \in 1 .. Len(fs) :
          /\ i + MaxFails - 1 <= Len(fs)
          /\ \A j \in i .. i + MaxFails - 1 : fs[j] <= fs[i] + Window
  BY DEF Earned
<1>2. /\ Len(Append(fs, at)) = Len(fs) + 1 /\ Len(fs) \in Nat
      /\ \A j \in 1 .. Len(fs) : Append(fs, at)[j] = fs[j]
  OBVIOUS
<1>3. \A j \in i .. i + MaxFails - 1 : j \in 1 .. Len(fs)
  BY <1>1, <1>2, GuardAssumption
<1>4. i \in 1 .. Len(Append(fs, at)) /\ i + MaxFails - 1 <= Len(Append(fs, at))
  BY <1>1, <1>2, GuardAssumption
<1>5. \A j \in i .. i + MaxFails - 1 : Append(fs, at)[j] <= Append(fs, at)[i] + Window
  BY <1>1, <1>2, <1>3
<1> QED
  BY <1>4, <1>5 DEF Earned

\* A failure is counted as the next one of the window its entry has.
LEMMA CountInWindow ==
  ASSUME NEW e \in Entries, NEW fs \in Seq(Nat), NEW at \in Nat,
         Justified(e, fs), at <= e.windowStart + Window
  PROVE  Justified(Counted(e, at), Append(fs, at))
<1> DEFINE c == Counted(e, at)
           gs == Append(fs, at)
           first == Len(fs) - e.fails + 1
<1>1. /\ Len(gs) = Len(fs) + 1 /\ Len(fs) \in Nat
      /\ \A j \in 1 .. Len(fs) : gs[j] = fs[j]
      /\ gs[Len(gs)] = at
  OBVIOUS
<1>2. /\ e.fails \in 1 .. Len(fs) /\ fs[first] = e.windowStart
      /\ \A j \in first .. Len(fs) : fs[j] <= e.windowStart + Window
  BY DEF Justified, CountsLast
<1>3. /\ c.fails = e.fails + 1 /\ c.windowStart = e.windowStart
      /\ c.lockedUntil = IF e.fails + 1 >= MaxFails THEN at + Lockout ELSE e.lockedUntil
  BY DEF Counted, Entries
<1>4. first \in 1 .. Len(fs) /\ first = Len(gs) - c.fails + 1
      /\ e.fails \in Nat /\ e.windowStart \in Nat
  <2>1. e.fails \in Nat /\ e.windowStart \in Nat
    BY DEF Entries
  <2>2. e.fails >= 1 /\ e.fails <= Len(fs) /\ Len(gs) = Len(fs) + 1 /\ c.fails = e.fails + 1
    BY <1>1, <1>2, <1>3, <2>1
  <2>3. first \in 1 .. Len(fs)
    BY <1>1, <2>1, <2>2
  <2>4. first = Len(gs) - c.fails + 1
    <3> HIDE DEF c, gs
    <3> QED
      BY <1>1, <2>1, <2>2
  <2> HIDE DEF c, gs, first
  <2> QED
    BY <2>1, <2>3, <2>4
<1> HIDE DEF c, gs, first
<1>5. gs[first] = c.windowStart
  BY <1>1, <1>2, <1>3, <1>4
<1>6. \A j \in first .. Len(gs) : gs[j] <= c.windowStart + Window
  <2>1. ASSUME NEW j \in first .. Len(gs) PROVE gs[j] <= c.windowStart + Window
    <3>1. CASE j = Len(gs)
      BY <1>1, <1>3, <1>4, <3>1
    <3>2. CASE j # Len(gs)
      <4>1. j \in first .. Len(fs) /\ j \in 1 .. Len(fs)
        <5>1. j \in Int /\ first <= j /\ j <= Len(fs) + 1 /\ j # Len(fs) + 1
          BY <1>1, <3>2
        <5>2. first \in Nat /\ first >= 1 /\ Len(fs) \in Nat
          BY <1>1, <1>4
        <5> QED
          BY <5>1, <5>2
      <4> QED
        BY <1>1, <1>2, <1>3, <4>1
    <3> QED
      BY <3>1, <3>2
  <2> QED
    BY <2>1
<1>7. CountsLast(c, gs)
  <2>1. PICK n \in Nat, v \in Nat : n = Len(fs) /\ v = e.fails
    BY <1>1, <1>4
  <2>2. v <= n /\ c.fails = v + 1 /\ Len(gs) = n + 1
    BY <1>1, <1>2, <1>3, <2>1
  <2>3. v + 1 \in 1 .. n + 1
    BY <2>2
  <2>4. c.fails \in 1 .. Len(gs) /\ first = Len(gs) - c.fails + 1
    BY <1>4, <2>2, <2>3
  <2> QED
    BY <1>5, <1>6, <2>4 DEF CountsLast
<1>8. c.lockedUntil # Never => Earned(gs)
  <2>1. CASE e.fails + 1 >= MaxFails
    <3>1. PICK n \in Nat, v \in Nat, q \in Nat : n = Len(fs) /\ v = e.fails /\ q = first
      BY <1>1, <1>4
    <3>2. q \in 1 .. n /\ q = (n + 1) - (v + 1) + 1 /\ v + 1 >= MaxFails /\ Len(gs) = n + 1
      BY <1>1, <1>3, <1>4, <2>1, <3>1
    <3>3. q + MaxFails - 1 <= n + 1
      BY <3>2, GuardAssumption
    <3>4. first \in 1 .. Len(gs) /\ first + MaxFails - 1 <= Len(gs)
      BY <3>1, <3>2, <3>3
    <3>5. ASSUME NEW j \in first .. first + MaxFails - 1 PROVE gs[j] <= gs[first] + Window
      <4>1. j \in first .. Len(gs)
        <5>1. j \in q .. q + MaxFails - 1
          BY <3>1
        <5>2. j \in q .. n + 1
          BY <3>3, <5>1, GuardAssumption
        <5> QED
          BY <3>1, <3>2, <5>2
      <4> QED
        BY <1>5, <1>6, <4>1
    <3> QED
      BY <3>4, <3>5 DEF Earned
  <2>2. CASE ~(e.fails + 1 >= MaxFails)
    BY <1>3, <2>2, EarnedStays DEF Justified, gs
  <2> QED
    BY <2>1, <2>2
<1> QED
  BY <1>7, <1>8 DEF Justified, c, gs

\* A failure is counted as the first one of a window; a lock that has not
\* ended is kept.
LEMMA CountAsFirst ==
  ASSUME NEW e \in Entries, NEW fs \in Seq(Nat), NEW at \in Nat,
         e.fails = 0, e.windowStart = at, e.lockedUntil # Never => Earned(fs)
  PROVE  Justified(Counted(e, at), Append(fs, at))
<1> DEFINE c == Counted(e, at)
           gs == Append(fs, at)
<1>1. /\ Len(gs) = Len(fs) + 1 /\ Len(fs) \in Nat
      /\ gs[Len(gs)] = at
  OBVIOUS
<1>2. /\ c.fails = 1 /\ c.windowStart = at
      /\ c.lockedUntil = IF 1 >= MaxFails THEN at + Lockout ELSE e.lockedUntil
  BY DEF Counted, Entries
<1> HIDE DEF c, gs
<1>3. \A j \in Len(gs) .. Len(gs) : gs[j] <= at + Window
  BY <1>1, GuardAssumption
<1>4. CountsLast(c, gs)
  BY <1>1, <1>2, <1>3 DEF CountsLast
<1>5. c.lockedUntil # Never => Earned(gs)
  <2>1. CASE 1 >= MaxFails
    <3>1. MaxFails = 1
      BY <2>1, GuardAssumption
    <3>2. Len(gs) \in 1 .. Len(gs) /\ Len(gs) + MaxFails - 1 <= Len(gs)
      BY <1>1, <3>1
    <3>3. \A j \in Len(gs) .. Len(gs) + MaxFails - 1 : gs[j] <= gs[Len(gs)] + Window
      BY <1>1, <1>3, <3>1
    <3> QED
      BY <3>2, <3>3 DEF Earned
  <2>2. CASE ~(1 >= MaxFails)
    BY <1>2, <2>2, EarnedStays DEF gs
  <2> QED
    BY <2>1, <2>2
<1> QED
  BY <1>4, <1>5 DEF Justified, c, gs

LEMMA NewEntryType ==
  ASSUME NEW at \in Nat
  PROVE  /\ NewEntry(at) \in Entries /\ NewEntry(at).fails = 0
         /\ NewEntry(at).windowStart = at /\ NewEntry(at).lockedUntil = Never
BY DEF NewEntry, Entries, Never

\* What Fail leaves of an entry, if there is one, is justified by the failures
\* with the one it reports.
LEMMA CountRenewed ==
  ASSUME NEW e \in Entries, NEW fs \in Seq(Nat), NEW at \in Nat, NEW limit \in Nat,
         Justified(e, fs) \/ e = NewEntry(at),
         e.lockedUntil <= limit, at + Lockout <= limit
  PROVE  /\ Counted(Renewed(e, at), at) \in Entries
         /\ Counted(Renewed(e, at), at).lockedUntil <= limit
         /\ Counted(Renewed(e, at), at).last = at
         /\ Justified(Counted(Renewed(e, at), at), Append(fs, at))
<1> DEFINE r == Renewed(e, at)
<1>1. /\ r \in Entries /\ r.lockedUntil <= limit
      /\ r.lockedUntil # Never => r.lockedUntil = e.lockedUntil
      /\ \/ r = e /\ ~WindowElapsed(e, at)
         \/ r.fails = 0 /\ r.windowStart = at
  <2>1. CASE LockExpired(e, at)
    <3>1. r = [NewEntry(at) EXCEPT !.lockedUntil = Never]
      BY <2>1 DEF Renewed
    <3> QED
      BY <3>1, NewEntryType DEF Entries, Never
  <2>2. CASE ~LockExpired(e, at) /\ WindowElapsed(e, at)
    <3>1. r = [NewEntry(at) EXCEPT !.lockedUntil = e.lockedUntil]
      BY <2>2 DEF Renewed
    <3> QED
      BY <3>1, NewEntryType DEF Entries
  <2>3. CASE ~LockExpired(e, at) /\ ~WindowElapsed(e, at)
    BY <2>3 DEF Renewed
  <2> QED
    BY <2>1, <2>2, <2>3
<1> HIDE DEF r
<1>2. /\ Counted(r, at) \in Entries /\ Counted(r, at).lockedUntil <= limit
      /\ Counted(r, at).last = at
  <2>1. Counted(r, at) =
          [r EXCEPT !.fails = r.fails + 1, !.last = at,
                    !.lockedUntil = IF r.fails + 1 >= MaxFails THEN at + Lockout
                                    ELSE r.lockedUntil]
    BY DEF Counted
  <2>2. r.fails + 1 \in Nat /\ at + Lockout \in Nat
    BY <1>1, GuardAssumption DEF Entries
  <2> QED
    BY <1>1, <2>1, <2>2 DEF Entries
<1>3. Justified(Counted(r, at), Append(fs, at))
  <2>1. CASE r.fails = 0 /\ r.windowStart = at
    <3>1. r.lockedUntil # Never => Earned(fs)
      BY <1>1, NewEntryType DEF Justified
    <3> QED
      BY <1>1, <2>1, <3>1, CountAsFirst
  <2>2. CASE ~(r.fails = 0 /\ r.windowStart = at)
    <3>1. r = e /\ ~WindowElapsed(e, at) /\ Justified(e, fs)
      BY <1>1, <2>2, NewEntryType
    <3>2. at <= e.windowStart + Window
      BY <3>1, GuardAssumption DEF WindowElapsed, Entries
    <3> QED
      BY <3>1, <3>2, CountInWindow
  <2> QED
    BY <2>1, <2>2
<1> QED
  BY <1>2, <1>3 DEF r

-----------------------------------------------------------------------------
(* The initial states and the steps *)

LEMMA IdleType ==
  ASSUME now \in Nat
  PROVE  Idle \in [stage : Stages, key : Keys, at : Nat] /\ Idle.at <= now
<1>1. (CHOOSE k \in Keys : TRUE) \in Keys
  BY GuardAssumption
<1>2. Never \in Nat /\ Never <= now
  BY DEF Never
<1> QED
  BY <1>1, <1>2 DEF Idle, Stages

\* Failed, for each key: the one that failed, and those that stay.
LEMMA FailedKeys ==
  ASSUME Inv, NEW k \in Keys, NEW at \in Nat, at <= now
  PROVE  LET ks == Failed(k, at)
         IN  /\ k \in DOMAIN ks /\ DOMAIN ks \subseteq Keys
             /\ \A j \in DOMAIN ks : ks[j] \in Entries /\ ks[j].lockedUntil <= now + Lockout
             /\ Justified(ks[k], Append(failures[k], at))
             /\ \A j \in DOMAIN ks \ {k} : j \in DOMAIN keys /\ ks[j] = keys[j]
             /\ \A j \in DOMAIN keys \ DOMAIN ks : Stale(keys[j], at)
<1> DEFINE swept == Swept(at)
           old == IF k \in DOMAIN swept THEN swept[k] ELSE NewEntry(at)
           ks == Failed(k, at)
<1>1. /\ DOMAIN swept \subseteq DOMAIN keys
      /\ \A j \in DOMAIN swept : swept[j] = keys[j]
      /\ \A j \in DOMAIN keys \ DOMAIN swept : Stale(keys[j], at)
  <2>1. CASE Cardinality(DOMAIN keys) < MaxKeys
    BY <2>1 DEF Swept
  <2>2. CASE ~(Cardinality(DOMAIN keys) < MaxKeys)
    <3>1. swept = [j \in {j \in DOMAIN keys : ~Stale(keys[j], at)} |-> keys[j]]
      BY <2>2 DEF Swept, Restrict
    <3> QED
      BY <3>1
  <2> QED
    BY <2>1, <2>2
<1>2. ks = [j \in DOMAIN swept \cup {k} |->
              IF j = k THEN Counted(Renewed(old, at), at) ELSE swept[j]]
  BY DEF Failed
<1> HIDE DEF ks, swept
<1>3. /\ DOMAIN keys \subseteq Keys /\ now \in Nat /\ failures[k] \in Seq(Nat)
      /\ \A j \in DOMAIN keys : keys[j] \in Entries /\ keys[j].lockedUntil <= now + Lockout
                                /\ Justified(keys[j], failures[j])
  BY DEF Inv, TypeOK
<1>4. /\ old \in Entries /\ old.lockedUntil <= now + Lockout
      /\ Justified(old, failures[k]) \/ old = NewEntry(at)
  <2>1. CASE k \in DOMAIN swept
    BY <1>1, <1>3, <2>1
  <2>2. CASE k \notin DOMAIN swept
    <3>1. old = NewEntry(at)
      BY <2>2
    <3>2. Never <= now + Lockout
      BY <1>3, GuardAssumption DEF Never
    <3> QED
      BY <3>1, <3>2, NewEntryType
  <2> QED
    BY <2>1, <2>2
<1> HIDE DEF old
<1>5. now + Lockout \in Nat /\ at + Lockout <= now + Lockout
  BY <1>3, GuardAssumption
<1> DEFINE e == Counted(Renewed(old, at), at)
<1>6. e \in Entries /\ e.lockedUntil <= now + Lockout /\ Justified(e, Append(failures[k], at))
  BY <1>3, <1>4, <1>5, CountRenewed
<1>7. ks = [j \in DOMAIN swept \cup {k} |-> IF j = k THEN e ELSE swept[j]]
  BY <1>2
<1> HIDE DEF e
<1>8. /\ DOMAIN ks = DOMAIN swept \cup {k} /\ ks[k] = e
      /\ \A j \in DOMAIN ks \ {k} : j \in DOMAIN swept /\ ks[j] = swept[j]
  BY <1>7
<1>9. \A j \in DOMAIN ks \ {k} : j \in DOMAIN keys /\ ks[j] = keys[j]
  BY <1>1, <1>8
<1>10. \A j \in DOMAIN ks : ks[j] \in Entries /\ ks[j].lockedUntil <= now + Lockout
  BY <1>3, <1>6, <1>8, <1>9
<1>11. k \in DOMAIN ks /\ DOMAIN ks \subseteq Keys
  BY <1>1, <1>3, <1>8
<1>12. \A j \in DOMAIN keys \ DOMAIN ks : Stale(keys[j], at)
  BY <1>1, <1>8
<1> QED
  BY <1>6, <1>8, <1>9, <1>10, <1>11, <1>12 DEF ks

\* A step that changes one login only, and neither its key's table entry nor
\* the failures.
LEMMA LoginStep ==
  ASSUME Inv, UNCHANGED <<keys, now, failures>>, NEW h \in Handlers,
         NEW l \in [stage : Stages, key : Keys, at : Nat], l.at <= now,
         handler' = [handler EXCEPT ![h] = l]
  PROVE  Inv'
<1>1. handler' \in [Handlers -> [stage : Stages, key : Keys, at : Nat]]
  BY DEF Inv, TypeOK
<1>2. \A g \in Handlers : handler'[g] = IF g = h THEN l ELSE handler[g]
  BY DEF Inv, TypeOK
<1>3. \A g \in Handlers : handler'[g].at <= now
  BY <1>2 DEF Inv, TypeOK
<1>4. TypeOK'
  BY <1>1, <1>3 DEF Inv, TypeOK
<1> QED
  BY <1>4 DEF Inv

LEMMA AnswerStep ==
  ASSUME Inv, UNCHANGED <<keys, now, failures>>, NEW h \in Handlers, Answer(h)
  PROVE  Inv'
BY IdleType, LoginStep DEF Answer, Inv, TypeOK

LEMMA GoToStep ==
  ASSUME Inv, UNCHANGED <<keys, now, failures>>, NEW h \in Handlers, NEW stage \in Stages,
         GoTo(h, stage)
  PROVE  Inv'
<1> DEFINE l == [handler[h] EXCEPT !.stage = stage]
<1>1. handler[h] \in [stage : Stages, key : Keys, at : Nat] /\ handler[h].at <= now
  BY DEF Inv, TypeOK
<1>2. l \in [stage : Stages, key : Keys, at : Nat] /\ l.at = handler[h].at
  BY <1>1
<1>3. handler' = [handler EXCEPT ![h] = l]
  BY DEF GoTo
<1> HIDE DEF l
<1> QED
  BY <1>1, <1>2, <1>3, LoginStep

LEMMA ArriveStep ==
  ASSUME Inv, NEW h \in Handlers, NEW k \in Keys, Arrive(h, k)
  PROVE  Inv'
<1> DEFINE l == [stage |-> "arrived", key |-> k, at |-> now]
<1>1. now \in Nat
  BY DEF Inv, TypeOK
<1>2. l \in [stage : Stages, key : Keys, at : Nat] /\ l.at <= now
  BY <1>1 DEF Stages
<1>3. handler' = [handler EXCEPT ![h] = l] /\ UNCHANGED <<keys, now, failures>>
  BY DEF Arrive
<1> HIDE DEF l
<1> QED
  BY <1>2, <1>3, LoginStep

LEMMA CheckStep ==
  ASSUME Inv, NEW h \in Handlers, Check(h)
  PROVE  Inv'
<1>1. "admitted" \in Stages /\ UNCHANGED <<keys, now, failures>>
  BY DEF Check, Stages
<1> QED
  BY <1>1, AnswerStep, GoToStep DEF Check

LEMMA AuthenticateStep ==
  ASSUME Inv, NEW h \in Handlers, Authenticate(h)
  PROVE  Inv'
<1>1. {"rejected", "accepted"} \subseteq Stages /\ UNCHANGED <<keys, now, failures>>
  BY DEF Authenticate, Stages
<1> QED
  BY <1>1, GoToStep DEF Authenticate

\* A login that is answered leaves the others as they are.
LEMMA AnsweredType ==
  ASSUME TypeOK, NEW h \in Handlers, Answer(h)
  PROVE  /\ handler' \in [Handlers -> [stage : Stages, key : Keys, at : Nat]]
         /\ \A g \in Handlers : handler'[g].at <= now
<1>1. Idle \in [stage : Stages, key : Keys, at : Nat] /\ Idle.at <= now
  BY IdleType DEF TypeOK
<1>2. \A g \in Handlers : handler'[g] = IF g = h THEN Idle ELSE handler[g]
  BY DEF TypeOK, Answer
<1> QED
  BY <1>1, <1>2 DEF TypeOK, Answer

LEMMA FailStep ==
  ASSUME Inv, NEW h \in Handlers, Fail(h)
  PROVE  Inv'
<1> DEFINE k == handler[h].key
           at == handler[h].at
<1>1. /\ keys' = Failed(k, at) /\ failures' = [failures EXCEPT ![k] = Append(failures[k], at)]
      /\ Answer(h) /\ now' = now
  BY DEF Fail
<1>2. /\ k \in Keys /\ at \in Nat /\ at <= now /\ now \in Nat
      /\ failures \in [Keys -> Seq(Nat)]
  BY DEF Inv, TypeOK
<1> HIDE DEF k, at
<1>3. /\ DOMAIN keys' \subseteq Keys
      /\ \A j \in DOMAIN keys' : keys'[j] \in Entries /\ keys'[j].lockedUntil <= now + Lockout
      /\ Justified(keys'[k], Append(failures[k], at))
      /\ \A j \in DOMAIN keys' \ {k} : j \in DOMAIN keys /\ keys'[j] = keys[j]
  BY <1>1, <1>2, FailedKeys
<1>4. Append(failures[k], at) \in Seq(Nat)
  BY <1>2
<1>5. /\ failures' \in [Keys -> Seq(Nat)] /\ failures'[k] = Append(failures[k], at)
      /\ \A j \in Keys \ {k} : failures'[j] = failures[j]
  BY <1>1, <1>2, <1>4
<1>6. TypeOK'
  BY <1>1, <1>2, <1>3, <1>5, AnsweredType DEF Inv, TypeOK
<1>7. ASSUME NEW j \in DOMAIN keys' PROVE Justified(keys'[j], failures'[j])
  <2>1. CASE j = k
    BY <1>3, <1>5, <2>1
  <2>2. CASE j # k
    <3>1. keys'[j] = keys[j] /\ failures'[j] = failures[j] /\ j \in DOMAIN keys
      BY <1>3, <1>5, <2>2
    <3> QED
      BY <3>1 DEF Inv
  <2> QED
    BY <2>1, <2>2
<1> QED
  BY <1>6, <1>7 DEF Inv

LEMMA ResetStep ==
  ASSUME Inv, NEW h \in Handlers, Reset(h)
  PROVE  Inv'
<1> DEFINE k == handler[h].key
<1>1. /\ keys' = [j \in DOMAIN keys \ {k} |-> keys[j]]
      /\ failures' = [failures EXCEPT ![k] = <<>>]
      /\ Answer(h) /\ now' = now
  BY DEF Reset, Restrict
<1>2. k \in Keys /\ failures \in [Keys -> Seq(Nat)] /\ DOMAIN keys \subseteq Keys
  BY DEF Inv, TypeOK
<1> HIDE DEF k
<1>3. /\ DOMAIN keys' = DOMAIN keys \ {k}
      /\ \A j \in DOMAIN keys' : keys'[j] = keys[j]
      /\ failures' \in [Keys -> Seq(Nat)]
      /\ \A j \in Keys \ {k} : failures'[j] = failures[j]
  BY <1>1, <1>2
<1>4. TypeOK'
  BY <1>1, <1>2, <1>3, AnsweredType DEF Inv, TypeOK
<1>5. \A j \in DOMAIN keys' : Justified(keys'[j], failures'[j])
  BY <1>2, <1>3 DEF Inv
<1> QED
  BY <1>4, <1>5 DEF Inv

LEMMA TickStep ==
  ASSUME Inv, Tick
  PROVE  Inv'
<1>1. now' = now + 1 /\ UNCHANGED <<keys, handler, failures>>
  BY DEF Tick
<1>2. now \in Nat /\ now' \in Nat
  BY <1>1 DEF Inv, TypeOK
<1>3. \A h \in Handlers : handler[h].at \in Nat /\ handler[h].at <= now
  BY DEF Inv, TypeOK
<1>4. \A k \in DOMAIN keys :
          keys[k].lockedUntil \in Nat /\ keys[k].lockedUntil <= now + Lockout
  BY DEF Inv, TypeOK, Entries
<1>5. \A h \in Handlers : handler[h].at <= now'
  BY <1>1, <1>2, <1>3
<1>6. \A k \in DOMAIN keys : keys[k].lockedUntil <= now' + Lockout
  BY <1>1, <1>2, <1>4, GuardAssumption
<1>7. TypeOK'
  BY <1>1, <1>2, <1>5, <1>6 DEF Inv, TypeOK
<1> QED
  BY <1>1, <1>7 DEF Inv

LEMMA InitInv == Init => Inv
<1> SUFFICES ASSUME Init PROVE Inv
  OBVIOUS
<1>1. DOMAIN keys = {} /\ now = 1 /\ now \in Nat
  BY DEF Init
<1>2. failures \in [Keys -> Seq(Nat)]
  BY DEF Init
<1>3. Idle \in [stage : Stages, key : Keys, at : Nat] /\ Idle.at <= now
  BY <1>1, IdleType
<1>4. handler \in [Handlers -> [stage : Stages, key : Keys, at : Nat]]
      /\ \A h \in Handlers : handler[h].at <= now
  BY <1>3 DEF Init
<1> QED
  BY <1>1, <1>2, <1>4 DEF Inv, TypeOK

LEMMA NextInv == Inv /\ [Next]_vars => Inv'
<1> SUFFICES ASSUME Inv, [Next]_vars PROVE Inv'
  OBVIOUS
<1>1. ASSUME NEW h \in Handlers, NEW k \in Keys, Arrive(h, k) PROVE Inv'
  BY <1>1, ArriveStep
<1>2. ASSUME NEW h \in Handlers, Check(h) PROVE Inv'
  BY <1>2, CheckStep
<1>3. ASSUME NEW h \in Handlers, Authenticate(h) PROVE Inv'
  BY <1>3, AuthenticateStep
<1>4. ASSUME NEW h \in Handlers, Fail(h) PROVE Inv'
  BY <1>4, FailStep
<1>5. ASSUME NEW h \in Handlers, Reset(h) PROVE Inv'
  BY <1>5, ResetStep
<1>6. CASE Tick
  BY <1>6, TickStep
<1>7. CASE UNCHANGED vars
  BY <1>7 DEF vars, Inv, TypeOK
<1> QED
  BY <1>1, <1>2, <1>3, <1>4, <1>5, <1>6, <1>7 DEF Next

-----------------------------------------------------------------------------
(* The theorems *)

\* Inv holds throughout.
THEOREM Invariance == Spec => []Inv
<1>1. Init => Inv
  BY InitInv
<1>2. Inv /\ [Next]_vars => Inv'
  BY NextInv
<1> QED
  BY <1>1, <1>2, PTL DEF Spec

\* The variables keep their types; a lock always ends within Lockout from now.
THEOREM TypeCorrect == Spec => []TypeOK
<1>1. Inv => TypeOK
  BY DEF Inv
<1> QED
  BY <1>1, Invariance, PTL

\* Nobody is locked out without MaxFails failures within one window, in a row
\* and since the last success, however the logins interleave.
THEOREM LocksAreEarned == Spec => []LockEarned
<1>1. Inv => LockEarned
  <2> SUFFICES ASSUME Inv, NEW k \in DOMAIN keys, keys[k].lockedUntil # Never
               PROVE  \E i \in 1 .. Len(failures[k]) : InOneWindow(k, i)
    BY DEF LockEarned
  <2>1. Earned(failures[k])
    BY DEF Inv, Justified
  <2> QED
    BY <2>1 DEF Earned, InOneWindow
<1> QED
  BY <1>1, Invariance, PTL

\* Pruning the table forgets no key that is locked or failed within the window.
THEOREM PruningForgetsNothing == Spec => RecentKept
<1> DEFINE Kept == \A k \in DOMAIN keys :
                      \/ k \in DOMAIN keys'
                      \/ failures'[k] = <<>>
                      \/ now > keys[k].lockedUntil /\ now > keys[k].last + Window
<1>1. Inv /\ [Next]_vars => [Kept]_vars
  <2> SUFFICES ASSUME Inv, [Next]_vars PROVE Kept \/ UNCHANGED vars
    OBVIOUS
  <2>1. ASSUME NEW h \in Handlers, Fail(h) PROVE Kept
    <3> DEFINE f == handler[h].key
               at == handler[h].at
    <3>1. f \in Keys /\ at \in Nat /\ at <= now /\ now \in Nat
      BY DEF Inv, TypeOK
    <3>2. keys' = Failed(f, at)
      BY <2>1 DEF Fail
    <3> HIDE DEF f, at
    <3>3. \A k \in DOMAIN keys \ DOMAIN keys' : Stale(keys[k], at)
      BY <3>1, <3>2, FailedKeys
    <3>4. ASSUME NEW k \in DOMAIN keys, Stale(keys[k], at)
          PROVE  now > keys[k].lockedUntil /\ now > keys[k].last + Window
      <4>1. keys[k].lockedUntil \in Nat /\ keys[k].last \in Nat
        BY DEF Inv, TypeOK, Entries
      <4> QED
        BY <3>1, <3>4, <4>1, GuardAssumption DEF Stale
    <3> QED
      BY <3>3, <3>4
  <2>2. ASSUME NEW h \in Handlers, Reset(h) PROVE Kept
    <3> DEFINE r == handler[h].key
    <3>1. /\ keys' = [j \in DOMAIN keys \ {r} |-> keys[j]]
          /\ failures' = [failures EXCEPT ![r] = <<>>]
      BY <2>2 DEF Reset, Restrict
    <3>2. r \in Keys /\ failures \in [Keys -> Seq(Nat)]
      BY <2>2 DEF Inv, TypeOK
    <3> HIDE DEF r
    <3> QED
      BY <3>1, <3>2
  <2>3. ASSUME NEW h \in Handlers, NEW k \in Keys, Arrive(h, k) PROVE Kept
    BY <2>3 DEF Arrive
  <2>4. ASSUME NEW h \in Handlers, Check(h) \/ Authenticate(h) PROVE Kept
    BY <2>4 DEF Check, Authenticate
  <2>5. CASE Tick
    BY <2>5 DEF Tick
  <2> QED
    BY <2>1, <2>2, <2>3, <2>4, <2>5 DEF Next
<1>2. RecentKept <=> [][Kept]_vars
  BY DEF RecentKept
<1> HIDE DEF Kept
<1> QED
  BY <1>1, <1>2, Invariance, PTL DEF Spec

-----------------------------------------------------------------------------
(* How many failures a key gets in *)

Most == 2 * (MaxFails - 1) + Cardinality(Handlers)

\* A failure so far behind the clock lies in no span with a reading that can
\* still be reported.
Gap == Span + MaxDelay

Passed(f, p, t) == \A i \in 1 .. p : f[i] + Gap <= t

\* Of the logins `hs', those that can still report a failure of k with a
\* reading before `until'.
Pending(hs, k, until) ==
    {h \in Handlers : /\ hs[h].stage \in {"admitted", "rejected"}
                      /\ hs[h].key = k
                      /\ hs[h].at < until}

\* The readings are late by MaxDelay at most: none is that far behind the last
\* failure, none of an earlier window behind the start of this one, and none
\* behind the failure that set the lock.
NearLast(e, f) == \A i \in 1 .. Len(f) : f[i] <= e.last + MaxDelay

Behind(e, f) ==
    /\ \A i \in 1 .. Len(f) - e.fails : f[i] <= e.windowStart + MaxDelay
    /\ e.lockedUntil # Never =>
          \A i \in 1 .. Len(f) : f[i] + Lockout <= e.lockedUntil + MaxDelay

\* Without a lock two windows have failures that count; behind one, only the
\* `late' logins that were admitted before it add to them.
Room(e, f, late, t) ==
    IF e.lockedUntil = Never
    THEN /\ e.fails < MaxFails
         /\ \E p \in 0 .. Len(f) - e.fails :
               Len(f) - e.fails - p < MaxFails /\ Passed(f, p, t)
    ELSE \E p \in 0 .. Len(f) : Len(f) - p + late <= Most /\ Passed(f, p, t)

Late(hs, k, until) ==
    \A h \in Pending(hs, k, until) : hs[h].at + Lockout <= until + MaxDelay

Tracked(hs, k, e, f, t) ==
    /\ NearLast(e, f) /\ Behind(e, f)
    /\ Late(hs, k, e.lockedUntil)
    /\ Room(e, f, Cardinality(Pending(hs, k, e.lockedUntil)), t)

Timely == \A h \in Handlers : At(h, "idle") \/ now <= handler[h].at + MaxDelay

Within(f, t) == {i \in DOMAIN f : f[i] \in t .. t + Span - 1}

Guarded ==
    /\ Timely
    /\ \A k \in Keys : \A i \in 1 .. Len(failures[k]) : failures[k][i] <= now
    /\ \A k \in DOMAIN keys : Tracked(handler, k, keys[k], failures[k], now)
    /\ \A k \in Keys \ DOMAIN keys : Passed(failures[k], Len(failures[k]), now)
    /\ \A k \in Keys, t \in 1 .. MaxTime : Cardinality(Within(failures[k], t)) <= Most

GuessInv == Span >= 1 => Guarded

-----------------------------------------------------------------------------
LEMMA Numbers ==
  /\ Cardinality(Handlers) \in Nat /\ Most \in Nat /\ 2 * (MaxFails - 1) <= Most
  /\ Span \in Int /\ Gap \in Int
  /\ Span + 2 * MaxDelay <= Window /\ Span + 2 * MaxDelay <= Lockout
<1>1. Cardinality(Handlers) \in Nat
  BY GuardAssumption, FS_CardinalityType
<1> QED
  BY <1>1, GuardAssumption DEF Most, Span, Gap

LEMMA LongPassed ==
  ASSUME NEW x \in Nat, NEW y \in Nat, NEW t \in Nat, y <= t,
         x + Lockout <= y + MaxDelay \/ x + Window <= y + MaxDelay
  PROVE  x + Gap <= t
<1>1. Gap + MaxDelay <= Lockout /\ Gap + MaxDelay <= Window /\ Gap \in Int
  BY Numbers, GuardAssumption DEF Gap
<1> QED
  BY <1>1, GuardAssumption

LEMMA WindowPassed ==
  ASSUME NEW x \in Nat, NEW s \in Nat, NEW at \in Nat, NEW t \in Nat, at <= t,
         x <= s + MaxDelay, at > s + Window
  PROVE  x + Gap <= t
<1>1. x + Window <= at + MaxDelay
  BY GuardAssumption
<1> QED
  BY <1>1, LongPassed

LEMMA PassedLater ==
  ASSUME NEW f \in Seq(Nat), NEW p \in 0 .. Len(f), NEW t \in Nat, NEW u \in Nat, t <= u,
         Passed(f, p, t)
  PROVE  Passed(f, p, u)
<1> SUFFICES ASSUME NEW i \in 1 .. p PROVE f[i] + Gap <= u
  BY DEF Passed
<1>1. i \in 1 .. Len(f)
  OBVIOUS
<1>2. f[i] \in Nat
  BY <1>1
<1>3. f[i] + Gap <= t
  BY DEF Passed
<1>4. PICK x \in Nat : x = f[i]
  BY <1>2
<1>5. Gap \in Int /\ x + Gap <= t
  BY <1>3, <1>4, Numbers
<1>6. x + Gap <= u
  BY <1>5
<1> QED
  BY <1>4, <1>6

LEMMA PassedAppended ==
  ASSUME NEW f \in Seq(Nat), NEW at \in Nat, NEW p \in 0 .. Len(f), NEW t, Passed(f, p, t)
  PROVE  Passed(Append(f, at), p, t)
<1> SUFFICES ASSUME NEW i \in 1 .. p PROVE Append(f, at)[i] + Gap <= t
  BY DEF Passed
<1>1. i \in 1 .. Len(f)
  OBVIOUS
<1>2. Append(f, at)[i] = f[i]
  BY <1>1
<1>3. f[i] + Gap <= t
  BY DEF Passed
<1> QED
  BY <1>2, <1>3

\* Fewer late logins and a later clock leave as much room.
LEMMA RoomStays ==
  ASSUME NEW e \in Entries, NEW f \in Seq(Nat), NEW m \in Nat, NEW n \in Nat, n <= m,
         NEW t \in Nat, NEW u \in Nat, t <= u, e.fails <= Len(f), Room(e, f, m, t)
  PROVE  Room(e, f, n, u)
<1>1. e.fails \in Nat /\ Len(f) \in Nat
  BY DEF Entries
<1>2. CASE e.lockedUntil = Never
  <2>1. PICK p \in 0 .. Len(f) - e.fails :
            Len(f) - e.fails - p < MaxFails /\ Passed(f, p, t)
    BY <1>2 DEF Room
  <2>2. p \in 0 .. Len(f)
    BY <1>1
  <2> QED
    BY <1>2, <2>1, <2>2, PassedLater DEF Room
<1>3. CASE e.lockedUntil # Never
  <2>1. PICK p \in 0 .. Len(f) : Len(f) - p + m <= Most /\ Passed(f, p, t)
    BY <1>3 DEF Room
  <2>2. Len(f) - p + n <= Most
    BY <1>1, <2>1, Numbers
  <2> QED
    BY <1>3, <2>1, <2>2, PassedLater DEF Room
<1> QED
  BY <1>2, <1>3

\* What Counted does to an entry, and Append to the failures.
LEMMA CountedFields ==
  ASSUME NEW e \in Entries, NEW at \in Nat
  PROVE  LET c == Counted(e, at)
         IN  /\ c.fails = e.fails + 1 /\ c.windowStart = e.windowStart /\ c.last = at
             /\ c.lockedUntil = IF e.fails + 1 >= MaxFails THEN at + Lockout ELSE e.lockedUntil
BY DEF Counted, Entries

LEMMA AppendFields ==
  ASSUME NEW f \in Seq(Nat), NEW at \in Nat
  PROVE  LET g == Append(f, at)
         IN  /\ g \in Seq(Nat) /\ Len(g) = Len(f) + 1 /\ Len(f) \in Nat
             /\ \A i \in 1 .. Len(f) : g[i] = f[i] /\ f[i] \in Nat
             /\ g[Len(g)] = at
OBVIOUS

\* A failure that starts a window without a lock, or behind one that has ended.
LEMMA FirstInWindow ==
  ASSUME Span >= 1,
         NEW at \in Nat, NEW t \in Nat, at <= t, t <= at + MaxDelay,
         NEW e \in Entries, e.fails = 0, e.windowStart = at, e.lockedUntil = Never,
         NEW f \in Seq(Nat), \A i \in 1 .. Len(f) : f[i] <= t,
         NEW p \in 0 .. Len(f), Len(f) - p < MaxFails, Passed(f, p, t),
         NEW late \in Nat, late < Cardinality(Handlers)
  PROVE  /\ NearLast(Counted(e, at), Append(f, at))
         /\ Behind(Counted(e, at), Append(f, at))
         /\ Room(Counted(e, at), Append(f, at), late, t)
<1> DEFINE c == Counted(e, at)
           g == Append(f, at)
<1>1. /\ c.fails = 1 /\ c.windowStart = at /\ c.last = at
      /\ c.lockedUntil = IF 1 >= MaxFails THEN at + Lockout ELSE Never
  BY CountedFields
<1>2. /\ g \in Seq(Nat) /\ Len(g) = Len(f) + 1 /\ Len(f) \in Nat
      /\ \A i \in 1 .. Len(f) : g[i] = f[i] /\ f[i] \in Nat
      /\ g[Len(g)] = at
  BY AppendFields
<1> HIDE DEF c, g
<1>3. \A i \in 1 .. Len(g) : g[i] \in Nat /\ g[i] <= at + MaxDelay
  <2>1. ASSUME NEW i \in 1 .. Len(f) PROVE g[i] \in Nat /\ g[i] <= at + MaxDelay
    <3>1. g[i] = f[i] /\ f[i] \in Nat /\ f[i] <= t
      BY <1>2
    <3> QED
      BY <3>1, GuardAssumption
  <2>2. g[Len(g)] \in Nat /\ g[Len(g)] <= at + MaxDelay
    BY <1>2, GuardAssumption
  <2>3. \A i \in 1 .. Len(g) : i \in 1 .. Len(f) \/ i = Len(g)
    BY <1>2
  <2> QED
    BY <2>1, <2>2, <2>3
<1>4. NearLast(c, g) /\ Behind(c, g)
  <2>1. \A i \in 1 .. Len(g) - c.fails : i \in 1 .. Len(g)
    BY <1>1, <1>2
  <2>2. ASSUME c.lockedUntil # Never, NEW i \in 1 .. Len(g)
        PROVE  g[i] + Lockout <= c.lockedUntil + MaxDelay
    <3>1. c.lockedUntil = at + Lockout
      BY <1>1, <2>2
    <3>2. PICK x \in Nat : x = g[i]
      BY <1>3
    <3>3. x <= at + MaxDelay
      BY <1>3, <3>2
    <3>4. x + Lockout <= (at + Lockout) + MaxDelay
      BY <3>3, GuardAssumption
    <3> QED
      BY <3>1, <3>2, <3>4
  <2> QED
    BY <1>1, <1>3, <2>1, <2>2 DEF NearLast, Behind
<1>5. Passed(g, p, t)
  BY PassedAppended DEF g
<1>6. Room(c, g, late, t)
  <2>1. CASE MaxFails > 1
    <3>1. c.lockedUntil = Never /\ c.fails < MaxFails
      BY <1>1, <2>1, GuardAssumption
    <3>2. p \in 0 .. Len(g) - c.fails /\ Len(g) - c.fails - p < MaxFails
      BY <1>1, <1>2
    <3> QED
      BY <1>5, <3>1, <3>2 DEF Room
  <2>2. CASE MaxFails = 1
    <3>1. c.lockedUntil = at + Lockout /\ c.lockedUntil # Never
      BY <1>1, <2>2, GuardAssumption DEF Never
    <3>2. p \in 0 .. Len(g) /\ Len(g) - p = 1
      BY <1>2, <2>2
    <3>3. 1 + late <= Most
      BY <2>2, Numbers DEF Most
    <3> QED
      BY <1>5, <3>1, <3>2, <3>3 DEF Room
  <2> QED
    BY <2>1, <2>2, GuardAssumption
<1> QED
  BY <1>4, <1>6 DEF c, g

\* A failure that is counted in the window of an entry.
LEMMA NextInWindow ==
  ASSUME Span >= 1,
         NEW at \in Nat, NEW t \in Nat, at <= t, t <= at + MaxDelay,
         NEW e \in Entries, NEW f \in Seq(Nat), \A i \in 1 .. Len(f) : f[i] <= t,
         e.fails \in 0 .. Len(f), Behind(e, f),
         NEW m \in Nat, Room(e, f, m, t),
         NEW late \in Nat, late < Cardinality(Handlers),
         e.lockedUntil # Never => at + Lockout <= e.lockedUntil + MaxDelay /\ late < m
  PROVE  /\ NearLast(Counted(e, at), Append(f, at))
         /\ Behind(Counted(e, at), Append(f, at))
         /\ Room(Counted(e, at), Append(f, at), late, t)
<1> DEFINE c == Counted(e, at)
           g == Append(f, at)
<1>1. /\ c.fails = e.fails + 1 /\ c.windowStart = e.windowStart /\ c.last = at
      /\ c.lockedUntil = IF e.fails + 1 >= MaxFails THEN at + Lockout ELSE e.lockedUntil
  BY CountedFields
<1>2. /\ g \in Seq(Nat) /\ Len(g) = Len(f) + 1 /\ Len(f) \in Nat
      /\ \A i \in 1 .. Len(f) : g[i] = f[i] /\ f[i] \in Nat
      /\ g[Len(g)] = at
  BY AppendFields
<1>3. /\ e.fails \in Nat /\ e.windowStart \in Nat /\ e.lockedUntil \in Nat
      /\ e.fails <= Len(f)
  BY <1>2 DEF Entries
<1> HIDE DEF c, g
<1>4. \A i \in 1 .. Len(g) : g[i] \in Nat /\ g[i] <= at + MaxDelay
  <2>1. ASSUME NEW i \in 1 .. Len(f) PROVE g[i] \in Nat /\ g[i] <= at + MaxDelay
    <3>1. g[i] = f[i] /\ f[i] \in Nat /\ f[i] <= t
      BY <1>2
    <3> QED
      BY <3>1, GuardAssumption
  <2>2. g[Len(g)] \in Nat /\ g[Len(g)] <= at + MaxDelay
    BY <1>2, GuardAssumption
  <2>3. \A i \in 1 .. Len(g) : i \in 1 .. Len(f) \/ i = Len(g)
    BY <1>2
  <2> QED
    BY <2>1, <2>2, <2>3
<1>5. Len(g) - c.fails = Len(f) - e.fails
  <2>1. PICK n \in Nat, v \in Nat : n = Len(f) /\ v = e.fails
    BY <1>2, <1>3
  <2>2. Len(g) = n + 1 /\ c.fails = v + 1
    BY <1>1, <1>2, <2>1
  <2>3. (n + 1) - (v + 1) = n - v
    OBVIOUS
  <2> QED
    BY <2>1, <2>2, <2>3
<1>6. NearLast(c, g) /\ Behind(c, g)
  <2>1. ASSUME NEW i \in 1 .. Len(g) - c.fails PROVE g[i] <= c.windowStart + MaxDelay
    <3>1. i \in 1 .. Len(f) - e.fails /\ i \in 1 .. Len(f)
      BY <1>2, <1>3, <1>5
    <3> QED
      BY <1>1, <1>2, <3>1 DEF Behind
  <2>2. ASSUME c.lockedUntil # Never, NEW i \in 1 .. Len(g)
        PROVE  g[i] + Lockout <= c.lockedUntil + MaxDelay
    <3>1. CASE e.fails + 1 >= MaxFails
      <4>1. c.lockedUntil = at + Lockout
        BY <1>1, <3>1
      <4> QED
        BY <1>4, <4>1, GuardAssumption
    <3>2. CASE ~(e.fails + 1 >= MaxFails)
      <4>1. c.lockedUntil = e.lockedUntil /\ e.lockedUntil # Never
        BY <1>1, <2>2, <3>2
      <4>2. CASE i = Len(g)
        BY <1>2, <4>1, <4>2
      <4>3. CASE i # Len(g)
        <5>1. i \in 1 .. Len(f)
          BY <1>2, <4>3
        <5> QED
          BY <1>2, <4>1, <5>1 DEF Behind
      <4> QED
        BY <4>2, <4>3
    <3> QED
      BY <3>1, <3>2
  <2> QED
    BY <1>1, <1>4, <2>1, <2>2 DEF NearLast, Behind
<1>7. ASSUME NEW p \in 0 .. Len(f), Passed(f, p, t) PROVE Passed(g, p, t) /\ p \in 0 .. Len(g)
  <2>2. Passed(g, p, t)
    BY <1>7, PassedAppended DEF g
  <2>3. Len(g) = Len(f) + 1 /\ Len(f) \in Nat
    BY <1>2
  <2> QED
    BY <2>2, <2>3
<1>8. Room(c, g, late, t)
  <2>1. CASE e.lockedUntil = Never
    <3>1. PICK p \in 0 .. Len(f) - e.fails :
              Len(f) - e.fails - p < MaxFails /\ Passed(f, p, t)
      BY <2>1 DEF Room
    <3>2. e.fails < MaxFails
      BY <2>1 DEF Room
    <3>3. p \in 0 .. Len(f) /\ p \in Nat
      BY <1>2, <1>3
    <3>4. Passed(g, p, t) /\ p \in 0 .. Len(g)
      BY <1>7, <3>1, <3>3
    <3>5. CASE e.fails + 1 >= MaxFails
      <4>1. c.lockedUntil # Never
        BY <1>1, <3>5, GuardAssumption DEF Never
      <4>2. Len(g) - p <= 2 * (MaxFails - 1) + 1
        <5>1. PICK n \in Nat, v \in Nat : n = Len(f) /\ v = e.fails
          BY <1>2, <1>3
        <5>2. Len(g) = n + 1 /\ n - v - p < MaxFails /\ v < MaxFails
          BY <1>2, <3>1, <3>2, <5>1
        <5> QED
          BY <3>3, <5>2, GuardAssumption
      <4>3. Len(g) - p + late <= Most
        BY <1>2, <3>3, <4>2, Numbers, GuardAssumption DEF Most
      <4> QED
        BY <3>4, <4>1, <4>3 DEF Room
    <3>6. CASE ~(e.fails + 1 >= MaxFails)
      <4>1. c.lockedUntil = Never /\ c.fails < MaxFails
        BY <1>1, <1>3, <2>1, <3>6, GuardAssumption
      <4> QED
        BY <1>5, <3>1, <3>4, <4>1 DEF Room
    <3> QED
      BY <3>5, <3>6
  <2>2. CASE e.lockedUntil # Never
    <3>1. PICK p \in 0 .. Len(f) : Len(f) - p + m <= Most /\ Passed(f, p, t)
      BY <2>2 DEF Room
    <3>2. Passed(g, p, t) /\ p \in 0 .. Len(g)
      BY <1>7, <3>1
    <3>3. Len(g) - p + late <= Most
      BY <1>2, <2>2, <3>1, Numbers
    <3>4. c.lockedUntil # Never
      BY <1>1, <2>2, GuardAssumption DEF Never
    <3> QED
      BY <3>2, <3>3, <3>4 DEF Room
  <2> QED
    BY <2>1, <2>2
<1> QED
  BY <1>6, <1>8 DEF c, g

LEMMA RenewedFields ==
  ASSUME NEW e \in Entries, NEW at \in Nat
  PROVE  /\ Renewed(e, at) \in Entries
         /\ \/ Renewed(e, at).lockedUntil = Never
            \/ Renewed(e, at).lockedUntil = e.lockedUntil /\ ~LockExpired(e, at)
<1>1. CASE LockExpired(e, at)
  <2>1. Renewed(e, at) = [NewEntry(at) EXCEPT !.lockedUntil = Never]
    BY <1>1 DEF Renewed
  <2> QED
    BY <2>1, NewEntryType DEF Entries, Never
<1>2. CASE ~LockExpired(e, at) /\ WindowElapsed(e, at)
  <2>1. Renewed(e, at) = [NewEntry(at) EXCEPT !.lockedUntil = e.lockedUntil]
    BY <1>2 DEF Renewed
  <2> QED
    BY <1>2, <2>1, NewEntryType DEF Entries
<1>3. CASE ~LockExpired(e, at) /\ ~WindowElapsed(e, at)
  BY <1>3 DEF Renewed
<1> QED
  BY <1>1, <1>2, <1>3

\* A failure reported with the reading `at', while `late' logins stay that were
\* admitted before the lock.
LEMMA Reported ==
  ASSUME Span >= 1,
         NEW at \in Nat, NEW t \in Nat, at <= t, t <= at + MaxDelay,
         NEW e \in Entries, NEW f \in Seq(Nat), \A i \in 1 .. Len(f) : f[i] <= t,
         NEW m \in Nat, NEW late \in Nat, late < Cardinality(Handlers),
         \/ e = NewEntry(at) /\ Passed(f, Len(f), t)
         \/ CountsLast(e, f) /\ Behind(e, f) /\ Room(e, f, m, t),
         e.lockedUntil # Never /\ at < e.lockedUntil =>
             at + Lockout <= e.lockedUntil + MaxDelay /\ late < m
  PROVE  LET c == Counted(Renewed(e, at), at)
             g == Append(f, at)
         IN  NearLast(c, g) /\ Behind(c, g) /\ Room(c, g, late, t)
<1> DEFINE r == Renewed(e, at)
<1>1. /\ Len(f) \in Nat /\ \A i \in 1 .. Len(f) : f[i] \in Nat
      /\ e.windowStart \in Nat /\ e.lockedUntil \in Nat /\ e.fails \in Nat
  BY DEF Entries
<1>2. \A q \in 0 .. Len(f) : \A i \in 1 .. q : i \in 1 .. Len(f)
  BY <1>1
<1>3. /\ NewEntry(at) \in Entries /\ NewEntry(at).fails = 0
      /\ NewEntry(at).windowStart = at /\ NewEntry(at).lockedUntil = Never
  BY NewEntryType
<1>4. ASSUME r = NewEntry(at), NEW p \in 0 .. Len(f), Len(f) - p < MaxFails, Passed(f, p, t)
      PROVE  /\ NearLast(Counted(r, at), Append(f, at))
             /\ Behind(Counted(r, at), Append(f, at))
             /\ Room(Counted(r, at), Append(f, at), late, t)
  <2> HIDE DEF r
  <2> QED
    BY <1>3, <1>4, FirstInWindow
<1>5. CASE e = NewEntry(at) /\ Passed(f, Len(f), t)
  <2>1. r = NewEntry(at)
    BY <1>3, <1>5, GuardAssumption DEF Renewed, LockExpired, WindowElapsed
  <2>2. Len(f) \in 0 .. Len(f) /\ Len(f) - Len(f) < MaxFails
    BY <1>1, GuardAssumption
  <2> QED
    BY <1>4, <1>5, <2>1, <2>2
<1>6. CASE CountsLast(e, f) /\ Behind(e, f) /\ Room(e, f, m, t)
  <2>1. e.fails >= 1 /\ e.fails <= Len(f)
    BY <1>1, <1>6 DEF CountsLast
  <2>2. CASE LockExpired(e, at)
    <3>1. r = NewEntry(at)
      BY <2>2, <1>3 DEF Renewed, NewEntry
    <3>2. e.lockedUntil # Never /\ at >= e.lockedUntil
      BY <2>2 DEF LockExpired
    <3>3. ASSUME NEW i \in 1 .. Len(f) PROVE f[i] + Gap <= t
      <4>1. f[i] + Lockout <= e.lockedUntil + MaxDelay
        BY <1>6, <3>2 DEF Behind
      <4> QED
        <5>1. e.lockedUntil \in Nat /\ e.lockedUntil <= t /\ f[i] \in Nat
          BY <1>1, <3>2
        <5> QED
          BY <4>1, <5>1, LongPassed
    <3>4. Len(f) \in 0 .. Len(f) /\ Len(f) - Len(f) < MaxFails /\ Passed(f, Len(f), t)
      BY <1>1, <3>3, GuardAssumption DEF Passed
    <3> QED
      BY <1>4, <3>1, <3>4
  <2>3. CASE ~LockExpired(e, at) /\ WindowElapsed(e, at) /\ e.lockedUntil = Never
    <3>1. r = [NewEntry(at) EXCEPT !.lockedUntil = Never]
      BY <2>3 DEF Renewed
    <3>2. r = NewEntry(at)
      BY <3>1, <1>3 DEF NewEntry
    <3> DEFINE p == Len(f) - e.fails
    <3>3. p \in 0 .. Len(f) /\ Len(f) - p = e.fails
      BY <1>1, <2>1
    <3>4. Len(f) - p < MaxFails
      <4>1. e.fails < MaxFails
        BY <1>6, <2>3 DEF Room
      <4> QED
        BY <3>3, <4>1
    <3>5. ASSUME NEW i \in 1 .. p PROVE f[i] + Gap <= t
      <4>1. i \in 1 .. Len(f) /\ f[i] \in Nat
        BY <1>1, <1>2, <3>3
      <4>2. f[i] <= e.windowStart + MaxDelay
        BY <1>6 DEF Behind
      <4>3. at > e.windowStart + Window
        BY <2>3 DEF WindowElapsed
      <4> HIDE DEF p
      <4> QED
        BY <1>1, <4>1, <4>2, <4>3, WindowPassed
    <3>6. Passed(f, p, t)
      BY <3>5 DEF Passed
    <3> HIDE DEF p
    <3> QED
      BY <1>4, <3>2, <3>3, <3>4, <3>6
  <2>4. CASE ~LockExpired(e, at) /\ WindowElapsed(e, at) /\ e.lockedUntil # Never
    <3>1. r = [NewEntry(at) EXCEPT !.lockedUntil = e.lockedUntil]
      BY <2>4 DEF Renewed
    <3>2. /\ r \in Entries /\ r.fails = 0 /\ r.windowStart = at
          /\ r.lockedUntil = e.lockedUntil
      BY <1>1, <1>3, <3>1 DEF Entries
    <3>3. at < e.lockedUntil
      BY <1>1, <2>4 DEF LockExpired
    <3>4. Behind(r, f)
      <4>1. \A i \in 1 .. Len(f) - r.fails : i \in 1 .. Len(f)
        BY <1>1, <3>2
      <4>2. \A i \in 1 .. Len(f) : f[i] <= at + MaxDelay
        BY <1>1, GuardAssumption
      <4> QED
        BY <1>6, <3>2, <4>1, <4>2 DEF Behind
    <3>5. Room(r, f, m, t)
      BY <1>6, <2>4, <3>2 DEF Room
    <3>6. r.fails \in 0 .. Len(f)
      BY <1>1, <3>2
    <3> HIDE DEF r
    <3> QED
      BY <2>4, <3>2, <3>3, <3>4, <3>5, <3>6, NextInWindow DEF r
  <2>5. CASE ~LockExpired(e, at) /\ ~WindowElapsed(e, at)
    <3>1. r = e
      BY <2>5 DEF Renewed
    <3>2. e.lockedUntil # Never => at < e.lockedUntil
      BY <1>1, <2>5 DEF LockExpired
    <3>3. e.fails \in 0 .. Len(f)
      BY <1>1, <2>1
    <3> QED
      BY <1>6, <3>1, <3>2, <3>3, NextInWindow
  <2> QED
    BY <2>2, <2>3, <2>4, <2>5
<1> QED
  BY <1>5, <1>6

-----------------------------------------------------------------------------
(* The steps *)

LEMMA PendingSize ==
  ASSUME NEW hs, NEW k, NEW until
  PROVE  IsFiniteSet(Pending(hs, k, until)) /\ Cardinality(Pending(hs, k, until)) \in Nat
<1>1. Pending(hs, k, until) \subseteq Handlers
  BY DEF Pending
<1> QED
  BY <1>1, GuardAssumption, FS_Subset, FS_CardinalityType

LEMMA PendingShrinks ==
  ASSUME NEW hs, NEW gs, NEW k, NEW until, NEW limit,
         Pending(gs, k, limit) \subseteq Pending(hs, k, until)
  PROVE  Cardinality(Pending(gs, k, limit)) <= Cardinality(Pending(hs, k, until))
BY PendingSize, FS_Subset

\* An entry that is left alone while the clock goes on and the logins that can
\* still report get fewer.
LEMMA TrackedStays ==
  ASSUME NEW hs, NEW gs, NEW k, NEW e \in Entries, NEW f \in Seq(Nat),
         NEW t \in Nat, NEW u \in Nat, t <= u, e.fails <= Len(f),
         Tracked(hs, k, e, f, t),
         \A h \in Pending(gs, k, e.lockedUntil) :
             h \in Pending(hs, k, e.lockedUntil) /\ gs[h].at = hs[h].at
  PROVE  Tracked(gs, k, e, f, u)
<1> DEFINE n == Cardinality(Pending(gs, k, e.lockedUntil))
           m == Cardinality(Pending(hs, k, e.lockedUntil))
<1>1. n \in Nat /\ m \in Nat /\ n <= m
  BY PendingSize, PendingShrinks
<1>2. Room(e, f, m, t)
  BY DEF Tracked
<1>3. Room(e, f, n, u)
  <2> HIDE DEF n, m
  <2> QED
    BY <1>1, <1>2, RoomStays
<1>4. Late(gs, k, e.lockedUntil)
  BY DEF Tracked, Late
<1> QED
  BY <1>3, <1>4 DEF Tracked

\* What a step may do to a login without making it one that can report.
LEMMA QuietStep ==
  ASSUME Inv, Guarded, UNCHANGED <<keys, failures>>, now' \in Nat, now <= now', Timely',
         \A k \in DOMAIN keys : \A h \in Pending(handler', k, keys[k].lockedUntil) :
             /\ h \in Pending(handler, k, keys[k].lockedUntil)
             /\ handler'[h].at = handler[h].at
  PROVE  Guarded'
<1>1. /\ now \in Nat /\ failures \in [Keys -> Seq(Nat)] /\ DOMAIN keys \subseteq Keys
      /\ \A k \in DOMAIN keys : keys[k] \in Entries
  BY DEF Inv, TypeOK
<1>2. ASSUME NEW k \in DOMAIN keys PROVE Tracked(handler', k, keys[k], failures[k], now')
  <2>1. failures[k] \in Seq(Nat) /\ keys[k] \in Entries
    BY <1>1
  <2>2. keys[k].fails <= Len(failures[k])
    BY DEF Inv, Justified, CountsLast
  <2>3. Tracked(handler, k, keys[k], failures[k], now)
    BY DEF Guarded
  <2> QED
    BY <1>1, <2>1, <2>2, <2>3, TrackedStays
<1>3. ASSUME NEW k \in Keys PROVE \A i \in 1 .. Len(failures[k]) : failures[k][i] <= now'
  <2>1. failures[k] \in Seq(Nat)
    BY <1>1
  <2> SUFFICES ASSUME NEW i \in 1 .. Len(failures[k]) PROVE failures[k][i] <= now'
    OBVIOUS
  <2>2. failures[k][i] \in Nat /\ failures[k][i] <= now
    BY <2>1 DEF Guarded
  <2> QED
    BY <1>1, <2>2
<1>4. ASSUME NEW k \in Keys \ DOMAIN keys
      PROVE  Passed(failures[k], Len(failures[k]), now')
  <2>1. failures[k] \in Seq(Nat)
    BY <1>1
  <2>2. Len(failures[k]) \in 0 .. Len(failures[k]) /\ Passed(failures[k], Len(failures[k]), now)
    BY <2>1 DEF Guarded
  <2> QED
    BY <1>1, <2>1, <2>2, PassedLater
<1>5. \A k \in Keys, t \in 1 .. MaxTime : Cardinality(Within(failures[k], t)) <= Most
  BY DEF Guarded
<1> QED
  BY <1>2, <1>3, <1>4, <1>5 DEF Guarded

\* A step of one login that leaves the clock, the table and the failures alone.
LEMMA LoginGuarded ==
  ASSUME Inv, Guarded, UNCHANGED <<keys, now, failures>>, NEW h \in Handlers, NEW l,
         handler' = [handler EXCEPT ![h] = l],
         l.stage = "idle" \/ now <= l.at + MaxDelay,
         l.stage \in {"admitted", "rejected"} =>
             /\ l.key = handler[h].key /\ l.at = handler[h].at
             /\ \/ handler[h].stage \in {"admitted", "rejected"}
                \/ ~Refuses(l.key, l.at)
  PROVE  Guarded'
<1>1. \A g \in Handlers : handler'[g] = IF g = h THEN l ELSE handler[g]
  BY DEF Inv, TypeOK
<1>2. now \in Nat /\ now' \in Nat /\ now <= now' /\ now' = now
  BY DEF Inv, TypeOK
<1>3. Timely'
  BY <1>1, <1>2 DEF Timely, At, Guarded
<1>4. ASSUME NEW k \in DOMAIN keys, NEW g \in Pending(handler', k, keys[k].lockedUntil)
      PROVE  /\ g \in Pending(handler, k, keys[k].lockedUntil)
             /\ handler'[g].at = handler[g].at
  <2>1. g \in Handlers
    BY DEF Pending
  <2>2. CASE g # h
    BY <1>1, <2>1, <2>2 DEF Pending
  <2>3. CASE g = h
    <3>1. /\ l.stage \in {"admitted", "rejected"} /\ l.key = k
          /\ l.at < keys[k].lockedUntil
      BY <1>1, <2>1, <2>3 DEF Pending
    <3>2. Refuses(l.key, l.at)
      BY <3>1 DEF Refuses
    <3> QED
      BY <1>1, <2>1, <2>3, <3>1, <3>2 DEF Pending
  <2> QED
    BY <2>2, <2>3
<1> QED
  BY <1>2, <1>3, <1>4, QuietStep

LEMMA ArriveGuarded ==
  ASSUME Inv, Guarded, NEW h \in Handlers, NEW k \in Keys, Arrive(h, k)
  PROVE  Guarded'
<1> DEFINE l == [stage |-> "arrived", key |-> k, at |-> now]
<1>1. handler' = [handler EXCEPT ![h] = l] /\ UNCHANGED <<keys, now, failures>>
  BY DEF Arrive
<1>2. l.stage = "arrived" /\ now <= l.at + MaxDelay
  BY GuardAssumption DEF Inv, TypeOK
<1> HIDE DEF l
<1> QED
  BY <1>1, <1>2, LoginGuarded

LEMMA AnswerGuarded ==
  ASSUME Inv, Guarded, NEW h \in Handlers, Answer(h), UNCHANGED <<keys, now, failures>>
  PROVE  Guarded'
<1>1. Idle.stage = "idle"
  BY DEF Idle
<1> QED
  BY <1>1, LoginGuarded DEF Answer

LEMMA GoToGuarded ==
  ASSUME Inv, Guarded, NEW h \in Handlers, NEW stage, GoTo(h, stage),
         UNCHANGED <<keys, now, failures>>, ~At(h, "idle"),
         stage \in {"admitted", "rejected"} =>
             \/ handler[h].stage \in {"admitted", "rejected"}
             \/ ~Refuses(handler[h].key, handler[h].at)
  PROVE  Guarded'
<1> DEFINE l == [handler[h] EXCEPT !.stage = stage]
<1>1. handler[h] \in [stage : Stages, key : Keys, at : Nat]
  BY DEF Inv, TypeOK
<1>2. l.stage = stage /\ l.key = handler[h].key /\ l.at = handler[h].at
  BY <1>1
<1>3. handler' = [handler EXCEPT ![h] = l]
  BY DEF GoTo
<1>4. now <= l.at + MaxDelay
  BY <1>2 DEF Guarded, Timely
<1> HIDE DEF l
<1> QED
  BY <1>2, <1>3, <1>4, LoginGuarded

LEMMA CheckGuarded ==
  ASSUME Inv, Guarded, NEW h \in Handlers, Check(h)
  PROVE  Guarded'
<1>1. UNCHANGED <<keys, now, failures>> /\ ~At(h, "idle")
  BY DEF Check, At
<1> QED
  BY <1>1, AnswerGuarded, GoToGuarded DEF Check

LEMMA AuthenticateGuarded ==
  ASSUME Inv, Guarded, NEW h \in Handlers, Authenticate(h)
  PROVE  Guarded'
<1>1. UNCHANGED <<keys, now, failures>> /\ ~At(h, "idle") /\ handler[h].stage = "admitted"
  BY DEF Authenticate, At
<1> QED
  BY <1>1, GoToGuarded DEF Authenticate

LEMMA TickGuarded ==
  ASSUME Inv, Guarded, Tick
  PROVE  Guarded'
<1>1. /\ now' = now + 1 /\ UNCHANGED <<keys, handler, failures>>
      /\ \A h \in Handlers : At(h, "idle") \/ now < handler[h].at + MaxDelay
  BY DEF Tick
<1>2. now \in Nat /\ \A h \in Handlers : handler[h].at \in Nat
  BY DEF Inv, TypeOK
<1>3. Timely'
  <2> SUFFICES ASSUME NEW h \in Handlers, ~At(h, "idle")
               PROVE  now + 1 <= handler[h].at + MaxDelay
    BY <1>1 DEF Timely, At
  <2> QED
    BY <1>1, <1>2, GuardAssumption
<1> QED
  BY <1>1, <1>2, <1>3, QuietStep

\* A login that is answered reports nothing any more.
LEMMA AnsweredPending ==
  ASSUME Inv, NEW h \in Handlers, Answer(h), NEW k, NEW until,
         NEW g \in Pending(handler', k, until)
  PROVE  /\ g \in Handlers /\ g # h /\ handler'[g] = handler[g]
         /\ g \in Pending(handler, k, until)
<1>1. \A j \in Handlers : handler'[j] = IF j = h THEN Idle ELSE handler[j]
  BY DEF Inv, TypeOK, Answer
<1>2. Idle.stage = "idle"
  BY DEF Idle
<1> QED
  BY <1>1, <1>2 DEF Pending

LEMMA AnsweredTimely ==
  ASSUME Inv, Timely, NEW h \in Handlers, Answer(h), now' = now
  PROVE  Timely'
<1>1. \A j \in Handlers : handler'[j] = IF j = h THEN Idle ELSE handler[j]
  BY DEF Inv, TypeOK, Answer
<1>2. Idle.stage = "idle"
  BY DEF Idle
<1> QED
  BY <1>1, <1>2 DEF Timely, At

LEMMA WithinNone ==
  ASSUME NEW t \in Nat
  PROVE  Cardinality(Within(<<>>, t)) = 0
<1>1. Within(<<>>, t) = {}
  BY DEF Within
<1> QED
  BY <1>1, FS_EmptySet

LEMMA ResetGuarded ==
  ASSUME Inv, Guarded, NEW h \in Handlers, Reset(h)
  PROVE  Guarded'
<1> DEFINE k == handler[h].key
<1>1. /\ keys' = [j \in DOMAIN keys \ {k} |-> keys[j]]
      /\ failures' = [failures EXCEPT ![k] = <<>>]
      /\ Answer(h) /\ now' = now
  BY DEF Reset, Restrict
<1>2. /\ k \in Keys /\ failures \in [Keys -> Seq(Nat)] /\ DOMAIN keys \subseteq Keys
      /\ now \in Nat /\ \A j \in DOMAIN keys : keys[j] \in Entries
  BY DEF Inv, TypeOK
<1> HIDE DEF k
<1>3. /\ DOMAIN keys' = DOMAIN keys \ {k}
      /\ \A j \in DOMAIN keys' : keys'[j] = keys[j]
      /\ failures'[k] = <<>>
      /\ \A j \in Keys \ {k} : failures'[j] = failures[j]
  BY <1>1, <1>2
<1>4. Timely'
  BY <1>1, AnsweredTimely DEF Guarded
<1>5. ASSUME NEW j \in DOMAIN keys'
      PROVE  Tracked(handler', j, keys'[j], failures'[j], now')
  <2>1. /\ j \in DOMAIN keys /\ j \in Keys /\ keys'[j] = keys[j] /\ failures'[j] = failures[j]
        /\ keys[j] \in Entries /\ failures[j] \in Seq(Nat)
    BY <1>2, <1>3
  <2>2. keys[j].fails <= Len(failures[j])
    BY <2>1 DEF Inv, Justified, CountsLast
  <2>3. Tracked(handler, j, keys[j], failures[j], now)
    BY <2>1 DEF Guarded
  <2>4. \A g \in Pending(handler', j, keys[j].lockedUntil) :
            g \in Pending(handler, j, keys[j].lockedUntil) /\ handler'[g].at = handler[g].at
    BY <1>1, AnsweredPending
  <2>5. Tracked(handler', j, keys[j], failures[j], now)
    <3>1. now \in Nat /\ now <= now
      BY <1>2
    <3> QED
      BY <2>1, <2>2, <2>3, <2>4, <3>1, TrackedStays
  <2> QED
    BY <1>1, <2>1, <2>5
<1>6. ASSUME NEW j \in Keys
      PROVE  /\ \A i \in 1 .. Len(failures'[j]) : failures'[j][i] <= now'
             /\ j \notin DOMAIN keys' => Passed(failures'[j], Len(failures'[j]), now')
             /\ \A t \in 1 .. MaxTime : Cardinality(Within(failures'[j], t)) <= Most
  <2>1. CASE j = k
    <3>1. failures'[j] = <<>> /\ Len(failures'[j]) = 0
      BY <1>3, <2>1
    <3>2. ASSUME NEW t \in 1 .. MaxTime PROVE Cardinality(Within(failures'[j], t)) <= Most
      <4>1. Cardinality(Within(failures'[j], t)) = 0
        BY <3>1, WithinNone
      <4> QED
        BY <4>1, Numbers
    <3> QED
      BY <3>1, <3>2 DEF Passed
  <2>2. CASE j # k
    BY <1>1, <1>3, <2>2 DEF Guarded
  <2> QED
    BY <2>1, <2>2
<1> QED
  BY <1>4, <1>5, <1>6 DEF Guarded

\* A new failure adds to the spans that hold its reading, and those hold no
\* failure that is long passed.
LEMMA WithinAppended ==
  ASSUME Span >= 1, NEW f \in Seq(Nat), NEW at \in Nat, NEW now1 \in Nat,
         now1 <= at + MaxDelay,
         NEW p \in 0 .. Len(f) + 1, Passed(Append(f, at), p, now1), Len(f) + 1 - p <= Most,
         NEW t \in Nat, Cardinality(Within(f, t)) <= Most
  PROVE  Cardinality(Within(Append(f, at), t)) <= Most
<1> DEFINE g == Append(f, at)
<1>1. /\ Len(g) = Len(f) + 1 /\ Len(f) \in Nat
      /\ \A i \in 1 .. Len(f) : g[i] = f[i]
      /\ g[Len(g)] = at
  BY AppendFields
<1>2. DOMAIN f = 1 .. Len(f) /\ DOMAIN g = 1 .. Len(g)
  OBVIOUS
<1>3. \A i \in 1 .. Len(g) : g[i] \in Nat
  BY AppendFields
<1>4. Passed(g, p, now1)
  OBVIOUS
<1> HIDE DEF g
<1>5. CASE at \in t .. t + Span - 1
  <2>1. ASSUME NEW i \in Within(g, t) PROVE i \in p + 1 .. Len(g)
    <3>1. i \in 1 .. Len(g) /\ g[i] \in Nat /\ g[i] >= t
      BY <1>2, <1>3, Numbers DEF Within
    <3>2. PICK x \in Nat : x = g[i]
      BY <3>1
    <3>3. at <= t + Span - 1 /\ x >= t
      BY <1>5, <3>1, <3>2
    <3>7. ~(x + Gap <= now1)
      BY <3>3, Numbers, GuardAssumption DEF Gap
    <3>4. i \notin 1 .. p
      BY <1>4, <3>2, <3>7 DEF Passed
    <3>5. p \in Nat /\ i \in Nat /\ i <= Len(g) /\ i >= 1
      BY <1>1, <3>1
    <3>6. i > p
      BY <3>4, <3>5
    <3> QED
      BY <1>1, <3>5, <3>6
  <2>2. p + 1 \in Int /\ Len(g) \in Int /\ p <= Len(g)
    BY <1>1
  <2>3. /\ IsFiniteSet(p + 1 .. Len(g))
        /\ Cardinality(p + 1 .. Len(g)) = IF p + 1 > Len(g) THEN 0 ELSE Len(g) - (p + 1) + 1
    BY <2>2, FS_Interval
  <2>4. Cardinality(p + 1 .. Len(g)) <= Most
    <3>1. Len(g) - (p + 1) + 1 = Len(f) + 1 - p
      BY <1>1
    <3> QED
      BY <2>3, <3>1, Numbers
  <2>5. /\ IsFiniteSet(Within(g, t)) /\ Cardinality(Within(g, t)) <= Cardinality(p + 1 .. Len(g))
        /\ Cardinality(Within(g, t)) \in Nat /\ Cardinality(p + 1 .. Len(g)) \in Nat
    BY <2>1, <2>3, FS_Subset, FS_CardinalityType
  <2> QED
    BY <2>4, <2>5, Numbers DEF g
<1>6. CASE at \notin t .. t + Span - 1
  <2>1. \A i \in 1 .. Len(g) : i \in 1 .. Len(f) \/ i = Len(g)
    BY <1>1
  <2>2. \A i \in 1 .. Len(f) : i \in 1 .. Len(g)
    BY <1>1
  <2>3. Within(g, t) = Within(f, t)
    BY <1>1, <1>2, <1>6, <2>1, <2>2 DEF Within
  <2> QED
    BY <2>3 DEF g
<1> QED
  BY <1>5, <1>6

LEMMA RoomBound ==
  ASSUME NEW e \in Entries, NEW f \in Seq(Nat), e.fails <= Len(f), NEW m \in Nat, NEW t,
         Room(e, f, m, t)
  PROVE  \E p \in 0 .. Len(f) : Len(f) - p <= Most /\ Passed(f, p, t)
<1>1. PICK n \in Nat, v \in Nat : n = Len(f) /\ v = e.fails
  BY DEF Entries
<1>2. v <= n
  BY <1>1
<1>3. CASE e.lockedUntil = Never
  <2>1. PICK p \in 0 .. n - v : n - v - p < MaxFails /\ Passed(f, p, t)
    BY <1>1, <1>3 DEF Room
  <2>2. v < MaxFails
    BY <1>1, <1>3 DEF Room
  <2>3. p \in 0 .. n
    BY <1>2
  <2>4. n - p <= 2 * (MaxFails - 1)
    BY <1>2, <2>1, <2>2, GuardAssumption
  <2>5. n - p <= Most
    BY <2>3, <2>4, Numbers, GuardAssumption
  <2> QED
    BY <1>1, <2>1, <2>3, <2>5
<1>4. CASE e.lockedUntil # Never
  <2>1. PICK p \in 0 .. n : n - p + m <= Most /\ Passed(f, p, t)
    BY <1>1, <1>4 DEF Room
  <2>2. n - p <= Most
    BY <2>1, Numbers
  <2> QED
    BY <1>1, <2>1, <2>2
<1> QED
  BY <1>3, <1>4

\* The entry that Fail counts in: the one there was, or a new one where there
\* was none or a stale one.
LEMMA FailedEntry ==
  ASSUME NEW k, NEW at
  PROVE  \E e :
            /\ Failed(k, at)[k] = Counted(Renewed(e, at), at)
            /\ \/ k \in DOMAIN keys /\ e = keys[k]
               \/ (k \in DOMAIN keys => Stale(keys[k], at)) /\ e = NewEntry(at)
<1> DEFINE swept == Swept(at)
           old == IF k \in DOMAIN swept THEN swept[k] ELSE NewEntry(at)
<1>1. Failed(k, at)[k] = Counted(Renewed(old, at), at)
  BY DEF Failed
<1>2. /\ k \in DOMAIN swept => k \in DOMAIN keys /\ swept[k] = keys[k]
      /\ k \notin DOMAIN swept => (k \in DOMAIN keys => Stale(keys[k], at))
  <2>1. CASE Cardinality(DOMAIN keys) < MaxKeys
    BY <2>1 DEF Swept
  <2>2. CASE ~(Cardinality(DOMAIN keys) < MaxKeys)
    <3>1. swept = [j \in {j \in DOMAIN keys : ~Stale(keys[j], at)} |-> keys[j]]
      BY <2>2 DEF Swept, Restrict
    <3> HIDE DEF swept
    <3> QED
      BY <3>1
  <2> QED
    BY <2>1, <2>2
<1> HIDE DEF swept
<1> QED
  BY <1>1, <1>2

\* All the failures of a stale entry are long passed.
LEMMA StalePassed ==
  ASSUME NEW e \in Entries, NEW f \in Seq(Nat), NearLast(e, f),
         NEW at \in Nat, NEW t \in Nat, at <= t, Stale(e, at)
  PROVE  Passed(f, Len(f), t)
<1> SUFFICES ASSUME NEW i \in 1 .. Len(f) PROVE f[i] + Gap <= t
  BY DEF Passed
<1>1. f[i] \in Nat /\ e.last \in Nat /\ f[i] <= e.last + MaxDelay /\ at > e.last + Window
  BY DEF NearLast, Stale, Entries
<1> QED
  BY <1>1, WindowPassed

LEMMA FailGuarded ==
  ASSUME Inv, Guarded, Span >= 1, NEW h \in Handlers, Fail(h)
  PROVE  Guarded'
<1> DEFINE k == handler[h].key
           at == handler[h].at
           f == failures[k]
           g == Append(f, at)
           c == keys'[k]
           late == Cardinality(Pending(handler', k, c.lockedUntil))
<1>1. /\ keys' = Failed(k, at) /\ failures' = [failures EXCEPT ![k] = g]
      /\ Answer(h) /\ now' = now /\ handler[h].stage = "rejected"
  BY DEF Fail, At
<1>2. /\ k \in Keys /\ at \in Nat /\ at <= now /\ now \in Nat
      /\ failures \in [Keys -> Seq(Nat)] /\ DOMAIN keys \subseteq Keys
      /\ f \in Seq(Nat) /\ \A j \in DOMAIN keys : keys[j] \in Entries
  BY DEF Inv, TypeOK
<1>3. now <= at + MaxDelay
  BY <1>1 DEF Guarded, Timely, At
<1>4. \A i \in 1 .. Len(f) : f[i] <= now
  BY <1>2 DEF Guarded
<1>5. at \in Nat /\ k \in Keys /\ handler[h].key = k /\ handler[h].at = at /\ f = failures[k]
  BY <1>2
<1> HIDE DEF k, at, f
<1>6. g \in Seq(Nat) /\ Len(g) = Len(f) + 1 /\ Len(f) \in Nat
  BY <1>2, AppendFields
<1>7. /\ k \in DOMAIN keys' /\ DOMAIN keys' \subseteq Keys
      /\ \A j \in DOMAIN keys' : keys'[j] \in Entries
      /\ Justified(c, g)
      /\ \A j \in DOMAIN keys' \ {k} : j \in DOMAIN keys /\ keys'[j] = keys[j]
      /\ \A j \in DOMAIN keys \ DOMAIN keys' : Stale(keys[j], at)
  BY <1>1, <1>2, <1>5, FailedKeys
<1>8. failures'[k] = g /\ \A j \in Keys \ {k} : failures'[j] = failures[j]
  BY <1>1, <1>2
<1>9. c \in Entries
  BY <1>7
<1> HIDE DEF g, c
<1>10. late \in Nat /\ late < Cardinality(Handlers)
  <2>1. Pending(handler', k, c.lockedUntil) \subseteq Handlers \ {h}
    BY <1>1, AnsweredPending
  <2>2. IsFiniteSet(Handlers) /\ Cardinality(Handlers \ {h}) = Cardinality(Handlers) - 1
    BY GuardAssumption, FS_RemoveElement
  <2>3. late <= Cardinality(Handlers \ {h})
    BY <2>1, <2>2, FS_Subset
  <2> QED
    BY <2>2, <2>3, PendingSize, Numbers
<1>11. \A j \in Handlers : handler'[j] = IF j = h THEN Idle ELSE handler[j]
  BY <1>1 DEF Inv, TypeOK, Answer
<1>12. PICK e : /\ c = Counted(Renewed(e, at), at)
                /\ \/ k \in DOMAIN keys /\ e = keys[k]
                   \/ (k \in DOMAIN keys => Stale(keys[k], at)) /\ e = NewEntry(at)
  <2>1. c = Failed(k, at)[k]
    BY <1>1 DEF c
  <2> QED
    BY <2>1, FailedEntry
<1>13. e \in Entries
  BY <1>2, <1>12, NewEntryType
<1> DEFINE m == Cardinality(Pending(handler, k, e.lockedUntil))
<1>14. m \in Nat
  BY PendingSize
\* No other login has a reading behind a lock that this one was admitted before.
<1>15. ASSUME e.lockedUntil # Never, at < e.lockedUntil
       PROVE  /\ at + Lockout <= e.lockedUntil + MaxDelay /\ late < m
              /\ Late(handler, k, e.lockedUntil)
  <2>1. k \in DOMAIN keys /\ e = keys[k]
    BY <1>2, <1>12, <1>15, NewEntryType
  <2>2. Late(handler, k, e.lockedUntil)
    BY <2>1 DEF Guarded, Tracked
  <2>3. h \in Pending(handler, k, e.lockedUntil)
    BY <1>1, <1>5, <1>15 DEF Pending
  <2>4. at + Lockout <= e.lockedUntil + MaxDelay
    BY <1>5, <2>2, <2>3 DEF Late
  <2>5. ASSUME NEW j \in Pending(handler', k, c.lockedUntil)
        PROVE  j \in Pending(handler, k, e.lockedUntil) \ {h}
    <3>1. /\ j \in Handlers /\ j # h /\ handler'[j] = handler[j]
          /\ j \in Pending(handler, k, c.lockedUntil)
      BY <1>1, AnsweredPending
    <3>2. handler[j].at \in Nat /\ handler[j].at <= now
      BY <3>1 DEF Inv, TypeOK
    <3>3. e.lockedUntil \in Nat
      BY <1>13 DEF Entries
    <3>4. handler[j].at < e.lockedUntil
      BY <1>2, <1>3, <1>5, <2>4, <3>2, <3>3, Numbers, GuardAssumption
    <3> QED
      BY <3>1, <3>4 DEF Pending
  <2>6. late < m
    <3>1. IsFiniteSet(Pending(handler, k, e.lockedUntil))
      BY PendingSize
    <3>2. Cardinality(Pending(handler, k, e.lockedUntil) \ {h}) = m - 1
          /\ IsFiniteSet(Pending(handler, k, e.lockedUntil) \ {h})
      BY <2>3, <3>1, FS_RemoveElement
    <3>3. late <= Cardinality(Pending(handler, k, e.lockedUntil) \ {h})
      BY <2>5, <3>2, FS_Subset
    <3> QED
      BY <1>10, <1>14, <3>2, <3>3
  <2> QED
    BY <2>2, <2>4, <2>6
<1>16. \/ e = NewEntry(at) /\ Passed(f, Len(f), now)
       \/ CountsLast(e, f) /\ Behind(e, f) /\ Room(e, f, m, now)
  <2>1. CASE k \in DOMAIN keys /\ e = keys[k]
    BY <1>5, <2>1 DEF Inv, Justified, Guarded, Tracked
  <2>2. CASE k \in DOMAIN keys /\ Stale(keys[k], at) /\ e = NewEntry(at)
    <3>1. keys[k] \in Entries /\ NearLast(keys[k], f)
      BY <1>2, <1>5, <2>2 DEF Guarded, Tracked
    <3> QED
      BY <1>2, <2>2, <3>1, StalePassed
  <2>3. CASE k \notin DOMAIN keys /\ e = NewEntry(at)
    BY <1>5, <2>3 DEF Guarded
  <2> QED
    BY <1>12, <2>1, <2>2, <2>3
<1>17. NearLast(c, g) /\ Behind(c, g) /\ Room(c, g, late, now)
  <2> HIDE DEF late, m
  <2>1. e.lockedUntil # Never /\ at < e.lockedUntil =>
            at + Lockout <= e.lockedUntil + MaxDelay /\ late < m
    BY <1>15
  <2> QED
    BY <1>2, <1>3, <1>4, <1>10, <1>12, <1>13, <1>14, <1>16, <2>1, Reported DEF g
<1>18. Late(handler', k, c.lockedUntil)
  <2> SUFFICES ASSUME NEW j \in Pending(handler', k, c.lockedUntil)
               PROVE  handler'[j].at + Lockout <= c.lockedUntil + MaxDelay
    BY DEF Late
  <2>1. /\ j \in Handlers /\ handler'[j] = handler[j] /\ j \in Pending(handler, k, c.lockedUntil)
    BY <1>1, AnsweredPending
  <2>2. handler[j].at \in Nat /\ handler[j].at <= now
    BY <2>1 DEF Inv, TypeOK
  <2>3. \/ c.lockedUntil = at + Lockout
        \/ c.lockedUntil = e.lockedUntil /\ e.lockedUntil # Never /\ at < e.lockedUntil
        \/ c.lockedUntil = Never
    <3>1. \/ c.lockedUntil = at + Lockout
          \/ c.lockedUntil = Renewed(e, at).lockedUntil
      <4>1. Renewed(e, at) \in Entries
        BY <1>2, <1>13, RenewedFields
      <4> QED
        BY <1>2, <1>12, <4>1, CountedFields
    <3>2. \/ Renewed(e, at).lockedUntil = Never
          \/ Renewed(e, at).lockedUntil = e.lockedUntil /\ ~LockExpired(e, at)
      BY <1>2, <1>13, RenewedFields
    <3>3. ~LockExpired(e, at) => e.lockedUntil = Never \/ at < e.lockedUntil
      <4>1. e.lockedUntil \in Nat
        BY <1>13 DEF Entries
      <4> QED
        BY <1>2, <4>1 DEF LockExpired
    <3> QED
      BY <3>1, <3>2, <3>3
  <2>4. CASE c.lockedUntil = at + Lockout
    BY <1>2, <1>3, <2>1, <2>2, <2>4, GuardAssumption
  <2>5. CASE c.lockedUntil = e.lockedUntil /\ e.lockedUntil # Never /\ at < e.lockedUntil
    <3>1. Late(handler, k, e.lockedUntil)
      BY <1>15, <2>5
    <3> QED
      BY <2>1, <2>5, <3>1 DEF Late
  <2>6. CASE c.lockedUntil = Never
    <3>1. handler[j].at < Never
      BY <2>1, <2>6 DEF Pending
    <3> QED
      BY <2>2, <3>1 DEF Never
  <2> QED
    BY <2>3, <2>4, <2>5, <2>6
<1>19. Tracked(handler', k, c, g, now)
  BY <1>17, <1>18 DEF Tracked
<1>20. ASSUME NEW j \in DOMAIN keys' \ {k}
       PROVE  Tracked(handler', j, keys[j], failures[j], now)
  <2>1. j \in DOMAIN keys /\ j \in Keys /\ keys[j] \in Entries /\ failures[j] \in Seq(Nat)
    BY <1>2, <1>7
  <2>2. keys[j].fails <= Len(failures[j])
    BY <2>1 DEF Inv, Justified, CountsLast
  <2>3. Tracked(handler, j, keys[j], failures[j], now)
    BY <2>1 DEF Guarded
  <2>4. \A i \in Pending(handler', j, keys[j].lockedUntil) :
            i \in Pending(handler, j, keys[j].lockedUntil) /\ handler'[i].at = handler[i].at
    BY <1>1, AnsweredPending
  <2>5. now \in Nat /\ now <= now
    BY <1>2
  <2> QED
    BY <2>1, <2>2, <2>3, <2>4, <2>5, TrackedStays
<1>21. ASSUME NEW j \in DOMAIN keys'
       PROVE  Tracked(handler', j, keys'[j], failures'[j], now')
  <2>1. CASE j = k
    BY <1>1, <1>8, <1>19, <2>1 DEF c
  <2>2. CASE j # k
    <3>1. keys'[j] = keys[j] /\ failures'[j] = failures[j]
      BY <1>7, <1>8, <2>2
    <3> QED
      BY <1>1, <1>20, <2>2, <3>1
  <2> QED
    BY <2>1, <2>2
<1>22. \A i \in 1 .. Len(g) : g[i] <= now
  <2>1. /\ \A i \in 1 .. Len(f) : g[i] = f[i]
        /\ g[Len(g)] = at
    BY <1>2, AppendFields DEF g
  <2>2. \A i \in 1 .. Len(g) : i \in 1 .. Len(f) \/ i = Len(g)
    BY <1>6
  <2> QED
    BY <1>2, <1>4, <2>1, <2>2
<1>23. ASSUME NEW t \in 1 .. MaxTime PROVE Cardinality(Within(g, t)) <= Most
  <2>1. c.fails <= Len(g)
    BY <1>6, <1>7, <1>9 DEF Justified, CountsLast
  <2>2. PICK p \in 0 .. Len(g) : Len(g) - p <= Most /\ Passed(g, p, now)
    BY <1>6, <1>9, <1>10, <1>17, <2>1, RoomBound
  <2>3. Cardinality(Within(f, t)) <= Most
    BY <1>5 DEF Guarded
  <2>4. t \in Nat /\ p \in 0 .. Len(f) + 1 /\ Len(f) + 1 - p <= Most
    BY <1>6, <2>2
  <2> QED
    BY <1>2, <1>3, <2>2, <2>3, <2>4, WithinAppended DEF g
<1>24. ASSUME NEW j \in Keys
       PROVE  /\ \A i \in 1 .. Len(failures'[j]) : failures'[j][i] <= now'
              /\ j \notin DOMAIN keys' => Passed(failures'[j], Len(failures'[j]), now')
              /\ \A t \in 1 .. MaxTime : Cardinality(Within(failures'[j], t)) <= Most
  <2>1. CASE j = k
    BY <1>1, <1>7, <1>8, <1>22, <1>23, <2>1
  <2>2. CASE j # k
    <3>1. failures'[j] = failures[j] /\ failures[j] \in Seq(Nat)
      BY <1>2, <1>8, <2>2
    <3>2. ASSUME j \notin DOMAIN keys' PROVE Passed(failures[j], Len(failures[j]), now)
      <4>1. CASE j \notin DOMAIN keys
        BY <4>1 DEF Guarded
      <4>2. CASE j \in DOMAIN keys
        <5>1. Stale(keys[j], at) /\ keys[j] \in Entries /\ NearLast(keys[j], failures[j])
          BY <1>2, <1>7, <3>2, <4>2 DEF Guarded, Tracked
        <5> QED
          BY <1>2, <3>1, <5>1, StalePassed
      <4> QED
        BY <4>1, <4>2
    <3> QED
      BY <1>1, <3>1, <3>2 DEF Guarded
  <2> QED
    BY <2>1, <2>2
<1>25. Timely'
  BY <1>1, AnsweredTimely DEF Guarded
<1> QED
  BY <1>21, <1>24, <1>25 DEF Guarded

LEMMA InitGuarded == Init => Guarded
<1> SUFFICES ASSUME Init PROVE Guarded
  OBVIOUS
<1>1. /\ DOMAIN keys = {} /\ \A h \in Handlers : handler[h] = Idle
      /\ \A k \in Keys : failures[k] = <<>>
  BY DEF Init
<1>2. Timely
  <2>1. Idle.stage = "idle"
    BY DEF Idle
  <2> QED
    BY <1>1, <2>1 DEF Timely, At
<1>3. \A k \in Keys : Len(failures[k]) = 0
  BY <1>1
<1>4. ASSUME NEW k \in Keys, NEW t \in 1 .. MaxTime
      PROVE  Cardinality(Within(failures[k], t)) <= Most
  <2>1. Cardinality(Within(failures[k], t)) = 0
    BY <1>1, WithinNone
  <2> QED
    BY <2>1, Numbers
<1> QED
  BY <1>1, <1>2, <1>3, <1>4 DEF Guarded, Passed

LEMMA NextGuarded ==
  ASSUME Inv, Guarded, Span >= 1, [Next]_vars
  PROVE  Guarded'
<1>1. ASSUME NEW h \in Handlers, NEW k \in Keys, Arrive(h, k) PROVE Guarded'
  BY <1>1, ArriveGuarded
<1>2. ASSUME NEW h \in Handlers, Check(h) PROVE Guarded'
  BY <1>2, CheckGuarded
<1>3. ASSUME NEW h \in Handlers, Authenticate(h) PROVE Guarded'
  BY <1>3, AuthenticateGuarded
<1>4. ASSUME NEW h \in Handlers, Fail(h) PROVE Guarded'
  BY <1>4, FailGuarded
<1>5. ASSUME NEW h \in Handlers, Reset(h) PROVE Guarded'
  BY <1>5, ResetGuarded
<1>6. CASE Tick
  BY <1>6, TickGuarded
<1>7. CASE UNCHANGED vars
  BY <1>7 DEF vars, Guarded, Timely, At
<1> QED
  BY <1>1, <1>2, <1>3, <1>4, <1>5, <1>6, <1>7 DEF Next

\* GuessInv holds throughout.
THEOREM GuessInvariance == Spec => [](Inv /\ GuessInv)
<1>1. Init => Inv /\ GuessInv
  BY InitInv, InitGuarded DEF GuessInv
<1>2. Inv /\ GuessInv /\ [Next]_vars => (Inv /\ GuessInv)'
  <2> SUFFICES ASSUME Inv, GuessInv, [Next]_vars PROVE (Inv /\ GuessInv)'
    OBVIOUS
  <2>1. Inv'
    BY NextInv
  <2>2. ASSUME Span >= 1 PROVE Guarded'
    BY <2>2, NextGuarded DEF GuessInv
  <2> QED
    BY <2>1, <2>2 DEF GuessInv
<1> QED
  BY <1>1, <1>2, PTL DEF Spec

\* A password is guessed at a bounded rate, however logins interleave, however
\* late they read the clock and whatever is pruned: in any span as long as the
\* window or the lockout, less twice the delay of a login, at most
\* 2 * (MaxFails - 1) + Cardinality(Handlers) failures of a source are counted.
THEOREM GuessesAreBounded == Spec => []GuessesBounded
<1>1. Inv /\ GuessInv => GuessesBounded
  <2> SUFFICES ASSUME GuessInv, NEW k \in Keys, NEW t \in 1 .. MaxTime
               PROVE  Cardinality(Within(failures[k], t)) <= Most
    BY DEF GuessesBounded, Within, Most
  <2>1. CASE Span >= 1
    BY <2>1 DEF GuessInv, Guarded
  <2>2. CASE ~(Span >= 1)
    <3>1. Within(failures[k], t) = {}
      BY <2>2, Numbers DEF Within
    <3> QED
      BY <3>1, FS_EmptySet, Numbers
  <2> QED
    BY <2>1, <2>2
<1> QED
  BY <1>1, GuessInvariance, PTL
=============================================================================
