----------------------------- MODULE LoginGuard -----------------------------
(***************************************************************************)
(* Dashboard logins and the guard that throttles them (internal/loginguard *)
(* and handleLogin in internal/center/auth.go).  A login reads the clock,  *)
(* asks the guard whether its source may try, verifies the password, which *)
(* takes long, and reports the result to the guard; other logins run in    *)
(* between.  Every one of these steps holds the guard's mutex by itself.   *)
(***************************************************************************)
EXTENDS Integers, Sequences, FiniteSets, Functions

CONSTANTS
    Keys,        \* source addresses
    Handlers,    \* the goroutines that can serve logins at a time
    MaxFails,    \* Options.MaxFails
    Window,      \* Options.Window, in ticks of the clock
    Lockout,     \* Options.Lockout, in ticks
    MaxKeys,     \* Options.MaxKeys
    MaxDelay,    \* a login is answered within so many ticks
    MaxTime      \* bound on the clock

ASSUME GuardAssumption ==
    /\ Keys # {} /\ IsFiniteSet(Handlers)
    /\ MaxFails \in Nat \ {0} /\ Window \in Nat \ {0} /\ Lockout \in Nat \ {0}
    /\ MaxKeys \in Nat \ {0} /\ MaxDelay \in Nat /\ MaxTime \in Nat \ {0}

VARIABLES
    keys,       \* Guard.keys: an entry for each key that failed
    handler,    \* the login each goroutine serves, and how far it is
    now,        \* the clock
    failures    \* when each key failed since its last success, for the properties

vars == <<keys, handler, now, failures>>

Never == 0   \* time.Time{}: before every reading of the clock

Entries == [fails : Nat, windowStart : Nat, last : Nat, lockedUntil : Nat]

Stages == {"idle", "arrived", "admitted", "rejected", "accepted"}

-----------------------------------------------------------------------------
(* The guard *)

\* Check refuses: a clock reading of `at' falls into the lockout.
Refuses(k, at) == k \in DOMAIN keys /\ at < keys[k].lockedUntil

\* sweepIfNeededLocked: at the cap, entries drop that are neither locked nor
\* failed within the window.
Stale_Unlocked(e, at) == at > e.lockedUntil   \* a mutant: recent failures are dropped too
Stale(e, at) == at > e.lockedUntil /\ at > e.last + Window

Swept(at) ==
    IF Cardinality(DOMAIN keys) < MaxKeys THEN keys
    ELSE Restrict(keys, {k \in DOMAIN keys : ~Stale(keys[k], at)})

NewEntry(at) == [fails |-> 0, windowStart |-> at, last |-> Never, lockedUntil |-> Never]

LockExpired(e, at) == e.lockedUntil # Never /\ at >= e.lockedUntil
WindowElapsed(e, at) == at > e.windowStart + Window

\* Fail starts a new window behind a lockout or behind the window.
Renewed_Never(e, at) == e   \* a mutant: failures are counted for ever
Renewed(e, at) ==
    IF LockExpired(e, at) \/ WindowElapsed(e, at)
    THEN [NewEntry(at) EXCEPT !.lockedUntil = IF LockExpired(e, at) THEN Never ELSE e.lockedUntil]
    ELSE e

\* The failure is counted, and locks the key at the threshold.
Counted_OffByOne(e, at) ==   \* a mutant: the lock comes one failure too late
    [e EXCEPT !.fails = @ + 1, !.last = at,
              !.lockedUntil = IF e.fails >= MaxFails THEN at + Lockout ELSE @]
Counted_AddUp(e, at) ==   \* a mutant: late failures make the lock longer
    [e EXCEPT !.fails = @ + 1, !.last = at,
              !.lockedUntil = IF e.fails + 1 < MaxFails THEN @
                              ELSE (IF @ = Never THEN at ELSE @) + Lockout]
Counted(e, at) ==
    [e EXCEPT !.fails = @ + 1, !.last = at,
              !.lockedUntil = IF e.fails + 1 >= MaxFails THEN at + Lockout ELSE @]

Failed(k, at) ==
    LET swept == Swept(at)
        old == IF k \in DOMAIN swept THEN swept[k] ELSE NewEntry(at)
    IN  [j \in DOMAIN swept \cup {k} |->
            IF j = k THEN Counted(Renewed(old, at), at) ELSE swept[j]]

-----------------------------------------------------------------------------
(* handleLogin *)

Idle == [stage |-> "idle", key |-> CHOOSE k \in Keys : TRUE, at |-> Never]

At(h, stage) == handler[h].stage = stage
GoTo(h, stage) == handler' = [handler EXCEPT ![h].stage = stage]
Answer(h) == handler' = [handler EXCEPT ![h] = Idle]

\* The clock is read once and used for the check and for the failure.
Arrive(h, k) ==
    /\ At(h, "idle")
    /\ handler' = [handler EXCEPT ![h] = [stage |-> "arrived", key |-> k, at |-> now]]
    /\ UNCHANGED <<keys, now, failures>>

Check(h) ==
    /\ At(h, "arrived")
    /\ IF Refuses(handler[h].key, handler[h].at) THEN Answer(h) ELSE GoTo(h, "admitted")
    /\ UNCHANGED <<keys, now, failures>>

Authenticate(h) ==
    /\ At(h, "admitted")
    /\ GoTo(h, "rejected") \/ GoTo(h, "accepted")
    /\ UNCHANGED <<keys, now, failures>>

Fail(h) ==
    /\ At(h, "rejected")
    /\ LET k == handler[h].key
           at == handler[h].at
       IN  /\ keys' = Failed(k, at)
           /\ failures' = [failures EXCEPT ![k] = Append(@, at)]
    /\ Answer(h)
    /\ UNCHANGED now

Reset(h) ==
    /\ At(h, "accepted")
    /\ keys' = Restrict(keys, DOMAIN keys \ {handler[h].key})
    /\ failures' = [failures EXCEPT ![handler[h].key] = <<>>]
    /\ Answer(h)
    /\ UNCHANGED now

\* The clock.  No login takes longer than MaxDelay.
Tick ==
    /\ now < MaxTime
    /\ \A h \in Handlers : At(h, "idle") \/ now < handler[h].at + MaxDelay
    /\ now' = now + 1
    /\ UNCHANGED <<keys, handler, failures>>

-----------------------------------------------------------------------------
Init ==
    /\ keys = [k \in {} |-> NewEntry(Never)]
    /\ handler = [h \in Handlers |-> Idle]
    /\ now = 1
    /\ failures = [k \in Keys |-> <<>>]

Next ==
    \/ \E h \in Handlers :
          \/ \E k \in Keys : Arrive(h, k)
          \/ Check(h) \/ Authenticate(h) \/ Fail(h) \/ Reset(h)
    \/ Tick

Spec == Init /\ [][Next]_vars

-----------------------------------------------------------------------------
(* Properties *)

\* The variables have the types the code gives them; a lock ends at most
\* Lockout from now.
TypeOK ==
    /\ DOMAIN keys \subseteq Keys
    /\ \A k \in DOMAIN keys : keys[k] \in Entries
    /\ handler \in [Handlers -> [stage : Stages, key : Keys, at : Nat]]
    /\ now \in Nat
    /\ failures \in [Keys -> Seq(Nat)]
    /\ \A h \in Handlers : handler[h].at <= now
    /\ \A k \in DOMAIN keys : keys[k].lockedUntil <= now + Lockout

\* Failures i up to i + MaxFails - 1 of a key lie in one window: none is more
\* than Window behind the first of them.
InOneWindow(k, i) ==
    /\ i + MaxFails - 1 <= Len(failures[k])
    /\ \A j \in i .. i + MaxFails - 1 : failures[k][j] <= failures[k][i] + Window

\* A key is locked only for MaxFails failures within one window and since its
\* last success: an operator who mistypes now and then is never locked out.
LockEarned ==
    \A k \in DOMAIN keys :
        keys[k].lockedUntil # Never =>
            \E i \in 1 .. Len(failures[k]) : InOneWindow(k, i)

\* The guard stops guessing although its window does not slide, its steps
\* interleave and its clock readings are late: over as long as the window, or
\* the lockout where that is shorter, less twice the delay of a login, a key
\* gets in no more failures than two windows hold without a lock, and one for
\* each login that can be in flight when the lock comes.
Span == (IF Window < Lockout THEN Window ELSE Lockout) - 2 * MaxDelay

GuessesBounded ==
    \A k \in Keys, t \in 1 .. MaxTime :
        Cardinality({i \in DOMAIN failures[k] : failures[k][i] \in t .. t + Span - 1})
            <= 2 * (MaxFails - 1) + Cardinality(Handlers)

\* Only a success makes the guard forget a key that is locked or failed within
\* the window: pruning the table never does.
RecentKept ==
    [][\A k \in DOMAIN keys :
          \/ k \in DOMAIN keys'
          \/ failures'[k] = <<>>
          \/ now > keys[k].lockedUntil /\ now > keys[k].last + Window]_vars
=============================================================================
