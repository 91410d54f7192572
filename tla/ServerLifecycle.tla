-------------------------- MODULE ServerLifecycle --------------------------
(***************************************************************************)
(* The life of a center process: runServe (cmd/scootship/main.go) opens    *)
(* the store, loads tokens and operators and calls Server.Run              *)
(* (internal/center/server.go), which serves until a signal comes, shuts   *)
(* the HTTP server down with a timeout and returns; the deferred Close of  *)
(* the store follows, and the process exits.  Handlers that outlast the    *)
(* timeout, or that run when the listener breaks, find the log closed      *)
(* under them or end with the process.                                     *)
(*                                                                         *)
(* A request brings Size[r] records, which its handler persists one by     *)
(* one, each in a critical section of the store's mutex, and then answers. *)
(* http.Server is the environment: it stops listening when Shutdown is     *)
(* called, and Shutdown returns when no connection is open or when its     *)
(* context ends.                                                           *)
(***************************************************************************)
EXTENDS Naturals

CONSTANTS
    Requests,         \* the requests the clients send, each once
    Size,             \* how many records the handler of each one persists
    Nobody,           \* the holder of a free mutex
    MaxStarts,        \* bound on starts of the process
    MaxSyncFailures,  \* bound on fsyncs that fail
    WritesFail        \* TRUE: a write to the log may fail

ASSUME ServerAssumption ==
    /\ Size \in [Requests -> Nat]
    /\ Nobody \notin Requests
    /\ MaxStarts \in Nat /\ MaxSyncFailures \in Nat
    /\ WritesFail \in BOOLEAN

VARIABLES
    main,       \* how far runServe is
    status,     \* what runServe returns
    listening,  \* the listener accepts connections
    stage,      \* how far each request is
    done,       \* how many of its records persist has returned nil for
    logged,     \* how many of its records are durable in the log
    mutex,      \* who holds the store's mutex
    file,       \* the log as the store has it: "none", "open" or "closed"
    broken,     \* bufio.Writer holds a write error
    starts, syncFailures

process == <<main, status, listening>>
requests == <<stage, done, logged>>
store == <<mutex, file, broken>>
faults == <<starts, syncFailures>>
vars == <<process, requests, store, faults>>

MainStages == {"down", "opened", "serving", "stopping", "closing", "closed"}
Stages == {"new", "connected", "running", "persisting", "answered", "refused", "dropped", "cut"}

\* Requests whose handler has not returned; Shutdown waits for them.
Active == {r \in Requests : stage[r] \in {"running", "persisting"}}

Alive == main # "down"

-----------------------------------------------------------------------------
(* runServe *)

\* validateServeConfig and OpenWithOptions.
OpenStore ==
    /\ main = "down" /\ starts < MaxStarts
    /\ starts' = starts + 1
    /\ main' = "opened" /\ status' = "none"
    /\ file' = "open" /\ broken' = FALSE
    /\ UNCHANGED <<listening, requests, mutex, syncFailures>>

\* resolveTokens, operators.Open or center.New fails: the deferred Close runs.
LoadFails ==
    /\ main = "opened"
    /\ main' = "closing" /\ status' = "error"
    /\ UNCHANGED <<listening, requests, store, faults>>

\* Run starts the goroutine that will listen.
Serve ==
    /\ main = "opened"
    /\ main' = "serving"
    /\ UNCHANGED <<status, listening, requests, store, faults>>

Listen ==
    /\ main = "serving" /\ ~listening
    /\ listening' = TRUE
    /\ UNCHANGED <<main, status, requests, store, faults>>

\* ListenAndServe returns an error: Run returns it, and nothing waits for the
\* handlers that still run.
ListenerFails ==
    /\ main = "serving"
    /\ main' = "closing" /\ status' = "error" /\ listening' = FALSE
    /\ UNCHANGED <<requests, store, faults>>

\* SIGINT or SIGTERM: Run calls Shutdown, which closes the listener.
Signal ==
    /\ main = "serving"
    /\ main' = "stopping" /\ listening' = FALSE
    /\ UNCHANGED <<status, requests, store, faults>>

\* Shutdown closes a connection that has not sent a request.
DropIdle(r) ==
    /\ main = "stopping" /\ stage[r] = "connected"
    /\ stage' = [stage EXCEPT ![r] = "dropped"]
    /\ UNCHANGED <<process, done, logged, store, faults>>

\* Shutdown returns nil: no connection is left.
Drained == Active = {} /\ \A r \in Requests : stage[r] # "connected"

ShutdownDone ==
    /\ main = "stopping" /\ Drained
    /\ main' = "closing" /\ status' = "ok"
    /\ UNCHANGED <<listening, requests, store, faults>>

\* Ten seconds are over: Shutdown returns the error of its context.
Expired_Nil == "ok"   \* a mutant: the error of the context is dropped
Expired == "error"

\* A mutant of CanExpire: the shutdown context has no timeout.
CanExpire_Never == FALSE
CanExpire == main = "stopping" /\ ~Drained

ShutdownExpires ==
    /\ CanExpire
    /\ main' = "closing" /\ status' = Expired
    /\ UNCHANGED <<listening, requests, store, faults>>

\* Mem.Close: it waits for the mutex, flushes, and closes the file unless the
\* flush fails.  Its error is ignored.  The writer stays, so a later persist
\* reaches the closed file.
Closed_NoWriter == IF broken THEN file ELSE "none"   \* a mutant: the writer is dropped as well
Closed == IF broken THEN file ELSE "closed"

Close ==
    /\ main = "closing" /\ mutex = Nobody
    /\ main' = "closed" /\ file' = Closed
    /\ UNCHANGED <<status, listening, requests, mutex, broken, faults>>

\* The process ends, and what its goroutines were at with it; a record a
\* handler was persisting may be in the log or not.
Ends ==
    /\ main' = "down" /\ listening' = FALSE
    /\ stage' = [r \in Requests |->
                    IF stage[r] \in {"connected", "running", "persisting"} THEN "cut"
                    ELSE stage[r]]
    /\ mutex' = Nobody /\ file' = "none" /\ broken' = FALSE
    /\ \/ UNCHANGED logged
       \/ \E r \in Requests :
             /\ stage[r] = "persisting" /\ file = "open" /\ ~broken
             /\ logged' = [logged EXCEPT ![r] = @ + 1]
    /\ UNCHANGED <<done, faults>>

Exit == main = "closed" /\ Ends /\ UNCHANGED status

\* SIGKILL, a second signal during Close, a crash.
Killed == Alive /\ Ends /\ status' = "error"

-----------------------------------------------------------------------------
(* Handlers *)

Accept(r) ==
    /\ listening /\ stage[r] = "new"
    /\ stage' = [stage EXCEPT ![r] = "connected"]
    /\ UNCHANGED <<process, done, logged, store, faults>>

\* The request is read and its handler runs, also while Shutdown waits.
Begin(r) ==
    /\ Alive /\ stage[r] = "connected"
    /\ stage' = [stage EXCEPT ![r] = "running"]
    /\ UNCHANGED <<process, done, logged, store, faults>>

\* The handler comes to a record and gets the store's mutex.
Lock(r) ==
    /\ Alive /\ stage[r] = "running" /\ done[r] < Size[r] /\ mutex = Nobody
    /\ mutex' = r
    /\ stage' = [stage EXCEPT ![r] = "persisting"]
    /\ UNCHANGED <<process, done, logged, file, broken, faults>>

\* persist returns nil.  Without a writer it does so without writing.
Persist(r) ==
    /\ Alive /\ stage[r] = "persisting" /\ file # "closed" /\ ~broken
    /\ logged' = IF file = "open" THEN [logged EXCEPT ![r] = @ + 1] ELSE logged
    /\ done' = [done EXCEPT ![r] = @ + 1]
    /\ stage' = [stage EXCEPT ![r] = "running"]
    /\ mutex' = Nobody
    /\ UNCHANGED <<process, file, broken, faults>>

\* A handler that is told of an error answers 500.
Refuse_Holding(r) == stage' = [stage EXCEPT ![r] = "refused"] /\ UNCHANGED mutex   \* a mutant
Refuse(r) == stage' = [stage EXCEPT ![r] = "refused"] /\ mutex' = Nobody

\* Flush fails, because the file is closed or the disk refuses; bufio keeps
\* the error.
PersistFails(r) ==
    /\ Alive /\ stage[r] = "persisting"
    /\ file = "closed" \/ broken \/ WritesFail
    /\ Refuse(r)
    /\ broken' = TRUE
    /\ UNCHANGED <<process, done, logged, file, faults>>

\* Sync fails: the record is in the log.
PersistUnsynced(r) ==
    /\ Alive /\ stage[r] = "persisting" /\ file = "open" /\ ~broken
    /\ syncFailures < MaxSyncFailures
    /\ syncFailures' = syncFailures + 1
    /\ logged' = [logged EXCEPT ![r] = @ + 1]
    /\ Refuse(r)
    /\ UNCHANGED <<process, done, file, broken, starts>>

\* 200, with the cursor of what was stored.
Answer(r) ==
    /\ Alive /\ stage[r] = "running" /\ done[r] = Size[r]
    /\ stage' = [stage EXCEPT ![r] = "answered"]
    /\ UNCHANGED <<process, done, logged, store, faults>>

-----------------------------------------------------------------------------
Init ==
    /\ main = "down" /\ status = "none" /\ listening = FALSE
    /\ stage = [r \in Requests |-> "new"]
    /\ done = [r \in Requests |-> 0] /\ logged = [r \in Requests |-> 0]
    /\ mutex = Nobody /\ file = "none" /\ broken = FALSE
    /\ starts = 0 /\ syncFailures = 0

Leave(r) == Persist(r) \/ PersistFails(r) \/ PersistUnsynced(r)

Next ==
    \/ OpenStore \/ LoadFails \/ Serve \/ Listen \/ ListenerFails \/ Signal
    \/ ShutdownDone \/ ShutdownExpires \/ Close \/ Exit \/ Killed
    \/ \E r \in Requests :
          \/ Accept(r) \/ Begin(r) \/ DropIdle(r) \/ Lock(r)
          \/ Leave(r) \/ Answer(r)

Spec == Init /\ [][Next]_vars

\* Timers fire, the main goroutine runs, disk calls return, and a goroutine
\* that waits for a sync.Mutex is not starved.  Nothing is assumed of handlers
\* outside the store: a client may read or send for as long as it likes.
Fairness ==
    /\ WF_vars(ShutdownDone \/ ShutdownExpires)
    /\ SF_vars(Close)
    /\ WF_vars(Exit)
    /\ \A r \in Requests : WF_vars(Leave(r))

FairSpec == Spec /\ Fairness

-----------------------------------------------------------------------------
(* Properties *)

\* The variables have the types the code gives them, and the store's mutex is
\* held by the one request that is in persist.
TypeOK ==
    /\ main \in MainStages /\ status \in {"none", "ok", "error"} /\ listening \in BOOLEAN
    /\ stage \in [Requests -> Stages]
    /\ done \in [Requests -> Nat] /\ logged \in [Requests -> Nat]
    /\ mutex \in Requests \cup {Nobody}
    /\ \A r \in Requests : stage[r] = "persisting" <=> mutex = r
    /\ file \in {"none", "open", "closed"} /\ broken \in BOOLEAN
    /\ starts \in 0 .. MaxStarts /\ syncFailures \in 0 .. MaxSyncFailures

\* Whatever was answered with success is in the log, also what a handler
\* answers after Shutdown has given up on it or Close has taken the log away.
AnsweredIsLogged == \A r \in Requests : stage[r] = "answered" => logged[r] >= Size[r]

\* A process that exits with success has cut nobody off: when Run returns nil
\* every request it read was answered before the log was closed, and none comes
\* after that.
CleanExit ==
    status = "ok" => Active = {} /\ ~listening /\ \A r \in Requests : stage[r] # "connected"

\* A signal ends the process, however long clients and handlers take.
StopEnds == main = "stopping" ~> main = "down"
=============================================================================
