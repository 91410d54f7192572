---------------------------- MODULE ServerProofs ----------------------------
(***************************************************************************)
(* Theorems about the life of a center process, for any set of requests of *)
(* any sizes and any number of starts.                                     *)
(***************************************************************************)
EXTENDS ServerLifecycle, TLAPS

\* The log is open to the store exactly while there is a process, and only a
\* process has requests under way; the listener is Run's.
Placed ==
    /\ main = "down" <=> file = "none"
    /\ \A r \in Requests :
          stage[r] \in {"connected", "running", "persisting"} => main # "down"
    /\ listening => main = "serving"

\* A handler counts no record the log lacks, and answers when it has counted
\* all of them.
Ledger ==
    \A r \in Requests : /\ done[r] <= logged[r]
                        /\ stage[r] = "answered" => done[r] = Size[r]

\* A run that ended well is not running, and what it left is CleanExit.
Finished == status = "ok" => main \in {"closing", "closed", "down"}

Inv == TypeOK /\ Placed /\ Ledger /\ Finished /\ CleanExit

LEMMA InitInv == Init => Inv
  <1> SUFFICES ASSUME Init PROVE Inv
    OBVIOUS
  <1>1. TypeOK
    <2>1. /\ main \in MainStages /\ status \in {"none", "ok", "error"}
          /\ stage \in [Requests -> Stages]
          /\ mutex \in Requests \cup {Nobody}
          /\ file \in {"none", "open", "closed"}
      BY DEF Init, MainStages, Stages
    <2>2. listening \in BOOLEAN /\ broken \in BOOLEAN
      BY DEF Init
    <2>3. /\ done \in [Requests -> Nat] /\ logged \in [Requests -> Nat]
          /\ starts \in 0 .. MaxStarts /\ syncFailures \in 0 .. MaxSyncFailures
      BY ServerAssumption DEF Init
    <2>4. \A r \in Requests : stage[r] = "persisting" <=> mutex = r
      BY ServerAssumption DEF Init
    <2> QED
      BY <2>1, <2>2, <2>3, <2>4 DEF TypeOK
  <1>2. Placed
    BY DEF Init, Placed
  <1>3. Ledger
    <2>1. \A r \in Requests : logged[r] = 0 /\ done[r] = 0 /\ stage[r] = "new"
      BY DEF Init
    <2>2. \A r \in Requests : stage[r] # "answered"
      BY <2>1
    <2>3. ASSUME NEW r \in Requests PROVE done[r] <= logged[r]
      <3>1. logged[r] = 0 /\ done[r] = 0
        BY <2>1
      <3> QED
        BY <3>1
    <2> QED
      BY <2>2, <2>3 DEF Ledger
  <1>4. Finished /\ CleanExit
    BY DEF Init, Finished, CleanExit
  <1> QED
    BY <1>1, <1>2, <1>3, <1>4 DEF Inv

-----------------------------------------------------------------------------
(* The steps of runServe *)

\* The steps that leave the requests and the mutex alone.
LEMMA MainKeeps ==
    ASSUME Inv,
           \/ OpenStore \/ LoadFails \/ Serve \/ Listen \/ ListenerFails \/ Signal
           \/ ShutdownDone \/ ShutdownExpires \/ Close
    PROVE  Inv'
  <1> USE DEF process, requests, store, faults
  <1>1. TypeOK'
    <2>1. CASE OpenStore
      <3>1. starts' \in 0 .. MaxStarts
        BY <2>1, ServerAssumption DEF Inv, TypeOK, OpenStore
      <3>2. /\ main' \in MainStages /\ status' \in {"none", "ok", "error"}
            /\ file' \in {"none", "open", "closed"}
        BY <2>1 DEF OpenStore, MainStages
      <3>3. broken' \in BOOLEAN
        BY <2>1 DEF OpenStore
      <3> QED
        BY <2>1, <3>1, <3>2, <3>3 DEF Inv, TypeOK, OpenStore
    <2>2. CASE LoadFails \/ Serve \/ Listen \/ ListenerFails \/ Signal
      BY <2>2 DEF Inv, TypeOK, LoadFails, Serve, Listen, ListenerFails, Signal, MainStages
    <2>3. CASE ShutdownDone \/ ShutdownExpires
      BY <2>3 DEF Inv, TypeOK, ShutdownDone, ShutdownExpires, Expired, MainStages
    <2>4. CASE Close
      BY <2>4 DEF Inv, TypeOK, Close, Closed, MainStages
    <2> QED
      BY <2>1, <2>2, <2>3, <2>4
  <1>2. Placed'
    <2>1. CASE OpenStore \/ LoadFails \/ Serve \/ Listen \/ ListenerFails \/ Signal
      BY <2>1 DEF Inv, Placed, OpenStore, LoadFails, Serve, Listen, ListenerFails, Signal
    <2>2. CASE ShutdownDone \/ ShutdownExpires \/ Close
      BY <2>2 DEF Inv, Placed, ShutdownDone, ShutdownExpires, CanExpire, Close, Closed
    <2> QED
      BY <2>1, <2>2
  <1>3. Ledger'
    BY DEF Inv, Ledger, OpenStore, LoadFails, Serve, Listen, ListenerFails, Signal,
           ShutdownDone, ShutdownExpires, Close
  <1>4. Finished' /\ CleanExit'
    <2>1. CASE OpenStore \/ LoadFails \/ Serve \/ Listen \/ ListenerFails \/ Signal
      BY <2>1 DEF Inv, Finished, CleanExit, OpenStore, LoadFails, Serve, Listen,
                  ListenerFails, Signal
    <2>2. CASE ShutdownDone
      BY <2>2 DEF Inv, Placed, Finished, CleanExit, ShutdownDone, Drained, Active
    <2>3. CASE ShutdownExpires
      BY <2>3 DEF Finished, CleanExit, ShutdownExpires, Expired
    <2>4. CASE Close
      BY <2>4 DEF Inv, Finished, CleanExit, Close, Active
    <2> QED
      BY <2>1, <2>2, <2>3, <2>4
  <1> QED
    BY <1>1, <1>2, <1>3, <1>4 DEF Inv

\* The end of a process, however it comes.
LEMMA EndKeeps ==
    ASSUME Inv, Ends, status' \in {status, "error"}
    PROVE  Inv'
  <1> USE DEF faults
  <1>1. \A r \in Requests : stage'[r] \in {stage[r], "cut"}
    BY DEF Ends
  <1>2. \A r \in Requests : stage'[r] \notin {"connected", "running", "persisting"}
    BY DEF Ends
  <1>3. /\ logged' \in [Requests -> Nat]
        /\ \A r \in Requests : logged'[r] >= logged[r]
    <2>1. CASE logged' = logged
      BY <2>1 DEF Inv, TypeOK
    <2>2. ASSUME NEW q \in Requests, logged' = [logged EXCEPT ![q] = @ + 1]
          PROVE  /\ logged' \in [Requests -> Nat]
                 /\ \A r \in Requests : logged'[r] >= logged[r]
      BY <2>2 DEF Inv, TypeOK
    <2> QED
      BY <2>1, <2>2 DEF Ends
  <1>4. TypeOK'
    <2>1. stage' \in [Requests -> Stages]
      BY DEF Ends, Inv, TypeOK, Stages
    <2>2. \A r \in Requests : stage'[r] = "persisting" <=> mutex' = r
      BY <1>2, ServerAssumption DEF Ends
    <2>3. /\ main' \in MainStages /\ status' \in {"none", "ok", "error"}
          /\ listening' \in BOOLEAN /\ done' \in [Requests -> Nat]
          /\ mutex' \in Requests \cup {Nobody}
          /\ file' \in {"none", "open", "closed"} /\ broken' \in BOOLEAN
          /\ starts' \in 0 .. MaxStarts /\ syncFailures' \in 0 .. MaxSyncFailures
      BY DEF Ends, Inv, TypeOK, MainStages
    <2> QED
      BY <1>3, <2>1, <2>2, <2>3 DEF TypeOK
  <1>5. Placed'
    BY <1>2 DEF Ends, Placed
  <1>6. Ledger'
    <2> SUFFICES ASSUME NEW r \in Requests
                 PROVE  /\ done'[r] <= logged'[r]
                        /\ stage'[r] = "answered" => done'[r] = Size[r]
      BY DEF Ledger
    <2>1. done'[r] = done[r] /\ done[r] <= logged[r]
      BY DEF Ends, Inv, Ledger
    <2>2. done'[r] <= logged'[r]
      BY <1>3, <2>1 DEF Inv, TypeOK
    <2>3. stage'[r] = "answered" => stage[r] = "answered"
      BY <1>1
    <2> QED
      BY <2>1, <2>2, <2>3 DEF Inv, Ledger
  <1>7. Finished' /\ CleanExit'
    BY <1>2 DEF Ends, Finished, CleanExit, Active
  <1> QED
    BY <1>4, <1>5, <1>6, <1>7 DEF Inv

-----------------------------------------------------------------------------
(* The steps of a request *)

LEMMA RequestKeeps ==
    ASSUME Inv, NEW r \in Requests,
           \/ Accept(r) \/ Begin(r) \/ DropIdle(r) \/ Lock(r)
           \/ Leave(r) \/ Answer(r)
    PROVE  Inv'
  <1> USE DEF process, requests, store, faults
  <1>1. CASE Accept(r)
    <2>1. TypeOK'
      BY <1>1 DEF Inv, TypeOK, Accept, Stages
    <2>2. Placed' /\ Ledger' /\ Finished' /\ CleanExit'
      BY <1>1 DEF Inv, TypeOK, Placed, Ledger, Finished, CleanExit, Active, Accept
    <2> QED
      BY <2>1, <2>2 DEF Inv
  <1>2. CASE Begin(r)
    <2>1. TypeOK'
      BY <1>2 DEF Inv, TypeOK, Begin, Stages
    <2>2. Placed' /\ Ledger' /\ Finished' /\ CleanExit'
      BY <1>2 DEF Inv, TypeOK, Placed, Ledger, Finished, CleanExit, Active, Begin
    <2> QED
      BY <2>1, <2>2 DEF Inv
  <1>3. CASE DropIdle(r)
    <2>1. TypeOK'
      BY <1>3 DEF Inv, TypeOK, DropIdle, Stages
    <2>2. Placed' /\ Ledger' /\ Finished' /\ CleanExit'
      BY <1>3 DEF Inv, TypeOK, Placed, Ledger, Finished, CleanExit, Active, DropIdle
    <2> QED
      BY <2>1, <2>2 DEF Inv
  <1>4. CASE Lock(r)
    <2>1. TypeOK'
      BY <1>4, ServerAssumption DEF Inv, TypeOK, Lock, Stages
    <2>2. Placed' /\ Ledger' /\ Finished' /\ CleanExit'
      BY <1>4 DEF Inv, TypeOK, Placed, Ledger, Finished, CleanExit, Active, Lock
    <2> QED
      BY <2>1, <2>2 DEF Inv
  <1>5. CASE Persist(r)
    <2>1. file = "open"
      BY <1>5 DEF Inv, Placed, TypeOK, Persist
    <2>2. TypeOK'
      BY <1>5, <2>1, ServerAssumption DEF Inv, TypeOK, Persist, Stages
    <2>3. Ledger'
      BY <1>5, <2>1 DEF Inv, TypeOK, Ledger, Persist
    <2>4. Placed' /\ Finished' /\ CleanExit'
      BY <1>5 DEF Inv, TypeOK, Placed, Finished, CleanExit, Active, Persist
    <2> QED
      BY <2>2, <2>3, <2>4 DEF Inv
  <1>6. CASE PersistFails(r)
    <2>1. TypeOK'
      BY <1>6, ServerAssumption DEF Inv, TypeOK, PersistFails, Refuse, Stages
    <2>2. Placed' /\ Ledger' /\ Finished' /\ CleanExit'
      BY <1>6 DEF Inv, TypeOK, Placed, Ledger, Finished, CleanExit, Active, PersistFails, Refuse
    <2> QED
      BY <2>1, <2>2 DEF Inv
  <1>7. CASE PersistUnsynced(r)
    <2>1. TypeOK'
      BY <1>7, ServerAssumption DEF Inv, TypeOK, PersistUnsynced, Refuse, Stages
    <2>2. Ledger'
      BY <1>7 DEF Inv, TypeOK, Ledger, PersistUnsynced, Refuse
    <2>3. Placed' /\ Finished' /\ CleanExit'
      BY <1>7 DEF Inv, TypeOK, Placed, Finished, CleanExit, Active, PersistUnsynced, Refuse
    <2> QED
      BY <2>1, <2>2, <2>3 DEF Inv
  <1>8. CASE Answer(r)
    <2>1. TypeOK'
      BY <1>8 DEF Inv, TypeOK, Answer, Stages
    <2>2. Placed' /\ Ledger' /\ Finished' /\ CleanExit'
      BY <1>8 DEF Inv, TypeOK, Placed, Ledger, Finished, CleanExit, Active, Answer
    <2> QED
      BY <2>1, <2>2 DEF Inv
  <1> QED
    BY <1>1, <1>2, <1>3, <1>4, <1>5, <1>6, <1>7, <1>8 DEF Leave

LEMMA StepInv == Inv /\ [Next]_vars => Inv'
  <1> SUFFICES ASSUME Inv, [Next]_vars PROVE Inv'
    OBVIOUS
  <1>1. CASE UNCHANGED vars
    BY <1>1 DEF Inv, TypeOK, Placed, Ledger, Finished, CleanExit, Active, vars, process,
                requests, store, faults
  <1>2. CASE \/ OpenStore \/ LoadFails \/ Serve \/ Listen \/ ListenerFails \/ Signal
             \/ ShutdownDone \/ ShutdownExpires \/ Close
    BY <1>2, MainKeeps
  <1>3. CASE Exit
    BY <1>3, EndKeeps DEF Exit
  <1>4. CASE Killed
    BY <1>4, EndKeeps DEF Killed
  <1>5. CASE \E r \in Requests :
                \/ Accept(r) \/ Begin(r) \/ DropIdle(r) \/ Lock(r)
                \/ Leave(r) \/ Answer(r)
    BY <1>5, RequestKeeps
  <1> QED
    BY <1>1, <1>2, <1>3, <1>4, <1>5 DEF Next

THEOREM Invariance == Spec => []Inv
  BY InitInv, StepInv, PTL DEF Spec

\* The types hold for any requests: in particular, the store's mutex is held by
\* the one handler that is in persist, and given back by every way out of it.
THEOREM TypeCorrect == Spec => []TypeOK
  <1>1. Inv => TypeOK
    BY DEF Inv
  <1> QED
    BY <1>1, Invariance, PTL

\* An answer of the telemetry handler promises nothing that the log lacks,
\* through any number of starts, shutdowns and kills.
THEOREM AnswersAreLogged == Spec => []AnsweredIsLogged
  <1>1. Inv => AnsweredIsLogged
    BY DEF Inv, TypeOK, Ledger, AnsweredIsLogged
  <1> QED
    BY <1>1, Invariance, PTL

\* A process whose Run returned nil had answered every request it read.
THEOREM ExitsAreClean == Spec => []CleanExit
  <1>1. Inv => CleanExit
    BY DEF Inv
  <1> QED
    BY <1>1, Invariance, PTL
=============================================================================
