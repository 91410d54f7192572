--------------------------- MODULE DispatchProofs ---------------------------
(***************************************************************************)
(* Theorems about DispatchStore for any number of nodes and jobs.          *)
(***************************************************************************)
EXTENDS DispatchStore, FiniteSetTheorems, TLAPS

-----------------------------------------------------------------------------
(* The operators that change the index keep its type. *)

LEMMA EmptyTypes == EmptyIndex \in IndexType /\ Idle \in LeaseType
<1>1. (CHOOSE n \in Nodes : TRUE) \in Nodes /\ (CHOOSE k \in IdemKeys : TRUE) \in IdemKeys
  BY DispatchAssumption
<1>2. NoJob \in JobType
  BY <1>1 DEF NoJob, JobType, Policies, Phases
<1>3. EmptyIndex \in IndexType
  BY <1>2 DEF EmptyIndex, IndexType, NodeType, Ceilings
<1>4. Idle \in LeaseType
  BY <1>1, DispatchAssumption DEF Idle, LeaseType
<1> QED
  BY <1>3, <1>4

LEMMA TouchType ==
  ASSUME NEW s \in IndexType, NEW n \in Nodes
  PROVE  /\ Touch(s, n) \in IndexType
         /\ Touch(s, n).job = s.job
         /\ Touch(s, n).order = s.order
         /\ Touch(s, n).idem = s.idem
BY DEF Touch, IndexType, NodeType

LEMMA ApplyStatusType ==
  ASSUME NEW s \in IndexType, NEW n \in Nodes, NEW b \in Statuses
  PROVE  /\ ApplyStatus(s, n, b) \in IndexType
         /\ ApplyStatus(s, n, b).job = s.job
<1>1. b \in StatusType
  BY DispatchAssumption
<1> QED
  BY <1>1 DEF ApplyStatus, IndexType, NodeType, StatusType

LEMMA SetPhaseType ==
  ASSUME NEW s \in IndexType, NEW j \in Jobs, NEW p \in Phases
  PROVE  /\ SetPhase(s, j, p) \in IndexType
         /\ SetPhase(s, j, p).job = [s.job EXCEPT ![j] = [s.job[j] EXCEPT !.phase = p]]
<1>1. s.job[j] \in JobType /\ s.job \in [Jobs -> JobType]
  BY DEF IndexType
<1>2. [s.job[j] EXCEPT !.phase = p] \in JobType
  BY <1>1 DEF JobType
<1>3. [s.job EXCEPT ![j] = [s.job[j] EXCEPT !.phase = p]] \in [Jobs -> JobType]
  BY <1>1, <1>2
<1>4. SetPhase(s, j, p)
        = [s EXCEPT !.job = [s.job EXCEPT ![j] = [s.job[j] EXCEPT !.phase = p]]]
  BY DEF SetPhase
<1> QED
  BY <1>3, <1>4 DEF IndexType

LEMMA ApplyJobEventType ==
  ASSUME NEW s \in IndexType, NEW n \in Nodes, NEW j \in Jobs, NEW p \in ReportedPhases
  PROVE  /\ ApplyJobEvent(s, n, j, p) \in IndexType
         /\ \/ ApplyJobEvent(s, n, j, p).job = s.job
            \/ /\ s.job[j].phase # "absent" /\ ~Closed(s, j, p)
               /\ ApplyJobEvent(s, n, j, p).job
                    = [s.job EXCEPT ![j] = [s.job[j] EXCEPT !.phase = p]]
<1>1. p \in Phases
  BY DEF Phases
<1>2. Touch(s, n) \in IndexType /\ Touch(s, n).job = s.job
  BY TouchType
<1>3. /\ SetPhase(Touch(s, n), j, p) \in IndexType
      /\ SetPhase(Touch(s, n), j, p).job = [s.job EXCEPT ![j] = [s.job[j] EXCEPT !.phase = p]]
  BY <1>1, <1>2, SetPhaseType
<1> QED
  BY <1>2, <1>3 DEF ApplyJobEvent

LEMMA ApplyDispatchJobType ==
  ASSUME NEW s \in IndexType, NEW j \in Jobs, NEW job \in JobType
  PROVE  /\ ApplyDispatchJob(s, j, job) \in IndexType
         /\ ApplyDispatchJob(s, j, job).job = [s.job EXCEPT ![j] = job]
<1> DEFINE order == IF s.job[j].phase = "absent" THEN Append(s.order, j) ELSE s.order
           jobs == [s.job EXCEPT ![j] = job]
           idem == [s.idem EXCEPT ![job.idem] = {j}]
<1>1. order \in Seq(Jobs)
  BY DEF IndexType
<1>2. jobs \in [Jobs -> JobType]
  BY DEF IndexType
<1>3. idem \in [IdemKeys -> SUBSET Jobs]
  BY DEF IndexType, JobType
<1>4. ApplyDispatchJob(s, j, job) = [s EXCEPT !.order = order, !.job = jobs, !.idem = idem]
  BY DEF ApplyDispatchJob, IndexIdem, IndexType
<1> HIDE DEF order, jobs, idem
<1>5. /\ [s EXCEPT !.order = order, !.job = jobs, !.idem = idem] \in IndexType
      /\ [s EXCEPT !.order = order, !.job = jobs, !.idem = idem].job = jobs
  BY <1>1, <1>2, <1>3 DEF IndexType
<1> QED
  BY <1>4, <1>5 DEF jobs

-----------------------------------------------------------------------------
(* Type correctness *)

LEMMA CommitType ==
  ASSUME TypeOK, NEW m \in IndexType, NEW d \in IndexType, Commit(m, d),
         UNCHANGED <<edges, now>>, lease' \in LeaseType,
         accepted' \subseteq Jobs
  PROVE  TypeOK'
BY DEF TypeOK, Commit, edges, faults

LEMMA DieType ==
  ASSUME TypeOK, Die, disk' \in IndexType,
         UNCHANGED <<syncFailures, wire, handed, now, accepted>>
  PROVE  TypeOK'
<1>1. crashes' \in 0 .. MaxCrashes
  BY DispatchAssumption DEF Die, TypeOK
<1>2. polls' \subseteq [node : Nodes, capacity : 1 .. MaxCapacity, recv : 0 .. MaxClock]
  BY DEF Die
<1>3. mem' \in IndexType /\ lease' \in LeaseType
  BY EmptyTypes DEF Die
<1>4. up' \in BOOLEAN /\ broken' \in BOOLEAN
  BY DEF Die
<1> QED
  BY <1>1, <1>2, <1>3, <1>4 DEF TypeOK

LEMMA CommitSilentlyType ==
  ASSUME TypeOK, NEW m \in IndexType, NEW d \in IndexType, CommitSilently(m, d)
  PROVE  TypeOK'
<1>1. CASE UNCHANGED <<polls, crashes, wire, handed, now, accepted>>
  BY <1>1, EmptyTypes, DispatchAssumption DEF TypeOK, CommitSilently, Die
<1>2. CASE Die /\ UNCHANGED <<syncFailures, wire, handed, now, accepted>>
  BY <1>2, DieType DEF CommitSilently
<1> QED
  BY <1>1, <1>2 DEF CommitSilently

LEMMA NewJobType ==
  ASSUME TypeOK, NEW q \in Requests, mem.node[q.node].ceiling # "unknown"
  PROVE  /\ q \in RequestType
         /\ NewJob(q, Clamp(q.policy, mem.node[q.node].ceiling), "queued") \in JobType
<1>1. q \in RequestType
  BY DispatchAssumption
<1>2. mem.node[q.node].ceiling \in Policies \cup {""}
  BY <1>1 DEF TypeOK, IndexType, NodeType, RequestType, Ceilings
<1>3. q.policy \in Policies \cup {""}
  BY <1>1 DEF RequestType
<1>4. Clamp(q.policy, mem.node[q.node].ceiling) \in Policies
  BY <1>2, <1>3 DEF Clamp, Lower, Default, Policies
<1> QED
  BY <1>1, <1>4 DEF NewJob, JobType, RequestType, Phases

\* LeaseReject and LeaseNext write the job again with another phase.
LEMMA LeasedJobType ==
  ASSUME TypeOK, NEW j \in Jobs
  PROVE  /\ mem.job[j] \in JobType
         /\ [mem.job[j] EXCEPT !.phase = "rejected"] \in JobType
         /\ Leased(mem.job[j]) \in JobType
<1>1. mem.job[j] \in JobType
  BY DEF TypeOK, IndexType
<1>2. [mem.job[j] EXCEPT !.phase = "rejected"] \in JobType
  BY <1>1 DEF JobType, Phases, ReportedPhases, TerminalPhases
<1>3. \A job \in JobType : Leased(job) \in JobType
  <2> SUFFICES ASSUME NEW job \in JobType PROVE Leased(job) \in JobType
    OBVIOUS
  <2>1. job.attempts + 1 \in Nat /\ "leased" \in Phases
    BY DEF JobType, Phases
  <2>2. [job EXCEPT !.phase = "leased", !.attempts = job.attempts + 1] \in JobType
    BY <2>1 DEF JobType
  <2> QED
    BY <2>2 DEF Leased
<1> QED
  BY <1>1, <1>2, <1>3

LEMMA TypeStep == TypeOK /\ [Next]_vars => TypeOK'
<1> SUFFICES ASSUME TypeOK, [Next]_vars PROVE TypeOK'
  OBVIOUS
<1> USE DispatchAssumption
<1>1. ASSUME NEW n \in Nodes, NEW b \in Statuses, ReportStatus(n, b) PROVE TypeOK'
  <2>1. ApplyStatus(mem, n, b) \in IndexType /\ ApplyStatus(disk, n, b) \in IndexType
    BY ApplyStatusType DEF TypeOK
  <2>2. CASE /\ Commit(ApplyStatus(mem, n, b), ApplyStatus(disk, n, b))
             /\ UNCHANGED <<lease, edges, now, accepted>>
    BY <2>1, <2>2, CommitType DEF TypeOK
  <2>3. CASE CommitSilently(mem, ApplyStatus(disk, n, b))
    BY <2>1, <2>3, CommitSilentlyType DEF TypeOK
  <2> QED
    BY <1>1, <2>2, <2>3 DEF ReportStatus
<1>2. ASSUME NEW n \in Nodes, ReportAudit(n) PROVE TypeOK'
  <2>1. Touch(mem, n) \in IndexType /\ Touch(disk, n) \in IndexType
    BY TouchType DEF TypeOK
  <2>2. CASE /\ Commit(Touch(mem, n), Touch(disk, n))
             /\ UNCHANGED <<lease, edges, now, accepted>>
    BY <2>1, <2>2, CommitType DEF TypeOK
  <2>3. CASE CommitSilently(Touch(mem, n), Touch(disk, n))
    BY <2>1, <2>3, CommitSilentlyType
  <2>4. CASE /\ broken /\ mem' = Touch(mem, n)
             /\ UNCHANGED <<disk, up, broken, lease, edges, now, accepted, faults>>
    BY <2>1, <2>4 DEF TypeOK, edges, faults
  <2> QED
    BY <1>2, <2>2, <2>3, <2>4 DEF ReportAudit
<1>3. ASSUME NEW n \in Nodes, NEW j \in Jobs, NEW p \in ReportedPhases, RecordJobEvent(n, j, p)
      PROVE  TypeOK'
  <2> DEFINE m == ApplyJobEvent(mem, n, j, p)
             d == ApplyJobEvent(disk, n, j, p)
  <2>1. m \in IndexType /\ d \in IndexType
    BY ApplyJobEventType DEF TypeOK
  <2>2. CASE Commit(m, d) /\ UNCHANGED <<lease, edges, now, accepted>>
    BY <2>1, <2>2, CommitType DEF TypeOK
  <2>3. CASE CommitSilently(mem, d)
    BY <2>1, <2>3, CommitSilentlyType DEF TypeOK
  <2> QED
    BY <1>3, <2>2, <2>3 DEF RecordJobEvent
<1>4. ASSUME NEW q \in Requests, EnqueueJob(q) PROVE TypeOK'
  <2> DEFINE job == NewJob(q, Clamp(q.policy, mem.node[q.node].ceiling), "queued")
             m == ApplyDispatchJob(mem, q.job, job)
             d == ApplyDispatchJob(disk, q.job, job)
  <2>1. q.job \in Jobs /\ job \in JobType
    BY <1>4, NewJobType DEF EnqueueJob, RequestType
  <2> HIDE DEF job
  <2>2. m \in IndexType /\ d \in IndexType
    BY <2>1, ApplyDispatchJobType DEF TypeOK
  <2>3. CASE /\ Commit(m, d) /\ accepted' = accepted \cup {q.job}
             /\ UNCHANGED <<lease, edges, now>>
    BY <2>1, <2>2, <2>3, CommitType DEF TypeOK
  <2>4. CASE CommitSilently(mem, d)
    BY <2>2, <2>4, CommitSilentlyType DEF TypeOK
  <2> QED
    BY <1>4, <2>3, <2>4 DEF EnqueueJob, job
<1>5. ASSUME NEW q \in Requests, EnqueueAgain(q) PROVE TypeOK'
  <2>1. q.idem \in IdemKeys
    BY DEF RequestType
  <2>2. mem.idem[q.idem] \subseteq Jobs
    BY <2>1 DEF TypeOK, IndexType
  <2> QED
    BY <1>5, <2>2 DEF EnqueueAgain, TypeOK, center, edges, faults
<1>6. ASSUME NEW n \in Nodes, NEW c \in 1 .. MaxCapacity, Poll(n, c) PROVE TypeOK'
  BY <1>6 DEF Poll, TypeOK, center, faults
<1>7. ASSUME NEW p \in polls, LeaseBegin(p) PROVE TypeOK'
  <2>1. /\ p.node \in Nodes /\ p.capacity \in 0 .. MaxCapacity
        /\ p.recv \in 0 .. MaxClock
    BY DEF TypeOK
  <2>2. lease' \in LeaseType
    BY <1>7, <2>1, EmptyTypes DEF LeaseBegin, LeaseType
  <2> QED
    BY <1>7, <2>2 DEF LeaseBegin, TypeOK, faults
<1>8. ASSUME NEW j \in Jobs, LeaseReject(j) PROVE TypeOK'
  <2> DEFINE job == [mem.job[j] EXCEPT !.phase = "rejected"]
             m == ApplyDispatchJob(mem, j, job)
             d == ApplyDispatchJob(disk, j, job)
  <2>1. job \in JobType
    BY LeasedJobType
  <2> HIDE DEF job
  <2>2. m \in IndexType /\ d \in IndexType
    BY <2>1, ApplyDispatchJobType DEF TypeOK
  <2>3. CASE Commit(m, d) /\ UNCHANGED <<lease, edges, now, accepted>>
    BY <2>2, <2>3, CommitType DEF TypeOK
  <2>4. CASE CommitSilently(mem, d)
    BY <2>2, <2>4, CommitSilentlyType DEF TypeOK
  <2> QED
    BY <1>8, <2>3, <2>4 DEF LeaseReject, job
<1>9. ASSUME NEW j \in Jobs, LeaseNext(j) PROVE TypeOK'
  <2> DEFINE job == Leased(mem.job[j])
             m == ApplyDispatchJob(mem, j, job)
             d == ApplyDispatchJob(disk, j, job)
  <2>1. job \in JobType
    BY LeasedJobType
  <2> HIDE DEF job
  <2>2. m \in IndexType /\ d \in IndexType
    BY <2>1, ApplyDispatchJobType DEF TypeOK
  <2>3. CASE /\ Commit(m, d) /\ lease' = [lease EXCEPT !.out = Append(@, j)]
             /\ UNCHANGED <<edges, now, accepted>>
    <3>1. lease \in LeaseType /\ Append(lease.out, j) \in Seq(Jobs)
      BY DEF TypeOK, LeaseType
    <3>2. [lease EXCEPT !.out = Append(lease.out, j)] \in LeaseType
      BY <3>1 DEF LeaseType
    <3> QED
      BY <2>2, <2>3, <3>2, CommitType DEF TypeOK
  <2>4. CASE CommitSilently(mem, d)
    BY <2>2, <2>4, CommitSilentlyType DEF TypeOK
  <2> QED
    BY <1>9, <2>3, <2>4 DEF LeaseNext, job
<1>10. CASE LeaseEnd
  <2>1. lease' \in LeaseType
    BY <1>10, EmptyTypes DEF LeaseEnd
  <2>2. [node |-> lease.node, jobs |-> lease.out] \in [node : Nodes, jobs : Seq(Jobs)]
    BY DEF TypeOK, LeaseType
  <2>3. wire' \subseteq [node : Nodes, jobs : Seq(Jobs)]
    BY <1>10, <2>2 DEF LeaseEnd, TypeOK
  <2>4. UNCHANGED <<mem, disk, up, broken, polls, handed, now, accepted, crashes, syncFailures>>
    BY <1>10 DEF LeaseEnd, faults
  <2> QED
    BY <2>1, <2>3, <2>4 DEF TypeOK
<1>11. ASSUME NEW w \in wire, Deliver(w) PROVE TypeOK'
  <2>1. w.node \in Nodes
    BY DEF TypeOK
  <2>2. \A k \in Nat, j \in Jobs : Cardinality({i \in 1 .. k : w.jobs[i] = j}) \in Nat
    <3>1. \A k \in Nat, j \in Jobs : /\ {i \in 1 .. k : w.jobs[i] = j} \subseteq 1 .. k
                                     /\ IsFiniteSet(1 .. k)
      BY FS_Interval
    <3> QED
      BY <3>1, FS_Subset, FS_CardinalityType
  <2>3. handed' \in [Nodes -> [Jobs -> Nat]]
    <3>1. w.jobs \in Seq(Jobs) /\ handed \in [Nodes -> [Jobs -> Nat]]
      BY DEF TypeOK
    <3>2. PICK k \in 0 .. Len(w.jobs) :
              handed' = [handed EXCEPT ![w.node] =
                  [j \in Jobs |-> @[j] + Cardinality({i \in 1 .. k : w.jobs[i] = j})]]
      BY <1>11 DEF Deliver
    <3>3. k \in Nat
      BY <3>1
    <3> DEFINE C(j) == Cardinality({i \in 1 .. k : w.jobs[i] = j})
    <3>4. \A j \in Jobs : C(j) \in Nat
      BY <2>2, <3>3
    <3>5. handed' = [handed EXCEPT ![w.node] = [j \in Jobs |-> @[j] + C(j)]]
      BY <3>2
    <3> HIDE DEF C
    <3> QED
      BY <2>1, <3>1, <3>4, <3>5
  <2> QED
    BY <1>11, <2>3 DEF Deliver, TypeOK, center, faults
<1>12. CASE LeaseFails
  BY <1>12, EmptyTypes DEF LeaseFails, TypeOK, edges, faults
<1>13. CASE LogFails
  BY <1>13, EmptyTypes DEF LogFails, TypeOK, edges, faults
<1>14. CASE Tick
  BY <1>14 DEF Tick, TypeOK, center, edges, faults
<1>15. CASE Crash
  BY <1>15, DieType DEF Crash, TypeOK
<1>16. CASE Restart
  BY <1>16 DEF Restart, TypeOK, edges, faults
<1>17. CASE UNCHANGED vars
  BY <1>17 DEF vars, center, edges, faults, TypeOK
<1> QED
  BY <1>1, <1>2, <1>3, <1>4, <1>5, <1>6, <1>7, <1>8, <1>9, <1>10, <1>11, <1>12,
     <1>13, <1>14, <1>15, <1>16, <1>17 DEF Next, LeaseStep

LEMMA InitType == Init => TypeOK
<1> SUFFICES ASSUME Init PROVE TypeOK
  OBVIOUS
<1>1. mem \in IndexType /\ disk \in IndexType /\ lease \in LeaseType
  BY EmptyTypes DEF Init
<1>2. /\ polls \subseteq [node : Nodes, capacity : 1 .. MaxCapacity, recv : 0 .. MaxClock]
      /\ wire \subseteq [node : Nodes, jobs : Seq(Jobs)]
      /\ accepted \subseteq Jobs
  BY DEF Init
<1>3. handed \in [Nodes -> [Jobs -> Nat]]
  <2>1. handed = [n \in Nodes |-> [j \in Jobs |-> 0]]
    BY DEF Init
  <2>2. 0 \in Nat
    OBVIOUS
  <2> QED
    BY <2>1, <2>2, Zenon
<1>4. /\ now \in 0 .. MaxClock
      /\ crashes \in 0 .. MaxCrashes /\ syncFailures \in 0 .. MaxSyncFailures
  BY DispatchAssumption DEF Init
<1>5. up \in BOOLEAN /\ broken \in BOOLEAN
  BY DEF Init
<1> QED
  BY <1>1, <1>2, <1>3, <1>4, <1>5 DEF TypeOK

\* The variables of the center keep their types, whatever fails: TypeOK.
THEOREM TypeCorrect == Spec => []TypeOK
BY InitType, TypeStep, PTL DEF Spec

-----------------------------------------------------------------------------
(* The cardinality of a node's pending jobs *)

LEMMA PendingFinite ==
  ASSUME NEW s, NEW n
  PROVE  IsFiniteSet(Pending(s, n)) /\ Cardinality(Pending(s, n)) \in Nat
<1>1. Pending(s, n) \subseteq Jobs
  BY DEF Pending
<1> QED
  BY <1>1, DispatchAssumption, FS_Subset, FS_CardinalityType

LEMMA PendingShrinks ==
  ASSUME NEW s, NEW t, NEW n, Pending(t, n) \subseteq Pending(s, n),
         Cardinality(Pending(s, n)) <= QueueLimit
  PROVE  Cardinality(Pending(t, n)) <= QueueLimit
<1>1. Cardinality(Pending(t, n)) <= Cardinality(Pending(s, n))
  BY PendingFinite, FS_Subset
<1> QED
  BY <1>1, PendingFinite, DispatchAssumption

LEMMA PendingGrowsByOne ==
  ASSUME NEW s, NEW t, NEW n, NEW j, Pending(t, n) \subseteq Pending(s, n) \cup {j},
         HasRoom(s, n)
  PROVE  Cardinality(Pending(t, n)) <= QueueLimit
<1>1. /\ IsFiniteSet(Pending(s, n) \cup {j})
      /\ Cardinality(Pending(s, n) \cup {j}) <= Cardinality(Pending(s, n)) + 1
  <2>1. IsFiniteSet(Pending(s, n)) /\ Cardinality(Pending(s, n)) \in Nat
    BY PendingFinite
  <2> QED
    BY <2>1, FS_AddElement
<1>2. Cardinality(Pending(t, n)) <= Cardinality(Pending(s, n) \cup {j})
  BY <1>1, FS_Subset
<1>3. /\ Cardinality(Pending(s, n)) \in Nat /\ Cardinality(Pending(t, n)) \in Nat
      /\ Cardinality(Pending(s, n) \cup {j}) \in Nat
  BY <1>1, PendingFinite, FS_CardinalityType
<1> QED
  BY <1>1, <1>2, <1>3, DispatchAssumption DEF HasRoom

\* What the records do to the set of pending jobs of the nodes.
LEMMA TouchPending ==
  ASSUME NEW s \in IndexType, NEW m \in Nodes, NEW n \in Nodes
  PROVE  Pending(Touch(s, m), n) = Pending(s, n)
BY TouchType DEF Pending

LEMMA ApplyStatusPending ==
  ASSUME NEW s \in IndexType, NEW m \in Nodes, NEW b \in Statuses, NEW n \in Nodes
  PROVE  Pending(ApplyStatus(s, m, b), n) = Pending(s, n)
BY ApplyStatusType DEF Pending

LEMMA ApplyJobEventPending ==
  ASSUME NEW s \in IndexType, NEW m \in Nodes, NEW j \in Jobs, NEW p \in ReportedPhases,
         NEW n \in Nodes
  PROVE  Pending(ApplyJobEvent(s, m, j, p), n) \subseteq Pending(s, n)
<1> DEFINE t == ApplyJobEvent(s, m, j, p)
<1> SUFFICES ASSUME NEW i \in Pending(t, n) PROVE i \in Pending(s, n)
  OBVIOUS
<1>1. /\ i \in Jobs /\ t.job[i].phase # "absent" /\ t.job[i].node = n
      /\ ~IsTerminal(t.job[i].phase)
  BY DEF Pending
<1>2. CASE t.job = s.job
  BY <1>1, <1>2 DEF Pending
<1>3. CASE /\ s.job[j].phase # "absent" /\ ~Closed(s, j, p)
           /\ t.job = [s.job EXCEPT ![j] = [s.job[j] EXCEPT !.phase = p]]
  <2>1. s.job \in [Jobs -> JobType] /\ s.job[j] \in JobType
    BY DEF IndexType
  <2>2. CASE i # j
    BY <1>1, <1>3, <2>1, <2>2 DEF Pending
  <2>3. CASE i = j
    <3>1. t.job[j].phase = p /\ t.job[j].node = s.job[j].node
      BY <1>3, <2>1 DEF JobType
    <3>2. ~IsTerminal(p)
      BY <1>1, <2>3, <3>1
    <3>3. ~IsTerminal(s.job[j].phase)
      BY <1>3, <3>2 DEF Closed
    <3> QED
      BY <1>1, <1>3, <2>3, <3>1, <3>3 DEF Pending
  <2> QED
    BY <2>2, <2>3
<1> HIDE DEF t
<1> QED
  BY <1>2, <1>3, ApplyJobEventType DEF t

LEMMA ApplyDispatchJobPending ==
  ASSUME NEW s \in IndexType, NEW j \in Jobs, NEW job \in JobType, NEW n \in Nodes
  PROVE  /\ Pending(ApplyDispatchJob(s, j, job), n) \subseteq Pending(s, n) \cup {j}
         /\ job.node # n \/ IsTerminal(job.phase)
               => Pending(ApplyDispatchJob(s, j, job), n) \subseteq Pending(s, n)
         /\ j \in Pending(s, n)
               => Pending(ApplyDispatchJob(s, j, job), n) \subseteq Pending(s, n)
<1> DEFINE t == ApplyDispatchJob(s, j, job)
<1>1. t.job = [s.job EXCEPT ![j] = job]
  BY ApplyDispatchJobType
<1> HIDE DEF t
<1>2. \A i \in Jobs : i # j => t.job[i] = s.job[i]
  BY <1>1 DEF IndexType
<1>3. t.job[j] = job
  BY <1>1 DEF IndexType
<1>4. Pending(t, n) \subseteq Pending(s, n) \cup {j}
  BY <1>2 DEF Pending
<1>5. job.node # n \/ IsTerminal(job.phase) => j \notin Pending(t, n)
  BY <1>3 DEF Pending
<1> QED
  BY <1>4, <1>5 DEF t

-----------------------------------------------------------------------------
(* The inductive invariant, without failing fsyncs *)

\* While fsync never fails, memory and log agree; after a failed write they
\* may differ in nodes that no record has registered.
Agree ==
    up => /\ mem.job = disk.job /\ mem.order = disk.order /\ mem.idem = disk.idem
          /\ \A n \in Nodes : disk.node[n].known => mem.node[n] = disk.node[n]
          /\ ~broken => mem = disk

Bounded(s) == \A n \in Nodes : Cardinality(Pending(s, n)) <= QueueLimit

\* Every job that has ended in s ends the same way in t.
KeepsEnds(s, t) ==
    \A j \in Jobs : IsTerminal(s.job[j].phase) => t.job[j].phase = s.job[j].phase

SafeInv == TypeOK /\ Agree /\ Bounded(disk)

Safe == Agree' /\ Bounded(disk') /\ KeepsEnds(disk, disk')

LEMMA SameLogSafe ==
  ASSUME SafeInv, disk' = disk, Agree'
  PROVE  Safe
BY DEF SafeInv, Safe, KeepsEnds

\* A handler that writes one record, whether or not it lives to answer.
LEMMA WriteSafe ==
  ASSUME MaxSyncFailures = 0, SafeInv, up, NEW m, NEW d, NEW k,
         mem = disk => m = d, Bounded(d), KeepsEnds(disk, d),
         Commit(m, d) \/ CommitSilently(k, d)
  PROVE  Safe
<1>1. CASE Commit(m, d)
  <2>1. m = d
    BY <1>1 DEF SafeInv, Agree, Commit
  <2> QED
    BY <1>1, <2>1 DEF Commit, Safe, Agree
<1>2. CASE CommitSilently(k, d)
  <2>1. ~(syncFailures < MaxSyncFailures)
    BY DEF SafeInv, TypeOK
  <2>2. disk' = d /\ ~up'
    BY <1>2, <2>1 DEF CommitSilently, Die
  <2> QED
    BY <2>2 DEF Safe, Agree
<1> QED
  BY <1>1, <1>2

LEMMA EnqueueKeeps ==
  ASSUME SafeInv, up, ~broken, NEW q \in Requests, NEW job \in JobType,
         mem.job[q.job].phase = "absent", HasRoom(mem, q.node), job.node = q.node
  PROVE  /\ Bounded(ApplyDispatchJob(disk, q.job, job))
         /\ KeepsEnds(disk, ApplyDispatchJob(disk, q.job, job))
<1> DEFINE d == ApplyDispatchJob(disk, q.job, job)
<1>1. mem = disk /\ disk \in IndexType
  BY DEF SafeInv, Agree, TypeOK
<1>2. q.job \in Jobs
  BY DispatchAssumption DEF RequestType
<1>3. d.job = [disk.job EXCEPT ![q.job] = job]
  BY <1>1, <1>2, ApplyDispatchJobType
<1>4. ASSUME NEW n \in Nodes PROVE Cardinality(Pending(d, n)) <= QueueLimit
  <2>1. CASE n = q.node
    <3>1. Pending(d, n) \subseteq Pending(disk, n) \cup {q.job}
      BY <1>1, <1>2, ApplyDispatchJobPending
    <3>2. HasRoom(disk, n)
      BY <1>1, <2>1
    <3> HIDE DEF d
    <3> QED
      BY <3>1, <3>2, PendingGrowsByOne
  <2>2. CASE n # q.node
    <3>1. Pending(d, n) \subseteq Pending(disk, n)
      BY <1>1, <1>2, <2>2, ApplyDispatchJobPending
    <3>2. Cardinality(Pending(disk, n)) <= QueueLimit
      BY DEF SafeInv, Bounded
    <3> QED
      BY <3>1, <3>2, PendingShrinks
  <2> QED
    BY <2>1, <2>2
<1>5. ~IsTerminal(disk.job[q.job].phase)
  BY <1>1 DEF IsTerminal, TerminalPhases
<1>6. \A j \in Jobs : j # q.job => d.job[j] = disk.job[j]
  BY <1>1, <1>3 DEF IndexType
<1>7. KeepsEnds(disk, d)
  BY <1>5, <1>6 DEF KeepsEnds
<1> QED
  BY <1>4, <1>7 DEF Bounded

\* A queued job leaves the queue for a phase of the same job.
LEMMA LeaveQueueKeeps ==
  ASSUME SafeInv, up, ~broken, NEW j \in Jobs, NEW job \in JobType,
         mem.job[j].phase = "queued", job.node = mem.job[j].node
  PROVE  /\ Bounded(ApplyDispatchJob(disk, j, job))
         /\ KeepsEnds(disk, ApplyDispatchJob(disk, j, job))
<1> DEFINE d == ApplyDispatchJob(disk, j, job)
<1>1. mem = disk /\ disk \in IndexType
  BY DEF SafeInv, Agree, TypeOK
<1>2. d.job = [disk.job EXCEPT ![j] = job]
  BY <1>1, ApplyDispatchJobType
<1>3. ~IsTerminal(disk.job[j].phase) /\ disk.job[j].phase # "absent"
  BY <1>1 DEF IsTerminal, TerminalPhases
<1>4. ASSUME NEW n \in Nodes PROVE Cardinality(Pending(d, n)) <= QueueLimit
  <2>1. n = job.node => j \in Pending(disk, n)
    BY <1>1, <1>3 DEF Pending
  <2>2. Pending(d, n) \subseteq Pending(disk, n)
    BY <1>1, <2>1, ApplyDispatchJobPending
  <2>3. Cardinality(Pending(disk, n)) <= QueueLimit
    BY DEF SafeInv, Bounded
  <2> QED
    BY <2>2, <2>3, PendingShrinks
<1>5. \A i \in Jobs : i # j => d.job[i] = disk.job[i]
  BY <1>1, <1>2 DEF IndexType
<1>6. KeepsEnds(disk, d)
  BY <1>3, <1>5 DEF KeepsEnds
<1> QED
  BY <1>4, <1>6 DEF Bounded

LEMMA JobEventKeeps ==
  ASSUME SafeInv, NEW n \in Nodes, NEW j \in Jobs, NEW p \in ReportedPhases
  PROVE  /\ Bounded(ApplyJobEvent(disk, n, j, p))
         /\ KeepsEnds(disk, ApplyJobEvent(disk, n, j, p))
<1> DEFINE d == ApplyJobEvent(disk, n, j, p)
<1>1. disk \in IndexType
  BY DEF SafeInv, TypeOK
<1>2. Bounded(d)
  BY <1>1, ApplyJobEventPending, PendingShrinks DEF Bounded, SafeInv
<1>3. CASE d.job = disk.job
  BY <1>2, <1>3 DEF KeepsEnds
<1>4. CASE /\ ~Closed(disk, j, p)
           /\ d.job = [disk.job EXCEPT ![j] = [disk.job[j] EXCEPT !.phase = p]]
  <2>1. /\ \A i \in Jobs : i # j => d.job[i] = disk.job[i]
        /\ d.job[j].phase = p
    BY <1>1, <1>4 DEF IndexType, JobType
  <2>2. IsTerminal(disk.job[j].phase) => p = disk.job[j].phase
    BY <1>4 DEF Closed
  <2>3. KeepsEnds(disk, d)
    BY <2>1, <2>2 DEF KeepsEnds
  <2> QED
    BY <1>2, <2>3
<1> QED
  BY <1>1, <1>3, <1>4, ApplyJobEventType

LEMMA SafeStep == ASSUME MaxSyncFailures = 0, SafeInv, [Next]_vars PROVE Safe
<1>0. disk \in IndexType /\ mem \in IndexType
  BY DEF SafeInv, TypeOK
<1>1. ASSUME NEW n \in Nodes, NEW b \in Statuses, ReportStatus(n, b) PROVE Safe
  <2> DEFINE d == ApplyStatus(disk, n, b)
  <2>1. Bounded(d) /\ KeepsEnds(disk, d)
    BY <1>0, ApplyStatusPending, ApplyStatusType DEF Bounded, KeepsEnds, SafeInv
  <2>2. \/ Commit(ApplyStatus(mem, n, b), d)
        \/ CommitSilently(mem, d)
    BY <1>1 DEF ReportStatus
  <2>3. up /\ (mem = disk => ApplyStatus(mem, n, b) = d)
    BY <1>1 DEF ReportStatus, Ready
  <2> HIDE DEF d
  <2> QED
    BY <2>1, <2>2, <2>3, WriteSafe
<1>2. ASSUME NEW n \in Nodes, ReportAudit(n) PROVE Safe
  <2> DEFINE d == Touch(disk, n)
  <2>1. Bounded(d) /\ KeepsEnds(disk, d)
    BY <1>0, TouchPending, TouchType DEF Bounded, KeepsEnds, SafeInv
  <2>2. up /\ (mem = disk => Touch(mem, n) = d)
    BY <1>2 DEF ReportAudit, Ready
  <2>3. CASE Commit(Touch(mem, n), d) \/ CommitSilently(Touch(mem, n), d)
    <3> HIDE DEF d
    <3> QED
      BY <2>1, <2>2, <2>3, WriteSafe
  <2>4. CASE /\ broken /\ mem' = Touch(mem, n)
             /\ UNCHANGED <<disk, up, broken, lease, edges, now, accepted, faults>>
    <3>1. /\ mem'.job = mem.job /\ mem'.order = mem.order /\ mem'.idem = mem.idem
      BY <1>0, <2>4, TouchType
    <3>2. \A i \in Nodes : disk.node[i].known => mem'.node[i] = disk.node[i]
      <4> SUFFICES ASSUME NEW i \in Nodes, disk.node[i].known
                   PROVE  mem'.node[i] = disk.node[i]
        OBVIOUS
      <4>1. mem.node[i] = disk.node[i]
        BY <2>2 DEF SafeInv, Agree
      <4>2. mem.node[i].known = TRUE
        BY <1>0, <4>1 DEF IndexType, NodeType
      <4>3. mem'.node[i] = mem.node[i]
        BY <1>0, <2>4, <4>2 DEF Touch, IndexType, NodeType
      <4> QED
        BY <4>1, <4>3
    <3>3. Agree'
      BY <2>2, <2>4, <3>1, <3>2 DEF Agree, SafeInv
    <3> QED
      BY <2>4, <3>3, SameLogSafe
  <2> QED
    BY <1>2, <2>3, <2>4 DEF ReportAudit
<1>3. ASSUME NEW n \in Nodes, NEW j \in Jobs, NEW p \in ReportedPhases, RecordJobEvent(n, j, p)
      PROVE  Safe
  <2> DEFINE m == ApplyJobEvent(mem, n, j, p)
             d == ApplyJobEvent(disk, n, j, p)
  <2>1. Bounded(d) /\ KeepsEnds(disk, d)
    BY JobEventKeeps
  <2>2. Commit(m, d) \/ CommitSilently(mem, d)
    BY <1>3 DEF RecordJobEvent
  <2>3. up /\ (mem = disk => m = d)
    BY <1>3 DEF RecordJobEvent, Ready
  <2> HIDE DEF m, d
  <2> QED
    BY <2>1, <2>2, <2>3, WriteSafe
<1>4. ASSUME NEW q \in Requests, EnqueueJob(q) PROVE Safe
  <2> DEFINE job == NewJob(q, Clamp(q.policy, mem.node[q.node].ceiling), "queued")
             m == ApplyDispatchJob(mem, q.job, job)
             d == ApplyDispatchJob(disk, q.job, job)
  <2>1. job \in JobType /\ job.node = q.node
    BY <1>4, NewJobType DEF EnqueueJob, NewJob, SafeInv
  <2>2. /\ up /\ ~broken /\ mem.job[q.job].phase = "absent" /\ HasRoom(mem, q.node)
        /\ Commit(m, d) \/ CommitSilently(mem, d)
    BY <1>4 DEF EnqueueJob, Ready, Commit, CommitSilently
  <2>3. mem = disk => m = d
    OBVIOUS
  <2> HIDE DEF job
  <2>4. Bounded(d) /\ KeepsEnds(disk, d)
    BY <2>1, <2>2, EnqueueKeeps
  <2> HIDE DEF m, d
  <2> QED
    BY <2>2, <2>3, <2>4, WriteSafe
<1>5. ASSUME NEW j \in Jobs, LeaseReject(j) PROVE Safe
  <2> DEFINE job == [mem.job[j] EXCEPT !.phase = "rejected"]
             m == ApplyDispatchJob(mem, j, job)
             d == ApplyDispatchJob(disk, j, job)
  <2>1. job \in JobType /\ job.node = mem.job[j].node
    BY LeasedJobType DEF SafeInv, JobType
  <2>2. /\ up /\ ~broken /\ mem.job[j].phase = "queued"
        /\ Commit(m, d) \/ CommitSilently(mem, d)
    BY <1>5 DEF LeaseReject, Scanning, IsNext, IsQueuedHere, Commit, CommitSilently
  <2>3. mem = disk => m = d
    OBVIOUS
  <2> HIDE DEF job
  <2>4. Bounded(d) /\ KeepsEnds(disk, d)
    BY <2>1, <2>2, LeaveQueueKeeps
  <2> HIDE DEF m, d
  <2> QED
    BY <2>2, <2>3, <2>4, WriteSafe
<1>6. ASSUME NEW j \in Jobs, LeaseNext(j) PROVE Safe
  <2> DEFINE job == Leased(mem.job[j])
             m == ApplyDispatchJob(mem, j, job)
             d == ApplyDispatchJob(disk, j, job)
  <2>1. job \in JobType /\ job.node = mem.job[j].node
    BY LeasedJobType DEF SafeInv, JobType, Leased
  <2>2. /\ up /\ ~broken /\ mem.job[j].phase = "queued"
        /\ Commit(m, d) \/ CommitSilently(mem, d)
    BY <1>6 DEF LeaseNext, Scanning, IsNext, IsQueuedHere, Commit, CommitSilently
  <2>3. mem = disk => m = d
    OBVIOUS
  <2> HIDE DEF job
  <2>4. Bounded(d) /\ KeepsEnds(disk, d)
    BY <2>1, <2>2, LeaveQueueKeeps
  <2> HIDE DEF m, d
  <2> QED
    BY <2>2, <2>3, <2>4, WriteSafe
<1>7. CASE Crash \/ Restart
  BY <1>7, SameLogSafe DEF Crash, Die, Restart, Agree
<1>8. CASE LogFails
  BY <1>8, SameLogSafe DEF LogFails, Agree, SafeInv
<1>9. CASE UNCHANGED center
  BY <1>9, SameLogSafe DEF center, Agree, SafeInv
<1>10. CASE UNCHANGED <<mem, disk, up, broken>>
  BY <1>10, SameLogSafe DEF Agree, SafeInv
<1>11. ASSUME NEW q \in Requests, EnqueueAgain(q) PROVE UNCHANGED center
  BY <1>11 DEF EnqueueAgain
<1>12. ASSUME NEW n \in Nodes, NEW c \in 1 .. MaxCapacity, Poll(n, c) PROVE UNCHANGED center
  BY <1>12 DEF Poll
<1>13. ASSUME NEW p \in polls, LeaseBegin(p) PROVE UNCHANGED <<mem, disk, up, broken>>
  BY <1>13 DEF LeaseBegin
<1>14. ASSUME LeaseEnd PROVE UNCHANGED <<mem, disk, up, broken>>
  BY <1>14 DEF LeaseEnd
<1>15. ASSUME NEW w \in wire, Deliver(w) PROVE UNCHANGED center
  BY <1>15 DEF Deliver
<1>16. ASSUME LeaseFails PROVE UNCHANGED <<mem, disk, up, broken>>
  BY <1>16 DEF LeaseFails
<1>17. ASSUME Tick \/ UNCHANGED vars PROVE UNCHANGED center
  BY <1>17 DEF Tick, vars
<1> QED
  BY <1>1, <1>2, <1>3, <1>4, <1>5, <1>6, <1>7, <1>8, <1>9, <1>10, <1>11, <1>12,
     <1>13, <1>14, <1>15, <1>16, <1>17 DEF Next, LeaseStep

THEOREM SafeInvariant == ASSUME MaxSyncFailures = 0 PROVE Spec => []SafeInv
<1>1. Init => SafeInv
  <2> SUFFICES ASSUME Init PROVE SafeInv
    OBVIOUS
  <2>1. Agree
    BY DEF Init, Agree
  <2>2. \A n \in Nodes : Pending(disk, n) = {}
    BY DEF Init, EmptyIndex, NoJob, Pending
  <2>3. Bounded(disk)
    BY <2>2, FS_EmptySet, DispatchAssumption DEF Bounded
  <2>4. TypeOK
    BY InitType
  <2> QED
    BY <2>1, <2>3, <2>4 DEF SafeInv
<1>2. SafeInv /\ [Next]_vars => SafeInv'
  BY TypeStep, SafeStep DEF SafeInv, Safe, Bounded
<1> QED
  BY <1>1, <1>2, PTL DEF Spec

\* What the center knows is what a replay of its log would tell it: MemIsLog.
\* Every handler writes its record before it changes the index, in one step
\* of the mutex.
THEOREM MemoryIsLog == ASSUME MaxSyncFailures = 0 PROVE Spec => []MemIsLog
<1>1. SafeInv => MemIsLog
  BY DEF SafeInv, Agree, MemIsLog
<1> QED
  BY <1>1, SafeInvariant, PTL

\* No node has more unfinished jobs than the limit, however many nodes, jobs,
\* crashes and late reports there are: PendingBounded.
THEOREM QueueBounded == ASSUME MaxSyncFailures = 0 PROVE Spec => []PendingBounded
<1>1. SafeInv => PendingBounded
  BY DEF SafeInv, Agree, Bounded, PendingBounded, Pending
<1> QED
  BY <1>1, SafeInvariant, PTL

\* A job that has ended stays as it ended, across restarts: TerminalForever.
THEOREM EndsAreKept == ASSUME MaxSyncFailures = 0 PROVE Spec => TerminalForever
<1>1. SafeInv /\ [Next]_vars =>
        [\A j \in Jobs : IsTerminal(disk.job[j].phase)
                             => disk'.job[j].phase = disk.job[j].phase]_vars
  BY SafeStep DEF Safe, KeepsEnds
<1> QED
  BY <1>1, SafeInvariant, PTL DEF Spec, TerminalForever

-----------------------------------------------------------------------------
(***************************************************************************)
(* What the dispatch queue promises about handing jobs out.  HandedOnce    *)
(* and AcceptedKept are proved for every fault of the model, failing       *)
(* fsyncs included; OneJobPerKey, NoOvertaking and the refinement of       *)
(* JobLifecycle need that fsync does not fail.                             *)
(***************************************************************************)

-----------------------------------------------------------------------------
(* Where a job is on its way to an edge *)

Has(jobs, j) == \E i \in DOMAIN jobs : jobs[i] = j

Leasing(n, j) == lease.node = n /\ Has(lease.out, j)
Sending(n, j) == \E w \in wire : w.node = n /\ Has(w.jobs, j)
Arrived(n, j) == handed[n][j] > 0

OnItsWayTo(n, j) == Leasing(n, j) \/ Sending(n, j) \/ Arrived(n, j)
OnItsWay(j) == \E n \in Nodes : OnItsWayTo(n, j)

\* A job that is not there or still in the queue has never been leased.
Untried(s) ==
    \A j \in Jobs : s.job[j].phase \in {"absent", "queued"} => s.job[j].attempts = 0

\* The job has been leased to the node once.  What its phase is since then is up
\* to the reports, but they never put it back into the queue.
GoneTo(s, n, j) ==
    /\ s.job[j].node = n /\ s.job[j].attempts = 1
    /\ s.job[j].phase \notin {"absent", "queued"}

\* Index s knows of every job that is on its way.
Tracked(s) ==
    /\ Untried(s)
    /\ \A n \in Nodes, j \in Jobs : OnItsWayTo(n, j) => GoneTo(s, n, j)

Distinct(jobs) == \A i, k \in DOMAIN jobs : jobs[i] = jobs[k] => i = k

\* A job is in one place on its way, and once.
Apart ==
    /\ Distinct(lease.out) /\ \A w \in wire : Distinct(w.jobs)
    /\ \A j \in Jobs, n \in Nodes :
          /\ handed[n][j] <= 1
          /\ Has(lease.out, j) => handed[n][j] = 0
          /\ \A w \in wire : Has(w.jobs, j) => handed[n][j] = 0 /\ ~Has(lease.out, j)
    /\ \A v, w \in wire, j \in Jobs : Has(v.jobs, j) /\ Has(w.jobs, j) => v = w

Places == Tracked(disk) /\ (up => Tracked(mem)) /\ Apart

HandInv == TypeOK /\ Places

-----------------------------------------------------------------------------
(* Records that keep what an index knows of the jobs on their way *)

Keeps(s, t) ==
    /\ Untried(s) => Untried(t)
    /\ \A n \in Nodes, j \in Jobs : OnItsWayTo(n, j) /\ GoneTo(s, n, j) => GoneTo(t, n, j)

LEMMA SameJobsKeep ==
  ASSUME NEW s, NEW t, t.job = s.job
  PROVE  Keeps(s, t)
BY DEF Keeps, GoneTo, Untried

LEMMA DispatchKeeps ==
  ASSUME NEW s \in IndexType, NEW j \in Jobs, NEW job \in JobType, ~OnItsWay(j),
         job.phase = "queued" => job.attempts = 0, job.phase # "absent"
  PROVE  Keeps(s, ApplyDispatchJob(s, j, job))
<1> DEFINE t == ApplyDispatchJob(s, j, job)
<1>1. t.job = [s.job EXCEPT ![j] = job]
  BY ApplyDispatchJobType
<1> HIDE DEF t
<1>2. \A i \in Jobs : i # j => t.job[i] = s.job[i]
  BY <1>1 DEF IndexType
<1>3. t.job[j] = job
  BY <1>1 DEF IndexType
<1>4. Untried(s) => Untried(t)
  BY <1>2, <1>3 DEF Untried
<1>5. Keeps(s, t)
  BY <1>2, <1>4 DEF Keeps, OnItsWay, GoneTo
<1> QED
  BY <1>5 DEF t

\* A report of anybody changes no node and no number of leases, and puts no job
\* into the queue.
LEMMA ReportKeeps ==
  ASSUME NEW s \in IndexType, NEW m \in Nodes, NEW i \in Jobs, NEW p \in ReportedPhases
  PROVE  Keeps(s, ApplyJobEvent(s, m, i, p))
<1> DEFINE t == ApplyJobEvent(s, m, i, p)
<1>1. \/ t.job = s.job
      \/ t.job = [s.job EXCEPT ![i] = [s.job[i] EXCEPT !.phase = p]]
  BY ApplyJobEventType
<1> HIDE DEF t
<1>2. CASE t.job = s.job
  BY <1>2, SameJobsKeep DEF t
<1>3. CASE t.job = [s.job EXCEPT ![i] = [s.job[i] EXCEPT !.phase = p]]
  <2>1. s.job \in [Jobs -> JobType] /\ s.job[i] \in JobType
    BY DEF IndexType
  <2>2. \A j \in Jobs : j # i => t.job[j] = s.job[j]
    BY <1>3, <2>1
  <2>3. /\ t.job[i].node = s.job[i].node /\ t.job[i].attempts = s.job[i].attempts
        /\ t.job[i].phase = p
    BY <1>3, <2>1 DEF JobType
  <2>4. p \notin {"absent", "queued"}
    BY DEF ReportedPhases, TerminalPhases
  <2>5. Untried(s) => Untried(t)
    BY <2>2, <2>3, <2>4 DEF Untried
  <2>6. Keeps(s, t)
    BY <2>2, <2>3, <2>4, <2>5 DEF Keeps, GoneTo
  <2> QED
    BY <2>6 DEF t
<1> QED
  BY <1>1, <1>2, <1>3

\* A job that memory has as queued, or does not have, is not on its way.
LEMMA QueuedIsHere ==
  ASSUME HandInv, up, NEW j \in Jobs, mem.job[j].phase \in {"absent", "queued"}
  PROVE  ~OnItsWay(j) /\ mem.job[j].attempts = 0
BY DEF HandInv, Places, Tracked, Untried, OnItsWay, GoneTo

\* A step that moves no job.
LEMMA StillPlaces ==
  ASSUME HandInv, UNCHANGED <<wire, handed>>,
         lease' = lease \/ lease'.out = <<>>,
         Keeps(disk, disk'),
         up' => (up /\ Keeps(mem, mem')) \/ mem' = disk'
  PROVE  Places'
<1>1. /\ \A n \in Nodes, j \in Jobs : Leasing(n, j)' => Leasing(n, j)
      /\ \A n \in Nodes, j \in Jobs : Sending(n, j)' = Sending(n, j)
      /\ \A n \in Nodes, j \in Jobs : Arrived(n, j)' = Arrived(n, j)
      /\ \A j \in Jobs : Has(lease.out, j)' => Has(lease.out, j)
      /\ Distinct(lease.out)'
  BY DEF Leasing, Sending, Arrived, Has, Distinct, HandInv, Places, Apart
<1>2. Apart'
  BY <1>1 DEF HandInv, Places, Apart
<1>3. \A n \in Nodes, j \in Jobs : OnItsWayTo(n, j)' => OnItsWayTo(n, j)
  BY <1>1 DEF OnItsWayTo
<1>4. Tracked(disk)'
  BY <1>3 DEF HandInv, Places, Tracked, Keeps, GoneTo, Untried
<1>5. up' => Tracked(mem)'
  <2>1. CASE mem' = disk'
    BY <1>4, <2>1 DEF Tracked, GoneTo, Untried
  <2>2. CASE up /\ Keeps(mem, mem')
    BY <1>3, <2>2 DEF HandInv, Places, Tracked, Keeps, GoneTo, Untried
  <2> QED
    BY <2>1, <2>2
<1> QED
  BY <1>2, <1>4, <1>5 DEF Places

\* A handler that writes one record and hands nothing out.
LEMMA WritePlaces ==
  ASSUME HandInv, up, NEW m, NEW d, NEW k,
         Keeps(mem, m), Keeps(mem, k), Keeps(disk, d),
         \/ (Commit(m, d) /\ UNCHANGED <<lease, edges>>)
         \/ CommitSilently(k, d)
  PROVE  Places'
<1>1. CASE Commit(m, d) /\ UNCHANGED <<lease, edges>>
  BY <1>1, StillPlaces DEF Commit, edges
<1>2. CASE CommitSilently(k, d)
  <2>1. UNCHANGED <<wire, handed>> /\ disk' = d
    BY <1>2 DEF CommitSilently
  <2>2. lease'.out = <<>>
    <3>1. lease' = Idle
      BY <1>2, Zenon DEF CommitSilently, Die
    <3> QED
      BY <3>1 DEF Idle
  <2>3. up' => mem' = k
    BY <1>2 DEF CommitSilently, Die
  <2> QED
    BY <2>1, <2>2, <2>3, StillPlaces
<1> QED
  BY <1>1, <1>2

-----------------------------------------------------------------------------
(* Steps that move jobs *)

\* LeaseNext succeeds: the job is leased and goes into the response.
LEMMA HandOutPlaces ==
  ASSUME HandInv, up, NEW j \in Jobs, mem.job[j].phase = "queued",
         mem.job[j].node = lease.node, NEW job, job = Leased(mem.job[j]),
         Commit(ApplyDispatchJob(mem, j, job), ApplyDispatchJob(disk, j, job)),
         lease' = [lease EXCEPT !.out = Append(lease.out, j)], UNCHANGED edges
  PROVE  Places'
<1>1. ~OnItsWay(j) /\ mem.job[j].attempts = 0
  BY QueuedIsHere
<1>2. /\ mem \in IndexType /\ disk \in IndexType /\ job \in JobType
      /\ lease \in LeaseType /\ handed \in [Nodes -> [Jobs -> Nat]]
  BY LeasedJobType DEF HandInv, TypeOK
<1>5. job.node = lease.node /\ job.phase = "leased" /\ job.attempts = 1
  <2>1. mem.job[j] \in JobType
    BY LeasedJobType DEF HandInv
  <2> QED
    BY <1>1, <2>1 DEF Leased, JobType
<1>3. Keeps(mem, mem') /\ Keeps(disk, disk')
  BY <1>1, <1>2, <1>5, DispatchKeeps DEF Commit
<1>4. mem'.job[j] = job /\ disk'.job[j] = job
  <2>1. /\ mem'.job = [mem.job EXCEPT ![j] = job]
        /\ disk'.job = [disk.job EXCEPT ![j] = job]
    BY <1>2, ApplyDispatchJobType DEF Commit
  <2> QED
    BY <1>2, <2>1 DEF IndexType
<1>6. /\ lease'.node = lease.node /\ lease'.out = Append(lease.out, j)
      /\ lease.out \in Seq(Jobs)
      /\ UNCHANGED <<wire, handed>>
  BY <1>2 DEF LeaseType, edges
<1>7. \A i \in Jobs : Has(lease.out, i)' <=> (Has(lease.out, i) \/ i = j)
  BY <1>6 DEF Has
<1>8. ~Has(lease.out, j) /\ \A n \in Nodes : ~Sending(n, j) /\ handed[n][j] = 0
  <2>1. lease.node \in Nodes
    BY <1>2 DEF LeaseType
  <2>2. \A n \in Nodes : handed[n][j] \in Nat
    BY <1>2
  <2> QED
    BY <1>1, <2>1, <2>2 DEF OnItsWay, OnItsWayTo, Leasing, Arrived
<1>9. \A w \in wire : ~Has(w.jobs, j)
  BY <1>8 DEF Sending, HandInv, TypeOK
<1>10. Distinct(lease.out)'
  <2>1. Distinct(lease.out)
    BY DEF HandInv, Places, Apart
  <2> QED
    BY <1>6, <1>8, <2>1 DEF Distinct, Has
<1>11. Apart'
  <2>1. \A w \in wire, i \in Jobs : Has(w.jobs, i) => ~Has(lease.out, i)'
    BY <1>7, <1>9, DispatchAssumption DEF HandInv, Places, Apart
  <2>2. \A i \in Jobs, n \in Nodes : Has(lease.out, i)' => handed[n][i] = 0
    BY <1>7, <1>8 DEF HandInv, Places, Apart
  <2> QED
    BY <1>6, <1>10, <2>1, <2>2 DEF HandInv, Places, Apart, Has, Distinct
<1>12. \A n \in Nodes, i \in Jobs :
           OnItsWayTo(n, i)' => OnItsWayTo(n, i) \/ (n = lease.node /\ i = j)
  BY <1>6, <1>7 DEF OnItsWayTo, Leasing, Sending, Arrived
<1>13. ASSUME NEW s, NEW t, Tracked(s), Keeps(s, t), t.job[j] = job
       PROVE  /\ Untried(t)
              /\ \A n \in Nodes, i \in Jobs : OnItsWayTo(n, i)' => GoneTo(t, n, i)
  <2>1. GoneTo(t, lease.node, j)
    BY <1>5, <1>13 DEF GoneTo
  <2> QED
    BY <1>12, <1>13, <2>1 DEF Tracked, Keeps
<1>14. Tracked(mem)' /\ Tracked(disk)'
  <2>1. Tracked(mem) /\ Tracked(disk)
    BY DEF HandInv, Places
  <2>2. /\ Untried(mem')
        /\ \A n \in Nodes, i \in Jobs : OnItsWayTo(n, i)' => GoneTo(mem', n, i)
    BY <1>3, <1>4, <1>13, <2>1
  <2>3. /\ Untried(disk')
        /\ \A n \in Nodes, i \in Jobs : OnItsWayTo(n, i)' => GoneTo(disk', n, i)
    BY <1>3, <1>4, <1>13, <2>1
  <2> QED
    BY <2>2, <2>3 DEF Tracked, GoneTo, Untried
<1> QED
  BY <1>11, <1>14 DEF Places

\* LeaseEnd: the response leaves the center.
LEMMA RespondPlaces == ASSUME HandInv, LeaseEnd PROVE Places'
<1>1. /\ UNCHANGED <<mem, disk, up, handed>> /\ lease' = Idle
      /\ wire' = IF lease.out = <<>> THEN wire
                 ELSE wire \cup {[node |-> lease.node, jobs |-> lease.out]}
  BY DEF LeaseEnd
<1>2. lease'.out = <<>>
  BY <1>1 DEF Idle
<1>3. \A j \in Jobs : ~Has(lease.out, j)'
  BY <1>2 DEF Has
<1>4. \A w \in wire' : w \in wire \/ (w.node = lease.node /\ w.jobs = lease.out)
  BY <1>1
<1>5. \A n \in Nodes, j \in Jobs :
          /\ ~Leasing(n, j)'
          /\ Sending(n, j)' => Leasing(n, j) \/ Sending(n, j)
          /\ Arrived(n, j)' = Arrived(n, j)
  BY <1>1, <1>3, <1>4 DEF Leasing, Sending, Arrived
<1>6. Tracked(disk)' /\ (up' => Tracked(mem)')
  BY <1>1, <1>5 DEF HandInv, Places, Tracked, OnItsWayTo, GoneTo, Untried
<1>7. Apart'
  <2>1. Distinct(lease.out)' /\ \A w \in wire' : Distinct(w.jobs)
    BY <1>2, <1>4 DEF Distinct, HandInv, Places, Apart
  <2>2. \A j \in Jobs, n \in Nodes, w \in wire' : Has(w.jobs, j) => handed[n][j] = 0
    BY <1>4 DEF HandInv, Places, Apart
  <2>3. ASSUME NEW v \in wire', NEW w \in wire', NEW j \in Jobs, Has(v.jobs, j), Has(w.jobs, j)
        PROVE  v = w
    <3>1. CASE v \in wire /\ w \in wire
      BY <2>3, <3>1 DEF HandInv, Places, Apart
    <3>2. CASE v \notin wire /\ w \notin wire
      BY <1>1, <3>2
    <3>3. \E n \in Nodes : TRUE
      BY DispatchAssumption
    <3>4. \A x \in wire : Has(x.jobs, j) => ~Has(lease.out, j)
      BY <3>3 DEF HandInv, Places, Apart
    <3>5. CASE v \in wire /\ w \notin wire
      BY <1>4, <2>3, <3>4, <3>5
    <3>6. CASE v \notin wire /\ w \in wire
      BY <1>4, <2>3, <3>4, <3>6
    <3> QED
      BY <3>1, <3>2, <3>5, <3>6
  <2>4. \A j \in Jobs, n \in Nodes : handed'[n][j] <= 1
    BY <1>1 DEF HandInv, Places, Apart
  <2> QED
    BY <1>1, <1>3, <2>1, <2>2, <2>3, <2>4 DEF Apart, Has, Distinct
<1> QED
  BY <1>6, <1>7 DEF Places

\* A part of a response arrives.
LEMMA DeliverPlaces == ASSUME HandInv, NEW w \in wire, Deliver(w) PROVE Places'
<1>1. /\ UNCHANGED <<mem, disk, up, lease>> /\ wire' = wire \ {w}
      /\ \E k \in 0 .. Len(w.jobs) :
            handed' = [handed EXCEPT ![w.node] =
                [j \in Jobs |-> @[j] + Cardinality({i \in 1 .. k : w.jobs[i] = j})]]
  BY DEF Deliver, center
<1>2. PICK k \in 0 .. Len(w.jobs) :
          handed' = [handed EXCEPT ![w.node] =
              [j \in Jobs |-> @[j] + Cardinality({i \in 1 .. k : w.jobs[i] = j})]]
  BY <1>1
<1>3. /\ w.node \in Nodes /\ w.jobs \in Seq(Jobs)
      /\ handed \in [Nodes -> [Jobs -> Nat]]
  BY DEF HandInv, TypeOK
<1> DEFINE C(j) == Cardinality({i \in 1 .. k : w.jobs[i] = j})
<1>4. ASSUME NEW j \in Jobs
      PROVE  C(j) \in {0, 1} /\ (C(j) = 1 => Has(w.jobs, j))
  <2>1. CASE \E i \in 1 .. k : w.jobs[i] = j
    <3>1. PICK i \in 1 .. k : w.jobs[i] = j
      BY <2>1
    <3>2. Distinct(w.jobs) /\ 1 .. k \subseteq DOMAIN w.jobs
      BY <1>3 DEF HandInv, Places, Apart
    <3>3. {l \in 1 .. k : w.jobs[l] = j} = {i}
      BY <3>1, <3>2 DEF Distinct
    <3>4. C(j) = 1
      BY <3>3, FS_Singleton
    <3> HIDE DEF C
    <3> QED
      BY <3>1, <3>2, <3>4 DEF Has
  <2>2. CASE ~\E i \in 1 .. k : w.jobs[i] = j
    <3>1. {l \in 1 .. k : w.jobs[l] = j} = {}
      BY <2>2
    <3>2. C(j) = 0
      BY <3>1, FS_EmptySet
    <3> HIDE DEF C
    <3> QED
      BY <3>2
  <2> QED
    BY <2>1, <2>2
<1>5. handed' = [handed EXCEPT ![w.node] = [j \in Jobs |-> handed[w.node][j] + C(j)]]
  BY <1>2
<1> HIDE DEF C
<1>6. ASSUME NEW n \in Nodes, NEW j \in Jobs
      PROVE  \/ handed'[n][j] = handed[n][j]
             \/ n = w.node /\ Has(w.jobs, j) /\ handed'[n][j] = handed[n][j] + 1
  <2>1. CASE n # w.node
    BY <1>3, <1>5, <2>1
  <2>2. CASE n = w.node
    <3>1. handed'[n][j] = handed[n][j] + C(j) /\ handed[n][j] \in Nat
      BY <1>3, <1>5, <2>2
    <3> QED
      BY <1>4, <2>2, <3>1
  <2> QED
    BY <2>1, <2>2
<1>7. \A n \in Nodes, j \in Jobs :
          Arrived(n, j)' => Arrived(n, j) \/ (n = w.node /\ Has(w.jobs, j))
  BY <1>6 DEF Arrived
<1>8. Tracked(disk)' /\ (up' => Tracked(mem)')
  <2>1. \A n \in Nodes, j \in Jobs :
            /\ Leasing(n, j)' = Leasing(n, j)
            /\ Sending(n, j)' => Sending(n, j)
            /\ Arrived(n, j)' => Arrived(n, j) \/ Sending(n, j)
    BY <1>1, <1>7 DEF Leasing, Sending
  <2> QED
    BY <1>1, <2>1 DEF HandInv, Places, Tracked, OnItsWayTo, GoneTo, Untried
<1>9. Apart'
  <2>1. \A n \in Nodes, j \in Jobs : Has(w.jobs, j) => handed[n][j] = 0
    BY DEF HandInv, Places, Apart
  <2>2. \A n \in Nodes, j \in Jobs : handed'[n][j] <= 1
    BY <1>6, <2>1 DEF HandInv, Places, Apart
  <2>3. \A j \in Jobs, n \in Nodes : Has(lease.out, j) => handed'[n][j] = 0
    BY <1>6 DEF HandInv, Places, Apart
  <2>4. \A x \in wire', j \in Jobs : Has(x.jobs, j) => ~Has(w.jobs, j)
    BY <1>1 DEF HandInv, Places, Apart
  <2>5. \A x \in wire', j \in Jobs, n \in Nodes :
            Has(x.jobs, j) => handed'[n][j] = 0 /\ ~Has(lease.out, j)
    BY <1>1, <1>6, <2>4 DEF HandInv, Places, Apart
  <2>6. \A v, x \in wire', j \in Jobs : Has(v.jobs, j) /\ Has(x.jobs, j) => v = x
    BY <1>1 DEF HandInv, Places, Apart
  <2>7. Distinct(lease.out) /\ \A x \in wire' : Distinct(x.jobs)
    BY <1>1 DEF HandInv, Places, Apart
  <2>8. /\ \A j \in Jobs : Has(lease.out, j)' <=> Has(lease.out, j)
        /\ Distinct(lease.out)' <=> Distinct(lease.out)
    BY <1>1 DEF Has, Distinct
  <2> QED
    BY <2>2, <2>3, <2>5, <2>6, <2>7, <2>8 DEF Apart
<1> QED
  BY <1>8, <1>9 DEF Places

-----------------------------------------------------------------------------
(* Every step *)

LEMMA HandStep == HandInv /\ [Next]_vars => Places'
<1> SUFFICES ASSUME HandInv, [Next]_vars PROVE Places'
  OBVIOUS
<1>0. disk \in IndexType /\ mem \in IndexType
  BY DEF HandInv, TypeOK
<1>1. ASSUME NEW n \in Nodes, NEW b \in Statuses, ReportStatus(n, b) PROVE Places'
  <2>1. /\ Keeps(mem, ApplyStatus(mem, n, b)) /\ Keeps(mem, mem)
        /\ Keeps(disk, ApplyStatus(disk, n, b))
    BY <1>0, ApplyStatusType, SameJobsKeep
  <2>2. \/ Commit(ApplyStatus(mem, n, b), ApplyStatus(disk, n, b)) /\ UNCHANGED <<lease, edges>>
        \/ CommitSilently(mem, ApplyStatus(disk, n, b))
    BY <1>1 DEF ReportStatus
  <2> QED
    BY <1>1, <2>1, <2>2, WritePlaces DEF ReportStatus, Ready
<1>2. ASSUME NEW n \in Nodes, ReportAudit(n) PROVE Places'
  <2>1. Keeps(mem, Touch(mem, n)) /\ Keeps(disk, Touch(disk, n)) /\ Keeps(disk, disk)
    BY <1>0, TouchType, SameJobsKeep
  <2>2. CASE \/ Commit(Touch(mem, n), Touch(disk, n)) /\ UNCHANGED <<lease, edges>>
             \/ CommitSilently(Touch(mem, n), Touch(disk, n))
    BY <1>2, <2>1, <2>2, WritePlaces DEF ReportAudit, Ready
  <2>3. CASE /\ broken /\ mem' = Touch(mem, n)
             /\ UNCHANGED <<disk, up, broken, lease, edges, now, accepted, faults>>
    BY <1>2, <2>1, <2>3, StillPlaces DEF edges, ReportAudit, Ready
  <2> QED
    BY <1>2, <2>2, <2>3 DEF ReportAudit
<1>3. ASSUME NEW n \in Nodes, NEW j \in Jobs, NEW p \in ReportedPhases, RecordJobEvent(n, j, p)
      PROVE  Places'
  <2> DEFINE m == ApplyJobEvent(mem, n, j, p)
             d == ApplyJobEvent(disk, n, j, p)
  <2>1. Keeps(mem, m) /\ Keeps(disk, d) /\ Keeps(mem, mem)
    BY <1>0, ReportKeeps, SameJobsKeep
  <2>2. \/ Commit(m, d) /\ UNCHANGED <<lease, edges>>
        \/ CommitSilently(mem, d)
    BY <1>3 DEF RecordJobEvent
  <2> HIDE DEF m, d
  <2> QED
    BY <1>3, <2>1, <2>2, WritePlaces DEF RecordJobEvent, Ready
<1>4. ASSUME NEW q \in Requests, EnqueueJob(q) PROVE Places'
  <2> DEFINE job == NewJob(q, Clamp(q.policy, mem.node[q.node].ceiling), "queued")
             m == ApplyDispatchJob(mem, q.job, job)
             d == ApplyDispatchJob(disk, q.job, job)
  <2>1. /\ q.job \in Jobs /\ job \in JobType /\ up /\ mem.job[q.job].phase = "absent"
        /\ job.phase = "queued" /\ job.attempts = 0
    BY <1>4, NewJobType DEF EnqueueJob, NewJob, RequestType, HandInv, Ready
  <2>2. \/ Commit(m, d) /\ UNCHANGED <<lease, edges>>
        \/ CommitSilently(mem, d)
    BY <1>4 DEF EnqueueJob
  <2> HIDE DEF job
  <2>3. Keeps(mem, m) /\ Keeps(disk, d) /\ Keeps(mem, mem)
    BY <1>0, <2>1, QueuedIsHere, DispatchKeeps, SameJobsKeep
  <2> HIDE DEF m, d
  <2> QED
    BY <2>1, <2>2, <2>3, WritePlaces
<1>5. ASSUME NEW j \in Jobs, LeaseReject(j) PROVE Places'
  <2> DEFINE job == [mem.job[j] EXCEPT !.phase = "rejected"]
             m == ApplyDispatchJob(mem, j, job)
             d == ApplyDispatchJob(disk, j, job)
  <2>1. job \in JobType /\ up /\ mem.job[j].phase = "queued" /\ job.phase = "rejected"
    BY <1>5, LeasedJobType DEF LeaseReject, Scanning, IsNext, IsQueuedHere, HandInv, JobType
  <2>2. \/ Commit(m, d) /\ UNCHANGED <<lease, edges>>
        \/ CommitSilently(mem, d)
    BY <1>5 DEF LeaseReject
  <2> HIDE DEF job
  <2>3. Keeps(mem, m) /\ Keeps(disk, d) /\ Keeps(mem, mem)
    BY <1>0, <2>1, QueuedIsHere, DispatchKeeps, SameJobsKeep
  <2> HIDE DEF m, d
  <2> QED
    BY <2>1, <2>2, <2>3, WritePlaces
<1>6. ASSUME NEW j \in Jobs, LeaseNext(j) PROVE Places'
  <2> DEFINE job == Leased(mem.job[j])
             m == ApplyDispatchJob(mem, j, job)
             d == ApplyDispatchJob(disk, j, job)
  <2>1. /\ job \in JobType /\ up /\ mem.job[j].phase = "queued"
        /\ mem.job[j].node = lease.node /\ job.phase = "leased"
    BY <1>6, LeasedJobType DEF LeaseNext, Scanning, IsNext, IsQueuedHere, HandInv, JobType, Leased
  <2>2. CASE /\ Commit(m, d) /\ lease' = [lease EXCEPT !.out = Append(@, j)]
             /\ UNCHANGED <<edges, now, accepted>>
    BY <2>1, <2>2, HandOutPlaces
  <2>3. CASE CommitSilently(mem, d)
    <3> HIDE DEF job
    <3>1. Keeps(disk, d) /\ Keeps(mem, mem)
      BY <1>0, <2>1, QueuedIsHere, DispatchKeeps, SameJobsKeep
    <3> HIDE DEF d
    <3> QED
      BY <2>1, <2>3, <3>1, WritePlaces
  <2> QED
    BY <1>6, <2>2, <2>3 DEF LeaseNext
<1>7. CASE LeaseEnd
  BY <1>7, RespondPlaces
<1>8. ASSUME NEW w \in wire, Deliver(w) PROVE Places'
  BY <1>8, DeliverPlaces
<1>9. Keeps(disk, disk) /\ Keeps(mem, mem)
  BY SameJobsKeep
<1>10. CASE LeaseFails
  <2>1. lease'.out = <<>>
    BY <1>10 DEF LeaseFails, Idle
  <2> QED
    BY <1>9, <1>10, <2>1, StillPlaces DEF LeaseFails, edges, Scanning
<1>11. ASSUME NEW p \in polls, LeaseBegin(p) PROVE Places'
  <2>1. lease'.out = <<>>
    BY <1>11 DEF LeaseBegin, Idle
  <2>2. UNCHANGED <<mem, disk, up, wire, handed>>
    BY <1>11 DEF LeaseBegin
  <2>3. Keeps(disk, disk') /\ Keeps(mem, mem') /\ up' = up
    BY <1>9, <2>2
  <2> QED
    BY <1>9, <2>1, <2>2, <2>3, StillPlaces DEF LeaseBegin, Ready
<1>12. CASE LogFails
  <2>1. lease'.out = <<>>
    BY <1>12 DEF LogFails, Idle
  <2> QED
    BY <1>9, <1>12, <2>1, StillPlaces DEF LogFails, edges
<1>13. CASE Crash
  <2>1. lease'.out = <<>> /\ ~up'
    BY <1>13 DEF Crash, Die, Idle
  <2>2. UNCHANGED <<disk, wire, handed>>
    BY <1>13 DEF Crash
  <2> QED
    BY <1>9, <2>1, <2>2, StillPlaces
<1>14. CASE Restart
  BY <1>9, <1>14, StillPlaces DEF Restart, edges
<1>15. CASE UNCHANGED <<mem, disk, up, lease, wire, handed>>
  BY <1>15 DEF HandInv, Places, Apart, Tracked, OnItsWayTo, Leasing, Sending, Arrived, GoneTo,
               Untried, Has, Distinct
<1>16. ASSUME NEW q \in Requests, EnqueueAgain(q)
       PROVE  UNCHANGED <<mem, disk, up, lease, wire, handed>>
  BY <1>16 DEF EnqueueAgain, center, edges
<1>17. ASSUME NEW n \in Nodes, NEW c \in 1 .. MaxCapacity, Poll(n, c)
       PROVE  UNCHANGED <<mem, disk, up, lease, wire, handed>>
  BY <1>17 DEF Poll, center
<1>18. ASSUME Tick \/ UNCHANGED vars
       PROVE  UNCHANGED <<mem, disk, up, lease, wire, handed>>
  BY <1>18 DEF Tick, vars, center, edges
<1> QED
  BY <1>1, <1>2, <1>3, <1>4, <1>5, <1>6, <1>7, <1>8, <1>10, <1>11, <1>12, <1>13,
     <1>14, <1>15, <1>16, <1>17, <1>18 DEF Next, LeaseStep

\* Every job on its way to an edge - in the response being built, in one on the
\* wire, or arrived - is in one place, and memory and log know of its one lease.
THEOREM HandInvariant == Spec => []HandInv
<1>1. Init => HandInv
  <2> SUFFICES ASSUME Init PROVE HandInv
    OBVIOUS
  <2>1. wire = {} /\ lease.out = <<>>
    BY DEF Init, Idle
  <2>2. \A n \in Nodes, j \in Jobs : handed[n][j] = 0
    BY DEF Init
  <2>3. \A n \in Nodes, j \in Jobs : ~Leasing(n, j) /\ ~Sending(n, j) /\ ~Arrived(n, j)
    BY <2>1, <2>2 DEF Leasing, Sending, Arrived, Has
  <2>4. Apart
    BY <2>1, <2>2 DEF Apart, Has, Distinct
  <2>5. Tracked(disk) /\ Tracked(mem)
    BY <2>3 DEF Tracked, OnItsWayTo, Untried, Init, EmptyIndex, NoJob
  <2> QED
    BY <2>4, <2>5, InitType DEF HandInv, Places
<1>2. HandInv /\ [Next]_vars => HandInv'
  BY HandStep, TypeStep DEF HandInv
<1> QED
  BY <1>1, <1>2, PTL DEF Spec

\* No job is handed out twice, or to another node than its own, or before the
\* log has its lease, whatever crashes, writes and fsyncs that fail, lost
\* responses, and reports of anybody there are: HandedOnce.
THEOREM JobsAreHandedOnce == Spec => []HandedOnce
<1>1. HandInv => HandedOnce
  <2> SUFFICES ASSUME HandInv, NEW n \in Nodes, NEW j \in Jobs, handed[n][j] > 0
               PROVE  /\ handed[n][j] = 1
                      /\ disk.job[j].node = n
                      /\ disk.job[j].attempts = 1
                      /\ disk.job[j].phase \notin {"absent", "queued"}
    BY DEF HandedOnce
  <2>1. handed[n][j] \in Nat /\ handed[n][j] <= 1
    BY DEF HandInv, Places, Apart, TypeOK
  <2>2. GoneTo(disk, n, j)
    BY DEF HandInv, Places, Tracked, OnItsWayTo, Arrived
  <2> QED
    BY <2>1, <2>2 DEF GoneTo
<1> QED
  BY <1>1, HandInvariant, PTL

-----------------------------------------------------------------------------
(* Accepted jobs, under every fault *)

Present(s) == {j \in Jobs : s.job[j].phase # "absent"}

KeysFind(s, jobs) == \A k \in IdemKeys : s.idem[k] \subseteq jobs

\* The log has every job that an idempotency key finds, and every accepted one.
AcceptInv ==
    /\ TypeOK
    /\ KeysFind(mem, Present(disk)) /\ KeysFind(disk, Present(disk))
    /\ accepted \subseteq Present(disk)

LEMMA IndexRest ==
  ASSUME NEW s \in IndexType
  PROVE  /\ \A n \in Nodes, b \in Statuses :
               /\ ApplyStatus(s, n, b).idem = s.idem
               /\ ApplyStatus(s, n, b).order = s.order
         /\ \A n \in Nodes, j \in Jobs, p \in ReportedPhases :
               /\ ApplyJobEvent(s, n, j, p).idem = s.idem
               /\ ApplyJobEvent(s, n, j, p).order = s.order
         /\ \A j \in Jobs, job \in JobType :
               /\ ApplyDispatchJob(s, j, job).idem = [s.idem EXCEPT ![job.idem] = {j}]
               /\ ApplyDispatchJob(s, j, job).order
                     = IF s.job[j].phase = "absent" THEN Append(s.order, j) ELSE s.order
<1>1. \A n \in Nodes, b \in Statuses :
          /\ ApplyStatus(s, n, b).idem = s.idem
          /\ ApplyStatus(s, n, b).order = s.order
  BY DEF ApplyStatus, IndexType
<1>2. \A n \in Nodes, j \in Jobs, p \in ReportedPhases :
          /\ ApplyJobEvent(s, n, j, p).idem = s.idem
          /\ ApplyJobEvent(s, n, j, p).order = s.order
  BY DEF ApplyJobEvent, SetPhase, Touch, IndexType
<1>3. \A j \in Jobs, job \in JobType :
          /\ ApplyDispatchJob(s, j, job).idem = [s.idem EXCEPT ![job.idem] = {j}]
          /\ ApplyDispatchJob(s, j, job).order
                = IF s.job[j].phase = "absent" THEN Append(s.order, j) ELSE s.order
  BY DEF ApplyDispatchJob, IndexIdem, IndexType
<1> QED
  BY <1>1, <1>2, <1>3

\* Writing a snapshot of a job: the log has that one as well.
LEMMA DispatchPresent ==
  ASSUME NEW s \in IndexType, NEW j \in Jobs, NEW job \in JobType, job.phase # "absent",
         NEW jobs, KeysFind(s, jobs), j \in jobs
  PROVE  /\ Present(ApplyDispatchJob(s, j, job)) = Present(s) \cup {j}
         /\ KeysFind(ApplyDispatchJob(s, j, job), jobs)
<1> DEFINE t == ApplyDispatchJob(s, j, job)
<1>1. t.job = [s.job EXCEPT ![j] = job] /\ t.idem = [s.idem EXCEPT ![job.idem] = {j}]
  BY ApplyDispatchJobType, IndexRest
<1> HIDE DEF t
<1>2. Present(t) = Present(s) \cup {j}
  BY <1>1 DEF Present, IndexType
<1>3. KeysFind(t, jobs)
  BY <1>1 DEF KeysFind, IndexType
<1> QED
  BY <1>2, <1>3 DEF t

\* A handler that writes one record and accepts what the log then has.
LEMMA WriteAccepts ==
  ASSUME AcceptInv, NEW m, NEW d, NEW k, Present(disk) \subseteq Present(d),
         KeysFind(m, Present(d)), KeysFind(k, Present(d)), KeysFind(d, Present(d)),
         \/ Commit(m, d) /\ accepted' \subseteq Present(d)
         \/ CommitSilently(k, d),
         TypeOK'
  PROVE  AcceptInv'
<1>1. disk' = d
  BY DEF Commit, CommitSilently
<1>2. accepted' \subseteq Present(d)
  BY DEF AcceptInv, CommitSilently
<1>3. mem' = m \/ mem' = k \/ mem' = EmptyIndex
  BY DEF Commit, CommitSilently, Die
<1>4. KeysFind(EmptyIndex, Present(d))
  BY DEF KeysFind, EmptyIndex
<1>5. KeysFind(mem', Present(d))
  BY <1>3, <1>4
<1> QED
  BY <1>1, <1>2, <1>5 DEF AcceptInv, KeysFind, Present

LEMMA AcceptStep == AcceptInv /\ [Next]_vars => AcceptInv'
<1> SUFFICES ASSUME AcceptInv, [Next]_vars PROVE AcceptInv'
  OBVIOUS
<1>0. disk \in IndexType /\ mem \in IndexType /\ TypeOK'
  BY TypeStep DEF AcceptInv, TypeOK
<1>a. /\ KeysFind(mem, Present(disk)) /\ KeysFind(disk, Present(disk))
      /\ accepted \subseteq Present(disk)
  BY DEF AcceptInv
<1>1. ASSUME NEW n \in Nodes, NEW b \in Statuses, ReportStatus(n, b) PROVE AcceptInv'
  <2>1. /\ Present(ApplyStatus(disk, n, b)) = Present(disk)
        /\ ApplyStatus(disk, n, b).idem = disk.idem
        /\ ApplyStatus(mem, n, b).idem = mem.idem
    BY <1>0, ApplyStatusType, IndexRest DEF Present
  <2>2. \/ Commit(ApplyStatus(mem, n, b), ApplyStatus(disk, n, b)) /\ accepted' = accepted
        \/ CommitSilently(mem, ApplyStatus(disk, n, b))
    BY <1>1 DEF ReportStatus
  <2> QED
    BY <1>0, <1>a, <2>1, <2>2, WriteAccepts DEF KeysFind
<1>2. ASSUME NEW n \in Nodes, ReportAudit(n) PROVE AcceptInv'
  <2>1. /\ Present(Touch(disk, n)) = Present(disk)
        /\ Touch(disk, n).idem = disk.idem /\ Touch(mem, n).idem = mem.idem
    BY <1>0, TouchType DEF Present
  <2>2. CASE \/ Commit(Touch(mem, n), Touch(disk, n)) /\ accepted' = accepted
             \/ CommitSilently(Touch(mem, n), Touch(disk, n))
    BY <1>0, <1>a, <2>1, <2>2, WriteAccepts DEF KeysFind
  <2>3. CASE mem' = Touch(mem, n) /\ UNCHANGED <<disk, accepted>>
    BY <1>0, <1>a, <2>1, <2>3 DEF AcceptInv, KeysFind, Present
  <2> QED
    BY <1>2, <2>2, <2>3 DEF ReportAudit
<1>3. ASSUME NEW n \in Nodes, NEW j \in Jobs, NEW p \in ReportedPhases, RecordJobEvent(n, j, p)
      PROVE  AcceptInv'
  <2> DEFINE m == ApplyJobEvent(mem, n, j, p)
             d == ApplyJobEvent(disk, n, j, p)
  <2>1. m.idem = mem.idem /\ d.idem = disk.idem
    BY <1>0, IndexRest
  <2>2. \/ d.job = disk.job
        \/ d.job = [disk.job EXCEPT ![j] = [disk.job[j] EXCEPT !.phase = p]]
    BY <1>0, ApplyJobEventType
  <2>3. \/ Commit(m, d) /\ accepted' = accepted
        \/ CommitSilently(mem, d)
    BY <1>3 DEF RecordJobEvent
  <2> HIDE DEF m, d
  <2>4. Present(disk) \subseteq Present(d)
    <3>1. disk.job \in [Jobs -> JobType] /\ disk.job[j] \in JobType
      BY <1>0 DEF IndexType
    <3>2. p # "absent"
      BY DEF ReportedPhases, TerminalPhases
    <3> QED
      BY <2>2, <3>1, <3>2 DEF Present, JobType
  <2> QED
    BY <1>0, <1>a, <2>1, <2>3, <2>4, WriteAccepts DEF KeysFind
<1>4. ASSUME NEW j \in Jobs, NEW job \in JobType, job.phase # "absent",
             \/ /\ Commit(ApplyDispatchJob(mem, j, job), ApplyDispatchJob(disk, j, job))
                /\ accepted' \subseteq accepted \cup {j}
             \/ CommitSilently(mem, ApplyDispatchJob(disk, j, job))
      PROVE  AcceptInv'
  <2> DEFINE m == ApplyDispatchJob(mem, j, job)
             d == ApplyDispatchJob(disk, j, job)
             P == Present(disk) \cup {j}
  <2>1. KeysFind(mem, P) /\ KeysFind(disk, P) /\ j \in P
    BY <1>a DEF KeysFind
  <2>2. Present(d) = P /\ KeysFind(d, P) /\ KeysFind(m, P)
    BY <1>0, <1>4, <2>1, DispatchPresent
  <2>3. accepted' \subseteq accepted \cup {j} => accepted' \subseteq P
    BY <1>a
  <2>4. \/ Commit(m, d) /\ accepted' \subseteq accepted \cup {j}
        \/ CommitSilently(mem, d)
    BY <1>4
  <2>5. Present(disk) \subseteq P
    OBVIOUS
  <2> HIDE DEF m, d, P
  <2> QED
    BY <1>0, <2>1, <2>2, <2>3, <2>4, <2>5, WriteAccepts
<1>5. ASSUME NEW q \in Requests, EnqueueJob(q) PROVE AcceptInv'
  <2> DEFINE job == NewJob(q, Clamp(q.policy, mem.node[q.node].ceiling), "queued")
  <2>1. q.job \in Jobs /\ job \in JobType
    BY <1>5, NewJobType DEF EnqueueJob, RequestType, AcceptInv
  <2>2. job.phase = "queued"
    BY DEF NewJob
  <2>3. \/ /\ Commit(ApplyDispatchJob(mem, q.job, job), ApplyDispatchJob(disk, q.job, job))
           /\ accepted' = accepted \cup {q.job}
        \/ CommitSilently(mem, ApplyDispatchJob(disk, q.job, job))
    BY <1>5 DEF EnqueueJob
  <2> HIDE DEF job
  <2> QED
    BY <1>4, <2>1, <2>2, <2>3
<1>6. ASSUME NEW j \in Jobs, LeaseReject(j) PROVE AcceptInv'
  <2> DEFINE job == [mem.job[j] EXCEPT !.phase = "rejected"]
  <2>1. job \in JobType /\ mem.job[j] \in JobType
    BY LeasedJobType DEF AcceptInv
  <2>2. job.phase = "rejected"
    BY <2>1 DEF JobType
  <2>3. \/ /\ Commit(ApplyDispatchJob(mem, j, job), ApplyDispatchJob(disk, j, job))
           /\ accepted' = accepted
        \/ CommitSilently(mem, ApplyDispatchJob(disk, j, job))
    BY <1>6 DEF LeaseReject
  <2> HIDE DEF job
  <2> QED
    BY <1>4, <2>1, <2>2, <2>3
<1>7. ASSUME NEW j \in Jobs, LeaseNext(j) PROVE AcceptInv'
  <2> DEFINE job == Leased(mem.job[j])
  <2>1. job \in JobType /\ mem.job[j] \in JobType
    BY LeasedJobType DEF AcceptInv
  <2>2. job.phase = "leased"
    BY <2>1 DEF JobType, Leased
  <2>3. \/ /\ Commit(ApplyDispatchJob(mem, j, job), ApplyDispatchJob(disk, j, job))
           /\ accepted' = accepted
        \/ CommitSilently(mem, ApplyDispatchJob(disk, j, job))
    BY <1>7 DEF LeaseNext
  <2> HIDE DEF job
  <2> QED
    BY <1>4, <2>1, <2>2, <2>3
<1>8. ASSUME NEW q \in Requests, EnqueueAgain(q) PROVE AcceptInv'
  <2>1. q.idem \in IdemKeys
    BY DispatchAssumption DEF RequestType
  <2>2. mem.idem[q.idem] \subseteq Present(disk)
    BY <1>a, <2>1 DEF KeysFind
  <2> QED
    BY <1>0, <1>8, <1>a, <2>2 DEF EnqueueAgain, AcceptInv, KeysFind, Present, center
<1>9. CASE Crash \/ Restart
  <2>1. KeysFind(EmptyIndex, Present(disk))
    BY DEF KeysFind, EmptyIndex
  <2>2. /\ mem' = EmptyIndex \/ mem' = disk
        /\ UNCHANGED <<disk, accepted>>
    BY <1>9 DEF Crash, Die, Restart
  <2> QED
    BY <1>0, <1>a, <2>1, <2>2 DEF AcceptInv, KeysFind, Present
<1>10. CASE UNCHANGED <<mem, disk, accepted>>
  BY <1>0, <1>10, <1>a DEF AcceptInv, KeysFind, Present
<1>11. ASSUME NEW n \in Nodes, NEW c \in 1 .. MaxCapacity, Poll(n, c)
       PROVE  UNCHANGED <<mem, disk, accepted>>
  BY <1>11 DEF Poll, center
<1>12. ASSUME NEW p \in polls, LeaseBegin(p) PROVE UNCHANGED <<mem, disk, accepted>>
  BY <1>12 DEF LeaseBegin
<1>13. ASSUME NEW w \in wire, Deliver(w) PROVE UNCHANGED <<mem, disk, accepted>>
  BY <1>13 DEF Deliver, center
<1>14. ASSUME LeaseFails PROVE UNCHANGED <<mem, disk, accepted>>
  BY <1>14 DEF LeaseFails
<1>15. ASSUME LeaseEnd \/ LogFails \/ Tick \/ UNCHANGED vars
       PROVE  UNCHANGED <<mem, disk, accepted>>
  BY <1>15 DEF LeaseEnd, LogFails, Tick, vars, center
<1> QED
  BY <1>1, <1>2, <1>3, <1>5, <1>6, <1>7, <1>8, <1>9, <1>10, <1>11, <1>12, <1>13, <1>14,
     <1>15 DEF Next, LeaseStep

\* An operator who was told that a job is queued, by the request that made it
\* or by one that repeated its key, can rely on it: AcceptedKept.
THEOREM AcceptedJobsAreKept == Spec => []AcceptedKept
<1>1. Init => AcceptInv
  <2> SUFFICES ASSUME Init PROVE AcceptInv
    OBVIOUS
  <2>1. KeysFind(mem, Present(disk)) /\ KeysFind(disk, Present(disk))
    BY DEF Init, KeysFind, EmptyIndex
  <2> QED
    BY <2>1, InitType DEF AcceptInv, Init
<1>2. AcceptInv => AcceptedKept
  BY DEF AcceptInv, AcceptedKept, Present
<1> QED
  BY <1>1, <1>2, AcceptStep, PTL DEF Spec

-----------------------------------------------------------------------------
(* What a step does to the log, without failing fsyncs *)

\* Nothing that concerns a job.
SameQueue(s, t) == t.job = s.job /\ t.order = s.order /\ t.idem = s.idem

\* A report of a job that has not ended, or the end it has once more.
ReportOf(s, t, j, p) ==
    /\ s.job[j].phase # "absent" /\ ~Closed(s, j, p)
    /\ t.job = [s.job EXCEPT ![j] = [s.job[j] EXCEPT !.phase = p]]
    /\ t.order = s.order /\ t.idem = s.idem

\* A new job with a key that was free.
CreationOf(s, t, j, job) ==
    /\ s.job[j].phase = "absent" /\ s.idem[job.idem] = {}
    /\ job.phase = "queued" /\ job.attempts = 0
    /\ t = ApplyDispatchJob(s, j, job)

\* The first queued job of its node leaves the queue.
FirstQueued(s, j) ==
    \E i \in DOMAIN s.order :
        /\ s.order[i] = j
        /\ \A k \in 1 .. i - 1 :
              ~(s.job[s.order[k]].node = s.job[j].node /\ s.job[s.order[k]].phase = "queued")

DepartureOf(s, t, j, job) ==
    /\ s.job[j].phase = "queued" /\ FirstQueued(s, j)
    /\ job.node = s.job[j].node /\ job.idem = s.job[j].idem
    /\ \/ job.phase = "leased" /\ job.attempts = s.job[j].attempts + 1
       \/ job.phase = "rejected" /\ job.attempts = s.job[j].attempts
    /\ t = ApplyDispatchJob(s, j, job)

Logged ==
    \/ SameQueue(disk, disk')
    \/ /\ UNCHANGED handed
       /\ \/ \E j \in Jobs, p \in ReportedPhases : ReportOf(disk, disk', j, p)
          \/ \E j \in Jobs, job \in JobType :
                CreationOf(disk, disk', j, job) \/ DepartureOf(disk, disk', j, job)

\* A handler that writes has a memory that is the log.
LEMMA WriterHasLog ==
  ASSUME SafeInv, up, NEW m, NEW d, NEW k, Commit(m, d) \/ CommitSilently(k, d)
  PROVE  mem = disk /\ disk' = d
BY DEF SafeInv, Agree, Commit, CommitSilently

LEMMA LoggedStep == ASSUME SafeInv, [Next]_vars PROVE Logged
<1>0. disk \in IndexType /\ mem \in IndexType /\ TypeOK
  BY DEF SafeInv, TypeOK
<1>1. ASSUME NEW n \in Nodes, NEW b \in Statuses, ReportStatus(n, b) PROVE Logged
  <2>1. disk' = ApplyStatus(disk, n, b)
    BY <1>1 DEF ReportStatus, Commit, CommitSilently
  <2> QED
    BY <1>0, <2>1, ApplyStatusType, IndexRest DEF Logged, SameQueue
<1>2. ASSUME NEW n \in Nodes, ReportAudit(n) PROVE Logged
  <2>1. disk' = Touch(disk, n) \/ disk' = disk
    BY <1>2 DEF ReportAudit, Commit, CommitSilently
  <2> QED
    BY <1>0, <2>1, TouchType DEF Logged, SameQueue
<1>3. ASSUME NEW n \in Nodes, NEW j \in Jobs, NEW p \in ReportedPhases, RecordJobEvent(n, j, p)
      PROVE  Logged
  <2>1. disk' = ApplyJobEvent(disk, n, j, p) /\ handed' = handed
    BY <1>3 DEF RecordJobEvent, Commit, CommitSilently, edges
  <2>2. disk'.idem = disk.idem /\ disk'.order = disk.order
    BY <1>0, <2>1, IndexRest
  <2>3. disk'.job = disk.job \/ ReportOf(disk, disk', j, p)
    BY <1>0, <2>1, <2>2, ApplyJobEventType DEF ReportOf
  <2> QED
    BY <2>1, <2>2, <2>3 DEF Logged, SameQueue
<1>4. ASSUME NEW q \in Requests, EnqueueJob(q) PROVE Logged
  <2> DEFINE job == NewJob(q, Clamp(q.policy, mem.node[q.node].ceiling), "queued")
             m == ApplyDispatchJob(mem, q.job, job)
             d == ApplyDispatchJob(disk, q.job, job)
  <2>1. q.job \in Jobs /\ job \in JobType
    BY <1>0, <1>4, NewJobType DEF EnqueueJob, RequestType
  <2>2. job.phase = "queued" /\ job.idem = q.idem /\ job.attempts = 0
    BY DEF NewJob
  <2>3. /\ up /\ mem.job[q.job].phase = "absent" /\ mem.idem[q.idem] = {}
        /\ Commit(m, d) \/ CommitSilently(mem, d)
        /\ handed' = handed
    BY <1>4 DEF EnqueueJob, KeyIsFree, Ready, CommitSilently, edges
  <2> HIDE DEF job
  <2>4. mem = disk /\ disk' = d
    <3> HIDE DEF m, d
    <3> QED
      BY <2>3, WriterHasLog
  <2>5. CreationOf(disk, disk', q.job, job)
    BY <2>2, <2>3, <2>4 DEF CreationOf
  <2> QED
    BY <2>1, <2>3, <2>5 DEF Logged
<1>5. ASSUME NEW j \in Jobs, NEW job \in JobType, up, IsNext(j),
             job.node = mem.job[j].node, job.idem = mem.job[j].idem,
             \/ job.phase = "leased" /\ job.attempts = mem.job[j].attempts + 1
             \/ job.phase = "rejected" /\ job.attempts = mem.job[j].attempts,
             handed' = handed,
             \/ Commit(ApplyDispatchJob(mem, j, job), ApplyDispatchJob(disk, j, job))
             \/ CommitSilently(mem, ApplyDispatchJob(disk, j, job))
      PROVE  Logged
  <2> DEFINE m == ApplyDispatchJob(mem, j, job)
             d == ApplyDispatchJob(disk, j, job)
  <2>1. mem = disk /\ disk' = d
    <3>1. Commit(m, d) \/ CommitSilently(mem, d)
      BY <1>5
    <3> HIDE DEF m, d
    <3> QED
      BY <1>5, <3>1, WriterHasLog
  <2>2. disk.job[j].phase = "queued" /\ FirstQueued(disk, j)
    BY <1>5, <2>1 DEF IsNext, IsQueuedHere, FirstQueued
  <2>3. DepartureOf(disk, disk', j, job)
    BY <1>5, <2>1, <2>2 DEF DepartureOf
  <2> QED
    BY <1>5, <2>3 DEF Logged
<1>6. ASSUME NEW j \in Jobs, LeaseReject(j) PROVE Logged
  <2> DEFINE job == [mem.job[j] EXCEPT !.phase = "rejected"]
  <2>1. job \in JobType /\ mem.job[j] \in JobType
    BY <1>0, LeasedJobType
  <2>2. /\ job.phase = "rejected" /\ job.attempts = mem.job[j].attempts
        /\ job.node = mem.job[j].node /\ job.idem = mem.job[j].idem
    BY <2>1 DEF JobType
  <2>3. /\ up /\ IsNext(j) /\ handed' = handed
        /\ \/ Commit(ApplyDispatchJob(mem, j, job), ApplyDispatchJob(disk, j, job))
           \/ CommitSilently(mem, ApplyDispatchJob(disk, j, job))
    BY <1>6 DEF LeaseReject, Scanning, CommitSilently, edges
  <2> HIDE DEF job
  <2> QED
    BY <1>5, <2>1, <2>2, <2>3
<1>7. ASSUME NEW j \in Jobs, LeaseNext(j) PROVE Logged
  <2> DEFINE job == Leased(mem.job[j])
  <2>1. job \in JobType /\ mem.job[j] \in JobType
    BY <1>0, LeasedJobType
  <2>2. /\ job.phase = "leased" /\ job.attempts = mem.job[j].attempts + 1
        /\ job.node = mem.job[j].node /\ job.idem = mem.job[j].idem
    BY <2>1 DEF JobType, Leased
  <2>3. /\ up /\ IsNext(j) /\ handed' = handed
        /\ \/ Commit(ApplyDispatchJob(mem, j, job), ApplyDispatchJob(disk, j, job))
           \/ CommitSilently(mem, ApplyDispatchJob(disk, j, job))
    BY <1>7 DEF LeaseNext, Scanning, CommitSilently, edges
  <2> HIDE DEF job
  <2> QED
    BY <1>5, <2>1, <2>2, <2>3
<1>8. CASE UNCHANGED disk
  BY <1>8 DEF Logged, SameQueue
<1>9. ASSUME NEW q \in Requests, EnqueueAgain(q) PROVE UNCHANGED disk
  BY <1>9 DEF EnqueueAgain, center
<1>10. ASSUME NEW n \in Nodes, NEW c \in 1 .. MaxCapacity, Poll(n, c) PROVE UNCHANGED disk
  BY <1>10 DEF Poll, center
<1>11. ASSUME NEW p \in polls, LeaseBegin(p) PROVE UNCHANGED disk
  BY <1>11 DEF LeaseBegin
<1>12. ASSUME NEW w \in wire, Deliver(w) PROVE UNCHANGED disk
  BY <1>12 DEF Deliver, center
<1>13. ASSUME LeaseFails PROVE UNCHANGED disk
  BY <1>13 DEF LeaseFails
<1>14. ASSUME LeaseEnd \/ LogFails \/ Tick \/ Crash \/ Restart \/ UNCHANGED vars
       PROVE  UNCHANGED disk
  BY <1>14 DEF LeaseEnd, LogFails, Tick, Crash, Restart, vars, center
<1> QED
  BY <1>1, <1>2, <1>3, <1>4, <1>6, <1>7, <1>8, <1>9, <1>10, <1>11, <1>12, <1>13, <1>14
     DEF Next, LeaseStep

-----------------------------------------------------------------------------
(* Keys and order, without failing fsyncs *)

Keyed(s) ==
    \A k \in IdemKeys :
        /\ s.idem[k] = {j \in Present(s) : s.job[j].idem = k}
        /\ \A i, j \in s.idem[k] : i = j

Listed(s) == Distinct(s.order) /\ \A j \in Jobs : Has(s.order, j) <=> j \in Present(s)

Ordered(s) ==
    \A i, k \in DOMAIN s.order :
        /\ i < k /\ s.job[s.order[i]].node = s.job[s.order[k]].node
        /\ s.job[s.order[i]].phase = "queued"
        => s.job[s.order[k]].attempts = 0

Queue(s) == Keyed(s) /\ Listed(s) /\ Ordered(s)

LEMMA SameQueueKeeps ==
  ASSUME NEW s, NEW t, Queue(s), SameQueue(s, t)
  PROVE  Queue(t)
BY DEF Queue, Keyed, Listed, Ordered, SameQueue, Present

LEMMA ReportQueue ==
  ASSUME NEW s \in IndexType, NEW t, NEW i \in Jobs, NEW p \in ReportedPhases,
         Queue(s), ReportOf(s, t, i, p)
  PROVE  Queue(t)
<1>1. s.job \in [Jobs -> JobType] /\ s.job[i] \in JobType /\ s.order \in Seq(Jobs)
  BY DEF IndexType
<1>2. p \notin {"absent", "queued"}
  BY DEF ReportedPhases, TerminalPhases
<1>3. \A j \in Jobs :
          /\ t.job[j].node = s.job[j].node /\ t.job[j].idem = s.job[j].idem
          /\ t.job[j].attempts = s.job[j].attempts
          /\ t.job[j].phase = "queued" => s.job[j].phase = "queued"
          /\ t.job[j].phase = "absent" <=> s.job[j].phase = "absent"
  BY <1>1, <1>2 DEF ReportOf, JobType
<1>4. t.order = s.order /\ t.idem = s.idem
  BY DEF ReportOf
<1>5. Present(t) = Present(s)
  BY <1>3 DEF Present
<1>6. Keyed(t)
  BY <1>3, <1>4, <1>5 DEF Queue, Keyed, Present
<1>7. Listed(t)
  BY <1>4, <1>5 DEF Queue, Listed
<1>8. \A k \in DOMAIN s.order : s.order[k] \in Jobs
  BY <1>1
<1>9. Ordered(t)
  BY <1>3, <1>4, <1>8 DEF Queue, Ordered
<1> QED
  BY <1>6, <1>7, <1>9 DEF Queue

\* What creations and departures have in common.
Snapshot(s, t, j, job) ==
    /\ t.job[j] = job /\ \A i \in Jobs : i # j => t.job[i] = s.job[i]
    /\ Present(t) = Present(s) \cup {j}
    /\ t.idem[job.idem] = {j}
    /\ \A k \in IdemKeys : k # job.idem => t.idem[k] = s.idem[k]
    /\ t.order = IF s.job[j].phase = "absent" THEN Append(s.order, j) ELSE s.order
    /\ s.order \in Seq(Jobs)

LEMMA DispatchFields ==
  ASSUME NEW s \in IndexType, NEW j \in Jobs, NEW job \in JobType, job.phase # "absent"
  PROVE  Snapshot(s, ApplyDispatchJob(s, j, job), j, job)
<1> DEFINE t == ApplyDispatchJob(s, j, job)
<1>1. /\ t.job = [s.job EXCEPT ![j] = job]
      /\ t.idem = [s.idem EXCEPT ![job.idem] = {j}]
      /\ t.order = IF s.job[j].phase = "absent" THEN Append(s.order, j) ELSE s.order
  BY ApplyDispatchJobType, IndexRest
<1> HIDE DEF t
<1>2. /\ s.job \in [Jobs -> JobType] /\ s.idem \in [IdemKeys -> SUBSET Jobs]
      /\ s.order \in Seq(Jobs) /\ job.idem \in IdemKeys
  BY DEF IndexType, JobType
<1>3. t.job[j] = job /\ \A i \in Jobs : i # j => t.job[i] = s.job[i]
  BY <1>1, <1>2
<1>4. Present(t) = Present(s) \cup {j}
  BY <1>3 DEF Present
<1>5. /\ t.idem[job.idem] = {j}
      /\ \A k \in IdemKeys : k # job.idem => t.idem[k] = s.idem[k]
  BY <1>1, <1>2
<1>6. Snapshot(s, t, j, job)
  BY <1>1, <1>2, <1>3, <1>4, <1>5 DEF Snapshot
<1> QED
  BY <1>6 DEF t

LEMMA CreationQueue ==
  ASSUME NEW s \in IndexType, NEW t, NEW j \in Jobs, NEW job \in JobType,
         Queue(s), CreationOf(s, t, j, job)
  PROVE  Queue(t)
<1>0. /\ s.job[j].phase = "absent" /\ s.idem[job.idem] = {} /\ job.phase = "queued"
      /\ job.attempts = 0 /\ t = ApplyDispatchJob(s, j, job) /\ job.phase # "absent"
  BY DEF CreationOf
<1>a. Snapshot(s, t, j, job)
  BY <1>0, DispatchFields
<1>1. /\ t.job[j] = job /\ \A i \in Jobs : i # j => t.job[i] = s.job[i]
      /\ Present(t) = Present(s) \cup {j}
      /\ t.idem[job.idem] = {j}
      /\ \A k \in IdemKeys : k # job.idem => t.idem[k] = s.idem[k]
      /\ t.order = Append(s.order, j)
      /\ s.order \in Seq(Jobs)
  BY <1>0, <1>a DEF Snapshot
<1>2. j \notin Present(s) /\ Present(s) \subseteq Jobs /\ job.idem \in IdemKeys
  BY <1>0 DEF Present, JobType
<1>3. Keyed(t)
  <2> SUFFICES ASSUME NEW k \in IdemKeys
               PROVE  /\ t.idem[k] = {i \in Present(t) : t.job[i].idem = k}
                      /\ \A h, i \in t.idem[k] : h = i
    BY DEF Keyed
  <2>1. s.idem[k] = {i \in Present(s) : s.job[i].idem = k} /\ \A h, i \in s.idem[k] : h = i
    BY DEF Queue, Keyed
  <2>2. \A i \in Present(s) : t.job[i] = s.job[i]
    BY <1>1, <1>2
  <2>3. CASE k = job.idem
    <3>1. t.idem[k] = {j} /\ s.idem[k] = {}
      BY <1>0, <1>1, <2>3
    <3>2. \A i \in Present(t) : t.job[i].idem = k <=> i = j
      BY <1>1, <2>1, <2>2, <2>3, <3>1
    <3>3. j \in Present(t)
      BY <1>1
    <3> QED
      BY <3>1, <3>2, <3>3
  <2>4. CASE k # job.idem
    BY <1>1, <2>1, <2>2, <2>4
  <2> QED
    BY <2>3, <2>4
<1>4. ~Has(s.order, j)
  BY <1>2 DEF Queue, Listed
<1>5. \A i \in DOMAIN s.order : s.order[i] \in Jobs /\ s.order[i] # j
  BY <1>1, <1>4 DEF Has
<1>6. /\ DOMAIN t.order = 1 .. Len(s.order) + 1 /\ DOMAIN s.order = 1 .. Len(s.order)
      /\ Len(s.order) \in Nat
      /\ t.order[Len(s.order) + 1] = j
      /\ \A i \in DOMAIN s.order : t.order[i] = s.order[i]
  BY <1>1
<1>7. Listed(t)
  <2> SUFFICES Distinct(t.order) /\ \A i \in Jobs : Has(t.order, i) <=> i \in Present(t)
    BY DEF Listed
  <2>1. Distinct(t.order)
    <3> SUFFICES ASSUME NEW i \in DOMAIN t.order, NEW k \in DOMAIN t.order,
                        t.order[i] = t.order[k]
                 PROVE  i = k
      BY DEF Distinct
    <3>1. CASE i \in DOMAIN s.order /\ k \in DOMAIN s.order
      BY <1>6, <3>1 DEF Queue, Listed, Distinct
    <3>2. CASE i \in DOMAIN s.order /\ k = Len(s.order) + 1
      BY <1>5, <1>6, <3>2
    <3>3. CASE k \in DOMAIN s.order /\ i = Len(s.order) + 1
      BY <1>5, <1>6, <3>3
    <3> QED
      BY <1>6, <3>1, <3>2, <3>3
  <2>2. \A i \in Jobs : Has(t.order, i) <=> (Has(s.order, i) \/ i = j)
    BY <1>6 DEF Has
  <2>3. \A i \in Jobs : Has(t.order, i) <=> i \in Present(t)
    BY <1>1, <2>2 DEF Queue, Listed
  <2> QED
    BY <2>1, <2>3
<1>8. Ordered(t)
  <2> SUFFICES ASSUME NEW i \in DOMAIN t.order, NEW k \in DOMAIN t.order, i < k,
                      t.job[t.order[i]].node = t.job[t.order[k]].node,
                      t.job[t.order[i]].phase = "queued"
               PROVE  t.job[t.order[k]].attempts = 0
    BY DEF Ordered
  <2>1. CASE k = Len(s.order) + 1
    BY <1>0, <1>1, <1>6, <2>1
  <2>2. CASE k # Len(s.order) + 1
    <3>1. i \in DOMAIN s.order /\ k \in DOMAIN s.order
      BY <1>6, <2>2
    <3>2. /\ t.job[t.order[i]] = s.job[s.order[i]]
          /\ t.job[t.order[k]] = s.job[s.order[k]]
      BY <1>1, <1>5, <1>6, <3>1
    <3> QED
      BY <3>1, <3>2 DEF Queue, Ordered
  <2> QED
    BY <2>1, <2>2
<1> QED
  BY <1>3, <1>7, <1>8 DEF Queue

LEMMA DepartureQueue ==
  ASSUME NEW s \in IndexType, NEW t, NEW j \in Jobs, NEW job \in JobType,
         Queue(s), DepartureOf(s, t, j, job)
  PROVE  Queue(t)
<1>0. /\ s.job[j].phase = "queued" /\ FirstQueued(s, j)
      /\ job.node = s.job[j].node /\ job.idem = s.job[j].idem
      /\ job.phase # "queued" /\ job.phase # "absent"
      /\ t = ApplyDispatchJob(s, j, job)
  BY DEF DepartureOf
<1>a. Snapshot(s, t, j, job)
  BY <1>0, DispatchFields
<1>1. /\ t.job[j] = job /\ \A i \in Jobs : i # j => t.job[i] = s.job[i]
      /\ Present(t) = Present(s) \cup {j}
      /\ t.idem[job.idem] = {j}
      /\ \A k \in IdemKeys : k # job.idem => t.idem[k] = s.idem[k]
      /\ t.order = s.order
      /\ s.order \in Seq(Jobs)
  BY <1>0, <1>a DEF Snapshot
<1>2. j \in Present(s) /\ Present(s) \subseteq Jobs /\ job.idem \in IdemKeys
  BY <1>0 DEF Present, JobType
<1>3. \A i \in Jobs : t.job[i].idem = s.job[i].idem /\ t.job[i].node = s.job[i].node
  BY <1>0, <1>1
<1>4. Present(t) = Present(s)
  BY <1>1, <1>2
<1>5. Keyed(t)
  <2> SUFFICES ASSUME NEW k \in IdemKeys
               PROVE  /\ t.idem[k] = {i \in Present(t) : t.job[i].idem = k}
                      /\ \A h, i \in t.idem[k] : h = i
    BY DEF Keyed
  <2>1. s.idem[k] = {i \in Present(s) : s.job[i].idem = k} /\ \A h, i \in s.idem[k] : h = i
    BY DEF Queue, Keyed
  <2>2. t.idem[k] = s.idem[k]
    BY <1>0, <1>1, <1>2, <2>1
  <2> QED
    BY <1>2, <1>3, <1>4, <2>1, <2>2
<1>6. Listed(t)
  BY <1>1, <1>4 DEF Queue, Listed
<1>7. Ordered(t)
  <2> SUFFICES ASSUME NEW i \in DOMAIN s.order, NEW k \in DOMAIN s.order, i < k,
                      t.job[s.order[i]].node = t.job[s.order[k]].node,
                      t.job[s.order[i]].phase = "queued"
               PROVE  t.job[s.order[k]].attempts = 0
    BY <1>1 DEF Ordered
  <2>1. s.order[i] \in Jobs /\ s.order[k] \in Jobs /\ i \in 1 .. Len(s.order)
    BY <1>1
  <2>2. s.order[i] # j
    BY <1>0, <1>1
  <2>3. s.job[s.order[i]].phase = "queued"
    BY <1>1, <2>1, <2>2
  <2>4. s.job[s.order[i]].node = s.job[s.order[k]].node
    BY <1>3, <2>1
  <2>5. s.order[k] # j
    <3> SUFFICES ASSUME s.order[k] = j PROVE FALSE
      OBVIOUS
    <3>1. PICK l \in DOMAIN s.order :
              /\ s.order[l] = j
              /\ \A h \in 1 .. l - 1 :
                    ~(s.job[s.order[h]].node = s.job[j].node
                        /\ s.job[s.order[h]].phase = "queued")
      BY <1>0 DEF FirstQueued
    <3>2. l = k
      BY <3>1 DEF Queue, Listed, Distinct
    <3>3. i \in 1 .. k - 1
      BY <1>1, <2>1
    <3> QED
      BY <2>3, <2>4, <3>1, <3>2, <3>3
  <2> QED
    BY <1>1, <2>1, <2>3, <2>4, <2>5 DEF Queue, Ordered
<1> QED
  BY <1>5, <1>6, <1>7 DEF Queue

LEMMA QueueStep ==
  ASSUME SafeInv, Queue(disk), [Next]_vars
  PROVE  Queue(disk')
<1>1. Logged /\ disk \in IndexType
  BY LoggedStep DEF SafeInv, TypeOK
<1>2. CASE SameQueue(disk, disk')
  BY <1>2, SameQueueKeeps
<1>3. CASE \E j \in Jobs, p \in ReportedPhases : ReportOf(disk, disk', j, p)
  BY <1>1, <1>3, ReportQueue
<1>4. CASE \E j \in Jobs, job \in JobType :
              CreationOf(disk, disk', j, job) \/ DepartureOf(disk, disk', j, job)
  BY <1>1, <1>4, CreationQueue, DepartureQueue
<1> QED
  BY <1>1, <1>2, <1>3, <1>4 DEF Logged

QueueInv == HandInv /\ SafeInv /\ Queue(disk)

\* The log's queue is well formed at all times: keys and jobs belong together,
\* the order lists each job once, and a node's leased jobs precede its queued,
\* however many of them reports have moved on.
THEOREM QueueInvariant == ASSUME MaxSyncFailures = 0 PROVE Spec => []QueueInv
<1>1. Init => Queue(disk)
  <2> SUFFICES ASSUME Init PROVE Queue(disk)
    OBVIOUS
  <2>1. /\ disk.order = <<>> /\ \A j \in Jobs : disk.job[j].phase = "absent"
        /\ \A k \in IdemKeys : disk.idem[k] = {}
    BY DEF Init, EmptyIndex, NoJob
  <2>2. Present(disk) = {}
    BY <2>1 DEF Present
  <2>3. Keyed(disk)
    BY <2>1, <2>2 DEF Keyed
  <2>4. Listed(disk) /\ Ordered(disk)
    BY <2>1, <2>2 DEF Listed, Ordered, Distinct, Has
  <2> QED
    BY <2>3, <2>4 DEF Queue
<1>2. HandInv /\ SafeInv /\ Queue(disk) /\ [Next]_vars => Queue(disk)'
  <2> SUFFICES ASSUME HandInv, SafeInv, Queue(disk), [Next]_vars PROVE Queue(disk)'
    OBVIOUS
  <2>1. Queue(disk')
    BY QueueStep
  <2> QED
    BY <2>1 DEF Queue, Keyed, Listed, Ordered, Present
<1> QED
  BY <1>1, <1>2, HandInvariant, SafeInvariant, PTL DEF Spec, QueueInv

\* A key stands for one job at most and finds it, however often the request is
\* repeated and the center restarted: OneJobPerKey.
THEOREM KeysAreUnique == ASSUME MaxSyncFailures = 0 PROVE Spec => []OneJobPerKey
<1>1. QueueInv => OneJobPerKey
  <2> SUFFICES ASSUME QueueInv, up, NEW k \in IdemKeys
               PROVE  /\ Cardinality(mem.idem[k]) <= 1
                      /\ mem.idem[k] = {j \in Jobs : mem.job[j].phase # "absent"
                                                     /\ mem.job[j].idem = k}
    BY DEF OneJobPerKey
  <2>1. mem.job = disk.job /\ mem.idem = disk.idem
    BY DEF QueueInv, SafeInv, Agree
  <2>2. /\ disk.idem[k] = {j \in Present(disk) : disk.job[j].idem = k}
        /\ \A i, j \in disk.idem[k] : i = j
    BY DEF QueueInv, Queue, Keyed
  <2>3. CASE disk.idem[k] = {}
    BY <2>1, <2>2, <2>3, FS_EmptySet DEF Present
  <2>4. CASE \E j : j \in disk.idem[k]
    <3>1. PICK j : disk.idem[k] = {j}
      BY <2>2, <2>4
    <3>2. Cardinality(mem.idem[k]) = 1
      BY <2>1, <3>1, FS_Singleton
    <3>3. mem.idem[k] = {i \in Jobs : mem.job[i].phase # "absent" /\ mem.job[i].idem = k}
      BY <2>1, <2>2 DEF Present
    <3> QED
      BY <3>2, <3>3
  <2> QED
    BY <2>3, <2>4
<1> QED
  BY <1>1, QueueInvariant, PTL

\* While a job of a node is queued, none that was created after it has been
\* leased: none is passed over by LeaseJobs, whoever reports what: NoOvertaking.
THEOREM NobodyOvertakes == ASSUME MaxSyncFailures = 0 PROVE Spec => []NoOvertaking
<1>1. QueueInv => NoOvertaking
  <2>1. ASSUME QueueInv, up PROVE mem.job = disk.job /\ mem.order = disk.order
    BY <2>1 DEF QueueInv, SafeInv, Agree
  <2> QED
    BY <2>1 DEF QueueInv, Queue, Ordered, NoOvertaking
<1> QED
  BY <1>1, QueueInvariant, PTL

-----------------------------------------------------------------------------
(* The queue implements JobLifecycle *)

\* What a delivery does to the set of jobs that have reached an edge.
LEMMA ReachStep ==
  ASSUME HandInv, NEW w \in wire, Deliver(w)
  PROVE  /\ \A n \in Nodes, j \in Jobs : Arrived(n, j) => Arrived(n, j)'
         /\ \A n \in Nodes, j \in Jobs :
               Arrived(n, j)' /\ ~Arrived(n, j) => disk.job[j].attempts > 0
         /\ UNCHANGED disk
<1>1. w.node \in Nodes /\ w.jobs \in Seq(Jobs) /\ handed \in [Nodes -> [Jobs -> Nat]]
  BY DEF HandInv, TypeOK
<1>2. PICK k \in 0 .. Len(w.jobs) :
          handed' = [handed EXCEPT ![w.node] =
              [j \in Jobs |-> @[j] + Cardinality({i \in 1 .. k : w.jobs[i] = j})]]
  BY DEF Deliver
<1> DEFINE C(j) == Cardinality({i \in 1 .. k : w.jobs[i] = j})
<1>3. ASSUME NEW j \in Jobs
      PROVE  C(j) \in Nat /\ (C(j) # 0 => Has(w.jobs, j))
  <2> DEFINE is == {i \in 1 .. k : w.jobs[i] = j}
  <2>1. is \subseteq 1 .. k /\ IsFiniteSet(1 .. k)
    BY FS_Interval
  <2>2. Cardinality(is) \in Nat
    BY <2>1, FS_Subset, FS_CardinalityType
  <2>3. is = {} => Cardinality(is) = 0
    BY FS_EmptySet
  <2>4. is # {} => Has(w.jobs, j)
    BY <1>1 DEF Has
  <2> QED
    BY <2>2, <2>3, <2>4
<1>4. handed' = [handed EXCEPT ![w.node] = [j \in Jobs |-> handed[w.node][j] + C(j)]]
  BY <1>2
<1> HIDE DEF C
<1>5. ASSUME NEW n \in Nodes, NEW j \in Jobs
      PROVE  /\ handed[n][j] \in Nat /\ handed'[n][j] \in Nat
             /\ handed'[n][j] >= handed[n][j]
             /\ handed'[n][j] # handed[n][j] => n = w.node /\ Has(w.jobs, j)
  BY <1>1, <1>3, <1>4
<1>6. \A n \in Nodes, j \in Jobs : Arrived(n, j) => Arrived(n, j)'
  BY <1>5 DEF Arrived
<1>7. ASSUME NEW n \in Nodes, NEW j \in Jobs, Arrived(n, j)', ~Arrived(n, j)
      PROVE  disk.job[j].attempts > 0
  <2>1. n = w.node /\ Has(w.jobs, j)
    BY <1>5, <1>7 DEF Arrived
  <2>2. Sending(n, j)
    BY <2>1 DEF Sending
  <2> QED
    BY <2>2 DEF HandInv, Places, Tracked, OnItsWayTo, GoneTo
<1> QED
  BY <1>6, <1>7 DEF Deliver, center

Phase == [j \in Jobs |-> disk.job[j].phase]
LeasedJobs == {j \in Jobs : disk.job[j].attempts > 0}
Reached == {j \in Jobs : \E n \in Nodes : Arrived(n, j)}

\* A step of JobLifecycle, or one that changes nothing it can see.
Followed ==
    \/ Phase' = Phase /\ LeasedJobs' = LeasedJobs /\ Reached' = Reached
    \/ /\ LeasedJobs' = LeasedJobs /\ Reached' = Reached
       /\ \E j \in Jobs :
             \/ Phase[j] = "absent" /\ Phase' = [Phase EXCEPT ![j] = "queued"]
             \/ \E p \in ReportedPhases :
                   /\ Phase[j] \notin TerminalPhases \cup {"absent"}
                   /\ Phase' = [Phase EXCEPT ![j] = p]
    \/ /\ Reached' = Reached
       /\ \E j \in Jobs :
             /\ Phase[j] = "queued" /\ Phase' = [Phase EXCEPT ![j] = "leased"]
             /\ j \notin LeasedJobs /\ LeasedJobs' = LeasedJobs \cup {j}
    \/ /\ Phase' = Phase /\ LeasedJobs' = LeasedJobs
       /\ \E js \in SUBSET Jobs :
             /\ js \subseteq LeasedJobs \ Reached
             /\ Reached' = Reached \cup js

LEMMA LifecycleStep == ASSUME HandInv, SafeInv, [Next]_vars PROVE Followed
<1>1. /\ disk \in IndexType /\ Logged
      /\ disk.job \in [Jobs -> JobType]
      /\ \A j \in Jobs : disk.job[j].attempts \in Nat
  BY LoggedStep DEF SafeInv, TypeOK, IndexType, JobType
<1>2. ASSUME NEW w \in wire, Deliver(w) PROVE Followed
  <2>1. Phase' = Phase /\ LeasedJobs' = LeasedJobs
    BY <1>2, ReachStep DEF Phase, LeasedJobs
  <2> DEFINE js == Reached' \ Reached
  <2>2. js \in SUBSET Jobs /\ js \cap Reached = {}
    BY DEF Reached
  <2>3. Reached' = Reached \cup js
    BY <1>2, ReachStep DEF Reached
  <2>4. js \subseteq LeasedJobs
    BY <1>2, ReachStep DEF Reached, LeasedJobs
  <2> QED
    BY <2>1, <2>2, <2>3, <2>4 DEF Followed
<1>3. CASE handed' = handed
  <2>1. Reached' = Reached
    BY <1>3 DEF Reached, Arrived
  <2>2. CASE SameQueue(disk, disk')
    <3>1. Phase' = Phase /\ LeasedJobs' = LeasedJobs
      BY <2>2 DEF SameQueue, Phase, LeasedJobs
    <3> QED
      BY <2>1, <3>1 DEF Followed
  <2>3. ASSUME NEW j \in Jobs, NEW p \in ReportedPhases, ReportOf(disk, disk', j, p)
        PROVE  Followed
    <3>1. disk'.job = [disk.job EXCEPT ![j] = [disk.job[j] EXCEPT !.phase = p]]
      BY <2>3 DEF ReportOf
    <3>2. Phase' = [Phase EXCEPT ![j] = p]
      BY <1>1, <3>1 DEF Phase, JobType
    <3>3. \A i \in Jobs : disk'.job[i].attempts = disk.job[i].attempts
      BY <1>1, <3>1 DEF JobType
    <3>4. LeasedJobs' = LeasedJobs
      BY <3>3 DEF LeasedJobs
    <3>5. CASE Phase[j] \notin TerminalPhases
      <4>1. Phase[j] # "absent"
        BY <2>3 DEF ReportOf, Phase
      <4> QED
        BY <2>1, <3>2, <3>4, <3>5, <4>1 DEF Followed
    <3>6. CASE Phase[j] \in TerminalPhases
      <4>1. Phase[j] = p
        BY <2>3, <3>6 DEF ReportOf, Closed, IsTerminal, Phase
      <4>2. Phase' = Phase
        BY <3>2, <4>1 DEF Phase
      <4> QED
        BY <2>1, <3>4, <4>2 DEF Followed
    <3> QED
      BY <3>5, <3>6
  <2>4. ASSUME NEW j \in Jobs, NEW job \in JobType,
               CreationOf(disk, disk', j, job) \/ DepartureOf(disk, disk', j, job)
        PROVE  Followed
    <3>1. disk'.job = [disk.job EXCEPT ![j] = job]
      BY <1>1, <2>4, ApplyDispatchJobType DEF CreationOf, DepartureOf
    <3>2. Phase' = [Phase EXCEPT ![j] = job.phase]
      BY <1>1, <3>1 DEF Phase
    <3>3. \A i \in Jobs : disk'.job[i].attempts = IF i = j THEN job.attempts
                                                 ELSE disk.job[i].attempts
      BY <1>1, <3>1
    <3>4. Phase[j] \in {"absent", "queued"} /\ disk.job[j].attempts = 0
      BY <2>4 DEF CreationOf, DepartureOf, Phase, HandInv, Places, Tracked, Untried
    <3>5. CASE job.attempts = 0 /\ job.phase # "leased"
      <4>1. LeasedJobs' = LeasedJobs
        BY <3>3, <3>4, <3>5 DEF LeasedJobs
      <4>2. \/ Phase[j] = "absent" /\ job.phase = "queued"
            \/ Phase[j] = "queued" /\ job.phase = "rejected"
        BY <2>4, <3>5 DEF CreationOf, DepartureOf, Phase
      <4> QED
        BY <2>1, <3>2, <4>1, <4>2 DEF Followed, ReportedPhases, TerminalPhases
    <3>6. CASE job.attempts = 1 /\ job.phase = "leased"
      <4>1. LeasedJobs' = LeasedJobs \cup {j} /\ j \notin LeasedJobs
        BY <3>3, <3>4, <3>6 DEF LeasedJobs
      <4>2. Phase[j] = "queued"
        BY <2>4, <3>6 DEF CreationOf, DepartureOf, Phase
      <4> QED
        BY <2>1, <3>2, <3>6, <4>1, <4>2 DEF Followed
    <3> QED
      BY <2>4, <3>4, <3>5, <3>6 DEF CreationOf, DepartureOf
  <2> QED
    BY <1>1, <2>2, <2>3, <2>4 DEF Logged
<1>4. handed' = handed \/ \E w \in wire : Deliver(w)
  BY DEF Next, LeaseStep, ReportStatus, ReportAudit, RecordJobEvent, EnqueueJob, EnqueueAgain,
         Poll, LeaseBegin, LeaseReject, LeaseNext, LeaseFails, LeaseEnd, LogFails, Tick,
         Crash, Restart, CommitSilently, vars, edges
<1> QED
  BY <1>2, <1>3, <1>4

\* The detailed queue, with its handlers, faults and edges, does to every job
\* only what JobLifecycle allows: ImplementsLifecycle.
THEOREM QueueImplementsLifecycle == ASSUME MaxSyncFailures = 0 PROVE Spec => ImplementsLifecycle
<1>1. Init => Lifecycle!Init
  <2> SUFFICES ASSUME Init PROVE Lifecycle!Init
    OBVIOUS
  <2>1. \A j \in Jobs : disk.job[j].phase = "absent" /\ disk.job[j].attempts = 0
    <3>1. NoJob.phase = "absent" /\ NoJob.attempts = 0
      BY DEF NoJob
    <3> QED
      BY <3>1 DEF Init, EmptyIndex
  <2>2. \A n \in Nodes, j \in Jobs : ~(handed[n][j] > 0)
    BY DEF Init
  <2> QED
    BY <2>1, <2>2 DEF Lifecycle!Init
<1>2. QueueInv /\ [Next]_vars => [Lifecycle!Next]_Lifecycle!vars
  <2> SUFFICES ASSUME QueueInv, [Next]_vars PROVE [Lifecycle!Next]_Lifecycle!vars
    OBVIOUS
  <2> QED
    BY LifecycleStep DEF QueueInv, Followed, Lifecycle!Next, Lifecycle!vars, Lifecycle!Create,
       Lifecycle!Lease, Lifecycle!MoveOn, Lifecycle!Reach, Lifecycle!Ends,
       Lifecycle!Reports, Reached, LeasedJobs, Phase, Arrived, ReportedPhases, TerminalPhases
<1> QED
  BY <1>1, <1>2, QueueInvariant, PTL DEF Spec, ImplementsLifecycle, Lifecycle!Spec
=============================================================================
