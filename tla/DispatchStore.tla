--------------------------- MODULE DispatchStore ---------------------------
(***************************************************************************)
(* The dispatch queue of the center: the part of internal/store/memory.go  *)
(* that registers nodes, queues jobs, leases them to the edges and follows *)
(* their lifecycle, with the handlers of internal/center that drive it     *)
(* (POST /telemetry, GET /jobs/lease, POST /dispatch/new).                 *)
(*                                                                         *)
(* mem is the index that Mem keeps behind its mutex.  disk is what replay  *)
(* would rebuild from the log: every record that persist appends is        *)
(* applied to it with the operator that applyRecord uses.  Module Journal  *)
(* shows when the log really gives back what was written.                  *)
(*                                                                         *)
(* LeaseJobs holds the mutex over a loop with one persist per job, so it   *)
(* is the one operation that another handler cannot interrupt but a crash  *)
(* or a disk error can; it is modelled with one action per job.  The edges *)
(* and the network are the environment: a response may be lost, and any    *)
(* node may report anything of any job, at any time and again, since the   *)
(* center checks neither the lease nor the owner.                          *)
(***************************************************************************)
EXTENDS Naturals, Sequences, FiniteSets

CONSTANTS
    Nodes, Jobs, IdemKeys,
    Capabilities,    \* labels, tools and skills a node may advertise
    Requests,        \* the DispatchRequests the operators submit
    Statuses,        \* the StatusBodies the edges report
    QueueLimit,      \* Options.DispatchQueueLimitPerNode
    MaxCapacity,     \* largest capacity of a lease request
    MaxInFlight,     \* bound on lease requests and responses in flight
    MaxClock,        \* bound on the clock
    MaxCrashes,      \* bound on crashes of the center
    MaxSyncFailures, \* bound on fsyncs that fail
    WritesFail       \* TRUE: a write to the log may fail

Policies == {"readonly", "guarded", "unrestricted"}

\* What a node may report as its ceiling: StatusBody is not validated, so it
\* may be missing or no policy at all.
Ceilings == Policies \cup {"", "unknown"}

TerminalPhases == {"done", "failed", "rejected"}
ReportedPhases == {"accepted", "running"} \cup TerminalPhases
Phases == {"absent", "queued", "leased"} \cup ReportedPhases

RequestType ==
    [job : Jobs, idem : IdemKeys, node : Nodes, policy : Policies \cup {""},
     deadline : Nat, need : SUBSET Capabilities]

\* described is FALSE when the body has no node descriptor.
StatusType == [ceiling : Ceilings, described : BOOLEAN, caps : SUBSET Capabilities]

ASSUME DispatchAssumption ==
    /\ IsFiniteSet(Jobs)
    /\ Requests \subseteq RequestType
    /\ Statuses \subseteq StatusType
    /\ Nodes # {} /\ IdemKeys # {}
    /\ QueueLimit \in Nat \ {0}
    /\ MaxCapacity \in Nat \ {0}
    /\ MaxInFlight \in Nat \ {0}
    /\ MaxClock \in Nat /\ MaxCrashes \in Nat /\ MaxSyncFailures \in Nat
    /\ WritesFail \in BOOLEAN

VARIABLES
    mem, disk,     \* the index in memory, and the one the log would rebuild
    up,            \* the center is running
    broken,        \* the log's bufio.Writer holds a write error
    lease,         \* the LeaseJobs call that holds the mutex
    polls,         \* lease requests that wait for the mutex
    wire,          \* lease responses on their way to an edge
    handed,        \* how many times a job reached an edge
    now,           \* the clock, in milliseconds
    accepted,      \* history: jobs whose operator was told they are queued
    crashes, syncFailures

center == <<mem, disk, up, broken, lease>>
edges == <<polls, wire, handed>>
faults == <<crashes, syncFailures>>
vars == <<center, edges, now, accepted, faults>>

-----------------------------------------------------------------------------
(* The index and the records that change it *)

NewJob(q, policy, phase) ==
    [node |-> q.node, idem |-> q.idem, policy |-> policy,
     deadline |-> q.deadline, need |-> q.need, phase |-> phase, attempts |-> 0]

JobType ==
    [node : Nodes, idem : IdemKeys, policy : Policies, deadline : Nat,
     need : SUBSET Capabilities, phase : Phases, attempts : Nat]

\* A job id the index does not hold; only its phase is ever looked at.
NoJob ==
    [node |-> CHOOSE n \in Nodes : TRUE, idem |-> CHOOSE k \in IdemKeys : TRUE,
     policy |-> "readonly", deadline |-> 0, need |-> {}, phase |-> "absent",
     attempts |-> 0]

NodeType == [known : BOOLEAN, ceiling : Ceilings, caps : SUBSET Capabilities]

IndexType ==
    [node : [Nodes -> NodeType], job : [Jobs -> JobType], order : Seq(Jobs),
     idem : [IdemKeys -> SUBSET Jobs]]

EmptyIndex ==
    [node |-> [n \in Nodes |-> [known |-> FALSE, ceiling |-> "", caps |-> {}]],
     job |-> [j \in Jobs |-> NoJob],
     order |-> <<>>,
     idem |-> [k \in IdemKeys |-> {}]]

\* node: looking a node up for an update registers it.
Touch(s, n) == [s EXCEPT !.node[n].known = TRUE]

\* applyStatus: a body without a descriptor keeps the one the node had.
ApplyStatus(s, n, b) ==
    [s EXCEPT !.node[n] =
        [known |-> TRUE, ceiling |-> b.ceiling,
         caps |-> IF b.described THEN b.caps ELSE @.caps]]

IsTerminal(phase) == phase \in TerminalPhases

\* applyJobEvent keeps a job that another terminal phase has closed.
Closed_Forgotten(s, j, phase) == FALSE   \* a mutant: any report is applied
Closed(s, j, phase) == IsTerminal(s.job[j].phase) /\ phase # s.job[j].phase

SetPhase(s, j, phase) == [s EXCEPT !.job[j].phase = phase]

ApplyJobEvent(s, n, j, phase) ==
    IF s.job[j].phase = "absent" \/ Closed(s, j, phase)
    THEN Touch(s, n)
    ELSE SetPhase(Touch(s, n), j, phase)

IndexIdem(idem, job, j) == [idem EXCEPT ![job.idem] = {j}]

\* applyDispatchJob: a snapshot of the job replaces the one before it.
ApplyDispatchJob(s, j, job) ==
    [s EXCEPT !.order = IF s.job[j].phase = "absent" THEN Append(@, j) ELSE @,
              !.job[j] = job,
              !.idem = IndexIdem(@, job, j)]

-----------------------------------------------------------------------------
(* Writing a record *)

Idle ==
    [active |-> FALSE, node |-> CHOOSE n \in Nodes : TRUE, capacity |-> 0,
     recv |-> 0, out |-> <<>>]

Die ==
    /\ crashes < MaxCrashes
    /\ up' = FALSE /\ mem' = EmptyIndex /\ broken' = FALSE
    /\ lease' = Idle /\ polls' = {}
    /\ crashes' = crashes + 1

\* persist succeeds: the log has the record and the handler applies it.
Commit_NotWritten(m, d) ==   \* a mutant: the index changes, the log does not
    /\ ~broken /\ mem' = m /\ disk' = disk
    /\ UNCHANGED <<up, broken, faults>>
Commit(m, d) ==
    /\ ~broken /\ mem' = m /\ disk' = d
    /\ UNCHANGED <<up, broken, faults>>

\* The record reaches the log, but its handler does not answer: fsync fails,
\* so the handler returns an error and memory is m, or the process dies.
CommitSilently(m, d) ==
    /\ ~broken
    /\ disk' = d
    /\ \/ /\ syncFailures < MaxSyncFailures
          /\ syncFailures' = syncFailures + 1
          /\ mem' = m /\ lease' = Idle
          /\ UNCHANGED <<up, broken, polls, crashes>>
       \/ Die /\ UNCHANGED syncFailures
    /\ UNCHANGED <<wire, handed, now, accepted>>

\* A handler can take the mutex.
Ready == up /\ ~lease.active

\* persist fails in Write or Flush: the handler in the mutex gives up, nothing
\* is in the log, and bufio refuses every later persist.
LogFails ==
    /\ up /\ WritesFail /\ ~broken
    /\ broken' = TRUE
    /\ lease' = Idle
    /\ UNCHANGED <<mem, disk, up, edges, now, accepted, faults>>

-----------------------------------------------------------------------------
(* POST /telemetry *)

\* UpsertStatus.
ReportStatus(n, b) ==
    /\ Ready
    /\ \/ /\ Commit(ApplyStatus(mem, n, b), ApplyStatus(disk, n, b))
          /\ UNCHANGED <<lease, edges, now, accepted>>
       \/ CommitSilently(mem, ApplyStatus(disk, n, b))

\* IngestAudit, as far as the queue sees it: the node is registered in memory
\* before persist is called, so it stays registered when persist fails.
ReportAudit(n) ==
    /\ Ready
    /\ \/ /\ Commit(Touch(mem, n), Touch(disk, n))
          /\ UNCHANGED <<lease, edges, now, accepted>>
       \/ CommitSilently(Touch(mem, n), Touch(disk, n))
       \/ /\ broken /\ mem' = Touch(mem, n)
          /\ UNCHANGED <<disk, up, broken, lease, edges, now, accepted, faults>>

\* RecordJobEvent, for any phase that JobEventBody.Validate lets through.  The
\* job may be another node's, still queued, ended, or unknown.
RecordJobEvent(n, j, phase) ==
    /\ Ready
    /\ LET applied(s) == ApplyJobEvent(s, n, j, phase)
       IN  \/ /\ Commit(applied(mem), applied(disk))
              /\ UNCHANGED <<lease, edges, now, accepted>>
           \/ CommitSilently(mem, applied(disk))

-----------------------------------------------------------------------------
(* POST /dispatch/new *)

Rank(policy) ==
    CASE policy = "readonly" -> 0
      [] policy = "guarded" -> 1
      [] policy = "unrestricted" -> 2

Default(policy) == IF policy = "" THEN "readonly" ELSE policy

Lower(p, q) == IF Rank(p) > Rank(q) THEN q ELSE p

\* A mutant of Clamp: the policy is stored as the form has it.
Clamp_Verbatim(requested, ceiling) == requested

\* clampDispatchPolicy: no higher than the ceiling, and never "guarded".
Clamp(requested, ceiling) ==
    LET low == Lower(Default(requested), Default(ceiling))
    IN  IF low = "guarded" THEN "readonly" ELSE low

\* pendingDispatchCountLocked.
Pending(s, n) ==
    {j \in Jobs : /\ s.job[j].phase # "absent" /\ s.job[j].node = n
                  /\ ~IsTerminal(s.job[j].phase)}

\* A mutant of HasRoom: the comparison is off by one.
HasRoom_OffByOne(s, n) == Cardinality(Pending(s, n)) <= QueueLimit
HasRoom(s, n) == Cardinality(Pending(s, n)) < QueueLimit

\* A mutant of KeyIsFree: the idempotency index is not consulted.
KeyIsFree_Unchecked(q) == TRUE
KeyIsFree(q) == mem.idem[q.idem] = {}

\* EnqueueJob queues a new job.
EnqueueJob(q) ==
    /\ Ready
    /\ KeyIsFree(q)
    /\ mem.job[q.job].phase = "absent"
    /\ mem.node[q.node].known
    /\ HasRoom(mem, q.node)
    /\ mem.node[q.node].ceiling # "unknown"
    /\ LET job == NewJob(q, Clamp(q.policy, mem.node[q.node].ceiling), "queued")
       IN  \/ /\ Commit(ApplyDispatchJob(mem, q.job, job),
                        ApplyDispatchJob(disk, q.job, job))
              /\ accepted' = accepted \cup {q.job}
              /\ UNCHANGED <<lease, edges, now>>
           \/ CommitSilently(mem, ApplyDispatchJob(disk, q.job, job))

\* EnqueueJob finds the key in use and answers with the job that has it.
EnqueueAgain(q) ==
    /\ Ready
    /\ mem.idem[q.idem] # {}
    /\ accepted' = accepted \cup mem.idem[q.idem]
    /\ UNCHANGED <<center, edges, now, faults>>

-----------------------------------------------------------------------------
(* GET /jobs/lease *)

InFlight(n) ==
    Cardinality({p \in polls : p.node = n}) + Cardinality({w \in wire : w.node = n})

\* A request arrives: handleLease reads the clock, then waits for the mutex.
Poll(n, capacity) ==
    /\ up
    /\ InFlight(n) < MaxInFlight
    /\ polls' = polls \cup {[node |-> n, capacity |-> capacity, recv |-> now]}
    /\ UNCHANGED <<center, wire, handed, now, accepted, faults>>

\* LeaseJobs takes the mutex; it has nothing for a node it does not know.
LeaseBegin(p) ==
    /\ Ready /\ p \in polls
    /\ polls' = polls \ {p}
    /\ lease' = IF mem.node[p.node].known
                THEN [active |-> TRUE, node |-> p.node, capacity |-> p.capacity,
                      recv |-> p.recv, out |-> <<>>]
                ELSE Idle
    /\ UNCHANGED <<mem, disk, up, broken, wire, handed, now, accepted, faults>>

IsQueuedHere(j) == mem.job[j].node = lease.node /\ mem.job[j].phase = "queued"

Expired(j) == mem.job[j].deadline <= lease.recv

\* dispatchMatchesNode: labels, tools and skills, against the last descriptor.
Matches(j) == mem.job[j].need \subseteq mem.node[lease.node].caps

\* The job the loop over jobOrder comes to next.  What the loop has left
\* behind is no longer queued, so it is the first queued job of the node.
\* A mutant of IsNext: the loop passes over jobs the node cannot run.
IsNext_PassOver(j) ==
    \E i \in DOMAIN mem.order :
        /\ mem.order[i] = j /\ IsQueuedHere(j) /\ (Expired(j) \/ Matches(j))
        /\ \A k \in 1 .. i - 1 :
              IsQueuedHere(mem.order[k]) => ~Expired(mem.order[k]) /\ ~Matches(mem.order[k])
IsNext(j) ==
    \E i \in DOMAIN mem.order :
        /\ mem.order[i] = j /\ IsQueuedHere(j)
        /\ \A k \in 1 .. i - 1 : ~IsQueuedHere(mem.order[k])

Scanning == up /\ lease.active /\ Len(lease.out) < lease.capacity

\* deadline_exceeded or no_matching_capability.
LeaseReject(j) ==
    /\ Scanning /\ IsNext(j)
    /\ Expired(j) \/ ~Matches(j)
    /\ LET job == [mem.job[j] EXCEPT !.phase = "rejected"]
       IN  \/ /\ Commit(ApplyDispatchJob(mem, j, job), ApplyDispatchJob(disk, j, job))
              /\ UNCHANGED <<lease, edges, now, accepted>>
           \/ CommitSilently(mem, ApplyDispatchJob(disk, j, job))

\* A mutant of Leased: the job stays in the queue.
Leased_StillQueued(job) == [job EXCEPT !.attempts = @ + 1]
Leased(job) == [job EXCEPT !.phase = "leased", !.attempts = @ + 1]

LeaseNext(j) ==
    /\ Scanning /\ IsNext(j)
    /\ ~Expired(j) /\ Matches(j)
    /\ LET job == Leased(mem.job[j])
       IN  \/ /\ Commit(ApplyDispatchJob(mem, j, job), ApplyDispatchJob(disk, j, job))
              /\ lease' = [lease EXCEPT !.out = Append(@, j)]
              /\ UNCHANGED <<edges, now, accepted>>
           \/ CommitSilently(mem, ApplyDispatchJob(disk, j, job))

\* The loop meets a job, but the log's writer is broken since an earlier handler:
\* persist returns that error, and LeaseJobs with it.
LeaseFails ==
    /\ Scanning /\ broken /\ \E j \in Jobs : IsNext(j)
    /\ lease' = Idle
    /\ UNCHANGED <<mem, disk, up, broken, edges, now, accepted, faults>>

\* The loop ends; the mutex is released and the response is written.
LeaseEnd ==
    /\ up /\ lease.active
    /\ Len(lease.out) = lease.capacity \/ \A j \in Jobs : ~IsNext(j)
    /\ lease' = Idle
    /\ wire' = IF lease.out = <<>> THEN wire
               ELSE wire \cup {[node |-> lease.node, jobs |-> lease.out]}
    /\ UNCHANGED <<mem, disk, up, broken, polls, handed, now, accepted, faults>>

-----------------------------------------------------------------------------
(* The edges, the network and the clock *)

\* The edge receives the first k envelopes of a response; the connection may
\* break before the last, or before the first.
Deliver(w) ==
    /\ w \in wire
    /\ wire' = wire \ {w}
    /\ \E k \in 0 .. Len(w.jobs) :
          handed' = [handed EXCEPT ![w.node] =
              [j \in Jobs |-> @[j] + Cardinality({i \in 1 .. k : w.jobs[i] = j})]]
    /\ UNCHANGED <<center, polls, now, accepted, faults>>

Tick ==
    /\ now < MaxClock
    /\ now' = now + 1
    /\ UNCHANGED <<center, edges, accepted, faults>>

Crash ==
    /\ up /\ Die
    /\ UNCHANGED <<disk, wire, handed, now, accepted, syncFailures>>

\* OpenWithOptions replays the log.
Restart ==
    /\ ~up
    /\ up' = TRUE /\ mem' = disk
    /\ UNCHANGED <<disk, broken, lease, edges, now, accepted, faults>>

-----------------------------------------------------------------------------
Init ==
    /\ mem = EmptyIndex /\ disk = EmptyIndex
    /\ up = TRUE /\ broken = FALSE /\ lease = Idle
    /\ polls = {} /\ wire = {}
    /\ handed = [n \in Nodes |-> [j \in Jobs |-> 0]]
    /\ now = 0
    /\ accepted = {}
    /\ crashes = 0 /\ syncFailures = 0

LeaseStep == (\E j \in Jobs : LeaseReject(j) \/ LeaseNext(j)) \/ LeaseFails \/ LeaseEnd

Next ==
    \/ \E n \in Nodes, b \in Statuses : ReportStatus(n, b)
    \/ \E n \in Nodes : ReportAudit(n)
    \/ \E n \in Nodes, j \in Jobs, phase \in ReportedPhases : RecordJobEvent(n, j, phase)
    \/ \E q \in Requests : EnqueueJob(q) \/ EnqueueAgain(q)
    \/ \E n \in Nodes, c \in 1 .. MaxCapacity : Poll(n, c)
    \/ \E p \in polls : LeaseBegin(p)
    \/ LeaseStep
    \/ \E w \in wire : Deliver(w)
    \/ LogFails
    \/ Tick
    \/ Crash
    \/ Restart

Spec == Init /\ [][Next]_vars

\* The process is restarted, a goroutine in LeaseJobs runs on, a lease request
\* gets the mutex in the end (sync.Mutex does not starve a waiter), responses
\* arrive or are lost, and every edge polls again and again.
Fairness ==
    /\ WF_vars(Restart)
    /\ WF_vars(LeaseStep)
    /\ WF_vars(\E w \in wire : Deliver(w))
    /\ \A n \in Nodes :
          /\ WF_vars(\E c \in 1 .. MaxCapacity : Poll(n, c))
          /\ SF_vars(\E p \in polls : p.node = n /\ LeaseBegin(p))

FairSpec == Spec /\ Fairness

-----------------------------------------------------------------------------
(* Properties *)

LeaseType ==
    [active : BOOLEAN, node : Nodes, capacity : 0 .. MaxCapacity,
     recv : 0 .. MaxClock, out : Seq(Jobs)]

\* The variables have the types the code gives them.
TypeOK ==
    /\ mem \in IndexType /\ disk \in IndexType
    /\ up \in BOOLEAN /\ broken \in BOOLEAN
    /\ lease \in LeaseType
    /\ polls \subseteq [node : Nodes, capacity : 1 .. MaxCapacity, recv : 0 .. MaxClock]
    /\ wire \subseteq [node : Nodes, jobs : Seq(Jobs)]
    /\ handed \in [Nodes -> [Jobs -> Nat]]
    /\ now \in 0 .. MaxClock
    /\ accepted \subseteq Jobs
    /\ crashes \in 0 .. MaxCrashes /\ syncFailures \in 0 .. MaxSyncFailures

\* What the center knows is what it would know after a restart: every change
\* of a handler is in the log before it is in memory.  (A node that only a
\* failed audit ingest has registered is known until the restart.)
MemIsLog ==
    up => /\ mem.job = disk.job /\ mem.order = disk.order /\ mem.idem = disk.idem
          /\ \A n \in Nodes : disk.node[n].known => mem.node[n] = disk.node[n]

\* A node never has more unfinished jobs than the configured limit, whatever
\* crashes, late reports and retried requests do to the queue.
PendingBounded == up => \A n \in Nodes : Cardinality(Pending(mem, n)) <= QueueLimit

\* A job whose end is recorded keeps that end: no late or repeated report, no
\* lease and no restart reopens it.
TerminalForever ==
    [][\A j \in Jobs : IsTerminal(disk.job[j].phase)
                           => disk'.job[j].phase = disk.job[j].phase]_vars

\* There is one job per idempotency key, and the key finds it, also after a
\* replay.
OneJobPerKey ==
    up => \A k \in IdemKeys :
             /\ Cardinality(mem.idem[k]) <= 1
             /\ mem.idem[k] = {j \in Jobs : mem.job[j].phase # "absent" /\ mem.job[j].idem = k}

\* A node's jobs are leased in the order in which they were created: while one
\* is queued, no later one has been leased, whatever leases, reports (also of
\* jobs that are still queued) and restarts have gone before.
NoOvertaking ==
    up => \A i, k \in DOMAIN mem.order :
             LET a == mem.job[mem.order[i]]
                 b == mem.job[mem.order[k]]
             IN  i < k /\ a.node = b.node /\ a.phase = "queued" => b.attempts = 0

\* A job reaches an edge at most once, its own node's, and only after the log
\* has its one lease: neither a crash between two persists, nor a failed fsync,
\* nor a lost response, nor a report of anybody makes the center hand a job out
\* again.
HandedOnce ==
    \A n \in Nodes, j \in Jobs :
        handed[n][j] > 0 =>
            /\ handed[n][j] = 1
            /\ disk.job[j].node = n
            /\ disk.job[j].attempts = 1
            /\ disk.job[j].phase \notin {"absent", "queued"}

\* A job whose operator was told it is queued is never forgotten.
AcceptedKept == \A j \in accepted : disk.job[j].phase # "absent"

Lifecycle == INSTANCE JobLifecycle WITH
    phase <- [j \in Jobs |-> disk.job[j].phase],
    leased <- {j \in Jobs : disk.job[j].attempts > 0},
    reached <- {j \in Jobs : \E n \in Nodes : handed[n][j] > 0}

\* The queue keeps the promises of JobLifecycle about every job: it is created
\* once, leaves the queue for good, is leased at most once and only from the
\* queue, reaches an edge at most once and only if leased, and ends once.
ImplementsLifecycle == Lifecycle!Spec

\* Every queued job leaves the queue, leased or rejected, while its node polls.
QueuedLeaves ==
    \A j \in Jobs : disk.job[j].phase = "queued" ~> disk.job[j].phase # "queued"
=============================================================================
