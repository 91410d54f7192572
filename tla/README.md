# Scootship center: TLA+ specification

Scootship is the center of a fleet of Scoot nodes.  Edges dial in over HTTP:
they post heartbeats, ranges of their audit logs and job events to
`POST /telemetry`, and poll `GET /jobs/lease` for work.  Operators log in to a
dashboard, create dispatch jobs and manage node tokens and accounts.  Whatever
the center accepts is appended to one log, `center.jsonl`, before it is
acknowledged, and the state in memory is rebuilt from that log at start.

This directory models the parts of the center in which order, failure and
concurrency matter, checks them with TLC on small instances and proves the
main facts about eight of its modules with TLAPS for all instances.

## The system

| Component (code) | State | Operations | What is hard about it |
|---|---|---|---|
| Log (`internal/store/memory.go`: `persist`, `replay`, `OpenWithOptions`, `Close`) | the file, the `bufio.Writer` and its sticky error | append a record, replay at start | kills, power loss, failed write or fsync at every point; torn lines; the Scanner's line limit |
| Dispatch queue (`memory.go`: `EnqueueJob`, `LeaseJobs`, `RecordJobEvent`, `UpsertStatus`; `center/lease.go`) | nodes, jobs, `jobOrder`, `idem` | create, lease, reject, apply reports | one persist per job in the lease loop; lost responses; reports of any node about any job, also a queued one; the limit per node; stale clock, descriptor and ceiling |
| Audit ingest (`memory.go`: `IngestAudit`, `applyAudit`, `applyAuditRetention`; `center/telemetry.go`) | cursor, window and counters per node | store a range once, acknowledge the cursor | at-least-once delivery; rotation; several ranges per post, with the mutex free in between; a 500 half way |
| Read views (`Jobs`, `Nodes`, `AuditEvents`, `AuditTimelines`) and pages (`center/dashboard.go`, `center/health.go`) | none of their own | copy, group, sort, derive health signals | a page reads the store and the clock several times, with telemetry in between; loops over maps; time stamps of an edge |
| Telemetry handler (`center/telemetry.go`) | none that outlives a request | decode a body, apply it, acknowledge | a clock read before the body, concurrent requests, a bad envelope in the middle |
| Mock edge (`internal/mockedge`) | cursor and counts, in memory | heartbeat, ship, poll | goes on whether or not it was answered |
| Wire protocol (`internal/protocol`) | none | `Validate`, `Cursor.After` | order of cursors |
| Dispatch form (`center/dispatch_create.go`) | none | validate, mint ids, call `EnqueueJob` | its own checks run before the store takes its mutex |
| Login throttle (`internal/loginguard`, `handleLogin`) | failures, window, lock per client | `Check`, `Fail`, `Reset` | the handler calls them in separate critical sections, with a clock read once; table cap |
| Node tokens (`internal/tokens`, `center/tokens.go`) | `byToken`, managed overlay, its file | authenticate, rotate, revoke, load | overlay on static configuration; save before memory; restart must enforce what was enforced |
| Operators, sessions, capabilities (`internal/operators`, `center/auth.go`, `center/session.go`, `center/operators.go`) | accounts and their file, sessions | login, change, check a capability | memory before save; check and use in different critical sections |
| Server lifecycle (`center/server.go`, `cmd/scootship`) | listener, running handlers, the open log | start, serve, shut down, close, exit | shutdown timeout, then `Close` while a handler may run; a listener that breaks |
| Settings, translations, client address, configuration | none that outlives a request | derive and render | - |

Components interact by calls only.  The handlers of `internal/center` run in
one goroutine per request and share the store, the token registry, the operator
store, the session store and the login guard; each of these has one mutex that
is taken per call, so what one handler does with two calls can be interleaved
with another handler.  `persist` runs inside the store's mutex.

`PROJECT.json` lists the hazards of each component at their lines, with the
property that watches each one.

## Modules

| Module | Models |
|---|---|
| `Journal` | `persist`, `replay`, `OpenWithOptions`, `Close` on a file whose writes may fail, tear or be lost |
| `DispatchStore` | the dispatch queue, its handlers, edges that poll over a lossy network, and reports of anybody |
| `JobLifecycle` | what the queue promises about one job (abstract) |
| `DispatchProofs` | theorems about `DispatchStore` |
| `AuditIngest` | audit shipping: edges with rotating logs, a lossy network, concurrent telemetry handlers, the audit part of the store |
| `AuditDelivery` | what shipping promises (abstract) |
| `LoginGuard` | the login throttle and the login handlers that call it |
| `NodeTokens` | the token registry, its managed file, the handlers that change it, restarts |
| `TokenBook` | what token management promises (abstract) |
| `Access` | operator accounts and their file, sessions, and the requests that change accounts |
| `ServerLifecycle` | the process: `runServe` and `Server.Run` from start to exit, with handlers that persist meanwhile |
| `Views` | the sorted and grouped copies of the store, the version baseline and the health signals, as operators |
| `FleetView` | what operators see of a node: the simulated edge, concurrent telemetry handlers, the node's view, pages that read it piece by piece |
| `JournalProofs`, `AuditProofs`, `LoginProofs`, `TokenProofs`, `AccessProofs`, `ServerProofs` | theorems about `Journal`, `AuditIngest`, `LoginGuard`, `NodeTokens`, `Access` and `ServerLifecycle` |
| `FleetProofs` | theorems about `FleetView`, and about `Views` as `MCFleet` specifies it |
| `MCJournal`, `MCDispatch`, `MCAudit`, `MCLogin`, `MCTokens`, `MCAccess`, `MCServer`, `MCFleet` | instances for TLC, and in `MCFleet` what the operators of `Views` are for |

How they fit together: `DispatchStore` and `AuditIngest` keep, next to the
state in memory, the result of replaying the log (`disk`, `log`), and rely on
the log giving back what was written to it.  `Journal` shows when it does.
`DispatchStore`, `AuditIngest` and `NodeTokens` hold the refinement mappings of
`JobLifecycle`, `AuditDelivery` and `TokenBook`.  Both store modules treat a
record whose fsync failed as written but not acknowledged, which is the outcome
that is harder to deal with.  `MemIsLog` compares the nodes that the log knows: a node that `IngestAudit`
registers before `persist` fails is in memory only, until the center restarts.
`LoginGuard`, `NodeTokens` and `Access` share no
state with the store or with each other, except that a login that `LoginGuard`
accepts is an `Authenticate` of `Access`.  `ServerLifecycle` reduces a handler
to the records it persists and shows when an answer is backed by the log, which
the modules of the handlers take for granted.  `FleetView` looks at the
telemetry handler from the other side than `AuditIngest`: not at what is kept
of a well-behaved edge but at what is shown of any, with the times and counters
that `DispatchStore` and `AuditIngest` leave out.

### Journal

The file is a sequence of *pieces*, one per call of `persist` that reached the
file: the record, whether its JSON is complete and whether its newline is there.
`bufio.Scanner` splits at newlines, so a piece without one shares its line with
the next.  `Persist` is the successful call.  `WriteFails` leaves nothing or a
torn line and makes the writer refuse everything until the next `Open`
(`bufio.Writer` keeps its error).  `SyncFails` leaves the line and returns an
error.  `KilledInPersist`, `Stop` and `HostCrash` end the process; only
`HostCrash` loses what no fsync covered.  `Open` replays.  A record is written
at most once, which loses nothing: records are only told apart.  `synced` counts
what fsync is known to cover.  Length is a matter of `LogReopens` alone: `Scannable`
looks at single lines, although a torn piece and the record glued to it can be
too long together, and `ReadableLines` reads lines of any length.

### DispatchStore

`mem` is the index of `Mem` (`node`, `job`, `order`, `idem`), `disk` the index
that a replay of the log would build.  Each handler that persists has the form
`Commit(m, d) \/ CommitSilently(m, d)`: the record is written and applied, or it
is written and nobody is answered because fsync fails or the process dies.
`LogFails` is the write that fails before anything reaches the log; a poll that
meets a writer which is already broken ends with an error (`LeaseFails`).

`LeaseJobs` holds the mutex during its whole loop, so no other handler runs in
between, but every iteration persists: `LeaseBegin`, one `LeaseReject` or
`LeaseNext` per job, `LeaseEnd`.  A crash between two of them is a crash in the
middle of the loop.  `Poll` reads the clock before the mutex is taken, as
`handleLease` does.  What a job needs is one set (labels, tools and skills), a
descriptor one set of what it advertises; a deadline is compared as in the code.
The goal, the requestor, time stamps that are only displayed, and the retry
count, which the center only passes on, are left out.

The edges are the environment: they poll while nothing of theirs is in flight
and receive a prefix of a response.  `applyJobEvent` checks neither that the job
was leased nor that the reporting node owns it (`store_test.go:528-531` reports
`done` for a job that is still queued), so `RecordJobEvent` takes any reported
phase of any job from any node at any time: early, late, repeated, reordered and
untrue reports are all among them.  What the queue promises, `JobLifecycle`, is
therefore about leases, hand-overs and ends, and not about whether what is
reported has happened: a job is leased once at most and only from the queue,
reaches an edge once at most and only if it was leased, and keeps the end it
comes to.  `NoOvertaking` likewise speaks of leases: a job may be reported done
before an earlier one, but it is not leased before it.

### AuditIngest

One byte of an edge's file stands for one event; a file is a rotation
generation.  An edge posts one or two ranges, each where the last one ended,
repeats the same post until an answer covers it and then moves its cursor.
`posts` and `acks` only grow: a message may be lost (never received), repeated,
late and reordered.  That ranges join is the edge's doing (`RangesAt`):
`AuditBatchBody.Validate` only asks that a range is not empty.  A handler parses a whole post (`Receive`), then applies
range by range (`IngestDuplicate`, `IngestNew`), taking the mutex for each, and
answers with the last cursor (`Reply`).  Ranges that the store refuses to write
end the request with an error and leave what was applied before.

### LoginGuard

`keys` is the guard's table.  `handleLogin` is `Arrive` (the clock is read, once),
`Check`, `Authenticate` (the password, which either is right or not) and `Fail` or
`Reset`; every one of them takes the guard's mutex by itself, so logins
interleave between them and the times that reach the guard need not be in order.
Time is counted in ticks and a comparison of times is the code's.  `failures` is
not in the code: it remembers when each key failed since its last success, for
the properties.  `MaxDelay` says how long a login may take, which the clock waits
for; without a bound an attempt could be counted arbitrarily late.  `GuessesBounded`
counts failures in a span of `Span` ticks: the window or the lockout, whichever
is shorter, less twice that delay, since the time of a failure may be that much
behind and the start of a lock as well.

### NodeTokens

`byToken` and `managedState` are the registry's fields and `file` what
`managed_node_tokens.json` holds.  A secret is made before the mutex is taken
(`Mint`); `UpsertManaged` and `RevokeManaged` save first and change memory then.
`SaveFails` leaves everything, `KilledInSave` is the end of the process after the
rename.  At a start the file's static entries are loaded in any order (the code
ranges over a map), then the inline ones, then the managed state is laid over
them.  `newEntries` is given as what is left at the end rather than entry by
entry; a static entry that the overlay drops is left as a blank, which counts
for nothing.  In the instance, configured tokens belong to one node each.

### Access

A request to change an account goes through `Admit` (session and capability),
`CheckCSRF`, `Handle` (which looks its operator up once more) and `Change` or
`Refuse`; each of these reads the session or the accounts in a critical section of
its own, and a session may end in between (`EndSession`).  `Change` changes
memory, then saves, and an error of the save does not undo it.  The n-th change
gives the account the password and the content n: two contents are equal only
if they come from the same change.  `Forms` are the sets of capabilities a form
may hold, `Spellings` what a path may hold for a name, `Normal` what the store
makes of it.  `KilledInChange` is the end of the process after the rename.

### ServerLifecycle

`main` is how far `runServe` is: the store is opened, tokens and operators are
loaded, `Run` serves, `Shutdown` waits, the deferred `Close` runs, the process
exits.  A request is accepted, begun, and persists `Size[r]` records, each with
the store's mutex held between `Lock` and one of `Persist`, `PersistFails` and
`PersistUnsynced`; then it is answered.  `http.Server` is external: `Shutdown`
closes the listener and idle connections and returns when no request is left
(`ShutdownDone`) or when its ten seconds are over (`ShutdownExpires`), whatever
handlers do.  `Close` takes the mutex, flushes and closes the file, but leaves
the writer, so a handler that persists after it gets an error and not silence;
when the flush fails, `Close` returns early and the file stays open.  `status` is
what `runServe` returns.  `logged` counts what is durable, `done` what the
handler was told is.

### Views and FleetView

`Views` follows the loops of `AuditTimelines` and `versionBaseline`: `Grouped` and
`BestAfter` are functions of how many elements a loop has seen.  A version is a
number, in the order of the strings.  An id is a sequence of pieces of text, one
of which may be the mark that `timelineKey` puts between session and run
(`RunMark`): ids are not validated, and the key is one string (`KeyOf`), which two
pairs of ids can share.  `MCFleet` says what the loops are for.

The edge of `FleetView` is the one of `internal/mockedge`: `Beat` and `Ship`
alternate and do not look at answers, `EdgeRestart` starts over.  `OtherPosts`
are bodies of several envelopes that other holders of the token send, some with
a bad envelope.  `net` may lose (never deliver), delay and reorder.  A handler
reads the clock (`Receive`), decodes everything (`Decode`) and applies one
envelope at a time (`Apply`, `Duplicate`, `ApplyFails`).  `view` is the node's
`NodeView` as far as pages use it; `recorded` remembers the bodies and receive
times behind it.  A page is a sequence of reads (`Reads`), one step each, in the
order of `handleFleet`, `handleNode` and `handleAPINode`: they differ in whether
the badge or the health signals come first.  A page asks for `EventLimit` events
and `TimelineLimit` timelines; the latter are sorted by the time stamps of the
edge (`EdgeTimes`) before they are cut, so the timeline of the newest event may
be cut off.  The node page's second look at all nodes (`buildHealthContext`),
from which it takes the version baseline, is left out.  One byte range of the edge is one
unit of `cursor`, and its file generation never changes.  `MaxDelay` bounds how
long a telemetry request takes, which `http.Server`'s `ReadTimeout` and the
client's timeout do in the program.

## Runs

| Run | Question | Bounds and why they suffice |
|---|---|---|
| `Journal_faults` | what does the log give back after any mix of faults? | four records, two failures, three crashes: a torn line, an append behind it, another torn line and a replay fit |
| `Journal_torn_acked` | finding: is an acknowledged record always replayed? | as above |
| `Journal_oversize` | finding: can the log always be reopened? | one long line |
| `Dispatch_crash` | do memory and log agree, is the limit kept, is an end final? | one node, limit one, two jobs, a retry with the first key, a crash, failed writes; no failed fsync, with which the limit does not hold (see Proofs) |
| `Dispatch_order` | does the queue implement `JobLifecycle`, lease in order, and drain? | any report of either job at any time; limit two and capacity two: a crash can fall between two leases of one poll; one job expires, the other needs a capability the node may lose |
| `Dispatch_syncfail` | does a failed fsync or a crash hand a job out twice, elsewhere, or lose it? | two nodes with a job each, one crash, one failed fsync, so that a ghost record can meet a restart; either node may report on either job |
| `Audit_ship` | is every event stored once, in order, never acknowledged early, and in the end? | two generations of two events, two goroutines, posts of two ranges, window of two (so a post may be larger than what is left in it), a crash, a failed fsync, failed writes |
| `Login_guard` | is a lock earned, is guessing bounded, does pruning forget anything that counts? | two sources, two logins at a time, a table that two keys fill; the lockout is as long as the window, which is the default, and six ticks hold a window, a lock and the time behind it |
| `Tokens_lifecycle` | is exactly the token in force accepted, over rotation, revocation, failed saves and restarts? | two nodes with static tokens, one of them overridden inline; four secrets to give out, two operators, two failed saves, two crashes |
| `Access_console` | do answers, memory and file agree, do restarts grant anything, are sessions of operators? | two operators, two requests at a time, two logins, two changes, a failed save, a crash: a change that failed can be saved by a later one or lost; forms that name a known and an unknown capability, or none that is known.  Names are spelled in one way here and in any way in the theorem |
| `Server_shutdown` | is every answer backed by the log, is a clean exit clean, does a signal end the process? | three requests with no, one and two records: one can be done, one in `persist` and one idle when the shutdown expires; two starts, a failed fsync, failed writes |
| `Fleet_view` | how fresh, complete and consistent is what operators see? | two handlers, so that requests overtake each other; three posts, which hold a range before and after a restart of the edge and a foreign one; a window smaller than what they bring; a clock that passes the stale limit during a page; two events and two timelines to a page, so that both lists are cut, also in a way that loses the newest event.  The edge's clock stands still and the foreign bodies bring their own times.  Timelines: all windows of up to three events with two kinds and times of the edge and ids that make timelines of their own, share one and collide because of the mark; versions: five nodes, three versions |

`Login_guard` and `Tokens_lifecycle` check deadlock.  The others
set `CHECK_DEADLOCK FALSE`: crashes, failures, changes, the clock and the files are
bounded there, so the instances do stop.  `Journal_faults`,
`Journal_torn_acked`, `Login_guard`, `Access_console` and `Fleet_view` use
symmetry, of records and of goroutines; they check no liveness.

### Fairness

`Dispatch_order`, `Audit_ship` and `Server_shutdown` check liveness.  Assumed is that a stopped
center is restarted, that a goroutine that is not blocked runs on, that edges
keep polling and posting, and that a post that is repeated for ever is received
in the end (strong fairness: the goroutines are not always free).  Lease requests
compete for a `sync.Mutex`, which switches to FIFO hand-over when a waiter
starves, so `LeaseBegin` has strong fairness.  Nothing is assumed of operators,
of reports, of crashes or of time.  `QueuedLeaves` speaks of the queued phase
only: a job whose lease response was lost stays leased, and the code has nothing
that ends it.  `AllShipped` excepts the time in which the log's writer is
broken, since only a restart repairs it and nothing forces one.

`Server_shutdown` assumes that timers fire, that the main goroutine runs, that a
disk call returns, and that a goroutine waiting for the mutex gets it (strong
fairness, as above).  It assumes nothing of clients and handlers outside
`persist`: `StopEnds` holds because the shutdown has a timeout, not because
requests end.

## What the runs show

Holding: acknowledged records survive every fault up to the first append behind
a torn line, and a torn line costs at most the one record behind it; the index
is the replayed log; the limit, the order of leases, idempotency keys and final
phases survive crashes and any reports; a job is handed out at most once; the audit log has each event
once and in order and the window and its counters agree with it; a source is
locked only for enough failures within a window and pruning forgets nothing that
counts; a node authenticates with the token that is in force and no other, and
a secret whose request failed never; a change of an account that was answered
with success is on disk; a restart grants no capability; what was answered is in
the log also when the shutdown expired or the listener broke; a node that is
shown as stale has been silent that long, less the length of one request; a body
with a bad envelope leaves nothing behind; the events of a page reach the newest
one its header counts, and so do its timelines unless their list is cut; its
badge and its signals disagree only in the direction time passes.

Not holding, each with a counterexample (see `findings` in `PROJECT.json`):

* a torn last line is skipped at start but not closed, so the next acknowledged
  record is lost at the following start (`Journal_torn_acked`);
* a record longer than the replay buffer is acknowledged and then prevents every
  later start (`Journal_oversize`).

Documented otherwise than the code does, with the property that does hold:

* `src/README.md:126` and `loginguard.go:3-4` call the failure window a sliding
  one; it starts with the first failure and is restarted when it has passed, so
  nearly twice as many failures as configured fit into one window length.
  `GuessesBounded` is the bound that holds.
* `i18n.go:175` says an operator cannot remove its own management capability.
  The handler compares names before they are normalized, so an operator who
  spells the own name in capitals can, and so does a request whose session ends
  after the CSRF check (`ManageIsTaken` says that these are the only ways).
* `telemetry.go:12-14` says that the edge advances its cursor only after the
  ack, and `mockedge` calls itself a faithful client; the simulated edge moves
  its cursor before it posts, so its window has holes (`WindowAscends` is what
  is left).

Also seen, and not claimed otherwise anywhere: the center applies a job event of
any node about any job, so a job can leave the queue and come to an end without
having been leased (`src/docs/dispatch-threat-model.md:120,149` names lying about the
lifecycle as a risk); `timelineKey` gives the session `a<NUL>run:b` without a run and
the session `a` with the run `b` the same timeline, and ids are not checked for a
NUL; the 25 timelines of a page are chosen by the edge's clock, so with more of
them the newest event may be in none that is shown; a job's policy is clamped to the
ceiling when it is created and not when it is leased; every submission of the
dispatch form has a new idempotency key, so a repeated one is a second job; a job refused because
fsync failed is queued after the restart, beside the limit; a change of an
account whose save failed stays in force until the restart; a request whose
session ends after the CSRF check goes on with an empty user name, which the own
name comparison takes for another operator; a failure that reaches the login
guard late can shorten a lock, since the lock is set from the time the request
came; `MaxKeys` drops only entries that no longer count and is therefore no cap;
a static token shared by two nodes is lost for both when one of them is
overridden.
`ErrUnknownNode` is documented as "has never reported status"
(`store.go:19`), but an audit batch or a job event registers a node as well, also
an audit batch that could not be logged; a job event sets no first-seen time;
polls and duplicates do not count as a sign of life; an expired shutdown makes
the process exit with an error although nothing that was answered is lost; a
`Close` after a write error returns before it closes the file.

## Proofs

`DispatchProofs` proves, for all constants that satisfy `DispatchAssumption`:

* `TypeCorrect`: `Spec => []TypeOK`.
* `SafeInvariant`, and from it `MemoryIsLog` (`[]MemIsLog`), `QueueBounded`
  (`[]PendingBounded`) and `EndsAreKept` (`TerminalForever`), under the
  assumption `MaxSyncFailures = 0`.

The assumption is needed: with a failed fsync the log is ahead of memory, the
slot of the refused job is given to another, and both are queued after a
restart.  Crashes, failed writes, lost responses and reports are not restricted.

`MemIsLog` and `PendingBounded` are not inductive.  The limit is about memory,
which a restart replaces by the log, and the log must therefore be within the
limit while the center is down; and memory may know nodes that the log does not,
so equality is too strong.  The inductive invariant `SafeInv` is `TypeOK`, the
agreement of jobs, order and keys (`Agree`), and the limit for `disk`
(`Bounded`).  Its step lemma has one case per action; the lemmas before it say
how each way of applying a record changes the set of unfinished jobs of a node.
`TerminalForever` is an action property and follows from the same cases.

The second half of the module goes on from there.  For every fault, failing
fsyncs included, it proves `JobsAreHandedOnce` (`[]HandedOnce`) and `AcceptedJobsAreKept`
(`[]AcceptedKept`).  `HandedOnce` speaks of what edges received, so the invariant
`HandInv` follows a job on its way: in the response that is being built, in one
on the wire, or arrived.  It is in one of these places, once (`Apart`), and
memory (while the center is up) and log both have it out of the queue, with that
node and one lease (`Tracked`); therefore neither a repeated poll nor a restart
finds it queued, and no report puts it back.  A failed fsync leaves the log ahead of memory, but
then the job is in no response.  `AcceptInv` adds that a key never finds a job
the log does not have.

Under `MaxSyncFailures = 0` it proves `KeysAreUnique` (`[]OneJobPerKey`),
`NobodyOvertakes` (`[]NoOvertaking`) and `QueueImplementsLifecycle` (`Spec =>
ImplementsLifecycle`).  The invariant is `HandInv`, `SafeInv` and `Queue(disk)`: the
keys find the jobs that carry them (`Keyed`), the order lists every job once
(`Listed`) and no job behind a queued one of its node has been leased (`Ordered`).  `Logged`
names the ways in which any action changes the log (a job is created, leased,
rejected, or a report moves it); `Queue` is shown for each of them, and
`LifecycleStep` maps each to a step of `JobLifecycle` or to a stutter.  With a
failed fsync, a repeated request can make a second job of a key.

`AuditProofs` proves `AcknowledgedIsHeld` (`[]AckIsHeld`), `WindowHoldsNewest`
(`[]WindowIsSuffix`) and `ShippingDelivers` (`Spec => ImplementsDelivery`),
assuming `AuditAssumption` only: for any number of nodes and goroutines, any
rotation and any mix of lost, repeated and late posts and answers, crashes and
failures of the log.  The three share the invariant `Inv` (`ShipmentInvariant`).
Its picture is a ladder: the ranges of the post an edge wants an answer for begin
each where the one before ends, so their ends are rungs, and the edge, the
center's memory and what a replay of the log finds stand on rungs, none above
the next (`Climbing`).  An answer on its way is of something the center holds,
and the edge has passed it or it is a rung (`Answers`); a post on its way is the
one the edge wants an answer for, or every range of it has been answered
(`Posted`); a handler has a rest of a post to do, and the center holds what came
before (`Serves`).  A view is the newest part of all events up to its cursor
(`Kept`), and the log holds each of those once and in order (`Logs`).  A failed
fsync or a kill moves the log up one rung and leaves memory behind, the restart
takes memory to the log, and the repeated post is then a duplicate.  The
refinement is shown action by action: the positions of the edge and of the log
are the abstract state, and only `Ingest` and its failing variants move the log.

`LoginProofs` proves `TypeCorrect`, `LocksAreEarned` (`[]LockEarned`),
`PruningForgetsNothing` (`RecentKept`) and `GuessesAreBounded`
(`[]GuessesBounded`), assuming `GuardAssumption` only: that there is a source,
that the goroutines are finitely many and that the thresholds are natural
numbers, positive where the configuration makes them so.  `LockEarned` says that
there were enough failures, but the guard keeps a counter and a time.  The
invariant `Inv` ties them to the history: the failures an entry counts are the
last ones of its source, the window starts with the first of them, and none is
later than its end (`CountsLast`).  A failure that is counted late may be earlier
than the start of the window; the invariant allows that.  The step lemmas
distinguish a failure that is counted in a window (`CountInWindow`) and one that
starts a window (`CountAsFirst`), which may find a lock that has not ended.

For `GuessesBounded` a second invariant, `GuessInv`, says which failures can still
matter.  All but the last few of a source are so far behind the clock that no
span reaches from them to a reading still to be reported (`Passed`).  Of the
others there are, while the source is not locked, at most `MaxFails - 1` of the
window before and `MaxFails - 1` of this one; behind a lock they and the logins
admitted before it, which can still fail, are together at most as many as in the
bound (`Room`).  No other login can join them: their readings are so far from the
end of the lock (`Late`) that a reading behind it comes later than they can
report, if the lockout is longer than twice the delay.  Where it is not, or the
window is not, `Span` is not positive and the bound says nothing.  Both windows
count since a failure that finds its window over starts a new one at once, and
forgets the failures of the old one, however recent they are.

`ServerProofs` proves `TypeCorrect`, `AnswersAreLogged` (`[]AnsweredIsLogged`) and
`ExitsAreClean` (`[]CleanExit`), assuming `ServerAssumption`.  The invariant says
that a handler was never told more than is logged, that it has been told of all
its records when it answers, and that the store has a writer as long as the
process can run a handler: without it `persist` returns success and writes
nothing.  A success status is only set when nothing is active and nothing is
accepted any more.

`FleetProofs` proves `LastSeenCorrect` (`[]LastSeenIsRecent`), `BodiesAreAtomic`
(`[]BadBodiesLeaveNothing`) and `BadgesAgree` (`[]BadgeAgrees`), assuming
`FleetAssumption`.  `LastSeenIsRecent` needs that a handler's time is at most
`MaxDelay` old (`Timely`): a status then moves the time back by no more.  For the
badge the invariant relates each part of an unfinished page to the clock: what
was true of the copy when it was read stays true as the clock advances
(offline) or was true before (online).

`WindowInOrder` (`[]WindowAscends`) and `ListsNotBehind` (`[]ListsReachHeader`)
assume `OthersAssumption` besides: what other holders of the token ship as audit
is a piece of the node's own log, since nothing in the code orders anything
else.  The invariant `WindowInv` adds that the window ascends up to the stored
cursor, so that what a batch brings is newer than what is there, and that the
copies an unfinished page has of it reach no further than the window and, in the
order of the page's reads, no less far than the copy before (`ListsOK`).  For the
timelines this uses that grouping loses no event and that a list shorter than
the limit was not cut (`TimelinesReach`).

About `Views` it proves `TimelinesOfAnyWindow`, that the timelines of a window of
any length with any ids, kinds and time stamps partition it by the key of
`timelineKey`, in order and with the right summaries; `PlainIdsShareNoTimeline`, that
if no id holds the mark two events share a timeline exactly if they have the
same session and run; and `LoopFindsBaseline`, that the loop over the map of versions
ends with the lowest of the most frequent ones in whatever order they come.
`TimelinesOfWindows` and `BaselineForAnyOrder` are the instances that the run
checks.  The loops are recursive functions of the number of elements seen, with
a loop invariant each; since induction over numbers cannot be cited (its theorem
takes an operator as a parameter), the proofs take the first element behind
which the loop invariant fails (`HasLeast`), which exists because finite sets are
well founded under inclusion.  That the timelines come out sorted rests on the
position of each being the number of those that come before it: the positions in
a strict total order are different and none is left out (`Ranks`).

`AccessProofs` proves `TypeCorrect`, `AnswersAreKept` (`[]AckedOnDisk`),
`ReloadIsIdentity` (`[]ReloadGrantsNothing`) and `NoOrphanSessions`
(`[]SessionsHaveOperators`), assuming `AccessAssumption`.  They share one
invariant: requests under way have an operation; a login whose session is not
there yet is of an operator that exists; a center that is down has nothing in
memory; every account in memory and on disk has a capability; and both books
have all that was answered (`Holds`), the one in memory because every save
writes the whole book and must not take anything back.  `ChangedFollows` says
what one change does to a book and `OpenedKeeps` what a start does.
`OwnManageIsKept` (`ManageIsTaken`) needs a second invariant, about who sends a
request: the session it came with is its owner's as long as it lives, because
tokens are not used twice (`Owned`).

`TokenProofs` proves `TypeCorrect`, `RefusedSecretsStayOut` (`[]RefusedStayOut`),
`TokensImplementBook` (`Spec => ImplementsBook`) and `ExactlyTheTokenInForce`
(`[]EnforcedIsInForce`), assuming `TokenAssumption`, the last one also
`OneTokenEach`: the configuration gives a secret to one node only (and the file,
which is a map, a node one secret).  It is needed:
overriding one of two nodes that share a static secret takes it from both.  The
first half is about a start: in whatever order the file's entries come,
`newEntries` leaves of every node the last entry and nothing else
(`NewEntriesLast`), and the last one is the managed token, none if the node is
revoked, the last inline one, or the file's (`OverlayLast`).  The second half is
the invariant `SecretsInv`: a secret that a request holds is in no file and was
not refused (`Fresh`), managed tokens were minted and belong to one node
(`Managing`), and what authenticates is configured or managed (`Enforcing`).
That numbers have a least element is taken from the library's theorem that
finite sets are well founded under inclusion.

`JournalProofs` proves `AckedAreInTheLog` (every acknowledged record is in the
file once, whole and covered by an fsync), and from it `LossIsBounded`
(`[]BoundedLoss`), by mapping every lost record to the torn piece before it, and
`UngluedLosesNothing`, that a replay finds every acknowledged record as long as
nothing was written behind a torn line.  It assumes nothing of the constants.
`AckedSurviveInOrder` (`[]UngluedSurvive`) adds the order, of what a replay gives
back and of what an open center serves.  The invariant `OrderInv` has the
acknowledged records in the file in the order of the acknowledgements
(`InFileOrder`) and what is served read from the file or written to it
(`Served`); that a replay, which selects pieces of the file, keeps their order
follows from the position it gives each, the number of those selected up to it.

Only model-checked are the properties under fairness, `QueuedLeaves`, `StopEnds`
and `AllShipped`: liveness and `ENABLED` are out of the prover's reach.  Every
invariant and every other action property of the runs that pass is also a
theorem.

## Not modelled

* Settings, translations, templates, client address and configuration derive
  or render what others hold; they keep nothing.
* Of the pages, those that read the store once; of the health signals, those
  that compare one field with a constant.
* The dispatch form's field checks: what it submits is the input of
  `EnqueueJob`.
* HTTP routing, response headers and request logs; `recoverPanic`, since no
  handler of the model panics.
* What a file system keeps of a rename without fsync when the host loses power:
  `NodeTokens` and `Access` end the process only.
* Two nodes configured with one static token.
