----------------------------- MODULE FleetView -----------------------------
(***************************************************************************)
(* What operators see of a node, and how fresh it is: POST /telemetry      *)
(* (internal/center/telemetry.go) reads its clock, decodes the body as a   *)
(* group and applies the envelopes one by one to the node's view           *)
(* (internal/store), each under the store's mutex; the fleet page, the     *)
(* node page and GET /api/nodes/{id} (dashboard.go) read the store and the *)
(* clock several times, with telemetry in between.                         *)
(*                                                                         *)
(* The edge is the simulated one (internal/mockedge): it goes on whether   *)
(* or not it was answered, never repeats a post, and starts from scratch   *)
(* when it is restarted.  Other programs with the node's token may post    *)
(* OtherPosts.  The network delays, reorders and loses posts.  One node:   *)
(* telemetry of one does not touch the view of another.                    *)
(***************************************************************************)
EXTENDS Views, Integers

CONSTANTS
    Node,         \* the node the token is for
    Handlers,     \* the goroutines that can serve telemetry at a time
    OtherPosts,   \* bodies, as sequences of envelopes, that other programs send
    Retention,    \* Options.AuditRetentionEvents
    Stale,        \* Config.StaleSeconds
    EventLimit,   \* the events a page asks for
    TimelineLimit,\* the timelines a page asks for
    Text,         \* what the ids of sessions and runs are made of
    EdgeTimes,    \* what the clock of an edge may say: it is its own
    MaxTime,      \* bound on the clock
    MaxDelay,     \* the longest a telemetry handler takes
    MaxPosts,     \* bound on posts
    WritesFail    \* TRUE: persist may return an error

ASSUME FleetAssumption ==
    /\ Retention \in Nat \ {0} /\ Stale \in Nat /\ EventLimit \in Nat
    /\ TimelineLimit \in Nat
    /\ "sess-demo" \in Text /\ EdgeTimes \subseteq Int
    /\ MaxTime \in Nat \ {0} /\ MaxDelay \in Nat
    /\ MaxPosts \in Nat
    /\ WritesFail \in BOOLEAN

VARIABLES
    now,       \* the clock
    edge,      \* the simulated edge: what it does next, its cursor and its counts
    net,       \* posts in flight
    sent,      \* the number of posts
    handler,   \* where each goroutine is
    view,      \* the node's NodeView and its window of events
    recorded,  \* what the log holds: the bodies envelopes came from, and their receive times
    page       \* a page on its way to an operator

client == <<edge, net, sent>>
center == <<handler, view, recorded>>
vars == <<now, client, center, page>>

-----------------------------------------------------------------------------
(* Envelopes *)

Status(node, total) == [type |-> "status", node |-> node, reported |-> total]
Event(seq, ts, session, kind) ==
    [seq |-> seq, ts |-> ts, session |-> session, run |-> <<>>, kind |-> kind]
Batch(node, from, to, events) ==
    [type |-> "audit_batch", node |-> node, from |-> from, to |-> to, events |-> events]
JobEvent(node) == [type |-> "job_event", node |-> node]

EventType ==
    [seq : Nat, ts : Int, session : Seq(Text), run : Seq(Text), kind : AuditKinds]

\* Envelope.Validate, the checks of handleTelemetry, AuditBatchBody.Validate.
Valid(env) ==
    /\ env.node = Node
    /\ env.type \in {"status", "audit_batch", "job_event"}
    /\ env.type = "audit_batch" =>
          /\ env.to > env.from /\ env.events # <<>>
          /\ \A i \in DOMAIN env.events : env.events[i].kind \in AuditKinds

\* Cursor.After within one generation.
After_OrEqual(to, cursor) == to >= cursor   \* a mutant: a repeated range is new
After(to, cursor) == to > cursor

\* What the other programs send is the node's own log, two events to a position,
\* in ranges that begin where the edge's do: from a range the center only ever
\* reads where it ends (IngestAudit), so that what an overlapping one repeats
\* would be taken again.
OfTheLog(env) ==
    Valid(env) /\ env.type = "audit_batch" =>
        /\ env.to \in Nat \ {0} /\ env.events \in Seq(EventType)
        /\ \A i \in 1 .. Len(env.events) : env.events[i].seq \in 2 * env.to - 1 .. 2 * env.to
        /\ \A i, j \in 1 .. Len(env.events) : i < j => env.events[i].seq < env.events[j].seq

ASSUME OthersAssumption ==
    \A body \in OtherPosts :
        /\ Len(body) \in Nat /\ DOMAIN body = 1 .. Len(body)
        /\ \A i \in 1 .. Len(body) : OfTheLog(body[i])

-----------------------------------------------------------------------------
(* The node's view *)

Never == 0

NewView ==
    [known |-> FALSE, first |-> Never, last |-> Never, reported |-> 0, cursor |-> 0,
     stored |-> 0, window |-> <<>>, gaps |-> 0, duplicates |-> 0]

FirstSeen(v, recv) == IF v.first = Never THEN recv ELSE v.first
\* A mutant of Raised: only a status is a sign of life.
Raised_Not(v, recv) == v.last
Raised(v, recv) == IF recv > v.last THEN recv ELSE v.last

\* applyStatus: also the time of a request that is overtaken by a later one.
ApplyStatus(v, recv, env) ==
    [v EXCEPT !.known = TRUE, !.first = FirstSeen(v, recv), !.last = recv,
              !.reported = env.reported]

\* applyAuditRetention: how many of the oldest events go.
Excess(all) == IF Len(all) > Retention THEN Len(all) - Retention ELSE 0

Gaps(v, all) == IF Excess(all) > 0 THEN v.gaps + 1 ELSE v.gaps

\* StoredAudit.
Stored(ev, recv) ==
    [seq |-> ev.seq, recv |-> recv, ts |-> ev.ts, session |-> ev.session, run |-> ev.run,
     kind |-> ev.kind]

\* applyAudit, for a range that is new.
ApplyAudit(v, recv, env) ==
    LET all == v.window \o [i \in DOMAIN env.events |-> Stored(env.events[i], recv)]
    IN  [v EXCEPT !.known = TRUE, !.first = FirstSeen(v, recv), !.last = Raised(v, recv),
                  !.cursor = env.to, !.stored = @ + Len(env.events),
                  !.window = SubSeq(all, Excess(all) + 1, Len(all)),
                  !.gaps = Gaps(v, all)]

\* applyJobEvent, for a job the center does not know.
ApplyJobEvent(v, recv) == [v EXCEPT !.known = TRUE, !.last = Raised(v, recv)]

IsDuplicate(v, env) == env.type = "audit_batch" /\ ~After(env.to, v.cursor)

Applied(v, recv, env) ==
    CASE env.type = "status" -> ApplyStatus(v, recv, env)
      [] env.type = "audit_batch" -> ApplyAudit(v, recv, env)
      [] OTHER -> ApplyJobEvent(v, recv)

-----------------------------------------------------------------------------
(* The simulated edge and the network *)

NewEdge == [next |-> "beat", to |-> 0, total |-> 0]

Post(body) ==
    /\ sent < MaxPosts
    /\ sent' = sent + 1
    /\ net' = net \cup {[id |-> sent, body |-> body]}

\* heartbeat counts eight more events, whether or not the last one arrived.
Beat ==
    /\ edge.next = "beat"
    /\ edge' = [edge EXCEPT !.next = "ship", !.total = @ + 8]
    /\ Post(<<Status(Node, edge.total + 8)>>)
    /\ UNCHANGED <<now, center, page>>

\* The two events of a range, stamped with the edge's clock.
TwoEvents(to, t, u) ==
    Batch(Node, to, to + 1, <<Event(2 * to + 1, t, <<"sess-demo">>, "run"),
                              Event(2 * to + 2, u, <<"sess-demo">>, "final")>>)

\* shipAudit moves the cursor before it posts.
Ship ==
    /\ edge.next = "ship"
    /\ edge' = [edge EXCEPT !.next = "beat", !.to = @ + 1]
    /\ \E t, u \in EdgeTimes : Post(<<TwoEvents(edge.to, t, u)>>)
    /\ UNCHANGED <<now, center, page>>

\* The edge keeps nothing on disk.
EdgeRestart ==
    /\ edge # NewEdge
    /\ edge' = NewEdge
    /\ UNCHANGED <<now, net, sent, center, page>>

PostOther ==
    /\ \E body \in OtherPosts : Post(body)
    /\ UNCHANGED <<now, edge, center, page>>

-----------------------------------------------------------------------------
(* handleTelemetry *)

Idle == [stage |-> "idle", recv |-> Never, body |-> <<>>, done |-> 0]

\* The clock is read before the body.
Receive(h) ==
    /\ handler[h] = Idle
    /\ \E p \in net :
          /\ net' = net \ {p}
          /\ handler' = [handler EXCEPT ![h] =
                            [stage |-> "reading", recv |-> now, body |-> p.body, done |-> 0]]
    /\ UNCHANGED <<now, edge, sent, view, recorded, page>>

\* What the handler decodes before it applies the first envelope.
Checked_First(body) == body # <<>> /\ Valid(body[1])   \* a mutant: the others as it comes to them
Checked(body) == body # <<>> /\ \A i \in DOMAIN body : Valid(body[i])

\* The whole body is decoded and validated, or the request is refused.
Decode(h) ==
    /\ handler[h].stage = "reading"
    /\ handler' = [handler EXCEPT ![h] =
                      IF Checked(@.body) THEN [@ EXCEPT !.stage = "applying"] ELSE Idle]
    /\ UNCHANGED <<now, client, view, recorded, page>>

HasNext(h) == handler[h].stage = "applying" /\ handler[h].done < Len(handler[h].body)
NextEnvelope(h) == handler[h].body[handler[h].done + 1]

\* IngestAudit's answer to a range it has: counted in memory only.
Duplicate(h) ==
    /\ HasNext(h) /\ IsDuplicate(view, NextEnvelope(h))
    /\ view' = [view EXCEPT !.duplicates = @ + 1]
    /\ handler' = [handler EXCEPT ![h].done = @ + 1]
    /\ UNCHANGED <<now, client, recorded, page>>

\* UpsertStatus, IngestAudit of a new range, RecordJobEvent.
Apply(h) ==
    /\ HasNext(h) /\ ~IsDuplicate(view, NextEnvelope(h))
    /\ view' = Applied(view, handler[h].recv, NextEnvelope(h))
    /\ recorded' = recorded \cup {[body |-> handler[h].body, recv |-> handler[h].recv]}
    /\ handler' = [handler EXCEPT ![h].done = @ + 1]
    /\ UNCHANGED <<now, client, page>>

\* persist returns an error: 500, and the rest of the body is dropped.
\* IngestAudit has entered the node in the index by then.
ApplyFails(h) ==
    /\ WritesFail
    /\ HasNext(h) /\ ~IsDuplicate(view, NextEnvelope(h))
    /\ view' = [view EXCEPT !.known = @ \/ NextEnvelope(h).type = "audit_batch"]
    /\ handler' = [handler EXCEPT ![h] = Idle]
    /\ UNCHANGED <<now, client, recorded, page>>

Reply(h) ==
    /\ handler[h].stage = "applying" /\ ~HasNext(h)
    /\ handler' = [handler EXCEPT ![h] = Idle]
    /\ UNCHANGED <<now, client, view, recorded, page>>

-----------------------------------------------------------------------------
(* Pages *)

\* The calls of handleFleet (one row), handleNode and handleAPINode that read
\* the store or the clock, in their order; without the second look at all nodes,
\* from which the last two take the version to compare with.
\* A mutant of Reads: the lists are read before the node.
Reads_ListsFirst(kind) ==
    CASE kind = "fleet" -> <<"node", "online", "signals">>
      [] kind = "html" -> <<"timelines", "events", "node", "signals", "online">>
      [] kind = "api" -> <<"node", "online", "signals", "events", "timelines">>
\* A mutant of Reads: the node page asks for the badge first, as the others do.
Reads_BadgeFirst(kind) ==
    CASE kind = "fleet" -> <<"node", "online", "signals">>
      [] kind = "html" -> <<"node", "online", "signals", "timelines", "events">>
      [] kind = "api" -> <<"node", "online", "signals", "events", "timelines">>
Reads(kind) ==
    CASE kind = "fleet" -> <<"node", "online", "signals">>
      [] kind = "html" -> <<"node", "signals", "online", "timelines", "events">>
      [] kind = "api" -> <<"node", "online", "signals", "events", "timelines">>

Kinds == {"fleet", "html", "api"}

NoPage == [kind |-> "none", step |-> 0, node |-> NewView, signals |-> {}, online |-> FALSE,
           timelines |-> <<>>, events |-> <<>>]

Complete == page.kind # "none" /\ page.step = Len(Reads(page.kind))

\* A node the index does not have is in no list, and its page is a 404.
Ask ==
    /\ page = NoPage /\ view.known
    /\ \E kind \in Kinds : page' = [NoPage EXCEPT !.kind = kind]
    /\ UNCHANGED <<now, client, center>>

Read(what) ==
    CASE what = "node" -> [page EXCEPT !.node = view]
      [] what = "signals" -> [page EXCEPT !.signals = Signals(page.node, now, Stale)]
      [] what = "online" -> [page EXCEPT !.online = Online(page.node.last, now, Stale)]
      [] what = "timelines" -> [page EXCEPT !.timelines = AuditTimelines(view.window, TimelineLimit)]
      [] what = "events" -> [page EXCEPT !.events = AuditEvents(view.window, EventLimit)]

ReadNext ==
    /\ page.kind # "none" /\ ~Complete
    /\ page' = [Read(Reads(page.kind)[page.step + 1]) EXCEPT !.step = @ + 1]
    /\ UNCHANGED <<now, client, center>>

Show ==
    /\ Complete
    /\ page' = NoPage
    /\ UNCHANGED <<now, client, center>>

-----------------------------------------------------------------------------
\* No handler takes longer than MaxDelay.
Tick ==
    /\ now < MaxTime
    /\ \A h \in Handlers : handler[h].stage # "idle" => now < handler[h].recv + MaxDelay
    /\ now' = now + 1
    /\ UNCHANGED <<client, center, page>>

Init ==
    /\ now = 1 /\ edge = NewEdge /\ net = {} /\ sent = 0
    /\ handler = [h \in Handlers |-> Idle] /\ view = NewView /\ recorded = {}
    /\ page = NoPage

Next ==
    \/ Beat \/ Ship \/ EdgeRestart \/ PostOther \/ Tick
    \/ Ask \/ ReadNext \/ Show
    \/ \E h \in Handlers :
          Receive(h) \/ Decode(h) \/ Duplicate(h) \/ Apply(h) \/ ApplyFails(h) \/ Reply(h)

Spec == Init /\ [][Next]_vars

-----------------------------------------------------------------------------
(* Properties *)

\* A node's last-seen time is a time something of it was recorded, and, though
\* a status may move it backwards, never more than the length of one request
\* behind the latest: a node that is shown as stale has been silent for Stale
\* seconds, less MaxDelay.  Nothing but what is recorded moves it.
LastSeenIsRecent ==
    /\ \A x \in recorded : x.recv <= view.last + MaxDelay
    /\ recorded # {} => \E x \in recorded : x.recv = view.last

\* A body with one bad envelope leaves nothing behind, wherever in it the bad
\* one is, and whatever happens while the rest is applied.
BadBodiesLeaveNothing == \A x \in recorded : \A i \in DOMAIN x.body : Valid(x.body[i])

\* The window never holds an event twice, nor out of order, nor more than the
\* limit, also when the edge starts over, its posts overtake each other, or some
\* are lost.
WindowAscends ==
    /\ Len(view.window) <= Retention
    /\ \A i, j \in DOMAIN view.window : i < j => view.window[i].seq < view.window[j].seq

Newest(window) == IF window = <<>> THEN 0 ELSE Last(window).seq

\* A list of timelines that the limit has not cut.
Uncut(timelines) == TimelineLimit = 0 \/ Len(timelines) < TimelineLimit

\* The lists of a page are never behind its header: the first event of the list
\* is the newest the header counts or a later one, and so is the last event of
\* one of the timelines.  A list of timelines that is cut may lack that one: they
\* are sorted by the edge's clock.
ListsReachHeader ==
    Complete /\ page.kind # "fleet" /\ page.node.window # <<>> =>
        /\ page.events # <<>> /\ Newest(page.node.window) <= page.events[1].seq
        /\ Uncut(page.timelines) =>
              \E i \in DOMAIN page.timelines :
                 Newest(page.node.window) <= page.timelines[i].lastSeq

\* The online badge and the health signals are computed from one copy of the
\* node at different times: the node page never shows "online" next to an
\* offline signal, and the fleet page and the API never show "stale" without.
BadgeAgrees ==
    Complete =>
        IF page.kind = "html" THEN page.online => "offline" \notin page.signals
                              ELSE ~page.online => "offline" \in page.signals
=============================================================================
