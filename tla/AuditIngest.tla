---------------------------- MODULE AuditIngest ----------------------------
(***************************************************************************)
(* Audit shipping: an edge reads its local audit log in byte ranges and    *)
(* posts them to POST /telemetry; the handler (internal/center) gives them *)
(* one by one to IngestAudit (internal/store), which drops what it already *)
(* has, writes the rest to the log, keeps a bounded window of it in memory *)
(* and answers with its cursor; the edge moves on when it sees the answer. *)
(*                                                                         *)
(* One byte of an edge's file stands for one event.  A file is one         *)
(* rotation generation.  The edge is the environment: it repeats a post,   *)
(* with the same ranges, until an answer covers it.  The network loses,    *)
(* delays, repeats and reorders posts and answers: both stay available     *)
(* for ever and need never arrive.                                         *)
(***************************************************************************)
EXTENDS Naturals, Sequences, FiniteSets, SequencesExt

CONSTANTS
    Nodes,
    Handlers,         \* the goroutines that can serve telemetry at a time
    Retention,        \* Options.AuditRetentionEvents
    MaxGen,           \* bound on rotations of an edge's log
    MaxBytes,         \* bound on the bytes of one generation
    MaxRanges,        \* bound on the audit batches in one post
    MaxCrashes,       \* bound on crashes of the center
    MaxSyncFailures,  \* bound on fsyncs that fail
    WritesFail        \* TRUE: a write to the log may fail

ASSUME AuditAssumption ==
    /\ Retention \in Nat \ {0}
    /\ MaxGen \in Nat \ {0} /\ MaxBytes \in Nat \ {0} /\ MaxRanges \in Nat \ {0}
    /\ MaxCrashes \in Nat /\ MaxSyncFailures \in Nat
    /\ WritesFail \in BOOLEAN

VARIABLES
    files,        \* the edges' logs: the length of each generation
    pos,          \* the edges' cursors: all before is shipped
    post,         \* the ranges an edge wants an answer for
    posts,        \* every post that was ever sent
    acks,         \* every answer that was ever written
    handler,      \* what each goroutine has left to do
    view,         \* the nodes' audit state in memory
    log,          \* the audit records in the center's log
    up,           \* the center is running
    broken,       \* the log's bufio.Writer holds a write error
    crashes, syncFailures

edges == <<files, pos, post>>
network == <<posts, acks>>
center == <<handler, view, log, up, broken>>
vars == <<edges, network, center, crashes, syncFailures>>

-----------------------------------------------------------------------------
(* Cursors, ranges and the audit state of a node *)

Cursor(gen, byte) == [gen |-> gen, byte |-> byte]
ByteRange(gen, from, to) == [gen |-> gen, from |-> from, to |-> to]
EndOf(r) == Cursor(r.gen, r.to)

\* Cursor.After: the order of (file_gen, byte_to).
After_BytesOnly(c, d) == c.byte > d.byte   \* a mutant: rotation is ignored
After_OrEqual(c, d) == c.gen > d.gen \/ (c.gen = d.gen /\ c.byte >= d.byte)   \* a mutant
After(c, d) == c.gen > d.gen \/ (c.gen = d.gen /\ c.byte > d.byte)

Events(r) == [i \in 1 .. r.to - r.from |-> Cursor(r.gen, r.from + i)]

EmptyView == [cursor |-> Cursor(0, 0), window |-> <<>>, stored |-> 0, dropped |-> 0, gaps |-> 0]

\* applyAuditRetention: the window keeps the newest events.
Retain_Oldest(v) ==   \* a mutant: the window keeps the oldest events
    IF Len(v.window) <= Retention THEN v
    ELSE [v EXCEPT !.window = SubSeq(@, 1, Retention),
                   !.dropped = @ + (Len(v.window) - Retention), !.gaps = @ + 1]
Retain(v) ==
    IF Len(v.window) <= Retention THEN v
    ELSE [v EXCEPT !.window = SubSeq(@, Len(@) - Retention + 1, Len(@)),
                   !.dropped = @ + (Len(v.window) - Retention), !.gaps = @ + 1]

\* applyAudit: a range that is not after the cursor is a no-op.
ApplyAudit(v, r) ==
    IF ~After(EndOf(r), v.cursor) THEN v
    ELSE Retain([v EXCEPT !.window = @ \o Events(r), !.cursor = EndOf(r),
                          !.stored = @ + (r.to - r.from)])

\* replay, record by record.
Replays(records) ==
    LET after[i \in 0 .. Len(records)] ==
            IF i = 0 THEN EmptyView ELSE ApplyAudit(after[i - 1], records[i])
    IN  after
Replay(records) == Replays(records)[Len(records)]

-----------------------------------------------------------------------------
(* The edge *)

\* Position c of an edge's log is behind position d.
Behind(c, d) == c.gen < d.gen \/ (c.gen = d.gen /\ c.byte < d.byte)

Grow(n) ==
    /\ Last(files[n]) < MaxBytes
    /\ files' = [files EXCEPT ![n][Len(files[n])] = @ + 1]
    /\ UNCHANGED <<pos, post, network, center, crashes, syncFailures>>

Rotate(n) ==
    /\ Len(files[n]) < MaxGen /\ Last(files[n]) > 0
    /\ files' = [files EXCEPT ![n] = Append(@, 0)]
    /\ UNCHANGED <<pos, post, network, center, crashes, syncFailures>>

\* The ranges an edge can read at cursor c: up to anywhere in the same
\* generation, or from the start of the next one when that is exhausted.
RangesAt(n, c) ==
    IF c.byte < files[n][c.gen]
    THEN {ByteRange(c.gen, c.byte, to) : to \in c.byte + 1 .. files[n][c.gen]}
    ELSE IF c.gen < Len(files[n])
         THEN {ByteRange(c.gen + 1, 0, to) : to \in 1 .. files[n][c.gen + 1]}
         ELSE {}

\* The posts an edge can make: one or more ranges, each where the last ended.
PostsAt(n, c) ==
    LET one == {<<r>> : r \in RangesAt(n, c)}
        two == UNION {{<<rs[1], r>> : r \in RangesAt(n, EndOf(rs[1]))} : rs \in one}
    IN  one \cup IF MaxRanges > 1 THEN two ELSE {}

Send(n) ==
    /\ post[n] = <<>>
    /\ \E rs \in PostsAt(n, pos[n]) :
          /\ post' = [post EXCEPT ![n] = rs]
          /\ posts' = posts \cup {[node |-> n, ranges |-> rs]}
    /\ UNCHANGED <<files, pos, acks, center, crashes, syncFailures>>

\* An answer arrives: the edge moves its cursor to the center's.
HearAck(a) ==
    /\ a \in acks
    /\ Behind(pos[a.node], a.cursor)
    /\ pos' = [pos EXCEPT ![a.node] = a.cursor]
    /\ post' = [post EXCEPT ![a.node] =
                   IF @ # <<>> /\ Behind(a.cursor, EndOf(Last(@))) THEN @ ELSE <<>>]
    /\ UNCHANGED <<files, network, center, crashes, syncFailures>>

-----------------------------------------------------------------------------
(* The center: handleTelemetry and IngestAudit *)

Free == [busy |-> FALSE, node |-> CHOOSE n \in Nodes : TRUE, todo |-> <<>>,
         cursor |-> Cursor(0, 0)]

Die ==
    /\ crashes < MaxCrashes
    /\ up' = FALSE /\ broken' = FALSE
    /\ view' = [n \in Nodes |-> EmptyView]
    /\ handler' = [h \in Handlers |-> Free]
    /\ crashes' = crashes + 1

\* A post is parsed and validated as a whole before any of it is applied.
Receive(h, p) ==
    /\ up /\ ~handler[h].busy /\ p \in posts
    /\ handler' = [handler EXCEPT ![h] =
                      [busy |-> TRUE, node |-> p.node, todo |-> p.ranges,
                       cursor |-> Cursor(0, 0)]]
    /\ UNCHANGED <<edges, network, view, log, up, broken, crashes, syncFailures>>

Serving(h) == up /\ handler[h].busy /\ handler[h].todo # <<>>

IsNew(h) == After(EndOf(Head(handler[h].todo)), view[handler[h].node].cursor)

\* The handler goes on with the cursor that IngestAudit returned.
Advance(h, cursor) ==
    handler' = [handler EXCEPT ![h].todo = Tail(@), ![h].cursor = cursor]

Fail(h) == handler' = [handler EXCEPT ![h] = Free]

\* A mutant of Logged: nothing is written.
Logged_Nothing(n, r) == log
Logged(n, r) == [log EXCEPT ![n] = Append(@, r)]

IngestDuplicate(h) ==
    /\ Serving(h) /\ ~IsNew(h)
    /\ Advance(h, view[handler[h].node].cursor)
    /\ UNCHANGED <<edges, network, view, log, up, broken, crashes, syncFailures>>

IngestNew(h) ==
    /\ Serving(h) /\ IsNew(h) /\ ~broken
    /\ LET n == handler[h].node
           r == Head(handler[h].todo)
       IN  /\ log' = Logged(n, r)
           /\ view' = [view EXCEPT ![n] = ApplyAudit(@, r)]
           /\ Advance(h, EndOf(r))
    /\ UNCHANGED <<edges, network, up, broken, crashes, syncFailures>>

\* Sync fails: 500.  What was applied before stays, and the record that was
\* not applied is in the log.
IngestUnsynced(h) ==
    /\ Serving(h) /\ IsNew(h) /\ ~broken
    /\ syncFailures < MaxSyncFailures
    /\ syncFailures' = syncFailures + 1
    /\ log' = Logged(handler[h].node, Head(handler[h].todo))
    /\ Fail(h)
    /\ UNCHANGED <<edges, network, view, up, broken, crashes>>

\* Write or Flush fails: 500, and bufio refuses every write from then on.
IngestFails(h) ==
    /\ Serving(h) /\ IsNew(h)
    /\ broken \/ WritesFail
    /\ broken' = TRUE
    /\ Fail(h)
    /\ UNCHANGED <<edges, network, view, log, up, crashes, syncFailures>>

\* The process dies when the record is written and nobody was answered.
IngestKilled(h) ==
    /\ Serving(h) /\ IsNew(h) /\ ~broken
    /\ log' = Logged(handler[h].node, Head(handler[h].todo))
    /\ Die
    /\ UNCHANGED <<edges, network, syncFailures>>

Reply(h) ==
    /\ up /\ handler[h].busy /\ handler[h].todo = <<>>
    /\ acks' = acks \cup {[node |-> handler[h].node, cursor |-> handler[h].cursor]}
    /\ handler' = [handler EXCEPT ![h] = Free]
    /\ UNCHANGED <<edges, posts, view, log, up, broken, crashes, syncFailures>>

Crash ==
    /\ up /\ Die
    /\ UNCHANGED <<edges, network, log, syncFailures>>

Restart ==
    /\ ~up
    /\ up' = TRUE
    /\ view' = [n \in Nodes |-> Replay(log[n])]
    /\ UNCHANGED <<edges, network, handler, log, broken, crashes, syncFailures>>

-----------------------------------------------------------------------------
Init ==
    /\ files = [n \in Nodes |-> <<0>>]
    /\ pos = [n \in Nodes |-> Cursor(1, 0)]
    /\ post = [n \in Nodes |-> <<>>]
    /\ posts = {} /\ acks = {}
    /\ handler = [h \in Handlers |-> Free]
    /\ view = [n \in Nodes |-> EmptyView]
    /\ log = [n \in Nodes |-> <<>>]
    /\ up = TRUE /\ broken = FALSE
    /\ crashes = 0 /\ syncFailures = 0

Handle(h) == IngestDuplicate(h) \/ IngestNew(h) \/ Reply(h)

Next ==
    \/ \E n \in Nodes : Grow(n) \/ Rotate(n) \/ Send(n)
    \/ \E a \in acks : HearAck(a)
    \/ \E h \in Handlers :
          \/ \E p \in posts : Receive(h, p)
          \/ Handle(h) \/ IngestUnsynced(h) \/ IngestFails(h) \/ IngestKilled(h)
    \/ Crash
    \/ Restart

Spec == Init /\ [][Next]_vars

\* The center is restarted and its goroutines run on; the edge ships what it
\* has and hears answers; a post repeated for ever is received in the end.
Fairness ==
    /\ WF_vars(Restart)
    /\ \A h \in Handlers : WF_vars(Handle(h))
    /\ \A n \in Nodes :
          /\ WF_vars(Send(n))
          /\ WF_vars(\E a \in acks : a.node = n /\ HearAck(a))
          /\ SF_vars(\E h \in Handlers, p \in posts :
                        p.node = n /\ p.ranges = post[n] /\ Receive(h, p))

FairSpec == Spec /\ Fairness

-----------------------------------------------------------------------------
(* Properties *)

\* The events in an edge's file.  Behind is their order.
Stream(file) == UNION {{Cursor(g, b) : b \in 1 .. file[g]} : g \in DOMAIN file}

UpTo(file, c) == {e \in Stream(file) : ~Behind(c, e)}

\* The events of a range.
Span(r) == {Cursor(r.gen, b) : b \in r.from + 1 .. r.to}

\* The records replay takes: those that end after all the records before them,
\* and what is stored with them.
Taken(records) ==
    {i \in DOMAIN records : \A k \in 1 .. i - 1 : After(EndOf(records[i]), EndOf(records[k]))}

Stored(records) == [i \in Taken(records) |-> Span(records[i])]

\* Every cursor the center has ever answered with is one it holds, also after
\* it crashed and replayed its log, and every event up to it is in a record that
\* replay takes: an edge may forget what was acknowledged.  What replay takes
\* is in order, so that no event is in it twice, and nothing else is.
AckIsHeld ==
    /\ \A a \in acks :
          /\ up => ~Behind(view[a.node].cursor, a.cursor)
          /\ \A e \in UpTo(files[a.node], a.cursor) :
                \E i \in Taken(log[a.node]) : e \in Stored(log[a.node])[i]
    /\ \A n \in Nodes : \A k \in Taken(log[n]) :
          /\ Stored(log[n])[k] \subseteq Stream(files[n])
          /\ \A i \in Taken(log[n]) : i < k =>
                \A d \in Stored(log[n])[i], e \in Stored(log[n])[k] : Behind(d, e)

\* The window is the newest part of what the node shipped up to the cursor, in
\* order, without a hole and within the limit, and the counters account for the
\* rest: what is stored is what is retained plus what was dropped, and a gap is
\* reported exactly when something was dropped.
IsNewestOf(v, all) ==
    /\ Len(v.window) <= Retention
    /\ \A i, k \in DOMAIN v.window : i < k => Behind(v.window[i], v.window[k])
    /\ Range(v.window) \subseteq all
    /\ \A e \in all \ Range(v.window), i \in DOMAIN v.window : Behind(e, v.window[i])
    /\ v.stored = Cardinality(all)
    /\ v.stored = Len(v.window) + v.dropped
    /\ v.gaps > 0 <=> v.dropped > 0

WindowIsSuffix == \A n \in Nodes : IsNewestOf(view[n], UpTo(files[n], view[n].cursor))

\* Event b of generation g exists.
Written(n, g, b) == g \in DOMAIN files[n] /\ b <= files[n][g]

\* Every event an edge writes is stored and acknowledged in the end, unless a
\* write to the log fails: then nothing is stored until the center is restarted.
AllShipped ==
    \A n \in Nodes, g \in 1 .. MaxGen, b \in 1 .. MaxBytes :
        Written(n, g, b) ~> (broken \/ ~Behind(pos[n], Cursor(g, b)))

\* Shipping keeps the promises of AuditDelivery: nothing an edge has moved past
\* is missing from the log, and nothing is in it twice or out of order.
Delivery == INSTANCE AuditDelivery WITH
    stream <- [n \in Nodes |-> Stream(files[n])],
    stored <- [n \in Nodes |-> Stored(log[n])],
    forgotten <- [n \in Nodes |-> UpTo(files[n], pos[n])]

ImplementsDelivery == Delivery!Spec
=============================================================================
