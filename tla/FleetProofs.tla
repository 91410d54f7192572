---------------------------- MODULE FleetProofs ----------------------------
(***************************************************************************)
(* Theorems about what operators see of a node, for any number of          *)
(* goroutines, any bodies that other programs send, and any limits; and    *)
(* about what Views makes of it, for any window and any versions.          *)
(***************************************************************************)
EXTENDS MCFleet, SequenceTheorems, FiniteSetTheorems, WellFoundedInduction, TLAPS

\* The bodies that can be on their way to the center.
Bodies ==
    OtherPosts \cup {<<>>}
    \cup {<<Status(Node, n)>> : n \in Nat}
    \cup {<<TwoEvents(n, t, u)>> : n \in Nat, t \in EdgeTimes, u \in EdgeTimes}

\* A handler holds the time of a moment not longer ago than MaxDelay, and it
\* applies only bodies it has checked.
Timely ==
    /\ now \in Nat \ {0}
    /\ edge \in [next : {"beat", "ship"}, to : Nat, total : Nat]
    /\ sent \in Nat /\ net \subseteq [id : Nat, body : Bodies]
    /\ handler \in [Handlers -> [stage : {"idle", "reading", "applying"}, recv : Nat,
                                 body : Bodies, done : Nat]]
    /\ \A h \in Handlers : handler[h].stage # "idle" =>
          handler[h].recv \in 1 .. now /\ now <= handler[h].recv + MaxDelay
    /\ \A h \in Handlers : handler[h].stage = "applying" => Checked(handler[h].body)

\* What the log holds is past, and the view agrees with it.
Heard ==
    /\ DOMAIN view = DOMAIN NewView /\ view.last \in Nat
    /\ \A x \in recorded : x.recv \in 1 .. now
    /\ recorded = {} => view.last = Never

\* The badge of a page that is being made, against the clock.
Badge ==
    /\ DOMAIN page = DOMAIN NoPage
    /\ page.kind \in Kinds \cup {"none"} /\ page.step \in Nat
    /\ page.node.last \in Nat
    /\ page.kind \in Kinds => page.step <= (IF page.kind = "fleet" THEN 3 ELSE 5)
    /\ page.kind = "html" =>
          /\ page.step >= 2 /\ "offline" \in page.signals => ~Online(page.node.last, now, Stale)
          /\ page.step >= 3 /\ page.online => "offline" \notin page.signals
    /\ page.kind \in {"fleet", "api"} =>
          /\ page.step >= 2 /\ ~page.online => ~Online(page.node.last, now, Stale)
          /\ page.step >= 3 /\ ~page.online => "offline" \in page.signals

Inv == Timely /\ Heard /\ LastSeenIsRecent /\ BadBodiesLeaveNothing /\ Badge

-----------------------------------------------------------------------------
(* Lemmas about operators *)

\* What applying an envelope does to the last-seen time.
LEMMA AppliedLast ==
    ASSUME NEW v, NEW recv \in Nat, NEW env, DOMAIN v = DOMAIN NewView, v.last \in Nat
    PROVE  /\ DOMAIN Applied(v, recv, env) = DOMAIN NewView
           /\ \/ Applied(v, recv, env).last = recv
              \/ v.last >= recv /\ Applied(v, recv, env).last = v.last
  <1>1. CASE env.type = "status"
    BY <1>1 DEF Applied, ApplyStatus, NewView
  <1>2. CASE env.type = "audit_batch"
    <2> DEFINE new == ApplyAudit(v, recv, env)
    <2>1. DOMAIN new = DOMAIN NewView /\ new.last = Raised(v, recv)
      BY DEF ApplyAudit, NewView
    <2>2. Applied(v, recv, env) = new
      BY <1>2 DEF Applied
    <2> QED
      BY <2>1, <2>2 DEF Raised
  <1>3. CASE env.type \notin {"status", "audit_batch"}
    <2>1. Applied(v, recv, env) = ApplyJobEvent(v, recv)
      BY <1>3 DEF Applied
    <2> QED
      BY <2>1 DEF ApplyJobEvent, Raised, NewView
  <1> QED
    BY <1>1, <1>2, <1>3

\* The offline signal is the negation of Online at the time it is computed.
LEMMA OfflineSignal ==
    ASSUME NEW v, NEW t
    PROVE  "offline" \in Signals(v, t, Stale) <=> ~Online(v.last, t, Stale)
  BY DEF Signals

\* A node that is offline stays so, for the copy a page has of it.
LEMMA OfflineStays ==
    ASSUME NEW last \in Nat, NEW t \in Nat, ~Online(last, t, Stale)
    PROVE  ~Online(last, t + 1, Stale)
  BY FleetAssumption DEF Online

-----------------------------------------------------------------------------
(* The invariant holds at first *)

LEMMA InitInv == Init => Inv
  <1> SUFFICES ASSUME Init PROVE Inv
    OBVIOUS
  <1>1. Timely
    <2>1. Idle \in [stage : {"idle", "reading", "applying"}, recv : Nat, body : Bodies, done : Nat]
      BY DEF Idle, Never, Bodies
    <2>2. handler \in [Handlers -> [stage : {"idle", "reading", "applying"}, recv : Nat,
                                    body : Bodies, done : Nat]]
      BY <2>1 DEF Init
    <2>3. \A h \in Handlers : handler[h].stage = "idle"
      BY DEF Init, Idle
    <2> QED
      BY <2>2, <2>3 DEF Init, Timely, NewEdge
  <1>2. Heard
    BY DEF Init, Heard, NewView, Never
  <1>3. LastSeenIsRecent /\ BadBodiesLeaveNothing
    BY DEF Init, LastSeenIsRecent, BadBodiesLeaveNothing
  <1>4. Badge
    BY DEF Init, Badge, NoPage, Kinds, NewView, Never
  <1> QED
    BY <1>1, <1>2, <1>3, <1>4 DEF Inv

-----------------------------------------------------------------------------
(* The clock, the edge and the network *)

LEMMA TickKeeps == ASSUME Inv, Tick PROVE Inv'
  <1> USE DEF client, center
  <1>1. now \in Nat \ {0} /\ now' = now + 1
    BY DEF Inv, Timely, Tick
  <1>2. Timely'
    <2>1. ASSUME NEW h \in Handlers, handler[h].stage # "idle"
          PROVE  handler[h].recv \in 1 .. now' /\ now' <= handler[h].recv + MaxDelay
      BY <1>1, <2>1, FleetAssumption DEF Inv, Timely, Tick
    <2> QED
      BY <1>1, <2>1 DEF Inv, Timely, Tick
  <1>3. Heard'
    BY <1>1 DEF Inv, Heard, Tick
  <1>4. LastSeenIsRecent' /\ BadBodiesLeaveNothing'
    BY DEF Inv, LastSeenIsRecent, BadBodiesLeaveNothing, Tick
  <1>5. Badge'
    <2>1. ~Online(page.node.last, now, Stale) => ~Online(page.node.last, now', Stale)
      BY <1>1, OfflineStays DEF Inv, Badge
    <2> QED
      BY <2>1 DEF Inv, Badge, Tick
  <1> QED
    BY <1>2, <1>3, <1>4, <1>5 DEF Inv

LEMMA PostKeeps ==
    ASSUME Inv, NEW body \in Bodies, Post(body),
           edge' \in [next : {"beat", "ship"}, to : Nat, total : Nat],
           UNCHANGED <<now, center, page>>
    PROVE  Inv'
  <1>1. sent' \in Nat /\ net' \subseteq [id : Nat, body : Bodies]
    BY DEF Inv, Timely, Post
  <1> QED
    BY <1>1 DEF Inv, Timely, Heard, LastSeenIsRecent, BadBodiesLeaveNothing, Badge, center

LEMMA EdgeKeeps ==
    ASSUME Inv, Beat \/ Ship \/ EdgeRestart \/ PostOther
    PROVE  Inv'
  <1>1. CASE Beat
    <2>1. /\ edge \in [next : {"beat", "ship"}, to : Nat, total : Nat]
          /\ edge' = [edge EXCEPT !.next = "ship", !.total = @ + 8]
      BY <1>1 DEF Inv, Timely, Beat
    <2>2. edge' = [next |-> "ship", to |-> edge.to, total |-> edge.total + 8]
      BY <2>1
    <2>3. /\ edge.to \in Nat /\ edge.total \in Nat
          /\ edge' \in [next : {"beat", "ship"}, to : Nat, total : Nat]
      <3>1. edge.to \in Nat /\ edge.total \in Nat /\ edge.to + 1 \in Nat /\ edge.total + 8 \in Nat
        BY <2>1
      <3> QED
        BY <2>2, <3>1
    <2>4. <<Status(Node, edge.total + 8)>> \in Bodies
      <3>1. edge.total + 8 \in Nat
        BY <2>3
      <3> QED
        BY <3>1 DEF Bodies
    <2> QED
      BY <1>1, <2>3, <2>4, PostKeeps DEF Beat
  <1>2. CASE Ship
    <2>1. /\ edge \in [next : {"beat", "ship"}, to : Nat, total : Nat]
          /\ edge' = [edge EXCEPT !.next = "beat", !.to = @ + 1]
      BY <1>2 DEF Inv, Timely, Ship
    <2>2. edge' = [next |-> "beat", to |-> edge.to + 1, total |-> edge.total]
      BY <2>1
    <2>3. /\ edge.to \in Nat /\ edge.total \in Nat
          /\ edge' \in [next : {"beat", "ship"}, to : Nat, total : Nat]
      <3>1. edge.to \in Nat /\ edge.total \in Nat /\ edge.to + 1 \in Nat /\ edge.total + 8 \in Nat
        BY <2>1
      <3> QED
        BY <2>2, <3>1
    <2>4. PICK t \in EdgeTimes, u \in EdgeTimes : Post(<<TwoEvents(edge.to, t, u)>>)
      BY <1>2 DEF Ship
    <2>5. <<TwoEvents(edge.to, t, u)>> \in Bodies
      BY <2>3 DEF Bodies
    <2> QED
      BY <1>2, <2>3, <2>4, <2>5, PostKeeps DEF Ship
  <1>3. CASE EdgeRestart
    BY <1>3 DEF Inv, Timely, Heard, LastSeenIsRecent, BadBodiesLeaveNothing, Badge, center,
                EdgeRestart, NewEdge
  <1>4. CASE PostOther
    <2>1. PICK body \in OtherPosts : Post(body)
      BY <1>4 DEF PostOther
    <2>2. body \in Bodies
      BY DEF Bodies
    <2>3. edge' \in [next : {"beat", "ship"}, to : Nat, total : Nat]
      BY <1>4 DEF PostOther, Inv, Timely
    <2> QED
      BY <1>4, <2>1, <2>2, <2>3, PostKeeps DEF PostOther
  <1> QED
    BY <1>1, <1>2, <1>3, <1>4

-----------------------------------------------------------------------------
(* Pages *)

\* One read of a page, by what it is.
LEMMA ReadKeeps ==
    ASSUME Inv, NEW what \in {"node", "online", "signals", "events", "timelines"}, page.kind \in Kinds
    PROVE  LET new == [Read(what) EXCEPT !.step = @ + 1]
           IN  /\ DOMAIN new = DOMAIN NoPage
               /\ new.kind = page.kind /\ new.step = page.step + 1
               /\ new.node = IF what = "node" THEN view ELSE page.node
               /\ new.signals = IF what = "signals" THEN Signals(page.node, now, Stale)
                                ELSE page.signals
               /\ new.online = IF what = "online" THEN Online(page.node.last, now, Stale)
                               ELSE page.online
  <1> DOMAIN page = DOMAIN NoPage
    BY DEF Inv, Badge
  <1>1. CASE what = "node"
    BY <1>1 DEF Read, NoPage
  <1>2. CASE what = "online"
    BY <1>2 DEF Read, NoPage
  <1>3. CASE what = "signals"
    BY <1>3 DEF Read, NoPage
  <1>4. CASE what = "events"
    BY <1>4 DEF Read, NoPage
  <1>5. CASE what = "timelines"
    BY <1>5 DEF Read, NoPage
  <1> QED
    BY <1>1, <1>2, <1>3, <1>4, <1>5

\* The pages that ask for the badge first.
LEMMA BadgeFirst ==
    ASSUME Inv, UNCHANGED now, page.kind \in {"fleet", "api"},
           page.step < (IF page.kind = "fleet" THEN 3 ELSE 5),
           NEW what \in {"node", "online", "signals", "events", "timelines"},
           what = "node" <=> page.step = 0,
           what = "online" <=> page.step = 1,
           what = "signals" <=> page.step = 2,
           page' = [Read(what) EXCEPT !.step = @ + 1]
    PROVE  Badge'
  <1>1. /\ DOMAIN page' = DOMAIN NoPage
        /\ page'.kind = page.kind /\ page'.step = page.step + 1
        /\ page'.node = IF what = "node" THEN view ELSE page.node
        /\ page'.signals = IF what = "signals" THEN Signals(page.node, now, Stale)
                           ELSE page.signals
        /\ page'.online = IF what = "online" THEN Online(page.node.last, now, Stale)
                          ELSE page.online
    BY ReadKeeps DEF Kinds
  <1>2. /\ page'.kind \in {"fleet", "api"} /\ page'.step \in Nat
        /\ page'.step <= (IF page'.kind = "fleet" THEN 3 ELSE 5)
    BY <1>1 DEF Inv, Badge
  <1>3. page'.node.last \in Nat
    BY <1>1 DEF Inv, Badge, Heard
  <1>4. CASE page.step = 0
    BY <1>1, <1>2, <1>3, <1>4 DEF Badge, Kinds
  <1>5. CASE page.step = 1
    <2>1. ~page'.online => ~Online(page'.node.last, now', Stale)
      <3>1. page'.online = Online(page'.node.last, now', Stale)
        BY <1>1, <1>5
      <3> QED
        BY <3>1
    <2> QED
      BY <1>1, <1>2, <1>3, <1>5, <2>1 DEF Badge, Kinds
  <1>6. CASE page.step >= 2
    <2>1. ~page'.online => ~Online(page'.node.last, now', Stale)
      <3>1. ~page.online => ~Online(page.node.last, now, Stale)
        BY <1>6 DEF Inv, Badge
      <3>2. page'.online = page.online /\ page'.node = page.node
        BY <1>1, <1>6
      <3> QED
        BY <3>1, <3>2
    <2>2. ~page'.online => "offline" \in page'.signals
      <3>1. CASE page.step = 2
        <4>1. page'.signals = Signals(page'.node, now', Stale)
          BY <1>1, <3>1
        <4> QED
          BY <2>1, <4>1, OfflineSignal
      <3>2. CASE page.step >= 3
        <4>1. ~page.online => "offline" \in page.signals
          BY <3>2 DEF Inv, Badge
        <4>2. page'.online = page.online /\ page'.signals = page.signals
          BY <1>1, <3>2
        <4> QED
          BY <4>1, <4>2
      <3> QED
        BY <1>6, <3>1, <3>2 DEF Inv, Badge
    <2> QED
      BY <1>1, <1>2, <1>3, <2>1, <2>2 DEF Badge, Kinds
  <1> QED
    BY <1>4, <1>5, <1>6 DEF Inv, Badge

\* The page that computes the signals first.
LEMMA SignalsFirst ==
    ASSUME Inv, UNCHANGED now, page.kind = "html", page.step < 5,
           NEW what \in {"node", "online", "signals", "events", "timelines"},
           what = "node" <=> page.step = 0,
           what = "signals" <=> page.step = 1,
           what = "online" <=> page.step = 2,
           page' = [Read(what) EXCEPT !.step = @ + 1]
    PROVE  Badge'
  <1>1. /\ DOMAIN page' = DOMAIN NoPage
        /\ page'.kind = page.kind /\ page'.step = page.step + 1
        /\ page'.node = IF what = "node" THEN view ELSE page.node
        /\ page'.signals = IF what = "signals" THEN Signals(page.node, now, Stale)
                           ELSE page.signals
        /\ page'.online = IF what = "online" THEN Online(page.node.last, now, Stale)
                          ELSE page.online
    BY ReadKeeps DEF Kinds
  <1>2. page'.kind = "html" /\ page'.step \in Nat /\ page'.step <= 5
    BY <1>1 DEF Inv, Badge
  <1>3. page'.node.last \in Nat
    BY <1>1 DEF Inv, Badge, Heard
  <1>4. CASE page.step = 0
    BY <1>1, <1>2, <1>3, <1>4 DEF Badge, Kinds
  <1>5. CASE page.step = 1
    <2>1. "offline" \in page'.signals => ~Online(page'.node.last, now', Stale)
      <3>1. page'.signals = Signals(page'.node, now', Stale)
        BY <1>1, <1>5
      <3> QED
        BY <3>1, OfflineSignal
    <2> QED
      BY <1>1, <1>2, <1>3, <1>5, <2>1 DEF Badge, Kinds
  <1>6. CASE page.step >= 2
    <2>1. "offline" \in page'.signals => ~Online(page'.node.last, now', Stale)
      <3>1. "offline" \in page.signals => ~Online(page.node.last, now, Stale)
        BY <1>6 DEF Inv, Badge
      <3>2. page'.signals = page.signals /\ page'.node = page.node
        BY <1>1, <1>6
      <3> QED
        BY <3>1, <3>2
    <2>2. page'.online => "offline" \notin page'.signals
      <3>1. CASE page.step = 2
        <4>1. page'.online = Online(page'.node.last, now', Stale)
          BY <1>1, <3>1
        <4> QED
          BY <2>1, <4>1
      <3>2. CASE page.step >= 3
        <4>1. page.online => "offline" \notin page.signals
          BY <3>2 DEF Inv, Badge
        <4>2. page'.online = page.online /\ page'.signals = page.signals
          BY <1>1, <3>2
        <4> QED
          BY <4>1, <4>2
      <3> QED
        BY <1>6, <3>1, <3>2 DEF Inv, Badge
    <2> QED
      BY <1>1, <1>2, <1>3, <2>1, <2>2 DEF Badge, Kinds
  <1> QED
    BY <1>4, <1>5, <1>6 DEF Inv, Badge

LEMMA PageKeeps == ASSUME Inv, Ask \/ ReadNext \/ Show PROVE Inv'
  <1> USE DEF client, center
  <1>1. UNCHANGED <<now, client, center>>
    BY DEF Ask, ReadNext, Show
  <1>2. Badge'
    <2>1. CASE Ask
      <3>1. PICK kind \in Kinds : page' = [NoPage EXCEPT !.kind = kind]
        BY <2>1 DEF Ask
      <3> QED
        BY <3>1 DEF Badge, NoPage, Kinds, NewView, Never
    <2>2. CASE Show
      BY <2>2 DEF Show, Badge, NoPage, Kinds, NewView, Never
    <2>3. CASE ReadNext
      <3>1. /\ page' = [Read(Reads(page.kind)[page.step + 1]) EXCEPT !.step = @ + 1]
            /\ page.kind \in Kinds /\ page.step # Len(Reads(page.kind))
        BY <2>3 DEF ReadNext, Complete, Inv, Badge
      <3>2. CASE page.kind = "fleet"
        <4>1. Reads(page.kind) = <<"node", "online", "signals">>
          BY <3>2 DEF Reads
        <4>2. page.step \in 0 .. 2
          <5>1. Len(Reads(page.kind)) = 3
            BY <4>1
          <5>2. page.step \in Nat /\ page.step <= 3
            BY <3>1, <3>2 DEF Inv, Badge
          <5> QED
            BY <3>1, <5>1, <5>2
        <4> QED
          <5> DEFINE what == Reads(page.kind)[page.step + 1]
          <5>1. /\ what \in {"node", "online", "signals", "events", "timelines"}
                /\ what = "node" <=> page.step = 0
                /\ what = "online" <=> page.step = 1
                /\ what = "signals" <=> page.step = 2
            BY <4>1, <4>2
          <5>2. page' = [Read(what) EXCEPT !.step = @ + 1]
            BY <3>1
          <5> HIDE DEF what
          <5> QED
            BY <1>1, <3>2, <4>2, <5>1, <5>2, BadgeFirst
      <3>3. CASE page.kind = "api"
        <4>1. Reads(page.kind) = <<"node", "online", "signals", "events", "timelines">>
          BY <3>3 DEF Reads
        <4>2. page.step \in 0 .. 4
          <5>1. Len(Reads(page.kind)) = 5
            BY <4>1
          <5>2. page.step \in Nat /\ page.step <= 5
            BY <3>1, <3>3 DEF Inv, Badge
          <5> QED
            BY <3>1, <5>1, <5>2
        <4> QED
          <5> DEFINE what == Reads(page.kind)[page.step + 1]
          <5>1. /\ what \in {"node", "online", "signals", "events", "timelines"}
                /\ what = "node" <=> page.step = 0
                /\ what = "online" <=> page.step = 1
                /\ what = "signals" <=> page.step = 2
            BY <4>1, <4>2
          <5>2. page' = [Read(what) EXCEPT !.step = @ + 1]
            BY <3>1
          <5> HIDE DEF what
          <5> QED
            BY <1>1, <3>3, <4>2, <5>1, <5>2, BadgeFirst
      <3>4. CASE page.kind = "html"
        <4>1. Reads(page.kind) = <<"node", "signals", "online", "timelines", "events">>
          BY <3>4 DEF Reads
        <4>2. page.step \in 0 .. 4
          <5>1. Len(Reads(page.kind)) = 5
            BY <4>1
          <5>2. page.step \in Nat /\ page.step <= 5
            BY <3>1, <3>4 DEF Inv, Badge
          <5> QED
            BY <3>1, <5>1, <5>2
        <4> QED
          <5> DEFINE what == Reads(page.kind)[page.step + 1]
          <5>1. /\ what \in {"node", "online", "signals", "events", "timelines"}
                /\ what = "node" <=> page.step = 0
                /\ what = "online" <=> page.step = 2
                /\ what = "signals" <=> page.step = 1
            BY <4>1, <4>2
          <5>2. page' = [Read(what) EXCEPT !.step = @ + 1]
            BY <3>1
          <5> HIDE DEF what
          <5> QED
            BY <1>1, <3>4, <4>2, <5>1, <5>2, SignalsFirst
      <3> QED
        BY <3>1, <3>2, <3>3, <3>4 DEF Kinds
    <2> QED
      BY <2>1, <2>2, <2>3
  <1> QED
    BY <1>1, <1>2 DEF Inv, Timely, Heard, LastSeenIsRecent, BadBodiesLeaveNothing

-----------------------------------------------------------------------------
(* The telemetry handler *)

Handling ==
    [stage : {"idle", "reading", "applying"}, recv : Nat, body : Bodies, done : Nat]

\* What is left to show of a step of one handler that records nothing.
LEMMA HandlerKeeps ==
    ASSUME Inv, NEW h \in Handlers, NEW new \in Handling,
           handler' = [handler EXCEPT ![h] = new],
           new.stage # "idle" => new.recv \in 1 .. now /\ now <= new.recv + MaxDelay,
           new.stage = "applying" => Checked(new.body),
           net' \subseteq net, UNCHANGED <<now, edge, sent>>
    PROVE  Timely'
  <1>1. handler' \in [Handlers -> Handling]
    BY DEF Inv, Timely, Handling
  <1>2. \A k \in Handlers : handler'[k] = IF k = h THEN new ELSE handler[k]
    BY DEF Inv, Timely
  <1>3. /\ now' \in Nat \ {0} /\ sent' \in Nat
        /\ edge' \in [next : {"beat", "ship"}, to : Nat, total : Nat]
        /\ net' \subseteq [id : Nat, body : Bodies]
    BY DEF Inv, Timely
  <1>4. ASSUME NEW k \in Handlers
        PROVE  /\ handler'[k].stage # "idle" =>
                     handler'[k].recv \in 1 .. now' /\ now' <= handler'[k].recv + MaxDelay
               /\ handler'[k].stage = "applying" => Checked(handler'[k].body)
    <2>1. CASE k = h
      BY <1>2, <2>1
    <2>2. CASE k # h
      BY <1>2, <2>2 DEF Inv, Timely
    <2> QED
      BY <2>1, <2>2
  <1> QED
    BY <1>1, <1>3, <1>4 DEF Timely, Handling

LEMMA IdleHandling == Idle \in Handling /\ Idle.stage = "idle"
  BY DEF Idle, Handling, Bodies, Never

\* The steps that do not touch the view, and those that leave its times alone.
LEMMA QuietKeeps ==
    ASSUME Inv, NEW h \in Handlers,
           Receive(h) \/ Decode(h) \/ Duplicate(h) \/ ApplyFails(h) \/ Reply(h)
    PROVE  Inv'
  <1> USE DEF client
  <1>1. UNCHANGED <<now, edge, sent, recorded, page>> /\ net' \subseteq net
    BY DEF Receive, Decode, Duplicate, ApplyFails, Reply
  <1>2. DOMAIN view' = DOMAIN NewView /\ view'.last = view.last
    <2>1. CASE Duplicate(h)
      BY <2>1 DEF Duplicate, Inv, Heard, NewView
    <2>2. CASE ApplyFails(h)
      BY <2>2 DEF ApplyFails, Inv, Heard, NewView
    <2>3. CASE Receive(h) \/ Decode(h) \/ Reply(h)
      BY <2>3 DEF Receive, Decode, Reply, Inv, Heard
    <2> QED
      BY <2>1, <2>2, <2>3
  <1>3. /\ handler[h] \in Handling
        /\ handler[h].stage # "idle" =>
              handler[h].recv \in 1 .. now /\ now <= handler[h].recv + MaxDelay
        /\ handler[h].stage = "applying" => Checked(handler[h].body)
    BY DEF Inv, Timely, Handling
  <1>4. Timely'
    <2>1. CASE Receive(h)
      <3>1. PICK p \in net :
               handler' = [handler EXCEPT ![h] =
                              [stage |-> "reading", recv |-> now, body |-> p.body, done |-> 0]]
        BY <2>1 DEF Receive
      <3> DEFINE new == [stage |-> "reading", recv |-> now, body |-> p.body, done |-> 0]
      <3>2. p.body \in Bodies /\ now \in Nat \ {0}
        BY DEF Inv, Timely
      <3>3. /\ new \in Handling /\ new.stage = "reading"
            /\ new.recv \in 1 .. now /\ now <= new.recv + MaxDelay
        BY <3>2, FleetAssumption DEF Handling
      <3> HIDE DEF new
      <3> QED
        BY <1>1, <3>1, <3>3, HandlerKeeps DEF new
    <2>2. CASE Decode(h)
      <3>1. CASE Checked(handler[h].body)
        <4> DEFINE new == [handler[h] EXCEPT !.stage = "applying"]
        <4>1. handler' = [handler EXCEPT ![h] = new] /\ handler[h].stage = "reading"
          BY <2>2, <3>1 DEF Decode
        <4>2. /\ new \in Handling /\ new.body = handler[h].body /\ new.recv = handler[h].recv
          BY <1>3 DEF Handling
        <4> HIDE DEF new
        <4> QED
          BY <1>1, <1>3, <3>1, <4>1, <4>2, HandlerKeeps
      <3>2. CASE ~Checked(handler[h].body)
        <4>1. handler' = [handler EXCEPT ![h] = Idle]
          BY <2>2, <3>2 DEF Decode
        <4> QED
          BY <1>1, <4>1, IdleHandling, HandlerKeeps
      <3> QED
        BY <3>1, <3>2
    <2>3. CASE Duplicate(h)
      <3> DEFINE new == [handler[h] EXCEPT !.done = @ + 1]
      <3>1. handler' = [handler EXCEPT ![h] = new]
        BY <2>3 DEF Duplicate
      <3>2. /\ new \in Handling /\ new.body = handler[h].body /\ new.recv = handler[h].recv
            /\ new.stage = handler[h].stage
        BY <1>3 DEF Handling
      <3> HIDE DEF new
      <3> QED
        BY <1>1, <1>3, <3>1, <3>2, HandlerKeeps
    <2>4. CASE ApplyFails(h) \/ Reply(h)
      <3>1. handler' = [handler EXCEPT ![h] = Idle]
        BY <2>4 DEF ApplyFails, Reply
      <3> QED
        BY <1>1, <3>1, IdleHandling, HandlerKeeps
    <2> QED
      BY <2>1, <2>2, <2>3, <2>4
  <1> QED
    BY <1>1, <1>2, <1>4 DEF Inv, Heard, LastSeenIsRecent, BadBodiesLeaveNothing, Badge

\* An envelope is recorded: the times of all that is recorded are near the
\* last-seen time, and the one that is the last-seen time is among them.
LEMMA ApplyKeeps == ASSUME Inv, NEW h \in Handlers, Apply(h) PROVE Inv'
  <1> USE DEF client
  <1> DEFINE old == handler[h]
             rec == [body |-> old.body, recv |-> old.recv]
  <1>1. /\ UNCHANGED <<now, edge, sent, net, page>>
        /\ view' = Applied(view, old.recv, NextEnvelope(h))
        /\ recorded' = recorded \cup {rec}
        /\ handler' = [handler EXCEPT ![h] = [old EXCEPT !.done = @ + 1]]
        /\ old.stage = "applying"
    BY DEF Apply, HasNext
  <1>2. /\ old \in Handling /\ old.recv \in 1 .. now /\ now <= old.recv + MaxDelay
        /\ Checked(old.body) /\ now \in Nat
    BY <1>1 DEF Inv, Timely, Handling
  <1>3. Timely'
    <2> DEFINE new == [old EXCEPT !.done = @ + 1]
    <2>1. /\ new \in Handling /\ new.body = old.body /\ new.recv = old.recv
          /\ new.stage = old.stage
      BY <1>2 DEF Handling
    <2> HIDE DEF new
    <2> QED
      BY <1>1, <1>2, <2>1, HandlerKeeps DEF new
  <1>4. /\ DOMAIN view' = DOMAIN NewView
        /\ \/ view'.last = old.recv
           \/ view.last >= old.recv /\ view'.last = view.last
    <2>1. old.recv \in Nat /\ DOMAIN view = DOMAIN NewView /\ view.last \in Nat
      BY <1>2 DEF Inv, Heard
    <2> HIDE DEF old
    <2> QED
      BY <1>1, <2>1, AppliedLast
  <1>5. /\ rec.recv = old.recv /\ rec.body = old.body
        /\ view.last \in Nat /\ old.recv \in Nat /\ view'.last \in Nat
    BY <1>2, <1>4 DEF Inv, Heard
  <1> HIDE DEF old, rec
  <1>6. Heard'
    <2>1. recorded' = recorded \cup {rec} /\ now' = now
      BY <1>1
    <2>2. \A x \in recorded' : x.recv \in 1 .. now'
      BY <1>2, <1>5, <2>1 DEF Inv, Heard
    <2> QED
      BY <1>4, <1>5, <2>1, <2>2 DEF Heard
  <1>7. LastSeenIsRecent'
    <2>1. ASSUME NEW x \in recorded' PROVE x.recv <= view'.last + MaxDelay
      <3>1. CASE x = rec
        BY <1>4, <1>5, <3>1, FleetAssumption
      <3>2. CASE x \in recorded
        <4>1. x.recv \in 1 .. now /\ x.recv <= view.last + MaxDelay
          BY <3>2 DEF Inv, Heard, LastSeenIsRecent
        <4> QED
          BY <1>2, <1>4, <1>5, <4>1, FleetAssumption
      <3> QED
        BY <1>1, <3>1, <3>2
    <2>2. \E x \in recorded' : x.recv = view'.last
      <3>1. CASE view'.last = old.recv
        BY <1>1, <1>5, <3>1
      <3>2. CASE view'.last = view.last /\ view.last >= old.recv
        <4>1. recorded # {}
          BY <1>2, <1>5, <3>2 DEF Inv, Heard, Never
        <4> QED
          BY <1>1, <3>2, <4>1 DEF Inv, LastSeenIsRecent
      <3> QED
        BY <1>4, <3>1, <3>2
    <2>3. recorded' # {}
      BY <1>1
    <2> QED
      BY <2>1, <2>2, <2>3 DEF LastSeenIsRecent
  <1>8. BadBodiesLeaveNothing'
    <2>1. \A i \in DOMAIN rec.body : Valid(rec.body[i])
      BY <1>2, <1>5 DEF Checked
    <2> QED
      BY <1>1, <2>1 DEF Inv, BadBodiesLeaveNothing
  <1>9. Badge'
    BY <1>1 DEF Inv, Badge
  <1> QED
    BY <1>3, <1>6, <1>7, <1>8, <1>9 DEF Inv

-----------------------------------------------------------------------------
(* The theorems *)

THEOREM Invariance == Spec => []Inv
  <1>1. Inv /\ [Next]_vars => Inv'
    <2> SUFFICES ASSUME Inv, [Next]_vars PROVE Inv'
      OBVIOUS
    <2>1. CASE UNCHANGED vars
      BY <2>1 DEF vars, client, center, Inv, Timely, Heard, LastSeenIsRecent,
                  BadBodiesLeaveNothing, Badge
    <2>2. CASE Tick
      BY <2>2, TickKeeps
    <2>3. CASE Beat \/ Ship \/ EdgeRestart \/ PostOther
      BY <2>3, EdgeKeeps
    <2>4. CASE Ask \/ ReadNext \/ Show
      BY <2>4, PageKeeps
    <2>5. ASSUME NEW h \in Handlers,
                 \/ Receive(h) \/ Decode(h) \/ Duplicate(h)
                 \/ Apply(h) \/ ApplyFails(h) \/ Reply(h)
          PROVE  Inv'
      BY <2>5, QuietKeeps, ApplyKeeps
    <2> QED
      BY <2>1, <2>2, <2>3, <2>4, <2>5 DEF Next
  <1> QED
    BY <1>1, InitInv, PTL DEF Spec

\* The last-seen time of a node is the time of something recorded, and not more
\* than the length of one request behind the latest.
THEOREM LastSeenCorrect == Spec => []LastSeenIsRecent
  <1>1. Inv => LastSeenIsRecent
    BY DEF Inv
  <1> QED
    BY <1>1, Invariance, PTL

\* A body with a bad envelope anywhere in it leaves nothing behind.
THEOREM BodiesAreAtomic == Spec => []BadBodiesLeaveNothing
  <1>1. Inv => BadBodiesLeaveNothing
    BY DEF Inv
  <1> QED
    BY <1>1, Invariance, PTL

\* The badge and the offline signal of a page agree as far as two readings of
\* the clock let them, however long it takes to make the page.
THEOREM BadgesAgree == Spec => []BadgeAgrees
  <1>1. Inv => BadgeAgrees
    <2> SUFFICES ASSUME Inv, Complete PROVE
            IF page.kind = "html" THEN page.online => "offline" \notin page.signals
                                  ELSE ~page.online => "offline" \in page.signals
      BY DEF BadgeAgrees
    <2>1. page.kind \in Kinds /\ page.step = Len(Reads(page.kind))
      BY DEF Complete, Inv, Badge
    <2>2. page.step >= 3
      BY <2>1 DEF Reads, Kinds
    <2> QED
      BY <2>1, <2>2 DEF Inv, Badge, Kinds
  <1> QED
    BY <1>1, Invariance, PTL

-----------------------------------------------------------------------------
(* Loops *)

LEMMA HasLeast ==
  ASSUME NEW T \in SUBSET Nat, T # {}
  PROVE  \E x \in T : \A y \in T : x <= y
<1> DEFINE Below == {0 .. x : x \in T}
           R == StrictSubsetOrdering(Nat)
           F == FiniteSubsetsOf(Nat)
<1>1. IsWellFoundedOn(R, F)
  BY FS_StrictSubsetOrderingWellFounded
<1>2. Below \subseteq F
  <2> SUFFICES ASSUME NEW x \in T PROVE 0 .. x \in F
    OBVIOUS
  <2>1. x \in Int /\ 0 \in Int /\ 0 .. x \in SUBSET Nat
    OBVIOUS
  <2>2. IsFiniteSet(0 .. x)
    BY <2>1, FS_Interval
  <2> QED
    BY <2>1, <2>2 DEF FiniteSubsetsOf
<1>3. Below # {}
  OBVIOUS
<1>4. PICK b \in Below : \A c \in Below : ~(<<c, b>> \in R)
  <2> HIDE DEF Below, R, F
  <2> QED
    BY <1>1, <1>2, <1>3, WFMin
<1>5. PICK x \in T : b = 0 .. x
  BY <1>4
<1>6. ASSUME NEW y \in T PROVE x <= y
  <2> SUFFICES ASSUME y < x PROVE FALSE
    OBVIOUS
  <2>1. 0 .. y \in Below /\ 0 .. y \in SUBSET Nat /\ 0 .. x \in SUBSET Nat
    OBVIOUS
  <2>2. 0 .. y \subseteq 0 .. x /\ x \in 0 .. x /\ x \notin 0 .. y
    OBVIOUS
  <2>3. <<0 .. y, 0 .. x>> \in R
    <3>1. 0 .. y # 0 .. x
      BY <2>2
    <3> QED
      BY <2>1, <2>2, <3>1 DEF StrictSubsetOrdering
  <2> QED
    BY <1>4, <1>5, <2>1, <2>3
<1> QED
  BY <1>6

\* f is what a loop of n turns has after each turn.
IsRun(f, base, n, step) == f[0] = base /\ \A i \in 1 .. n : f[i] = step[i][f[i - 1]]

\* A loop over values in V has a result after each turn.
LEMMA LoopRuns ==
  ASSUME NEW V, NEW base \in V, NEW n \in Nat, NEW step \in [1 .. n -> [V -> V]]
  PROVE  \E f \in [0 .. n -> V] : IsRun(f, base, n, step)
<1> DEFINE Runs(f, m) == \A i \in 0 .. m : f[i] = IF i = 0 THEN base ELSE step[i][f[i - 1]]
           Stuck == {m \in 0 .. n : ~\E f \in [0 .. m -> V] : Runs(f, m)}
<1>1. ASSUME Stuck # {} PROVE FALSE
  <2>1. PICK m \in Stuck : \A k \in Stuck : m <= k
    <3>1. Stuck \in SUBSET Nat
      OBVIOUS
    <3> HIDE DEF Stuck
    <3> QED
      BY <1>1, <3>1, HasLeast
  <2>2. m \in 0 .. n /\ ~\E f \in [0 .. m -> V] : Runs(f, m)
    BY <2>1
  <2>3. m # 0
    <3> DEFINE f == [i \in 0 .. 0 |-> base]
    <3>1. f \in [0 .. 0 -> V] /\ Runs(f, 0)
      OBVIOUS
    <3> QED
      BY <2>2, <3>1
  <2>4. m - 1 \in 0 .. n /\ m - 1 < m /\ m \in 1 .. n
    BY <2>2, <2>3
  <2>5. m - 1 \notin Stuck
    <3>1. m - 1 \in Stuck => m <= m - 1
      BY <2>1
    <3> HIDE DEF Stuck
    <3> QED
      BY <2>4, <3>1
  <2>6. PICK f \in [0 .. m - 1 -> V] : Runs(f, m - 1)
    BY <2>4, <2>5
  <2> DEFINE g == [i \in 0 .. m |-> IF i = m THEN step[m][f[m - 1]] ELSE f[i]]
  <2>7. m - 1 \in 0 .. m - 1 /\ f[m - 1] \in V /\ step[m] \in [V -> V]
    BY <2>4
  <2>8. g \in [0 .. m -> V]
    BY <2>4, <2>7
  <2>9. ASSUME NEW i \in 0 .. m PROVE g[i] = IF i = 0 THEN base ELSE step[i][g[i - 1]]
    <3>1. CASE i = m
      <4>1. g[m] = step[m][f[m - 1]] /\ g[m - 1] = f[m - 1]
        BY <2>4
      <4> HIDE DEF g
      <4> QED
        BY <2>3, <3>1, <4>1
    <3>2. CASE i # m /\ i # 0
      <4>1. i \in 0 .. m - 1 /\ i - 1 \in 0 .. m - 1
        BY <2>4, <3>2
      <4>2. g[i] = f[i] /\ g[i - 1] = f[i - 1]
        BY <3>2, <4>1
      <4>3. f[i] = step[i][f[i - 1]]
        BY <2>6, <3>2, <4>1
      <4> HIDE DEF g
      <4> QED
        BY <3>2, <4>2, <4>3
    <3>3. CASE i # m /\ i = 0
      <4>1. 0 \in 0 .. m - 1
        BY <2>4
      <4>2. g[0] = f[0] /\ f[0] = base
        BY <2>3, <2>6, <4>1
      <4> HIDE DEF g
      <4> QED
        BY <3>3, <4>2
    <3> QED
      BY <3>1, <3>2, <3>3
  <2> HIDE DEF g
  <2> QED
    BY <2>2, <2>8, <2>9
<1>2. n \in 0 .. n
  OBVIOUS
<1>3. PICK f \in [0 .. n -> V] : Runs(f, n)
  BY <1>1, <1>2
<1>4. IsRun(f, base, n, step)
  BY <1>3 DEF IsRun
<1> QED
  BY <1>4

-----------------------------------------------------------------------------
(* The timelines *)

AuditEvent(Ids, EvKinds) ==
    [seq : Nat, recv : Nat, ts : Int, session : Ids, run : Ids, kind : EvKinds]

Keys(Ids) == {KeyOf(x, y) : x \in Ids, y \in Ids}

Timeline(Ids, EvKinds) == [key : Keys(Ids), firstTS : Int, lastTS : Int, firstRecv : Nat,
             lastRecv : Nat, firstSeq : Nat, lastSeq : Nat, kinds : Seq(EvKinds),
             events : Seq(AuditEvent(Ids, EvKinds))]

LEMMA CountKindIs ==
  ASSUME NEW Ids, NEW EvKinds, NEW kinds \in Seq(EvKinds), NEW kind \in EvKinds
  PROVE  /\ CountKind(kinds, kind) \in Seq(EvKinds)
         /\ Len(CountKind(kinds, kind)) = Len(kinds) + (IF kind \in AuditKinds THEN 1 ELSE 0)
<1>1. Append(kinds, kind) \in Seq(EvKinds) /\ Len(Append(kinds, kind)) = Len(kinds) + 1
  BY AppendProperties
<1>2. Len(kinds) \in Nat
  BY LenProperties
<1>3. CASE kind \in AuditKinds
  BY <1>1, <1>3 DEF CountKind
<1>4. CASE kind \notin AuditKinds
  BY <1>2, <1>4 DEF CountKind
<1> QED
  BY <1>3, <1>4

LEMMA ExtendIs ==
  ASSUME NEW Ids, NEW EvKinds, NEW tl \in Timeline(Ids, EvKinds), NEW ev \in AuditEvent(Ids, EvKinds)
  PROVE  /\ Extend(tl, ev) \in Timeline(Ids, EvKinds)
         /\ Extend(tl, ev).key = tl.key
         /\ Extend(tl, ev).events = Append(tl.events, ev)
         /\ Extend(tl, ev).kinds = CountKind(tl.kinds, ev.kind)
         /\ Extend(tl, ev).firstTS = tl.firstTS
         /\ Extend(tl, ev).firstRecv = tl.firstRecv
         /\ Extend(tl, ev).firstSeq = tl.firstSeq
         /\ Extend(tl, ev).lastTS = ev.ts
         /\ Extend(tl, ev).lastRecv = ev.recv
         /\ Extend(tl, ev).lastSeq = ev.seq
<1> DEFINE events == Append(tl.events, ev)
           kinds == CountKind(tl.kinds, ev.kind)
<1>1. events \in Seq(AuditEvent(Ids, EvKinds))
  BY AppendProperties DEF Timeline
<1>2. kinds \in Seq(EvKinds)
  BY CountKindIs DEF Timeline, AuditEvent
<1>3. ev.ts \in Int /\ ev.recv \in Nat /\ ev.seq \in Nat
  BY DEF AuditEvent
<1>4. Extend(tl, ev) = [tl EXCEPT !.events = events, !.lastTS = ev.ts, !.lastRecv = ev.recv,
                                  !.lastSeq = ev.seq, !.kinds = kinds]
  BY DEF Extend
<1> HIDE DEF events, kinds
<1>5. Extend(tl, ev) \in Timeline(Ids, EvKinds)
  BY <1>1, <1>2, <1>3, <1>4 DEF Timeline
<1> QED
  BY <1>4, <1>5 DEF Timeline, events, kinds

LEMMA NewTimelineIs ==
  ASSUME NEW Ids, NEW EvKinds, NEW ev \in AuditEvent(Ids, EvKinds)
  PROVE  /\ NewTimeline(ev) \in Timeline(Ids, EvKinds)
         /\ NewTimeline(ev).key = TimelineKey(ev)
         /\ NewTimeline(ev).events = <<>>
         /\ NewTimeline(ev).kinds = <<>>
         /\ NewTimeline(ev).firstTS = ev.ts
         /\ NewTimeline(ev).firstRecv = ev.recv
         /\ NewTimeline(ev).firstSeq = ev.seq
<1>1. <<>> \in Seq(AuditEvent(Ids, EvKinds)) /\ <<>> \in Seq(EvKinds)
  BY EmptySeq
<1>2. /\ ev.ts \in Int /\ ev.recv \in Nat /\ ev.seq \in Nat
      /\ ev.session \in Ids /\ ev.run \in Ids
  BY DEF AuditEvent
<1>3. TimelineKey(ev) \in Keys(Ids)
  BY <1>2 DEF TimelineKey, Keys
<1> QED
  BY <1>1, <1>2, <1>3 DEF NewTimeline, Timeline

\* at says where in w the events of tl come from, among the first n.
Located(tl, w, n, at) ==
    /\ at \in [DOMAIN tl.events -> 1 .. n]
    /\ \A a, b \in DOMAIN tl.events : a < b => at[a] < at[b]
    /\ \A a \in DOMAIN tl.events : tl.events[a] = w[at[a]]
    /\ \A k \in 1 .. n : TimelineKey(w[k]) = tl.key <=> \E a \in DOMAIN tl.events : at[a] = k

Counted(tl) ==
    Len(tl.kinds) = Cardinality({a \in DOMAIN tl.events : tl.events[a].kind \in AuditKinds})

FirstOf(tl, ev) == tl.firstTS = ev.ts /\ tl.firstRecv = ev.recv /\ tl.firstSeq = ev.seq
LastOf(tl, ev) == tl.lastTS = ev.ts /\ tl.lastRecv = ev.recv /\ tl.lastSeq = ev.seq

Summed(tl) ==
    /\ tl.events # <<>>
    /\ FirstOf(tl, tl.events[1])
    /\ LastOf(tl, tl.events[Len(tl.events)])
    /\ Counted(tl)

Collects(tl, w, n) == Summed(tl) /\ \E at : Located(tl, w, n, at)

\* A timeline that counts the events it has counts one more.
LEMMA ExtendCounts ==
  ASSUME NEW Ids, NEW EvKinds, NEW tl \in Timeline(Ids, EvKinds), NEW ev \in AuditEvent(Ids, EvKinds), Counted(tl)
  PROVE  Counted(Extend(tl, ev))
<1> DEFINE m == Len(tl.events)
           new == Extend(tl, ev)
           Of(t) == {a \in DOMAIN t.events : t.events[a].kind \in AuditKinds}
<1>1. /\ tl.events \in Seq(AuditEvent(Ids, EvKinds)) /\ tl.kinds \in Seq(EvKinds) /\ ev.kind \in EvKinds
      /\ m \in Nat /\ DOMAIN tl.events = 1 .. m
  BY LenProperties DEF Timeline, AuditEvent
<1>2. /\ new.events = Append(tl.events, ev) /\ new.kinds = CountKind(tl.kinds, ev.kind)
  BY ExtendIs
<1>3. /\ DOMAIN new.events = 1 .. m + 1
      /\ \A a \in 1 .. m : new.events[a] = tl.events[a]
      /\ new.events[m + 1] = ev
  <2>1. /\ Append(tl.events, ev) \in Seq(AuditEvent(Ids, EvKinds))
        /\ Len(Append(tl.events, ev)) = m + 1
        /\ \A a \in 1 .. m : Append(tl.events, ev)[a] = tl.events[a]
        /\ Append(tl.events, ev)[m + 1] = ev
    BY <1>1, AppendProperties
  <2> QED
    BY <1>2, <2>1, LenProperties
<1>4. Len(new.kinds) = Len(tl.kinds) + (IF ev.kind \in AuditKinds THEN 1 ELSE 0)
  BY <1>1, <1>2, CountKindIs
<1>5. Len(tl.kinds) \in Nat /\ Len(tl.kinds) = Cardinality(Of(tl))
  BY <1>1, LenProperties DEF Counted
<1> HIDE DEF m, new
<1>6. IsFiniteSet(Of(tl)) /\ m + 1 \notin Of(tl)
  <2>1. IsFiniteSet(1 .. m) /\ Of(tl) \subseteq 1 .. m
    BY <1>1, FS_Interval
  <2>2. m + 1 \notin 1 .. m
    BY <1>1
  <2> HIDE DEF Of
  <2>3. IsFiniteSet(Of(tl))
    BY <2>1, FS_Subset
  <2> QED
    BY <2>1, <2>2, <2>3
<1>7. CASE ev.kind \in AuditKinds
  <2>1. Of(new) = Of(tl) \cup {m + 1}
    BY <1>1, <1>3, <1>7
  <2> HIDE DEF Of
  <2>2. Cardinality(Of(new)) = Cardinality(Of(tl)) + 1
    BY <1>6, <2>1, FS_AddElement
  <2> QED
    BY <1>4, <1>5, <1>7, <2>2 DEF Counted, Of, new
<1>8. CASE ev.kind \notin AuditKinds
  <2>1. Of(new) = Of(tl)
    BY <1>1, <1>3, <1>8
  <2> HIDE DEF Of
  <2>2. Len(new.kinds) = Cardinality(Of(new))
    BY <1>4, <1>5, <1>8, <2>1
  <2> QED
    BY <2>2 DEF Counted, Of, new
<1> QED
  BY <1>7, <1>8

\* A turn of the loop whose event belongs to another timeline.
LEMMA OtherCollects ==
  ASSUME NEW Ids, NEW EvKinds, NEW n \in Nat, NEW w, NEW tl \in Timeline(Ids, EvKinds), Collects(tl, w, n),
         tl.key # TimelineKey(w[n + 1])
  PROVE  Collects(tl, w, n + 1)
<1>1. PICK at : Located(tl, w, n, at)
  BY DEF Collects
<1>2. 1 .. n \subseteq 1 .. n + 1 /\ n + 1 \notin 1 .. n
      /\ \A k \in 1 .. n + 1 : k \in 1 .. n \/ k = n + 1
  OBVIOUS
<1>3. at \in [DOMAIN tl.events -> 1 .. n + 1]
  BY <1>1, <1>2 DEF Located
<1>4. ASSUME NEW k \in 1 .. n + 1
      PROVE  TimelineKey(w[k]) = tl.key <=> \E a \in DOMAIN tl.events : at[a] = k
  <2>1. CASE k \in 1 .. n
    BY <1>1, <2>1 DEF Located
  <2>2. CASE k = n + 1
    BY <1>1, <1>2, <2>2 DEF Located
  <2> QED
    BY <1>2, <2>1, <2>2
<1>5. Located(tl, w, n + 1, at)
  BY <1>1, <1>3, <1>4 DEF Located
<1> QED
  BY <1>5 DEF Collects

\* What Extend adds is found at n + 1.
LEMMA ExtendLocated ==
  ASSUME NEW Ids, NEW EvKinds, NEW n \in Nat, NEW w, w[n + 1] \in AuditEvent(Ids, EvKinds), NEW tl \in Timeline(Ids, EvKinds),
         NEW at, Located(tl, w, n, at), tl.key = TimelineKey(w[n + 1])
  PROVE  \E new : Located(Extend(tl, w[n + 1]), w, n + 1, new)
<1> DEFINE ev == w[n + 1]
           m == Len(tl.events)
           es == Extend(tl, ev).events
           new == [a \in 1 .. m + 1 |-> IF a = m + 1 THEN n + 1 ELSE at[a]]
<1>1. tl.events \in Seq(AuditEvent(Ids, EvKinds)) /\ m \in Nat /\ DOMAIN tl.events = 1 .. m
  BY LenProperties DEF Timeline
<1>2. Extend(tl, ev).key = tl.key /\ es = Append(tl.events, ev)
  BY ExtendIs
<1>3. DOMAIN es = 1 .. m + 1 /\ (\A a \in 1 .. m : es[a] = tl.events[a]) /\ es[m + 1] = ev
  <2>1. /\ Append(tl.events, ev) \in Seq(AuditEvent(Ids, EvKinds))
        /\ Len(Append(tl.events, ev)) = m + 1
        /\ \A a \in 1 .. m : Append(tl.events, ev)[a] = tl.events[a]
        /\ Append(tl.events, ev)[m + 1] = ev
    BY <1>1, AppendProperties
  <2> QED
    BY <1>2, <2>1, LenProperties
<1>4. /\ at \in [1 .. m -> 1 .. n]
      /\ \A a, b \in 1 .. m : a < b => at[a] < at[b]
      /\ \A a \in 1 .. m : tl.events[a] = w[at[a]]
      /\ \A k \in 1 .. n : TimelineKey(w[k]) = tl.key <=> \E a \in 1 .. m : at[a] = k
  BY <1>1 DEF Located
<1>5. /\ \A a \in 1 .. m + 1 : a \in 1 .. m \/ a = m + 1
      /\ m + 1 \notin 1 .. m /\ m + 1 \in 1 .. m + 1 /\ 1 .. m \subseteq 1 .. m + 1
      /\ \A k \in 1 .. n + 1 : k \in 1 .. n \/ k = n + 1
      /\ n + 1 \notin 1 .. n /\ n + 1 \in 1 .. n + 1 /\ 1 .. n \subseteq 1 .. n + 1
  BY <1>1
<1>6. new[m + 1] = n + 1 /\ \A a \in 1 .. m : new[a] = at[a]
  BY <1>5
<1>7. new \in [1 .. m + 1 -> 1 .. n + 1]
  BY <1>4, <1>5
<1> HIDE DEF m, new, es, ev
<1>8. ASSUME NEW a \in 1 .. m + 1, NEW b \in 1 .. m + 1, a < b
      PROVE  new[a] < new[b]
  <2>1. a \in 1 .. m
    BY <1>1, <1>8
  <2>2. CASE b \in 1 .. m
    BY <1>4, <1>6, <1>8, <2>1, <2>2
  <2>3. CASE b = m + 1
    <3>1. at[a] \in 1 .. n /\ new[a] = at[a] /\ new[b] = n + 1
      BY <1>4, <1>6, <2>1, <2>3
    <3> QED
      BY <3>1
  <2> QED
    BY <1>5, <2>2, <2>3
<1>9. ASSUME NEW a \in 1 .. m + 1 PROVE es[a] = w[new[a]]
  <2>1. CASE a \in 1 .. m
    BY <1>3, <1>4, <1>6, <2>1
  <2>2. CASE a = m + 1
    BY <1>3, <1>6, <2>2 DEF ev
  <2> QED
    BY <1>5, <2>1, <2>2
<1>10. ASSUME NEW k \in 1 .. n + 1
       PROVE  TimelineKey(w[k]) = tl.key <=> \E a \in 1 .. m + 1 : new[a] = k
  <2>1. CASE k \in 1 .. n
    <3>1. new[m + 1] # k
      BY <1>5, <1>6, <2>1
    <3> QED
      BY <1>4, <1>5, <1>6, <2>1, <3>1
  <2>2. CASE k = n + 1
    BY <1>5, <1>6, <2>2
  <2> QED
    BY <1>5, <2>1, <2>2
<1>11. Located(Extend(tl, ev), w, n + 1, new)
  BY <1>2, <1>3, <1>7, <1>8, <1>9, <1>10 DEF Located, es
<1> QED
  BY <1>11 DEF ev

LEMMA ExtendSums ==
  ASSUME NEW Ids, NEW EvKinds, NEW tl \in Timeline(Ids, EvKinds), NEW ev \in AuditEvent(Ids, EvKinds), Counted(tl),
         tl.events = <<>> => FirstOf(tl, ev),
         tl.events # <<>> => FirstOf(tl, tl.events[1])
  PROVE  Summed(Extend(tl, ev))
<1> DEFINE m == Len(tl.events)
           new == Extend(tl, ev)
<1>1. tl.events \in Seq(AuditEvent(Ids, EvKinds)) /\ m \in Nat /\ (m = 0 <=> tl.events = <<>>)
  BY LenProperties, EmptySeq DEF Timeline
<1>2. /\ Append(tl.events, ev) # <<>>
      /\ Len(Append(tl.events, ev)) = m + 1
      /\ \A a \in 1 .. m : Append(tl.events, ev)[a] = tl.events[a]
      /\ Append(tl.events, ev)[m + 1] = ev
  BY <1>1, AppendProperties
<1>3. new.events = Append(tl.events, ev) /\ Counted(new) /\ LastOf(new, ev)
  BY ExtendIs, ExtendCounts DEF LastOf
<1>4. FirstOf(new, new.events[1])
  <2>1. new.firstTS = tl.firstTS /\ new.firstRecv = tl.firstRecv /\ new.firstSeq = tl.firstSeq
    BY ExtendIs
  <2> HIDE DEF new
  <2>2. CASE m = 0
    BY <1>1, <1>2, <1>3, <2>1, <2>2 DEF FirstOf
  <2>3. CASE m # 0
    <3>1. 1 \in 1 .. m
      BY <1>1, <2>3
    <3>2. new.events[1] = tl.events[1]
      BY <1>2, <1>3, <3>1
    <3> QED
      BY <1>1, <2>1, <2>3, <3>2 DEF FirstOf
  <2> QED
    BY <2>2, <2>3
<1> HIDE DEF new
<1>5. Summed(new)
  BY <1>1, <1>2, <1>3, <1>4 DEF Summed
<1> QED
  BY <1>5 DEF new

\* A turn of the loop whose event belongs to a timeline that is there.
LEMMA OwnCollects ==
  ASSUME NEW Ids, NEW EvKinds, NEW n \in Nat, NEW w, w[n + 1] \in AuditEvent(Ids, EvKinds), NEW tl \in Timeline(Ids, EvKinds),
         Collects(tl, w, n), tl.key = TimelineKey(w[n + 1])
  PROVE  Collects(Extend(tl, w[n + 1]), w, n + 1)
<1>1. Summed(Extend(tl, w[n + 1]))
  BY ExtendSums DEF Collects, Summed
<1>2. \E at : Located(Extend(tl, w[n + 1]), w, n + 1, at)
  BY ExtendLocated DEF Collects
<1> QED
  BY <1>1, <1>2 DEF Collects

\* A turn of the loop that starts a timeline.
LEMMA FirstCollects ==
  ASSUME NEW Ids, NEW EvKinds, NEW n \in Nat, NEW w, w[n + 1] \in AuditEvent(Ids, EvKinds),
         \A k \in 1 .. n : TimelineKey(w[k]) # TimelineKey(w[n + 1])
  PROVE  Collects(Extend(NewTimeline(w[n + 1]), w[n + 1]), w, n + 1)
<1> DEFINE ev == w[n + 1]
           tl == NewTimeline(ev)
<1>1. tl \in Timeline(Ids, EvKinds) /\ tl.events = <<>> /\ tl.kinds = <<>> /\ tl.key = TimelineKey(ev)
      /\ FirstOf(tl, ev)
  BY NewTimelineIs DEF FirstOf
<1>2. DOMAIN tl.events = {}
  <2>1. DOMAIN tl.events = 1 .. 0
    BY <1>1
  <2> QED
    BY <2>1
<1> HIDE DEF tl
<1>3. Counted(tl)
  <2>1. {a \in DOMAIN tl.events : tl.events[a].kind \in AuditKinds} = {}
    BY <1>2
  <2>2. Len(tl.kinds) = 0
    BY <1>1
  <2> QED
    BY <2>1, <2>2, FS_EmptySet DEF Counted
<1>4. Summed(Extend(tl, ev))
  BY <1>1, <1>3, ExtendSums
<1>5. Located(tl, w, n, [a \in {} |-> 0])
  BY <1>1, <1>2 DEF Located
<1>6. \E at : Located(Extend(tl, ev), w, n + 1, at)
  <2>1. tl.key = TimelineKey(w[n + 1])
    BY <1>1
  <2> QED
    BY <1>1, <1>5, <2>1, ExtendLocated
<1> QED
  BY <1>4, <1>6 DEF Collects, tl

\* The timelines of the first n events of w.
DistinctKeys(tls) == \A i, j \in DOMAIN tls : tls[i].key = tls[j].key => i = j

GroupsFirst(Ids, EvKinds, tls, w, n) ==
    /\ tls \in Seq(Timeline(Ids, EvKinds))
    /\ DistinctKeys(tls)
    /\ \A k \in 1 .. n : \E i \in DOMAIN tls : tls[i].key = TimelineKey(w[k])
    /\ \A i \in DOMAIN tls : Collects(tls[i], w, n)

AddStarts(tls, ev) == ~\E i \in DOMAIN tls : tls[i].key = TimelineKey(ev)

\* What one turn of the loop does.
Added(Ids, EvKinds, tls, ev, new) ==
    /\ new \in Seq(Timeline(Ids, EvKinds))
    /\ AddStarts(tls, ev) =>
          /\ Len(new) = Len(tls) + 1
          /\ \A i \in 1 .. Len(tls) : new[i] = tls[i]
          /\ new[Len(tls) + 1] = Extend(NewTimeline(ev), ev)
          /\ new[Len(tls) + 1].key = TimelineKey(ev)
    /\ ~AddStarts(tls, ev) =>
          /\ Len(new) = Len(tls)
          /\ \A i \in 1 .. Len(tls) :
                /\ new[i] = IF tls[i].key = TimelineKey(ev) THEN Extend(tls[i], ev) ELSE tls[i]
                /\ new[i].key = tls[i].key

LEMMA AddToTimelinesIs ==
  ASSUME NEW Ids, NEW EvKinds, NEW tls \in Seq(Timeline(Ids, EvKinds)), NEW ev \in AuditEvent(Ids, EvKinds)
  PROVE  Added(Ids, EvKinds, tls, ev, AddToTimelines(tls, ev))
<1> DEFINE m == Len(tls)
<1>1. m \in Nat /\ DOMAIN tls = 1 .. m /\ \A i \in 1 .. m : tls[i] \in Timeline(Ids, EvKinds)
  BY LenProperties, ElementOfSeq
<1>2. CASE AddStarts(tls, ev)
  <2> DEFINE tl == Extend(NewTimeline(ev), ev)
  <2>1. tl \in Timeline(Ids, EvKinds) /\ tl.key = TimelineKey(ev)
    <3> DEFINE first == NewTimeline(ev)
    <3>1. first \in Timeline(Ids, EvKinds) /\ first.key = TimelineKey(ev)
      BY NewTimelineIs
    <3> HIDE DEF first
    <3>2. Extend(first, ev) \in Timeline(Ids, EvKinds) /\ Extend(first, ev).key = first.key
      BY <3>1, ExtendIs
    <3> QED
      BY <3>1, <3>2 DEF first
  <2>2. AddToTimelines(tls, ev) = Append(tls, tl)
    BY <1>2 DEF AddToTimelines, AddStarts
  <2> HIDE DEF tl
  <2>3. /\ Append(tls, tl) \in Seq(Timeline(Ids, EvKinds))
        /\ Len(Append(tls, tl)) = m + 1
        /\ \A i \in 1 .. m : Append(tls, tl)[i] = tls[i]
        /\ Append(tls, tl)[m + 1] = tl
    BY <2>1, AppendProperties
  <2> QED
    BY <1>2, <2>1, <2>2, <2>3 DEF tl, Added
<1>3. CASE ~AddStarts(tls, ev)
  <2> DEFINE Turn(i) == IF tls[i].key = TimelineKey(ev) THEN Extend(tls[i], ev) ELSE tls[i]
             new == [i \in 1 .. m |-> Turn(i)]
  <2>1. AddToTimelines(tls, ev) = new
    BY <1>1, <1>3 DEF AddToTimelines, AddStarts
  <2>2. \A i \in 1 .. m : Turn(i) \in Timeline(Ids, EvKinds) /\ Turn(i).key = tls[i].key
    BY <1>1, ExtendIs
  <2> HIDE DEF m, Turn
  <2>3. new \in [1 .. m -> Timeline(Ids, EvKinds)] /\ \A i \in 1 .. m : new[i] = Turn(i)
    BY <2>2
  <2> HIDE DEF new
  <2>4. new \in Seq(Timeline(Ids, EvKinds))
    BY <1>1, <2>3, SeqDef
  <2>5. Len(new) = m
    <3>1. DOMAIN new = 1 .. m
      BY <2>3
    <3> QED
      BY <1>1, <2>4, <3>1, LenProperties
  <2>6. \A i \in 1 .. m : new[i].key = tls[i].key
    BY <2>2, <2>3
  <2> QED
    BY <1>3, <2>1, <2>3, <2>4, <2>5, <2>6 DEF m, Turn, Added
<1> QED
  BY <1>2, <1>3

\* One turn of the loop of AuditTimelines.
LEMMA TurnGroups ==
  ASSUME NEW Ids, NEW EvKinds, NEW w \in Seq(AuditEvent(Ids, EvKinds)), NEW n \in Nat, n + 1 \in 1 .. Len(w),
         NEW tls, GroupsFirst(Ids, EvKinds, tls, w, n)
  PROVE  GroupsFirst(Ids, EvKinds, AddToTimelines(tls, w[n + 1]), w, n + 1)
<1> DEFINE ev == w[n + 1]
           m == Len(tls)
           new == AddToTimelines(tls, ev)
<1>1. ev \in AuditEvent(Ids, EvKinds)
  BY ElementOfSeq
<1>2. /\ tls \in Seq(Timeline(Ids, EvKinds)) /\ m \in Nat /\ DOMAIN tls = 1 .. m
      /\ \A i \in 1 .. m : tls[i] \in Timeline(Ids, EvKinds) /\ Collects(tls[i], w, n)
      /\ \A i, j \in 1 .. m : tls[i].key = tls[j].key => i = j
      /\ \A k \in 1 .. n : \E i \in 1 .. m : tls[i].key = TimelineKey(w[k])
  <2>1. tls \in Seq(Timeline(Ids, EvKinds)) /\ m \in Nat /\ DOMAIN tls = 1 .. m
    BY LenProperties DEF GroupsFirst
  <2>2. \A i \in 1 .. m : tls[i] \in Timeline(Ids, EvKinds)
    BY <2>1, ElementOfSeq
  <2> QED
    BY <2>1, <2>2 DEF GroupsFirst, DistinctKeys
<1>3. \A k \in 1 .. n + 1 : k \in 1 .. n \/ k = n + 1
  OBVIOUS
<1> HIDE DEF m
<1>4. CASE AddStarts(tls, ev)
  <2>1. /\ new \in Seq(Timeline(Ids, EvKinds))
        /\ Len(new) = m + 1
        /\ \A i \in 1 .. m : new[i] = tls[i]
        /\ new[m + 1] = Extend(NewTimeline(ev), ev)
        /\ new[m + 1].key = TimelineKey(ev)
    <3>1. Added(Ids, EvKinds, tls, ev, new)
      BY <1>1, <1>2, AddToTimelinesIs
    <3> HIDE DEF ev, new
    <3> QED
      BY <1>4, <3>1 DEF m, Added
  <2>2. \A i \in 1 .. m : tls[i].key # TimelineKey(ev)
    BY <1>2, <1>4 DEF AddStarts
  <2> HIDE DEF new
  <2>3. DOMAIN new = 1 .. m + 1 /\ \A i \in 1 .. m + 1 : i \in 1 .. m \/ i = m + 1
    BY <1>2, <2>1, LenProperties
  <2>4. DistinctKeys(new)
    <3> SUFFICES ASSUME NEW i \in 1 .. m + 1, NEW j \in 1 .. m + 1, new[i].key = new[j].key
                 PROVE  i = j
      BY <2>3 DEF DistinctKeys
    <3>1. CASE i \in 1 .. m /\ j \in 1 .. m
      BY <1>2, <2>1, <3>1
    <3>2. CASE ~(i \in 1 .. m /\ j \in 1 .. m)
      BY <2>1, <2>2, <2>3, <3>2
    <3> QED
      BY <3>1, <3>2
  <2>5. ASSUME NEW k \in 1 .. n + 1 PROVE \E i \in DOMAIN new : new[i].key = TimelineKey(w[k])
    <3>1. CASE k \in 1 .. n
      <4>1. PICK i \in 1 .. m : tls[i].key = TimelineKey(w[k])
        BY <1>2, <3>1
      <4>2. i \in DOMAIN new /\ new[i] = tls[i]
        BY <1>2, <2>1, <2>3
      <4> QED
        BY <4>1, <4>2
    <3>2. CASE k = n + 1
      <4>1. m + 1 \in DOMAIN new
        BY <1>2, <2>3
      <4> QED
        BY <2>1, <3>2, <4>1
    <3> QED
      BY <1>3, <3>1, <3>2
  <2>6. ASSUME NEW i \in DOMAIN new PROVE Collects(new[i], w, n + 1)
    <3>1. CASE i \in 1 .. m
      <4>1. tls[i] \in Timeline(Ids, EvKinds) /\ Collects(tls[i], w, n) /\ tls[i].key # TimelineKey(w[n + 1])
        BY <1>2, <2>2, <3>1
      <4> QED
        BY <2>1, <3>1, <4>1, OtherCollects
    <3>2. CASE i = m + 1
      <4>1. \A k \in 1 .. n : TimelineKey(w[k]) # TimelineKey(w[n + 1])
        BY <1>2, <2>2
      <4>2. Collects(Extend(NewTimeline(w[n + 1]), w[n + 1]), w, n + 1)
        BY <1>1, <4>1, FirstCollects
      <4> QED
        BY <2>1, <3>2, <4>2
    <3> QED
      BY <2>3, <3>1, <3>2
  <2> QED
    BY <2>1, <2>4, <2>5, <2>6 DEF GroupsFirst, new
<1>5. CASE ~AddStarts(tls, ev)
  <2>1. /\ new \in Seq(Timeline(Ids, EvKinds))
        /\ Len(new) = m
        /\ \A i \in 1 .. m :
              /\ new[i] = IF tls[i].key = TimelineKey(ev) THEN Extend(tls[i], ev) ELSE tls[i]
              /\ new[i].key = tls[i].key
    <3>1. Added(Ids, EvKinds, tls, ev, new)
      BY <1>1, <1>2, AddToTimelinesIs
    <3> HIDE DEF ev, new
    <3> QED
      BY <1>5, <3>1 DEF m, Added
  <2>2. \E i \in 1 .. m : tls[i].key = TimelineKey(ev)
    BY <1>2, <1>5 DEF AddStarts
  <2> HIDE DEF new
  <2>3. DOMAIN new = 1 .. m
    BY <1>2, <2>1, LenProperties
  <2>4. DistinctKeys(new)
    BY <1>2, <2>1, <2>3 DEF DistinctKeys
  <2>5. \A k \in 1 .. n + 1 : \E i \in DOMAIN new : new[i].key = TimelineKey(w[k])
    <3>1. \A k \in 1 .. n + 1 : \E i \in 1 .. m : tls[i].key = TimelineKey(w[k])
      BY <1>2, <1>3, <2>2
    <3>2. \A i \in 1 .. m : new[i].key = tls[i].key
      BY <2>1
    <3> HIDE DEF ev
    <3> QED
      BY <2>3, <3>1, <3>2
  <2>6. ASSUME NEW i \in DOMAIN new PROVE Collects(new[i], w, n + 1)
    <3>1. tls[i] \in Timeline(Ids, EvKinds) /\ Collects(tls[i], w, n)
      BY <1>2, <2>3
    <3>2. CASE tls[i].key = TimelineKey(ev)
      <4>1. Collects(Extend(tls[i], w[n + 1]), w, n + 1)
        BY <1>1, <3>1, <3>2, OwnCollects
      <4> QED
        BY <2>1, <2>3, <3>2, <4>1
    <3>3. CASE tls[i].key # TimelineKey(ev)
      <4>1. Collects(tls[i], w, n + 1)
        BY <3>1, <3>3, OtherCollects
      <4> QED
        BY <2>1, <2>3, <3>3, <4>1
    <3> QED
      BY <3>2, <3>3
  <2> QED
    BY <2>1, <2>4, <2>5, <2>6 DEF GroupsFirst, new
<1> QED
  BY <1>4, <1>5

\* AuditTimelines' loop runs through the window.
LEMMA GroupedIs ==
  ASSUME NEW Ids, NEW EvKinds, NEW w \in Seq(AuditEvent(Ids, EvKinds))
  PROVE  /\ Grouped(w)[0] = <<>>
         /\ \A i \in 1 .. Len(w) : Grouped(w)[i] = AddToTimelines(Grouped(w)[i - 1], w[i])
<1> DEFINE n == Len(w)
           V == Seq(Timeline(Ids, EvKinds))
           step == [i \in 1 .. n |-> [tls \in V |-> AddToTimelines(tls, w[i])]]
           Recurs(f) == f = [i \in 0 .. n |-> IF i = 0 THEN <<>> ELSE AddToTimelines(f[i - 1], w[i])]
<1>1. n \in Nat /\ \A i \in 1 .. n : w[i] \in AuditEvent(Ids, EvKinds)
  BY LenProperties, ElementOfSeq
<1>2. <<>> \in V
  BY EmptySeq
<1>3. \A i \in 1 .. n : \A tls \in V : AddToTimelines(tls, w[i]) \in V
  BY <1>1, AddToTimelinesIs DEF Added
<1> HIDE DEF n, V
<1>4. step \in [1 .. n -> [V -> V]]
  BY <1>3
<1>5. \A i \in 1 .. n : \A tls \in V : step[i][tls] = AddToTimelines(tls, w[i])
  OBVIOUS
<1> HIDE DEF step
<1>6. PICK f \in [0 .. n -> V] : IsRun(f, <<>>, n, step)
  BY <1>1, <1>2, <1>4, LoopRuns
<1>7. ASSUME NEW i \in 0 .. n
      PROVE  f[i] = IF i = 0 THEN <<>> ELSE AddToTimelines(f[i - 1], w[i])
  <2>1. CASE i = 0
    BY <1>6, <2>1 DEF IsRun
  <2>2. CASE i # 0
    <3>1. i \in 1 .. n /\ i - 1 \in 0 .. n
      BY <1>1, <2>2
    <3>2. f[i - 1] \in V /\ f[i] = step[i][f[i - 1]]
      BY <1>6, <3>1 DEF IsRun
    <3> QED
      BY <1>5, <2>2, <3>1, <3>2
  <2> QED
    BY <2>1, <2>2
<1>8. Recurs(f)
  <2>1. f = [i \in 0 .. n |-> f[i]]
    OBVIOUS
  <2> QED
    BY <1>7, <2>1
<1>9. Grouped(w) = CHOOSE g : Recurs(g)
  BY DEF Grouped, n
<1>10. Recurs(Grouped(w))
  <2> HIDE DEF Recurs
  <2> QED
    BY <1>8, <1>9
<1> DEFINE after == Grouped(w)
<1>11. after = [i \in 0 .. n |-> IF i = 0 THEN <<>> ELSE AddToTimelines(after[i - 1], w[i])]
  BY <1>10
<1> HIDE DEF after
<1>12. after[0] = <<>> /\ \A i \in 1 .. n : after[i] = AddToTimelines(after[i - 1], w[i])
  BY <1>1, <1>11
<1> QED
  BY <1>12 DEF after, n

\* After the last turn the timelines are those of the whole window.
LEMMA LoopGroups ==
  ASSUME NEW Ids, NEW EvKinds, NEW w \in Seq(AuditEvent(Ids, EvKinds))
  PROVE  GroupsFirst(Ids, EvKinds, Grouped(w)[Len(w)], w, Len(w))
<1> DEFINE n == Len(w)
           after == Grouped(w)
           Wrong == {i \in 0 .. n : ~GroupsFirst(Ids, EvKinds, after[i], w, i)}
<1>1. n \in Nat
  BY LenProperties
<1>2. after[0] = <<>> /\ \A i \in 1 .. n : after[i] = AddToTimelines(after[i - 1], w[i])
  BY GroupedIs
<1> HIDE DEF n, after
<1>3. GroupsFirst(Ids, EvKinds, after[0], w, 0)
  <2>1. <<>> \in Seq(Timeline(Ids, EvKinds)) /\ DOMAIN <<>> = 1 .. 0
    BY EmptySeq
  <2>2. DOMAIN <<>> = {} /\ 1 .. 0 = {}
    BY <2>1
  <2> QED
    BY <1>2, <2>1, <2>2 DEF GroupsFirst, DistinctKeys
<1>4. ASSUME Wrong # {} PROVE FALSE
  <2>1. PICK i \in Wrong : \A k \in Wrong : i <= k
    <3>1. Wrong \in SUBSET Nat
      BY <1>1
    <3> HIDE DEF Wrong
    <3> QED
      BY <1>4, <3>1, HasLeast
  <2>2. i \in 0 .. n /\ ~GroupsFirst(Ids, EvKinds, after[i], w, i)
    BY <2>1
  <2>3. i # 0
    BY <1>3, <2>2
  <2>4. i - 1 \in 0 .. n /\ i - 1 \in Nat /\ (i - 1) + 1 = i /\ i \in 1 .. n /\ ~(i <= i - 1)
    BY <1>1, <2>2, <2>3
  <2>5. GroupsFirst(Ids, EvKinds, after[i - 1], w, i - 1)
    <3>1. i - 1 \in Wrong => i <= i - 1
      BY <2>1
    <3>2. i - 1 \notin Wrong
      <4> HIDE DEF Wrong
      <4> QED
        BY <2>4, <3>1
    <3> QED
      BY <2>4, <3>2
  <2>6. GroupsFirst(Ids, EvKinds, AddToTimelines(after[i - 1], w[i]), w, i)
    <3> DEFINE k == i - 1
    <3>1. k \in Nat /\ k + 1 = i /\ k + 1 \in 1 .. Len(w) /\ GroupsFirst(Ids, EvKinds, after[k], w, k)
      BY <2>4, <2>5 DEF n
    <3> HIDE DEF k
    <3>2. GroupsFirst(Ids, EvKinds, AddToTimelines(after[k], w[k + 1]), w, k + 1)
      BY <3>1, TurnGroups
    <3> QED
      BY <3>1, <3>2 DEF k
  <2> QED
    BY <1>2, <2>2, <2>4, <2>6
<1>5. n \in 0 .. n
  BY <1>1
<1>6. GroupsFirst(Ids, EvKinds, after[n], w, n)
  BY <1>4, <1>5
<1> QED
  BY <1>6 DEF after, n

-----------------------------------------------------------------------------
(* The order of the timelines *)

\* TimelineBefore is a strict weak order, as sort.SliceStable asks for.
LEMMA BeforeOrders ==
  ASSUME NEW Ids, NEW EvKinds, NEW a \in Timeline(Ids, EvKinds), NEW b \in Timeline(Ids, EvKinds), NEW c \in Timeline(Ids, EvKinds)
  PROVE  /\ ~(TimelineBefore(a, b) /\ TimelineBefore(b, a))
         /\ TimelineBefore(a, b) /\ TimelineBefore(b, c) => TimelineBefore(a, c)
         /\ ~TimelineBefore(a, b) /\ ~TimelineBefore(b, c) => ~TimelineBefore(a, c)
<1>1. /\ a.lastTS \in Int /\ a.lastRecv \in Nat /\ a.lastSeq \in Nat
      /\ b.lastTS \in Int /\ b.lastRecv \in Nat /\ b.lastSeq \in Nat
      /\ c.lastTS \in Int /\ c.lastRecv \in Nat /\ c.lastSeq \in Nat
  BY DEF Timeline
<1>2. ~(TimelineBefore(a, b) /\ TimelineBefore(b, a))
  BY <1>1 DEF TimelineBefore
<1>3. TimelineBefore(a, b) /\ TimelineBefore(b, c) => TimelineBefore(a, c)
  BY <1>1 DEF TimelineBefore
<1>4. ~TimelineBefore(a, b) /\ ~TimelineBefore(b, c) => ~TimelineBefore(a, c)
  BY <1>1 DEF TimelineBefore
<1> QED
  BY <1>2, <1>3, <1>4

\* The stable order that RankIn counts in.
Precedes(tls, k, i) ==
    TimelineBefore(tls[k], tls[i]) \/ (k < i /\ ~TimelineBefore(tls[i], tls[k]))

LEMMA PrecedesOrders ==
  ASSUME NEW Ids, NEW EvKinds, NEW tls \in Seq(Timeline(Ids, EvKinds)), NEW i \in DOMAIN tls, NEW j \in DOMAIN tls, NEW k \in DOMAIN tls
  PROVE  /\ ~Precedes(tls, i, i)
         /\ i # j => Precedes(tls, i, j) \/ Precedes(tls, j, i)
         /\ Precedes(tls, i, j) /\ Precedes(tls, j, k) => Precedes(tls, i, k)
         /\ Precedes(tls, i, j) => ~TimelineBefore(tls[j], tls[i])
<1>1. DOMAIN tls = 1 .. Len(tls) /\ Len(tls) \in Nat
  BY LenProperties
<1>2. tls[i] \in Timeline(Ids, EvKinds) /\ tls[j] \in Timeline(Ids, EvKinds) /\ tls[k] \in Timeline(Ids, EvKinds)
  BY <1>1, ElementOfSeq
<1>3. i \in Nat /\ j \in Nat /\ k \in Nat
  BY <1>1
<1>4. ~TimelineBefore(tls[i], tls[i]) /\ ~(TimelineBefore(tls[i], tls[j]) /\ TimelineBefore(tls[j], tls[i]))
  BY <1>2, BeforeOrders
<1>5. Precedes(tls, i, j) /\ Precedes(tls, j, k) => Precedes(tls, i, k)
  <2> SUFFICES ASSUME Precedes(tls, i, j), Precedes(tls, j, k) PROVE Precedes(tls, i, k)
    OBVIOUS
  <2>1. ~TimelineBefore(tls[j], tls[i]) /\ ~TimelineBefore(tls[k], tls[j])
    BY <1>2, BeforeOrders DEF Precedes
  <2>2. ~TimelineBefore(tls[k], tls[i])
    BY <1>2, <2>1, BeforeOrders
  <2>3. CASE TimelineBefore(tls[i], tls[k])
    BY <2>3 DEF Precedes
  <2>4. CASE ~TimelineBefore(tls[i], tls[k])
    <3>1. ~TimelineBefore(tls[i], tls[j])
      <4>1. TimelineBefore(tls[i], tls[j]) => ~TimelineBefore(tls[j], tls[k])
        BY <1>2, <2>4, BeforeOrders
      <4>2. ~TimelineBefore(tls[i], tls[k]) /\ ~TimelineBefore(tls[k], tls[j])
            => ~TimelineBefore(tls[i], tls[j])
        BY <1>2, BeforeOrders
      <4> QED
        BY <2>1, <2>4, <4>2
    <3>2. ~TimelineBefore(tls[j], tls[k])
      <4>1. ~TimelineBefore(tls[j], tls[i]) /\ ~TimelineBefore(tls[i], tls[k])
            => ~TimelineBefore(tls[j], tls[k])
        BY <1>2, BeforeOrders
      <4> QED
        BY <2>1, <2>4, <4>1
    <3>3. i < j /\ j < k
      BY <3>1, <3>2 DEF Precedes
    <3>4. i < k
      BY <1>3, <3>3
    <3> QED
      BY <2>2, <3>4 DEF Precedes
  <2> QED
    BY <2>3, <2>4
<1>6. ~(i < i) /\ (i # j => i < j \/ j < i)
  BY <1>3
<1> QED
  BY <1>4, <1>5, <1>6 DEF Precedes

LEMMA ProperPart ==
  ASSUME NEW S, IsFiniteSet(S), NEW T \in SUBSET S, T # S
  PROVE  IsFiniteSet(T) /\ Cardinality(T) \in Nat /\ Cardinality(T) < Cardinality(S)
<1>1. /\ IsFiniteSet(T) /\ Cardinality(T) <= Cardinality(S) /\ Cardinality(T) # Cardinality(S)
  BY FS_Subset
<1>2. Cardinality(T) \in Nat /\ Cardinality(S) \in Nat
  BY <1>1, FS_CardinalityType
<1> QED
  BY <1>1, <1>2

\* The ranks of m timelines are 0 to m - 1, in the order of Precedes.
LEMMA Ranks ==
  ASSUME NEW Ids, NEW EvKinds, NEW tls \in Seq(Timeline(Ids, EvKinds))
  PROVE  /\ \A r \in 0 .. Len(tls) - 1 : \E i \in DOMAIN tls : RankIn(tls, i) = r
         /\ \A i, j \in DOMAIN tls : RankIn(tls, i) = RankIn(tls, j) => i = j
         /\ \A i, j \in DOMAIN tls : RankIn(tls, i) < RankIn(tls, j) => Precedes(tls, i, j)
<1> DEFINE m == Len(tls)
           Sooner(i) == {k \in DOMAIN tls : Precedes(tls, k, i)}
           rank == [i \in 1 .. m |-> RankIn(tls, i)]
<1>1. DOMAIN tls = 1 .. m /\ m \in Nat
  BY LenProperties
<1>2. \A i : RankIn(tls, i) = Cardinality(Sooner(i))
  BY DEF RankIn, Precedes
<1>3. IsFiniteSet(1 .. m) /\ Cardinality(1 .. m) = m
  <2>1. 1 \in Int /\ m \in Int
    BY <1>1
  <2>2. IsFiniteSet(1 .. m) /\ Cardinality(1 .. m) = IF 1 > m THEN 0 ELSE m - 1 + 1
    BY <2>1, FS_Interval
  <2> QED
    BY <1>1, <2>2
<1> HIDE DEF m
<1>4. ASSUME NEW i \in 1 .. m
      PROVE  /\ IsFiniteSet(Sooner(i)) /\ RankIn(tls, i) \in 0 .. m - 1
  <2>1. Sooner(i) \subseteq 1 .. m /\ i \notin Sooner(i)
    BY <1>1, PrecedesOrders
  <2> HIDE DEF Sooner
  <2>2. Sooner(i) # 1 .. m
    BY <2>1
  <2>3. IsFiniteSet(Sooner(i)) /\ Cardinality(Sooner(i)) < m
    BY <1>3, <2>1, <2>2, ProperPart
  <2>4. Cardinality(Sooner(i)) \in Nat
    BY <2>3, FS_CardinalityType
  <2>5. RankIn(tls, i) \in 0 .. m - 1
    BY <1>1, <1>2, <2>3, <2>4
  <2> QED
    BY <2>3, <2>5
<1>10. ASSUME NEW i \in 1 .. m PROVE RankIn(tls, i) \in Int
  <2>1. RankIn(tls, i) \in 0 .. m - 1 
    BY <1>4
  <2> QED
    BY <2>1
<1>5. ASSUME NEW i \in 1 .. m, NEW j \in 1 .. m, Precedes(tls, i, j)
      PROVE  RankIn(tls, i) < RankIn(tls, j)
  <2>1. Sooner(i) \subseteq Sooner(j)
    BY <1>1, <1>5, PrecedesOrders
  <2>2. i \in Sooner(j) /\ i \notin Sooner(i)
    BY <1>1, <1>5, PrecedesOrders
  <2>3. IsFiniteSet(Sooner(j))
    BY <1>4
  <2> HIDE DEF Sooner
  <2>4. Cardinality(Sooner(i)) < Cardinality(Sooner(j))
    BY <2>1, <2>2, <2>3, ProperPart
  <2> QED
    BY <1>2, <2>4
<1>6. \A i, j \in 1 .. m : i # j => Precedes(tls, i, j) \/ Precedes(tls, j, i)
  BY <1>1, PrecedesOrders
<1>7. \A i, j \in 1 .. m : RankIn(tls, i) = RankIn(tls, j) => i = j
  <2> SUFFICES ASSUME NEW i \in 1 .. m, NEW j \in 1 .. m, RankIn(tls, i) = RankIn(tls, j), i # j
               PROVE  FALSE
    OBVIOUS
  <2>1. RankIn(tls, i) \in Int /\ RankIn(tls, j) \in Int
    BY <1>10
  <2>2. RankIn(tls, i) < RankIn(tls, j) \/ RankIn(tls, j) < RankIn(tls, i)
    BY <1>5, <1>6
  <2> QED
    BY <2>1, <2>2
<1>8. ASSUME NEW i \in 1 .. m, NEW j \in 1 .. m, RankIn(tls, i) < RankIn(tls, j)
      PROVE  Precedes(tls, i, j)
  <2>1. RankIn(tls, i) \in Int /\ RankIn(tls, j) \in Int
    BY <1>10
  <2>2. ~(RankIn(tls, j) < RankIn(tls, i)) /\ RankIn(tls, i) # RankIn(tls, j)
    BY <1>8, <2>1
  <2>3. i # j
    BY <2>2
  <2> QED
    BY <1>5, <1>6, <2>2, <2>3
<1>9. \A r \in 0 .. m - 1 : \E i \in 1 .. m : RankIn(tls, i) = r
  <2>1. IsFiniteSet(0 .. m - 1) /\ Cardinality(0 .. m - 1) = m
    <3>1. 0 \in Int /\ m - 1 \in Int
      BY <1>1
    <3>2. /\ IsFiniteSet(0 .. m - 1)
          /\ Cardinality(0 .. m - 1) = IF 0 > m - 1 THEN 0 ELSE m - 1 - 0 + 1
      BY <3>1, FS_Interval
    <3> QED
      BY <1>1, <3>2
  <2>2. rank \in [1 .. m -> 0 .. m - 1]
    BY <1>4
  <2>3. \A i, j \in 1 .. m : rank[i] = rank[j] => i = j
    BY <1>7
  <2>4. \A i \in 1 .. m : rank[i] = RankIn(tls, i)
    OBVIOUS
  <2> HIDE DEF rank
  <2>5. rank \in Injection(1 .. m, 0 .. m - 1)
    BY <2>2, <2>3 DEF Injection, IsInjective
  <2>6. rank \in Surjection(1 .. m, 0 .. m - 1)
    BY <1>3, <2>1, <2>5, FS_Injection
  <2> QED
    BY <2>4, <2>6 DEF Surjection
<1> QED
  BY <1>1, <1>7, <1>8, <1>9 DEF m

\* Sorted moves the timelines and nothing else: at says where each was.
IsSort(Ids, EvKinds, tls, new, at) ==
    /\ new \in Seq(Timeline(Ids, EvKinds)) /\ DOMAIN new = DOMAIN tls
    /\ at \in [DOMAIN tls -> DOMAIN tls]
    /\ \A i, j \in DOMAIN tls : at[i] = at[j] => i = j
    /\ \A i \in DOMAIN tls : \E p \in DOMAIN tls : at[p] = i
    /\ \A p \in DOMAIN tls : new[p] = tls[at[p]]
    /\ \A p, q \in DOMAIN tls : p < q => ~TimelineBefore(new[q], new[p])

LEMMA SortedSorts ==
  ASSUME NEW Ids, NEW EvKinds, NEW tls \in Seq(Timeline(Ids, EvKinds))
  PROVE  \E at : IsSort(Ids, EvKinds, tls, Sorted(tls), at)
<1> DEFINE m == Len(tls)
           at == [p \in 1 .. m |-> CHOOSE i \in DOMAIN tls : RankIn(tls, i) = p - 1]
           new == Sorted(tls)
<1>1. DOMAIN tls = 1 .. m /\ m \in Nat /\ \A i \in 1 .. m : tls[i] \in Timeline(Ids, EvKinds)
  BY LenProperties, ElementOfSeq
<1>2. ASSUME NEW p \in 1 .. m PROVE at[p] \in 1 .. m /\ RankIn(tls, at[p]) = p - 1
  <2>1. p - 1 \in 0 .. Len(tls) - 1
    BY <1>1
  <2>2. \E i \in DOMAIN tls : RankIn(tls, i) = p - 1
    BY <2>1, Ranks
  <2> HIDE DEF m
  <2>3. at[p] = CHOOSE i \in DOMAIN tls : RankIn(tls, i) = p - 1
    OBVIOUS
  <2> HIDE DEF at
  <2> QED
    BY <1>1, <2>2, <2>3
<1>3. new = [p \in 1 .. m |-> tls[at[p]]]
  BY <1>1 DEF Sorted
<1> HIDE DEF m, at, new
<1>4. at \in [1 .. m -> 1 .. m]
  <2>1. at = [p \in 1 .. m |-> at[p]]
    BY DEF at
  <2> QED
    BY <1>2, <2>1
<1>5. \A i, j \in 1 .. m : at[i] = at[j] => i = j
  <2> SUFFICES ASSUME NEW i \in 1 .. m, NEW j \in 1 .. m, at[i] = at[j] PROVE i = j
    OBVIOUS
  <2>1. i - 1 = j - 1
    BY <1>2
  <2> QED
    BY <2>1
<1>6. ASSUME NEW i \in 1 .. m PROVE \E p \in 1 .. m : at[p] = i
  <2>1. IsFiniteSet(1 .. m)
    BY <1>1, FS_Interval
  <2>2. at \in Injection(1 .. m, 1 .. m)
    BY <1>4, <1>5 DEF Injection, IsInjective
  <2>3. at \in Surjection(1 .. m, 1 .. m)
    BY <2>1, <2>2, FS_Injection
  <2> QED
    BY <2>3 DEF Surjection
<1>7. \A p \in 1 .. m : new[p] = tls[at[p]]
  BY <1>3
<1>8. new \in Seq(Timeline(Ids, EvKinds)) /\ DOMAIN new = 1 .. m
  <2>1. new \in [1 .. m -> Timeline(Ids, EvKinds)]
    BY <1>1, <1>3, <1>4
  <2> QED
    BY <1>1, <2>1, SeqDef
<1>9. ASSUME NEW p \in 1 .. m, NEW q \in 1 .. m, p < q
      PROVE  ~TimelineBefore(new[q], new[p])
  <2>1. RankIn(tls, at[p]) = p - 1 /\ RankIn(tls, at[q]) = q - 1 /\ p - 1 < q - 1
        /\ at[p] \in 1 .. m /\ at[q] \in 1 .. m
    BY <1>2, <1>9
  <2>2. Precedes(tls, at[p], at[q])
    BY <1>1, <2>1, Ranks
  <2>3. ~TimelineBefore(tls[at[q]], tls[at[p]])
    BY <1>1, <2>1, <2>2, PrecedesOrders
  <2> QED
    BY <1>7, <2>3
<1>10. IsSort(Ids, EvKinds, tls, new, at)
  BY <1>1, <1>4, <1>5, <1>6, <1>7, <1>8, <1>9 DEF IsSort
<1> QED
  BY <1>10 DEF new

\* What the loop collects for a key is a timeline of the window.
LEMMA CollectsIsTimeline ==
  ASSUME NEW Ids, NEW EvKinds, NEW w \in Seq(AuditEvent(Ids, EvKinds)), NEW tl \in Timeline(Ids, EvKinds), Collects(tl, w, Len(w))
  PROVE  IsTimelineOf(tl, w)
<1> DEFINE m == Len(tl.events)
<1>1. /\ tl.events \in Seq(AuditEvent(Ids, EvKinds)) /\ m \in Nat /\ DOMAIN tl.events = 1 .. m
      /\ DOMAIN w = 1 .. Len(w)
  BY LenProperties DEF Timeline
<1>2. tl.events # <<>> /\ FirstOf(tl, tl.events[1]) /\ LastOf(tl, tl.events[m]) /\ Counted(tl)
  BY DEF Collects, Summed
<1>3. Head(tl.events) = tl.events[1] /\ Last(tl.events) = tl.events[m]
  BY <1>1, <1>2, HeadTailProperties DEF Last
<1>4. PICK at : Located(tl, w, Len(w), at)
  BY DEF Collects
<1> HIDE DEF m
<1>5. /\ at \in [DOMAIN tl.events -> DOMAIN w] /\ DOMAIN at = DOMAIN tl.events
      /\ \A a, b \in DOMAIN at : a < b => at[a] < at[b]
      /\ \A a \in DOMAIN at : tl.events[a] = w[at[a]]
      /\ \A n \in DOMAIN w : TimelineKey(w[n]) = tl.key <=> \E a \in DOMAIN at : at[a] = n
  <2>1. at \in [DOMAIN tl.events -> DOMAIN w] /\ DOMAIN at = DOMAIN tl.events
    BY <1>1, <1>4 DEF Located
  <2> QED
    BY <1>1, <1>4, <2>1 DEF Located
<1>6. /\ tl.firstTS = Head(tl.events).ts /\ tl.firstRecv = Head(tl.events).recv
      /\ tl.firstSeq = Head(tl.events).seq
      /\ tl.lastTS = Last(tl.events).ts /\ tl.lastRecv = Last(tl.events).recv
      /\ tl.lastSeq = Last(tl.events).seq
  BY <1>2, <1>3 DEF FirstOf, LastOf
<1>7. Len(tl.kinds) = Cardinality({a \in DOMAIN tl.events : tl.events[a].kind \in AuditKinds})
  BY <1>2 DEF Counted
<1> QED
  BY <1>2, <1>5, <1>6, <1>7 DEF IsTimelineOf

LEMMA SortedNewestFirst ==
  ASSUME NEW Ids, NEW EvKinds, NEW tls \in Seq(Timeline(Ids, EvKinds)),
         \A i \in DOMAIN tls : LastOf(tls[i], Last(tls[i].events)),
         \A i, j \in DOMAIN tls : i < j => ~TimelineBefore(tls[j], tls[i])
  PROVE  NewestFirst(tls)
<1> SUFFICES ASSUME NEW i \in DOMAIN tls, NEW j \in DOMAIN tls, i < j
             PROVE  LET d == Last(tls[i].events)
                        e == Last(tls[j].events)
                    IN  \/ d.ts > e.ts
                        \/ d.ts = e.ts /\ d.recv > e.recv
                        \/ d.ts = e.ts /\ d.recv = e.recv /\ d.seq >= e.seq
  BY DEF NewestFirst
<1>1. tls[i] \in Timeline(Ids, EvKinds) /\ tls[j] \in Timeline(Ids, EvKinds)
  BY LenProperties, ElementOfSeq
<1> DEFINE d == Last(tls[i].events)
           e == Last(tls[j].events)
<1>2. LastOf(tls[i], d) /\ LastOf(tls[j], e) /\ ~TimelineBefore(tls[j], tls[i])
  OBVIOUS
<1> HIDE DEF d, e
<1>3. /\ tls[i].lastTS \in Int /\ tls[i].lastRecv \in Nat /\ tls[i].lastSeq \in Nat
      /\ tls[j].lastTS \in Int /\ tls[j].lastRecv \in Nat /\ tls[j].lastSeq \in Nat
  BY <1>1 DEF Timeline
<1>4. \/ tls[i].lastTS > tls[j].lastTS
      \/ tls[i].lastTS = tls[j].lastTS /\ tls[i].lastRecv > tls[j].lastRecv
      \/ tls[i].lastTS = tls[j].lastTS /\ tls[i].lastRecv = tls[j].lastRecv
         /\ tls[i].lastSeq >= tls[j].lastSeq
  BY <1>2, <1>3 DEF TimelineBefore
<1> QED
  BY <1>2, <1>4 DEF LastOf, d, e

LEMMA SortedGroups ==
  ASSUME NEW Ids, NEW EvKinds, NEW w \in Seq(AuditEvent(Ids, EvKinds))
  PROVE  Sorted(Grouped(w)[Len(w)]) \in Seq(Timeline(Ids, EvKinds))
<1> DEFINE tls == Grouped(w)[Len(w)]
<1>1. tls \in Seq(Timeline(Ids, EvKinds))
  BY LoopGroups DEF GroupsFirst
<1> HIDE DEF tls
<1>2. Sorted(tls) \in Seq(Timeline(Ids, EvKinds))
  BY <1>1, SortedSorts DEF IsSort
<1> QED
  BY <1>2 DEF tls

\* AuditTimelines of any window whatever: no event is lost, counted twice or put
\* into the group of another key, and the groups are in order.
THEOREM TimelinesOfAnyWindow ==
  ASSUME NEW Ids, NEW EvKinds, NEW w \in Seq(AuditEvent(Ids, EvKinds))
  PROVE  TimelinesOf(AuditTimelines(w, 0), w)
<1> DEFINE tls == Grouped(w)[Len(w)]
           new == Sorted(tls)
<1>1. GroupsFirst(Ids, EvKinds, tls, w, Len(w))
  BY LoopGroups
<1>2. AuditTimelines(w, 0) = new
  BY DEF AuditTimelines, FirstFew
<1> HIDE DEF tls
<1>3. tls \in Seq(Timeline(Ids, EvKinds))
  BY <1>1 DEF GroupsFirst
<1>4. PICK at : IsSort(Ids, EvKinds, tls, new, at)
  BY <1>3, SortedSorts
<1> HIDE DEF new
<1>5. /\ new \in Seq(Timeline(Ids, EvKinds)) /\ DOMAIN new = DOMAIN tls
      /\ \A p \in DOMAIN tls : at[p] \in DOMAIN tls /\ new[p] = tls[at[p]]
  BY <1>4 DEF IsSort
<1>6. \A i, j \in DOMAIN new : new[i].key = new[j].key => i = j
  <2> SUFFICES ASSUME NEW i \in DOMAIN tls, NEW j \in DOMAIN tls, new[i].key = new[j].key
               PROVE  i = j
    BY <1>5
  <2>1. at[i] \in DOMAIN tls /\ at[j] \in DOMAIN tls /\ tls[at[i]].key = tls[at[j]].key
    BY <1>5
  <2>2. at[i] = at[j]
    BY <1>1, <2>1 DEF GroupsFirst, DistinctKeys
  <2> QED
    BY <1>4, <2>2 DEF IsSort
<1>7. ASSUME NEW n \in DOMAIN w PROVE \E i \in DOMAIN new : new[i].key = TimelineKey(w[n])
  <2>1. n \in 1 .. Len(w)
    BY LenProperties
  <2>2. PICK i \in DOMAIN tls : tls[i].key = TimelineKey(w[n])
    BY <1>1, <2>1 DEF GroupsFirst
  <2>3. PICK p \in DOMAIN tls : at[p] = i
    BY <1>4 DEF IsSort
  <2>4. p \in DOMAIN new /\ new[p] = tls[i]
    BY <1>5, <2>3
  <2> QED
    BY <2>2, <2>4
<1>8. ASSUME NEW i \in DOMAIN new
      PROVE  IsTimelineOf(new[i], w) /\ LastOf(new[i], Last(new[i].events))
  <2>1. Collects(new[i], w, Len(w))
    BY <1>1, <1>5 DEF GroupsFirst
  <2>2. new[i] \in Timeline(Ids, EvKinds)
    BY <1>5, LenProperties, ElementOfSeq
  <2>3. LastOf(new[i], Last(new[i].events))
    BY <2>1 DEF Collects, Summed, Last
  <2> QED
    BY <2>1, <2>2, <2>3, CollectsIsTimeline
<1>9. \A p, q \in DOMAIN new : p < q => ~TimelineBefore(new[q], new[p])
  BY <1>4, <1>5 DEF IsSort
<1>10. NewestFirst(new)
  BY <1>5, <1>8, <1>9, SortedNewestFirst
<1> QED
  BY <1>2, <1>6, <1>7, <1>8, <1>10 DEF TimelinesOf

\* s is x, the mark, and y; s is p and x.
Marked(s, x, y) ==
    /\ Len(x) \in Nat /\ Len(y) \in Nat /\ DOMAIN s = 1 .. Len(x) + 1 + Len(y)
    /\ \A i \in 1 .. Len(x) : s[i] = x[i]
    /\ s[Len(x) + 1] = RunMark
    /\ \A i \in 1 .. Len(y) : s[Len(x) + 1 + i] = y[i]

Prefixed(s, p, x) ==
    /\ Len(x) \in Nat /\ DOMAIN s = 1 .. 1 + Len(x)
    /\ s[1] = p
    /\ \A i \in 1 .. Len(x) : s[1 + i] = x[i]

LEMMA PrefixedIs ==
  ASSUME NEW S, NEW p \in S, NEW x \in Seq(S)
  PROVE  <<p>> \o x \in Seq(S) /\ Prefixed(<<p>> \o x, p, x)
<1> DEFINE f == <<p>>
           s == f \o x
<1>1. f \in Seq(S) /\ Len(f) = 1 /\ f[1] = p /\ Len(x) \in Nat
  BY LenProperties
<1> HIDE DEF f
<1>2. /\ s \in Seq(S) /\ Len(s) = Len(f) + Len(x)
      /\ \A i \in 1 .. Len(f) + Len(x) : s[i] = IF i <= Len(f) THEN f[i] ELSE x[i - Len(f)]
  BY <1>1, ConcatProperties
<1> HIDE DEF s
<1>3. DOMAIN s = 1 .. 1 + Len(x) /\ s[1] = p
  BY <1>1, <1>2, LenProperties
<1>4. ASSUME NEW i \in 1 .. Len(x) PROVE s[1 + i] = x[i]
  <2>1. 1 + i \in 1 .. Len(f) + Len(x) /\ ~(1 + i <= Len(f)) /\ (1 + i) - Len(f) = i
    BY <1>1
  <2> QED
    BY <1>2, <2>1
<1> QED
  BY <1>1, <1>2, <1>3, <1>4 DEF Prefixed, s, f

LEMMA MarkedIs ==
  ASSUME NEW S, NEW x \in Seq(S), NEW y \in Seq(S)
  PROVE  Marked(x \o <<RunMark>> \o y, x, y)
<1> DEFINE T == S \cup {RunMark}
           m == <<RunMark>>
           front == x \o m
           s == front \o y
<1>1. x \in Seq(T) /\ y \in Seq(T) /\ m \in Seq(T) /\ Len(m) = 1 /\ m[1] = RunMark
      /\ Len(x) \in Nat /\ Len(y) \in Nat
  BY LenProperties
<1> HIDE DEF T, m
<1>2. /\ front \in Seq(T) /\ Len(front) = Len(x) + Len(m)
      /\ \A i \in 1 .. Len(x) + Len(m) : front[i] = IF i <= Len(x) THEN x[i] ELSE m[i - Len(x)]
  BY ONLY <1>1, ConcatProperties
<1> HIDE DEF front
<1>3. /\ s \in Seq(T) /\ Len(s) = Len(front) + Len(y)
      /\ \A i \in 1 .. Len(front) + Len(y) :
            s[i] = IF i <= Len(front) THEN front[i] ELSE y[i - Len(front)]
  BY ONLY <1>1, <1>2, ConcatProperties
<1> HIDE DEF s
<1>4. DOMAIN s = 1 .. Len(x) + 1 + Len(y) /\ Len(front) = Len(x) + 1
  BY <1>1, <1>2, <1>3, LenProperties
<1>5. ASSUME NEW i \in 1 .. Len(x) PROVE s[i] = x[i]
  BY <1>1, <1>2, <1>3, <1>4
<1>6. s[Len(x) + 1] = RunMark
  BY <1>1, <1>2, <1>3, <1>4
<1>7. ASSUME NEW i \in 1 .. Len(y) PROVE s[Len(x) + 1 + i] = y[i]
  <2> DEFINE k == Len(x) + 1 + i
  <2>1. k \in 1 .. Len(front) + Len(y) /\ ~(k <= Len(front)) /\ k - Len(front) = i
    BY <1>1, <1>4
  <2> HIDE DEF k
  <2>2. s[k] = y[i]
    BY <1>3, <2>1
  <2> QED
    BY <2>2 DEF k
<1> QED
  BY <1>1, <1>4, <1>5, <1>6, <1>7 DEF Marked, s, front, m

LEMMA PrefixSplits ==
  ASSUME NEW S, NEW x \in Seq(S), NEW y \in Seq(S), NEW s, NEW p, NEW q,
         Prefixed(s, p, x), Prefixed(s, q, y)
  PROVE  p = q /\ x = y
<1>1. Len(x) = Len(y) /\ \A i \in 1 .. Len(x) : x[i] = y[i]
  BY DEF Prefixed
<1> QED
  BY <1>1, SeqEqual DEF Prefixed

LEMMA MarkSplits ==
  ASSUME NEW S, RunMark \notin S, NEW a \in Seq(S), NEW b \in Seq(S),
         NEW c \in Seq(S), NEW d \in Seq(S), NEW s, Marked(s, a, b), Marked(s, c, d)
  PROVE  a = c /\ b = d
<1>a. Len(a) \in Nat /\ Len(b) \in Nat /\ Len(c) \in Nat /\ Len(d) \in Nat
  OBVIOUS
<1>b. 1 .. Len(a) + 1 + Len(b) = 1 .. Len(c) + 1 + Len(d)
  BY DEF Marked
<1>1. /\ Len(a) \in Nat /\ Len(b) \in Nat /\ Len(c) \in Nat /\ Len(d) \in Nat
      /\ Len(a) + 1 + Len(b) = Len(c) + 1 + Len(d)
  <2>1. \A x, y \in Nat : 1 .. x = 1 .. y => x <= y
    <3> SUFFICES ASSUME NEW x \in Nat, NEW y \in Nat, 1 .. x = 1 .. y, x > y PROVE FALSE
      OBVIOUS
    <3>1. x \in 1 .. x /\ x \notin 1 .. y
      OBVIOUS
    <3> QED
      BY <3>1
  <2> DEFINE k == Len(a) + 1 + Len(b)
             l == Len(c) + 1 + Len(d)
  <2>2. k \in Nat /\ l \in Nat /\ 1 .. k = 1 .. l
    BY <1>a, <1>b
  <2> HIDE DEF k, l
  <2>3. k <= l /\ l <= k
    BY <2>1, <2>2
  <2>4. k = l
    BY <2>2, <2>3
  <2> QED
    BY ONLY <1>a, <2>4 DEF k, l
<1>2. /\ \A i \in 1 .. Len(a) : s[i] = a[i] /\ a[i] # RunMark
      /\ \A i \in 1 .. Len(c) : s[i] = c[i] /\ c[i] # RunMark
      /\ s[Len(a) + 1] = RunMark /\ s[Len(c) + 1] = RunMark
  BY ElementOfSeq DEF Marked
<1>3. Len(a) = Len(c) /\ Len(b) = Len(d)
  <2>1. ~(Len(a) < Len(c))
    <3> SUFFICES ASSUME Len(a) < Len(c) PROVE FALSE
      OBVIOUS
    <3>1. Len(a) + 1 \in 1 .. Len(c)
      BY <1>1
    <3> QED
      BY <1>2, <3>1
  <2>2. ~(Len(c) < Len(a))
    <3> SUFFICES ASSUME Len(c) < Len(a) PROVE FALSE
      OBVIOUS
    <3>1. Len(c) + 1 \in 1 .. Len(a)
      BY <1>1
    <3> QED
      BY <1>2, <3>1
  <2> QED
    BY <1>1, <2>1, <2>2
<1>4. (\A i \in 1 .. Len(a) : a[i] = c[i]) /\ (\A i \in 1 .. Len(b) : b[i] = d[i])
  BY <1>3 DEF Marked
<1> QED
  BY <1>3, <1>4, SeqEqual

\* Different pairs of ids without the mark have different keys.
LEMMA PlainKeys ==
  ASSUME NEW Pieces, RunMark \notin Pieces,
         NEW s \in Seq(Pieces), NEW q \in Seq(Pieces),
         NEW t \in Seq(Pieces), NEW r \in Seq(Pieces), KeyOf(s, q) = KeyOf(t, r)
  PROVE  s = t /\ q = r
<1> DEFINE All == Pieces \cup {"session:", "run:", "unscoped"}
           Session(x) == <<"session:">> \o x
           Run(y) == <<"run:">> \o y
           Both(x, y) == Session(x) \o <<RunMark>> \o y
           None == <<"unscoped">>
<1>1. RunMark \notin All /\ "session:" \in All /\ "run:" \in All
  BY DEF RunMark
<1>2. s \in Seq(All) /\ q \in Seq(All) /\ t \in Seq(All) /\ r \in Seq(All)
  OBVIOUS
<1>3. KeyOf(s, q) = IF s # <<>> THEN IF q # <<>> THEN Both(s, q) ELSE Session(s)
                    ELSE IF q # <<>> THEN Run(q) ELSE None
  BY DEF KeyOf
<1>4. KeyOf(t, r) = IF t # <<>> THEN IF r # <<>> THEN Both(t, r) ELSE Session(t)
                    ELSE IF r # <<>> THEN Run(r) ELSE None
  BY DEF KeyOf
<1>5. None[1] = "unscoped"
  OBVIOUS
<1> HIDE DEF All
<1>6. ASSUME NEW x \in Seq(All)
      PROVE  /\ Session(x) \in Seq(All) /\ Prefixed(Session(x), "session:", x)
             /\ Prefixed(Run(x), "run:", x)
  BY <1>1, PrefixedIs
<1> HIDE DEF Session, Run
<1>7. ASSUME NEW x \in Seq(All), NEW y \in Seq(All) PROVE Marked(Both(x, y), Session(x), y)
  BY <1>6, MarkedIs
<1> HIDE DEF Both, None
<1>8. ASSUME NEW x \in Seq(All), NEW y \in Seq(All)
      PROVE  /\ Both(x, y)[1] = "session:" /\ Session(x)[1] = "session:" /\ Run(x)[1] = "run:"
             /\ \A z \in Seq(All) : Both(x, y) # Session(z)
  <2>1. Len(Session(x)) \in Nat /\ DOMAIN Session(x) = 1 .. 1 + Len(x) /\ Len(x) \in Nat
    BY <1>6 DEF Prefixed
  <2>2. 1 \in 1 .. Len(Session(x))
    BY <1>6, <2>1, LenProperties
  <2>3. Both(x, y)[1] = Session(x)[1]
    BY <1>7, <2>2 DEF Marked
  <2>4. Len(Session(x)) + 1 \in DOMAIN Both(x, y) /\ Both(x, y)[Len(Session(x)) + 1] = RunMark
    BY <1>7, <2>1 DEF Marked
  <2>5. ASSUME NEW z \in Seq(All) PROVE \A i \in DOMAIN Session(z) : Session(z)[i] # RunMark
    <3>1. Session(z) \in Seq(All)
      BY <1>6
    <3> QED
      BY <1>1, <3>1, LenProperties, ElementOfSeq
  <2>6. ASSUME NEW z \in Seq(All) PROVE Both(x, y) # Session(z)
    BY <2>4, <2>5
  <2>7. Session(x)[1] = "session:" /\ Run(x)[1] = "run:"
    BY <1>6 DEF Prefixed
  <2> QED
    BY <2>3, <2>6, <2>7
<1>9. ASSUME Both(s, q) = Both(t, r) PROVE s = t /\ q = r
  <2>1. Marked(Both(s, q), Session(s), q) /\ Marked(Both(s, q), Session(t), r)
    BY <1>2, <1>7, <1>9
  <2>2. Session(s) = Session(t) /\ q = r
    BY <1>1, <1>2, <1>6, <2>1, MarkSplits
  <2>3. Prefixed(Session(s), "session:", s) /\ Prefixed(Session(s), "session:", t)
    BY <1>2, <1>6, <2>2
  <2> QED
    BY <1>2, <2>2, <2>3, PrefixSplits
<1>10. ASSUME Session(s) = Session(t) PROVE s = t
  <2>1. Prefixed(Session(s), "session:", s) /\ Prefixed(Session(s), "session:", t)
    BY <1>2, <1>6, <1>10
  <2> QED
    BY <1>2, <2>1, PrefixSplits
<1>11. ASSUME Run(q) = Run(r) PROVE q = r
  <2>1. Prefixed(Run(q), "run:", q) /\ Prefixed(Run(q), "run:", r)
    BY <1>2, <1>6, <1>11
  <2> QED
    BY <1>2, <2>1, PrefixSplits
<1>12. /\ Both(s, q) # Session(t) /\ Session(s) # Both(t, r)
       /\ Both(s, q) # Run(r) /\ Run(q) # Both(t, r)
       /\ Both(s, q) # None /\ None # Both(t, r)
       /\ Session(s) # Run(r) /\ Run(q) # Session(t)
       /\ Session(s) # None /\ None # Session(t)
       /\ Run(q) # None /\ None # Run(r)
  <2>1. "session:" # "run:" /\ "session:" # "unscoped" /\ "run:" # "unscoped"
    OBVIOUS
  <2> QED
    BY <1>2, <1>5, <1>8, <2>1
<1> QED
  BY <1>3, <1>4, <1>9, <1>10, <1>11, <1>12

\* When no id of a window holds the mark, two events are in one timeline if and
\* only if they have the same session and the same run.
THEOREM PlainIdsShareNoTimeline ==
  ASSUME NEW Pieces, RunMark \notin Pieces, NEW EvKinds,
         NEW w \in Seq(AuditEvent(Seq(Pieces), EvKinds))
  PROVE  LET tls == AuditTimelines(w, 0)
         IN  \A i, j \in DOMAIN tls :
                \A a \in DOMAIN tls[i].events, b \in DOMAIN tls[j].events :
                   i = j <=> /\ tls[i].events[a].session = tls[j].events[b].session
                             /\ tls[i].events[a].run = tls[j].events[b].run
<1> DEFINE tls == AuditTimelines(w, 0)
<1>1. TimelinesOf(tls, w)
  BY TimelinesOfAnyWindow
<1> HIDE DEF tls
<1>2. ASSUME NEW i \in DOMAIN tls, NEW a \in DOMAIN tls[i].events
      PROVE  /\ tls[i].events[a] \in AuditEvent(Seq(Pieces), EvKinds)
             /\ TimelineKey(tls[i].events[a]) = tls[i].key
  <2>1. IsTimelineOf(tls[i], w)
    BY <1>1 DEF TimelinesOf
  <2>2. PICK at \in [DOMAIN tls[i].events -> DOMAIN w] :
            /\ \A c \in DOMAIN at : tls[i].events[c] = w[at[c]]
            /\ \A n \in DOMAIN w : TimelineKey(w[n]) = tls[i].key <=> \E c \in DOMAIN at : at[c] = n
    BY <2>1 DEF IsTimelineOf
  <2>3. at[a] \in DOMAIN w /\ tls[i].events[a] = w[at[a]] /\ TimelineKey(w[at[a]]) = tls[i].key
    BY <2>2
  <2> QED
    BY <2>3, LenProperties, ElementOfSeq
<1>3. ASSUME NEW i \in DOMAIN tls, NEW j \in DOMAIN tls,
             NEW a \in DOMAIN tls[i].events, NEW b \in DOMAIN tls[j].events
      PROVE  i = j <=> /\ tls[i].events[a].session = tls[j].events[b].session
                       /\ tls[i].events[a].run = tls[j].events[b].run
  <2> DEFINE d == tls[i].events[a]
             e == tls[j].events[b]
  <2>1. /\ d.session \in Seq(Pieces) /\ d.run \in Seq(Pieces)
        /\ e.session \in Seq(Pieces) /\ e.run \in Seq(Pieces)
        /\ KeyOf(d.session, d.run) = tls[i].key /\ KeyOf(e.session, e.run) = tls[j].key
    BY <1>2 DEF AuditEvent, TimelineKey
  <2> HIDE DEF d, e
  <2>2. d.session = e.session /\ d.run = e.run => i = j
    BY <1>1, <2>1 DEF TimelinesOf
  <2>3. i = j => d.session = e.session /\ d.run = e.run
    BY <2>1, PlainKeys
  <2> QED
    BY <2>2, <2>3 DEF d, e
<1> QED
  BY <1>3 DEF tls

\* TimelinesRight: AuditTimelines partitions a window by the key of session and
\* run, keeps the order of arrival within each and puts the newest timeline first.
THEOREM TimelinesOfWindows == Spec => []TimelinesRight
<1>1. ASSUME NEW w \in Windows PROVE TimelinesOf(AuditTimelines(w, 0), w)
  <2> DEFINE Sessions == {<<>>, <<"s">>, <<"s", RunMark, "r">>}
             Runs == {<<>>, <<"r">>}
             EventKinds == {"run", "other"}
             Names == Sessions \cup Runs
  <2>1. ASSUME NEW q \in Nat PROVE WindowEvents(q) \subseteq AuditEvent(Names, EventKinds)
    <3>1. WindowEvents(q) = [seq : {q}, recv : {q}, ts : 1 .. 2, session : Sessions, run : Runs,
                             kind : EventKinds]
      BY DEF WindowEvents
    <3> HIDE DEF Sessions, Runs, EventKinds
    <3>2. Sessions \subseteq Names /\ Runs \subseteq Names
      OBVIOUS
    <3>3. {q} \subseteq Nat /\ 1 .. 2 \subseteq Int
      OBVIOUS
    <3> HIDE DEF Names
    <3> QED
      BY <3>1, <3>2, <3>3 DEF AuditEvent
  <2> HIDE DEF Names, EventKinds
  <2>2. w \in Seq(AuditEvent(Names, EventKinds))
    <3>1. CASE w = <<>>
      BY <3>1
    <3>2. CASE \E a \in WindowEvents(1) : w = <<a>>
      BY <2>1, <3>2
    <3>3. CASE \E a \in WindowEvents(1), b \in WindowEvents(2) : w = <<a, b>>
      BY <2>1, <3>3
    <3>4. CASE \E a \in WindowEvents(1), b \in WindowEvents(2), c \in WindowEvents(3) :
                  w = <<a, b, c>>
      BY <2>1, <3>4
    <3> QED
      BY <3>1, <3>2, <3>3, <3>4 DEF Windows
  <2> QED
    BY <2>2, TimelinesOfAnyWindow
<1>2. TimelinesRight
  BY <1>1 DEF TimelinesRight
<1> QED
  BY <1>2, PTL
-----------------------------------------------------------------------------
(* The window, and the lists of a page.                                     *)
(*                                                                         *)
(* A range that is taken lies behind the cursor as a whole, so that its    *)
(* events come after all that the window holds; and what is cut off is     *)
(* older than what stays.                                                  *)

Entry == AuditEvent(Seq(Text), AuditKinds)

\* A window that ends at or before a position.
OrderedUpTo(w, cursor) ==
    /\ w \in Seq(Entry) /\ Len(w) <= Retention
    /\ \A i \in 1 .. Len(w) : w[i].seq <= 2 * cursor
    /\ \A i, j \in 1 .. Len(w) : i < j => w[i].seq < w[j].seq

\* A later window reaches at least as far.
ReachesAs(late, early) ==
    /\ Newest(early) <= Newest(late)
    /\ early # <<>> => late # <<>>

WindowOK == view.cursor \in Nat /\ OrderedUpTo(view.window, view.cursor)

\* A list of timelines, and one of events, that reach the newest event of a window.
TimelinesReachTo(timelines, window) ==
    window # <<>> /\ Uncut(timelines) =>
        \E i \in DOMAIN timelines : Newest(window) <= timelines[i].lastSeq

\* The copies a page has of the window.
ListsOK ==
    page.kind \in {"html", "api"} =>
        /\ page.step >= 1 => page.node.window \in Seq(Entry) /\ ReachesAs(view.window, page.node.window)
        /\ page.step >= (IF page.kind = "html" THEN 4 ELSE 5) =>
              TimelinesReachTo(page.timelines, page.node.window)
        /\ page.step >= (IF page.kind = "html" THEN 5 ELSE 4) /\ page.node.window # <<>> =>
              page.events # <<>> /\ Newest(page.node.window) <= page.events[1].seq

Bodied(body) ==
    /\ Len(body) \in Nat /\ DOMAIN body = 1 .. Len(body)
    /\ \A i \in 1 .. Len(body) : OfTheLog(body[i])

WindowInv == Inv /\ WindowOK /\ ListsOK

\* Everything on its way to the center is a piece of the node's log.
LEMMA BodiesOfTheLog == ASSUME NEW body \in Bodies PROVE Bodied(body)
  <1>1. CASE body \in OtherPosts
    BY <1>1, OthersAssumption DEF Bodied
  <1>2. CASE body = <<>>
    BY <1>2 DEF Bodied
  <1>3. ASSUME NEW n \in Nat, body = <<Status(Node, n)>> PROVE Bodied(body)
    <2>1. body[1].type = "status" /\ Len(body) = 1 /\ DOMAIN body = 1 .. 1
      BY <1>3 DEF Status
    <2> QED
      BY <2>1 DEF Bodied, OfTheLog
  <1>4. ASSUME NEW n \in Nat, NEW t \in EdgeTimes, NEW u \in EdgeTimes,
               body = <<TwoEvents(n, t, u)>>
        PROVE  Bodied(body)
    <2> DEFINE d == <<"sess-demo">>
               e == <<Event(2 * n + 1, t, d, "run"), Event(2 * n + 2, u, d, "final")>>
    <2>1. /\ body[1].to = n + 1 /\ body[1].events = e
          /\ Len(body) = 1 /\ DOMAIN body = 1 .. 1
      BY <1>4 DEF TwoEvents, Batch
    <2>a. d \in Seq(Text) /\ t \in Int /\ u \in Int
      BY FleetAssumption
    <2>b. Event(2 * n + 1, t, d, "run") \in EventType /\ Event(2 * n + 2, u, d, "final") \in EventType
      <3> HIDE DEF d
      <3>1. <<>> \in Seq(Text)
        BY EmptySeq
      <3>2. "run" \in AuditKinds /\ "final" \in AuditKinds
        BY DEF AuditKinds
      <3>3. 2 * n + 1 \in Nat /\ 2 * n + 2 \in Nat
        OBVIOUS
      <3> QED
        BY <2>a, <3>1, <3>2, <3>3 DEF Event, EventType
    <2>2. e \in Seq(EventType) /\ Len(e) = 2 /\ e[1].seq = 2 * n + 1 /\ e[2].seq = 2 * n + 2
      <3> HIDE DEF d
      <3>1. e \in Seq(EventType) /\ Len(e) = 2
        BY <2>b
      <3>2. e[1].seq = 2 * n + 1 /\ e[2].seq = 2 * n + 2
        BY DEF Event
      <3> QED
        BY <3>1, <3>2
    <2> HIDE DEF e
    <2>3. \A i \in 1 .. Len(e) : e[i].seq \in 2 * (n + 1) - 1 .. 2 * (n + 1)
      BY <2>2
    <2>4. \A i, j \in 1 .. Len(e) : i < j => e[i].seq < e[j].seq
      BY <2>2
    <2>5. body[1].events = e
      BY <2>1
    <2>6. OfTheLog(body[1])
      BY <2>1, <2>2, <2>3, <2>4, <2>5 DEF OfTheLog
    <2> QED
      BY <2>1, <2>6 DEF Bodied
  <1> QED
    BY <1>1, <1>2, <1>3, <1>4 DEF Bodies

\* The newest event of a window that is not empty.
LEMMA NewestIsLast ==
    ASSUME NEW w \in Seq(Entry)
    PROVE  /\ Newest(w) \in Nat
           /\ w = <<>> => Newest(w) = 0
           /\ w # <<>> => Len(w) >= 1 /\ Newest(w) = w[Len(w)].seq
  <1>1. CASE w = <<>>
    BY <1>1 DEF Newest
  <1>2. CASE w # <<>>
    <2>1. Len(w) \in Nat /\ Len(w) >= 1
      BY <1>2, EmptySeq
    <2>2. w[Len(w)] \in Entry
      BY <2>1, ElementOfSeq
    <2> QED
      BY <1>2, <2>1, <2>2 DEF Newest, Last, Entry, AuditEvent
  <1> QED
    BY <1>1, <1>2

\* The events of a range that ends after a position come after it.
LEMMA Beyond ==
    ASSUME NEW c \in Nat, NEW t \in Nat, t > c, NEW a \in Nat, a <= 2 * c,
           NEW b \in 2 * t - 1 .. 2 * t
    PROVE  a < b /\ a <= 2 * t /\ b \in Nat /\ b <= 2 * t
  OBVIOUS

\* What taking a range does to the window.
LEMMA WindowGrows ==
    ASSUME NEW v, NEW recv \in Nat, NEW env,
           v.cursor \in Nat, OrderedUpTo(v.window, v.cursor), DOMAIN v = DOMAIN NewView,
           OfTheLog(env), Valid(env), env.type = "audit_batch", After(env.to, v.cursor)
    PROVE  LET new == ApplyAudit(v, recv, env)
           IN  new.cursor \in Nat /\ OrderedUpTo(new.window, new.cursor)
               /\ ReachesAs(new.window, v.window)
  <1> DEFINE taken == [i \in DOMAIN env.events |-> Stored(env.events[i], recv)]
             w == v.window
             all == w \o taken
             new == ApplyAudit(v, recv, env)
             n == Len(w)
             m == Len(env.events)
             cut == Excess(all)
  <1>1. /\ env.to \in Nat \ {0} /\ env.events \in Seq(EventType) /\ env.events # <<>>
        /\ \A i \in 1 .. m : env.events[i].seq \in 2 * env.to - 1 .. 2 * env.to
        /\ \A i, j \in 1 .. m : i < j => env.events[i].seq < env.events[j].seq
        /\ env.to > v.cursor
    BY DEF OfTheLog, Valid, After
  <1>2. /\ w \in Seq(Entry) /\ n \in Nat /\ n <= Retention
        /\ \A i \in 1 .. n : w[i].seq <= 2 * v.cursor /\ w[i] \in Entry /\ w[i].seq \in Nat
        /\ \A i, j \in 1 .. n : i < j => w[i].seq < w[j].seq
    <2>1. \A i \in 1 .. n : w[i] \in Entry
      BY ElementOfSeq DEF OrderedUpTo
    <2>2. w \in Seq(Entry) /\ n \in Nat
      BY DEF OrderedUpTo
    <2> QED
      BY <2>1, <2>2 DEF OrderedUpTo, Entry, AuditEvent
  <1>3. taken \in Seq(Entry) /\ Len(taken) = m /\ m \in Nat /\ m >= 1
    <2>1. m \in Nat /\ DOMAIN env.events = 1 .. m /\ m >= 1
      BY <1>1
    <2>2. ASSUME NEW i \in 1 .. m PROVE Stored(env.events[i], recv) \in Entry
      <3>1. env.events[i] \in EventType
        BY <1>1, <2>1, ElementOfSeq
      <3> QED
        BY <3>1 DEF Stored, EventType, Entry, AuditEvent
    <2>3. taken \in [1 .. m -> Entry]
      BY <2>1, <2>2
    <2> QED
      BY <2>1, <2>3
  <1>4. \A i \in 1 .. m : taken[i].seq = env.events[i].seq
    BY <1>1 DEF Stored
  <1>5. new.cursor = env.to /\ new.window = SubSeq(all, cut + 1, Len(all))
    BY DEF ApplyAudit, NewView
  <1> HIDE DEF taken, w, new
  <1>6. /\ all \in Seq(Entry) /\ Len(all) = n + m
        /\ \A i \in 1 .. n + m : all[i] = IF i <= n THEN w[i] ELSE taken[i - n]
    <2>1. w \in Seq(Entry) /\ taken \in Seq(Entry)
      BY <1>2, <1>3
    <2>2. /\ all \in Seq(Entry) /\ Len(all) = Len(w) + Len(taken)
          /\ \A i \in 1 .. Len(w) + Len(taken) : all[i] = IF i <= Len(w) THEN w[i] ELSE taken[i - Len(w)]
      BY <2>1, ConcatProperties
    <2> QED
      BY <1>3, <2>2
  <1> HIDE DEF all
  <1>7. \A i \in 1 .. n + m : all[i].seq \in Nat /\ all[i].seq <= 2 * env.to
    <2> SUFFICES ASSUME NEW i \in 1 .. n + m PROVE all[i].seq \in Nat /\ all[i].seq <= 2 * env.to
      OBVIOUS
    <2>1. CASE i <= n
      <3>1. i \in 1 .. n /\ all[i] = w[i]
        BY <1>2, <1>6, <2>1
      <3>2. 2 * v.cursor <= 2 * env.to
        BY <1>1
      <3>3. w[i].seq \in Nat /\ w[i].seq <= 2 * v.cursor
        BY <1>2, <3>1
      <3>4. 2 * v.cursor \in Nat /\ 2 * env.to \in Nat
        BY <1>1
      <3> HIDE DEF n, m
      <3> QED
        BY <3>1, <3>2, <3>3, <3>4
    <2>2. CASE i > n
      <3>1. i - n \in 1 .. m /\ all[i] = taken[i - n]
        BY <1>2, <1>3, <1>6, <2>2
      <3>2. all[i].seq = env.events[i - n].seq /\ env.events[i - n].seq \in 2 * env.to - 1 .. 2 * env.to
        BY <1>1, <1>4, <3>1
      <3> QED
        BY <1>1, <3>2
    <2> QED
      BY <1>2, <2>1, <2>2
  <1>8. \A i, j \in 1 .. n + m : i < j => all[i].seq < all[j].seq
    <2> SUFFICES ASSUME NEW i \in 1 .. n + m, NEW j \in 1 .. n + m, i < j
                 PROVE  all[i].seq < all[j].seq
      OBVIOUS
    <2>1. CASE j <= n
      BY <1>2, <1>6, <2>1
    <2>2. CASE j > n
      <3>1. j - n \in 1 .. m /\ all[j].seq = env.events[j - n].seq
        <4>1. j - n \in 1 .. m /\ all[j] = taken[j - n]
          BY <1>2, <1>3, <1>6, <2>2
        <4> QED
          BY <1>4, <4>1
      <3>2. env.events[j - n].seq \in 2 * env.to - 1 .. 2 * env.to
        BY <1>1, <3>1
      <3>3. CASE i <= n
        <4>1. all[i].seq \in Nat /\ all[i].seq <= 2 * v.cursor
          BY <1>2, <1>6, <3>3
        <4>2. v.cursor \in Nat /\ env.to \in Nat /\ env.to > v.cursor
          BY <1>1
        <4>3. all[i].seq < env.events[j - n].seq
          <5> DEFINE a == all[i].seq
                     b == env.events[j - n].seq
                     c == v.cursor
                     t == env.to
          <5>1. /\ a \in Nat /\ a <= 2 * c /\ b \in 2 * t - 1 .. 2 * t
                /\ c \in Nat /\ t \in Nat /\ t > c
            BY <3>2, <4>1, <4>2
          <5> HIDE DEF a, b, c, t
          <5>2. a < b
            BY <5>1
          <5> QED
            BY <5>2 DEF a, b
        <4> QED
          BY <3>1, <4>3
      <3>4. CASE i > n
        <4>1. i - n \in 1 .. m /\ all[i].seq = env.events[i - n].seq
          <5>1. i - n \in 1 .. m /\ ~(i <= n)
            BY <1>2, <1>3, <3>4
          <5>2. all[i] = taken[i - n]
            BY <1>6, <5>1
          <5> QED
            BY <1>4, <5>1, <5>2
        <4>2. i - n < j - n
          BY <1>2
        <4> QED
          BY <1>1, <3>1, <4>1, <4>2
      <3> QED
        BY <1>2, <3>3, <3>4
    <2> QED
      BY <1>2, <2>1, <2>2
  <1>9. cut \in Nat /\ cut < n + m /\ n + m - cut <= Retention
    BY <1>2, <1>3, <1>6, FleetAssumption DEF Excess
  <1> HIDE DEF cut
  <1>10. /\ new.window \in Seq(Entry) /\ Len(new.window) = n + m - cut
         /\ \A i \in 1 .. n + m - cut : new.window[i] = all[cut + i]
    BY <1>2, <1>3, <1>5, <1>6, <1>9
  <1>11. OrderedUpTo(new.window, new.cursor)
    <2>1. \A i \in 1 .. n + m - cut : cut + i \in 1 .. n + m
      BY <1>2, <1>3, <1>9
    <2>2. \A i \in 1 .. Len(new.window) : new.window[i].seq <= 2 * new.cursor
      BY <1>5, <1>7, <1>10, <2>1
    <2>3. ASSUME NEW i \in 1 .. Len(new.window), NEW j \in 1 .. Len(new.window), i < j
          PROVE  new.window[i].seq < new.window[j].seq
      <3>1. cut + i \in 1 .. n + m /\ cut + j \in 1 .. n + m /\ cut + i < cut + j
        BY <1>2, <1>3, <1>9, <1>10, <2>1, <2>3
      <3> QED
        BY <1>8, <1>10, <3>1
    <2> QED
      BY <1>9, <1>10, <2>2, <2>3 DEF OrderedUpTo
  <1>12. ReachesAs(new.window, w)
    <2>1. Newest(new.window) = all[n + m].seq /\ new.window # <<>>
      <3>1. Len(new.window) >= 1 /\ Len(new.window) = n + m - cut /\ cut + (n + m - cut) = n + m
        BY <1>2, <1>3, <1>9, <1>10
      <3>2. new.window # <<>> /\ new.window[Len(new.window)] = all[n + m]
        BY <1>10, <3>1
      <3> QED
        BY <1>10, <3>2, NewestIsLast
    <2>2. CASE w = <<>>
      <3>1. n + m \in 1 .. n + m
        BY <1>2, <1>3
      <3>2. Newest(w) = 0 /\ all[n + m].seq \in Nat
        BY <1>2, <1>7, <2>2, <3>1, NewestIsLast
      <3> QED
        BY <2>1, <2>2, <3>2 DEF ReachesAs
    <2>3. CASE w # <<>>
      <3>1. n >= 1 /\ Newest(w) = w[n].seq
        BY <1>2, <2>3, NewestIsLast
      <3>2. n < n + m /\ n \in 1 .. n + m /\ n + m \in 1 .. n + m /\ all[n] = w[n]
        BY <1>2, <1>3, <1>6, <3>1
      <3>3. all[n].seq < all[n + m].seq
        BY <1>8, <3>2
      <3> QED
        BY <1>7, <2>1, <3>1, <3>2, <3>3 DEF ReachesAs
    <2> QED
      BY <2>2, <2>3
  <1> QED
    BY <1>1, <1>5, <1>11, <1>12 DEF w, new

\* A range that ends after the cursor ends above nothing: the view a page has
\* copied is reached by every later one.
LEMMA ReachesTransitive ==
    ASSUME NEW a \in Seq(Entry), NEW b \in Seq(Entry), NEW c \in Seq(Entry),
           ReachesAs(b, a), ReachesAs(c, b)
    PROVE  ReachesAs(c, a)
  BY NewestIsLast DEF ReachesAs

\* The newest event is the first of the list, whatever its length.
LEMMA EventsReach ==
    ASSUME NEW w \in Seq(Entry), w # <<>>
    PROVE  /\ AuditEvents(w, EventLimit) # <<>>
           /\ AuditEvents(w, EventLimit)[1].seq = Newest(w)
  <1> DEFINE r == [i \in 1 .. Len(w) |-> w[(Len(w) - i) + 1]]
  <1>1. Len(w) \in Nat /\ Len(w) >= 1 /\ Newest(w) = w[Len(w)].seq
    BY NewestIsLast, LenProperties
  <1>2. r \in Seq(Entry) /\ Len(r) = Len(w) /\ r[1] = w[Len(w)]
    <2>1. r \in [1 .. Len(w) -> Entry]
      BY <1>1, ElementOfSeq
    <2> QED
      BY <1>1, <2>1
  <1>3. Reverse(w) = r
    BY DEF Reverse
  <1> HIDE DEF r
  <1>4. CASE EventLimit > 0 /\ Len(r) > EventLimit
    <2>1. AuditEvents(w, EventLimit) = SubSeq(r, 1, EventLimit)
      BY <1>3, <1>4 DEF AuditEvents, FirstFew
    <2>2. EventLimit \in Nat /\ 1 <= EventLimit /\ \A i \in 1 .. EventLimit : r[i] \in Entry
      BY <1>1, <1>2, <1>4, FleetAssumption, ElementOfSeq
    <2>3. /\ SubSeq(r, 1, EventLimit) \in Seq(Entry) /\ Len(SubSeq(r, 1, EventLimit)) = EventLimit
          /\ SubSeq(r, 1, EventLimit)[1] = r[1]
      <3>1. /\ SubSeq(r, 1, EventLimit) \in Seq(Entry)
            /\ Len(SubSeq(r, 1, EventLimit)) = EventLimit - 1 + 1
            /\ \A i \in 1 .. EventLimit - 1 + 1 : SubSeq(r, 1, EventLimit)[i] = r[1 + i - 1]
        BY <2>2, SubSeqProperties
      <3> QED
        BY <2>2, <3>1
    <2>4. SubSeq(r, 1, EventLimit) # <<>>
      <3> DEFINE few == SubSeq(r, 1, EventLimit)
      <3>1. Len(few) = EventLimit
        BY <2>3
      <3> HIDE DEF few
      <3>2. few # <<>>
        BY <2>2, <3>1
      <3> QED
        BY <3>2 DEF few
    <2> QED
      BY <1>1, <1>2, <2>1, <2>3, <2>4
  <1>5. CASE ~(EventLimit > 0 /\ Len(r) > EventLimit)
    <2>1. AuditEvents(w, EventLimit) = r
      BY <1>3, <1>5 DEF AuditEvents, FirstFew
    <2>2. r # <<>>
      BY <1>1, <1>2
    <2> QED
      BY <1>1, <1>2, <2>1, <2>2
  <1> QED
    BY <1>4, <1>5

\* The newest event is the last one of its timeline, wherever the edge's clock
\* puts that, unless the list is cut.
LEMMA TimelinesReach ==
    ASSUME NEW w \in Seq(Entry), w # <<>>, Uncut(AuditTimelines(w, TimelineLimit))
    PROVE  \E i \in DOMAIN AuditTimelines(w, TimelineLimit) :
              AuditTimelines(w, TimelineLimit)[i].lastSeq = Newest(w)
  <1> DEFINE all == AuditTimelines(w, 0)
             n == Len(w)
  <1>1. n \in Nat /\ n >= 1 /\ n \in DOMAIN w /\ DOMAIN w = 1 .. n /\ Newest(w) = w[n].seq
    BY NewestIsLast, LenProperties
  <1>2. TimelinesOf(all, w)
    BY TimelinesOfAnyWindow DEF Entry
  <1>3. AuditTimelines(w, TimelineLimit) = all
    <2> DEFINE tls == Sorted(Grouped(w)[Len(w)])
    <2>1. all = tls /\ AuditTimelines(w, TimelineLimit) = FirstFew(tls, TimelineLimit)
      BY DEF AuditTimelines, FirstFew
    <2>2. tls \in Seq(Timeline(Seq(Text), AuditKinds))
      BY SortedGroups DEF Entry
    <2> HIDE DEF tls, all
    <2>3. CASE TimelineLimit > 0 /\ Len(tls) > TimelineLimit
      <3>1. AuditTimelines(w, TimelineLimit) = SubSeq(tls, 1, TimelineLimit)
        BY <2>1, <2>3 DEF FirstFew
      <3>2. TimelineLimit \in Nat /\ \A i \in 1 .. TimelineLimit :
                 tls[i] \in Timeline(Seq(Text), AuditKinds)
        BY <2>2, <2>3, FleetAssumption, LenProperties, ElementOfSeq
      <3>3. Len(SubSeq(tls, 1, TimelineLimit)) = TimelineLimit
        <4>1. Len(SubSeq(tls, 1, TimelineLimit)) = TimelineLimit - 1 + 1
          BY <3>2, SubSeqProperties
        <4> QED
          BY <3>2, <4>1
      <3> QED
        BY <2>3, <3>1, <3>2, <3>3 DEF Uncut
    <2>4. CASE ~(TimelineLimit > 0 /\ Len(tls) > TimelineLimit)
      BY <2>1, <2>4 DEF FirstFew
    <2> QED
      BY <2>3, <2>4
  <1> HIDE DEF all, n
  <1>4. PICK i \in DOMAIN all : all[i].key = TimelineKey(w[n])
    BY <1>1, <1>2 DEF TimelinesOf
  <1>5. IsTimelineOf(all[i], w)
    BY <1>2 DEF TimelinesOf
  <1> DEFINE tl == all[i]
  <1>6. PICK at \in [DOMAIN tl.events -> DOMAIN w] :
            /\ \A a, b \in DOMAIN at : a < b => at[a] < at[b]
            /\ \A a \in DOMAIN at : tl.events[a] = w[at[a]]
            /\ \A k \in DOMAIN w : TimelineKey(w[k]) = tl.key <=> \E a \in DOMAIN at : at[a] = k
    BY <1>5 DEF IsTimelineOf
  <1>7. tl.lastSeq = Last(tl.events).seq /\ tl.events # <<>>
    BY <1>5 DEF IsTimelineOf
  <1>8. tl \in Timeline(Seq(Text), AuditKinds)
    BY SortedGroups, ElementOfSeq, LenProperties DEF Entry, all, AuditTimelines, FirstFew
  <1> DEFINE m == Len(tl.events)
  <1>9. m \in Nat /\ DOMAIN tl.events = 1 .. m /\ m >= 1 /\ Last(tl.events) = tl.events[m]
    <2>1. tl.events \in Seq(Entry)
      BY <1>8 DEF Timeline, Entry
    <2>2. m \in Nat /\ DOMAIN tl.events = 1 .. m
      BY <2>1, LenProperties
    <2> QED
      BY <1>7, <2>1, <2>2, EmptySeq DEF Last
  <1> HIDE DEF tl, m
  <1>10. PICK a \in DOMAIN at : at[a] = n
    BY <1>1, <1>4, <1>6 DEF tl
  <1>11. a = m
    <2>1. a \in 1 .. m /\ m \in DOMAIN at /\ at[m] \in 1 .. n
      BY <1>1, <1>6, <1>9
    <2>2. a < m => at[a] < at[m]
      BY <1>6, <1>10, <2>1
    <2> QED
      BY <1>1, <1>9, <1>10, <2>1, <2>2
  <1>12. tl.lastSeq = w[n].seq
    BY <1>6, <1>7, <1>9, <1>10, <1>11
  <1> QED
    BY <1>1, <1>3, <1>4, <1>12 DEF tl

\* Only a range that is taken changes the window, and it takes it further.
LEMMA WindowKeeps ==
    ASSUME Inv, WindowOK, [Next]_vars
    PROVE  WindowOK' /\ ReachesAs(view'.window, view.window)
  <1>1. view.window \in Seq(Entry) /\ Newest(view.window) \in Nat /\ DOMAIN view = DOMAIN NewView
    BY NewestIsLast DEF WindowOK, OrderedUpTo, Inv, Heard
  <1>2. CASE view'.window = view.window /\ view'.cursor = view.cursor
    BY <1>1, <1>2 DEF WindowOK, OrderedUpTo, ReachesAs
  <1>3. ASSUME NEW h \in Handlers, Apply(h), NextEnvelope(h).type = "audit_batch"
        PROVE  WindowOK' /\ ReachesAs(view'.window, view.window)
    <2> DEFINE env == NextEnvelope(h)
               body == handler[h].body
    <2>1. /\ handler[h].stage = "applying" /\ handler[h].done < Len(body)
          /\ ~IsDuplicate(view, env)
          /\ view' = Applied(view, handler[h].recv, env)
      BY <1>3 DEF Apply, HasNext
    <2>2. handler[h].recv \in Nat /\ handler[h].done \in Nat /\ body \in Bodies /\ Checked(body)
      BY <2>1 DEF Inv, Timely
    <2>3. Bodied(body)
      BY <2>2, BodiesOfTheLog
    <2>4. handler[h].done + 1 \in 1 .. Len(body) /\ env = body[handler[h].done + 1]
      BY <2>1, <2>2, <2>3 DEF Bodied, NextEnvelope
    <2>5. Valid(env) /\ OfTheLog(env)
      BY <2>2, <2>3, <2>4 DEF Bodied, Checked
    <2> HIDE DEF env, body
    <2>6. After(env.to, view.cursor) /\ env.type = "audit_batch"
      BY <1>3, <2>1 DEF IsDuplicate, env
    <2>7. view' = ApplyAudit(view, handler[h].recv, env)
      BY <2>1, <2>6 DEF Applied
    <2> QED
      BY <1>1, <2>2, <2>5, <2>6, <2>7, WindowGrows DEF WindowOK
  <1>4. ASSUME NEW h \in Handlers, Apply(h), NextEnvelope(h).type # "audit_batch"
        PROVE  view'.window = view.window /\ view'.cursor = view.cursor
    <2>1. view' = Applied(view, handler[h].recv, NextEnvelope(h))
      BY <1>4 DEF Apply
    <2> QED
      BY <1>1, <1>4, <2>1 DEF Applied, ApplyStatus, ApplyJobEvent, NewView
  <1>5. ASSUME NEW h \in Handlers, Duplicate(h) \/ ApplyFails(h)
        PROVE  view'.window = view.window /\ view'.cursor = view.cursor
    BY <1>1, <1>5 DEF Duplicate, ApplyFails, NewView
  <1>6. CASE UNCHANGED view
    BY <1>2, <1>6
  <1>7. UNCHANGED view \/ \E h \in Handlers : Apply(h) \/ Duplicate(h) \/ ApplyFails(h)
    BY DEF Next, vars, client, center, Beat, Ship, EdgeRestart, PostOther, Tick, Ask, ReadNext,
           Show, Receive, Decode, Reply
  <1> QED
    BY <1>2, <1>3, <1>4, <1>5, <1>6, <1>7

\* A step that does not touch the page only takes the window further.
LEMMA ListsStay ==
    ASSUME Inv, WindowOK, WindowOK', ListsOK, ReachesAs(view'.window, view.window), UNCHANGED page
    PROVE  ListsOK'
  <1> SUFFICES ASSUME page.kind \in {"html", "api"}, page.step >= 1
               PROVE  ReachesAs(view'.window, page.node.window)
    BY DEF ListsOK
  <1>1. /\ page.node.window \in Seq(Entry) /\ ReachesAs(view.window, page.node.window)
        /\ view.window \in Seq(Entry) /\ view'.window \in Seq(Entry)
    BY DEF ListsOK, WindowOK, OrderedUpTo
  <1> QED
    BY <1>1, ReachesTransitive

\* What a read changes of the lists.
LEMMA ReadLists ==
    ASSUME Inv, NEW what \in {"node", "online", "signals", "events", "timelines"}, page.kind \in Kinds
    PROVE  LET new == [Read(what) EXCEPT !.step = @ + 1]
           IN  /\ new.timelines = IF what = "timelines" THEN AuditTimelines(view.window, TimelineLimit)
                                  ELSE page.timelines
               /\ new.events = IF what = "events" THEN AuditEvents(view.window, EventLimit)
                               ELSE page.events
  <1> DOMAIN page = DOMAIN NoPage
    BY DEF Inv, Badge
  <1>1. CASE what = "node"
    BY <1>1 DEF Read, NoPage
  <1>2. CASE what = "online"
    BY <1>2 DEF Read, NoPage
  <1>3. CASE what = "signals"
    BY <1>3 DEF Read, NoPage
  <1>4. CASE what = "events"
    BY <1>4 DEF Read, NoPage
  <1>5. CASE what = "timelines"
    BY <1>5 DEF Read, NoPage
  <1> QED
    BY <1>1, <1>2, <1>3, <1>4, <1>5

\* A read of a page with lists: the copy of the node comes first, and each list
\* is as new as the window is when it is read.
LEMMA ListsRead ==
    ASSUME Inv, WindowOK, ListsOK, UNCHANGED view, page.kind \in {"html", "api"},
           NEW what \in {"node", "online", "signals", "events", "timelines"},
           what = "node" <=> page.step = 0,
           what = "timelines" <=> page.step = (IF page.kind = "html" THEN 3 ELSE 4),
           what = "events" <=> page.step = (IF page.kind = "html" THEN 4 ELSE 3),
           page' = [Read(what) EXCEPT !.step = @ + 1]
    PROVE  ListsOK'
  <1>1. /\ page'.kind = page.kind /\ page'.step = page.step + 1 /\ page.step \in Nat
        /\ page'.node = IF what = "node" THEN view ELSE page.node
        /\ page'.timelines = IF what = "timelines" THEN AuditTimelines(view.window, TimelineLimit)
                             ELSE page.timelines
        /\ page'.events = IF what = "events" THEN AuditEvents(view.window, EventLimit)
                          ELSE page.events
    BY ReadKeeps, ReadLists DEF Kinds, Inv, Badge
  <1>2. view.window \in Seq(Entry) /\ Newest(view.window) \in Nat
    BY NewestIsLast DEF WindowOK, OrderedUpTo
  <1>3. page'.node.window \in Seq(Entry) /\ ReachesAs(view'.window, page'.node.window)
    <2>1. CASE page.step = 0
      BY <1>1, <1>2, <2>1 DEF ReachesAs
    <2>2. CASE page.step >= 1
      BY <1>1, <2>2 DEF ListsOK
    <2> QED
      BY <1>1, <2>1, <2>2
  <1>4. Newest(page'.node.window) \in Nat
    BY <1>3, NewestIsLast
  <1>5. page'.step >= (IF page'.kind = "html" THEN 4 ELSE 5) =>
           TimelinesReachTo(page'.timelines, page'.node.window)
    <2>1. CASE what = "timelines"
      <3> SUFFICES ASSUME page'.node.window # <<>>, Uncut(page'.timelines)
                   PROVE  \E i \in DOMAIN page'.timelines :
                             Newest(page'.node.window) <= page'.timelines[i].lastSeq
        BY DEF TimelinesReachTo
      <3>1. view.window # <<>> /\ Newest(page'.node.window) <= Newest(view.window)
        BY <1>3 DEF ReachesAs
      <3>2. page'.timelines = AuditTimelines(view.window, TimelineLimit)
        BY <1>1, <2>1
      <3>3. \E i \in DOMAIN page'.timelines : page'.timelines[i].lastSeq = Newest(view.window)
        BY <1>2, <3>1, <3>2, TimelinesReach
      <3> QED
        BY <3>1, <3>3
    <2>2. CASE what # "timelines" /\ page'.step >= (IF page'.kind = "html" THEN 4 ELSE 5)
      <3>1. /\ page.step >= (IF page.kind = "html" THEN 4 ELSE 5) /\ page.step # 0
            /\ page'.node = page.node /\ page'.timelines = page.timelines
        BY <1>1, <2>2
      <3> QED
        BY <3>1 DEF ListsOK
    <2> QED
      BY <2>1, <2>2
  <1>6. page'.step >= (IF page'.kind = "html" THEN 5 ELSE 4) =>
           (page'.node.window # <<>> =>
               page'.events # <<>> /\ Newest(page'.node.window) <= page'.events[1].seq)
    <2>1. CASE what = "events"
      <3> SUFFICES ASSUME page'.node.window # <<>>
                   PROVE  page'.events # <<>> /\ Newest(page'.node.window) <= page'.events[1].seq
        OBVIOUS
      <3>1. view.window # <<>> /\ Newest(page'.node.window) <= Newest(view.window)
        BY <1>3 DEF ReachesAs
      <3>2. page'.events = AuditEvents(view.window, EventLimit)
        BY <1>1, <2>1
      <3>3. page'.events # <<>> /\ page'.events[1].seq = Newest(view.window)
        BY <1>2, <3>1, <3>2, EventsReach
      <3> QED
        BY <3>1, <3>3
    <2>2. CASE what # "events" /\ page'.step >= (IF page'.kind = "html" THEN 5 ELSE 4)
      <3>1. /\ page.step >= (IF page.kind = "html" THEN 5 ELSE 4) /\ page.step # 0
            /\ page'.node = page.node /\ page'.events = page.events
        BY <1>1, <2>2
      <3> QED
        BY <3>1 DEF ListsOK
    <2> QED
      BY <2>1, <2>2
  <1> QED
    BY <1>3, <1>5, <1>6 DEF ListsOK

LEMMA ListsKeep ==
    ASSUME Inv, WindowOK, WindowOK', ListsOK, ReachesAs(view'.window, view.window), [Next]_vars
    PROVE  ListsOK'
  <1>1. CASE UNCHANGED page
    BY <1>1, ListsStay
  <1>2. CASE Ask \/ Show
    <2>1. page'.step = 0
      <3>1. CASE Ask
        <4>1. PICK kind \in Kinds : page' = [NoPage EXCEPT !.kind = kind]
          BY <3>1 DEF Ask
        <4> QED
          BY <4>1 DEF NoPage
      <3>2. CASE Show
        BY <3>2 DEF Show, NoPage
      <3> QED
        BY <1>2, <3>1, <3>2
    <2> QED
      BY <2>1 DEF ListsOK
  <1>3. CASE ReadNext
    <2>1. /\ page' = [Read(Reads(page.kind)[page.step + 1]) EXCEPT !.step = @ + 1]
          /\ page.kind \in Kinds /\ page.step # Len(Reads(page.kind)) /\ UNCHANGED view
          /\ page.step \in Nat /\ page.step <= (IF page.kind = "fleet" THEN 3 ELSE 5)
      BY <1>3 DEF ReadNext, Complete, Inv, Badge, center
    <2> DEFINE what == Reads(page.kind)[page.step + 1]
    <2>2. CASE page.kind = "fleet"
      <3>1. Reads(page.kind) = <<"node", "online", "signals">>
        BY <2>2 DEF Reads
      <3>2. page.step \in 0 .. 2
        <4>1. Len(Reads(page.kind)) = 3
          BY <3>1
        <4>2. page.step \in Nat /\ page.step <= 3 /\ page.step # 3
          BY <2>1, <2>2, <4>1
        <4> QED
          BY <4>2
      <3>3. what \in {"node", "online", "signals", "events", "timelines"}
        BY <3>1, <3>2
      <3>4. page'.kind = page.kind
        <4> HIDE DEF what
        <4>1. page' = [Read(what) EXCEPT !.step = @ + 1]
          BY <2>1 DEF what
        <4> QED
          BY <2>1, <3>3, <4>1, ReadKeeps
      <3> QED
        BY <2>2, <3>4 DEF ListsOK
    <2>3. CASE page.kind = "api"
      <3>1. Reads(page.kind) = <<"node", "online", "signals", "events", "timelines">>
        BY <2>3 DEF Reads
      <3>2. page.step \in 0 .. 4
        <4>1. Len(Reads(page.kind)) = 5
          BY <3>1
        <4>2. page.step \in Nat /\ page.step <= 5 /\ page.step # 5
          BY <2>1, <2>3, <4>1
        <4> QED
          BY <4>2
      <3>3. /\ what \in {"node", "online", "signals", "events", "timelines"}
            /\ what = "node" <=> page.step = 0
            /\ what = "timelines" <=> page.step = 4
            /\ what = "events" <=> page.step = 3
        BY <3>1, <3>2
      <3>4. page' = [Read(what) EXCEPT !.step = @ + 1]
        BY <2>1
      <3> HIDE DEF what
      <3> QED
        BY <2>1, <2>3, <3>3, <3>4, ListsRead
    <2>4. CASE page.kind = "html"
      <3>1. Reads(page.kind) = <<"node", "signals", "online", "timelines", "events">>
        BY <2>4 DEF Reads
      <3>2. page.step \in 0 .. 4
        <4>1. Len(Reads(page.kind)) = 5
          BY <3>1
        <4>2. page.step \in Nat /\ page.step <= 5 /\ page.step # 5
          BY <2>1, <2>4, <4>1
        <4> QED
          BY <4>2
      <3>3. /\ what \in {"node", "online", "signals", "events", "timelines"}
            /\ what = "node" <=> page.step = 0
            /\ what = "timelines" <=> page.step = 3
            /\ what = "events" <=> page.step = 4
        BY <3>1, <3>2
      <3>4. page' = [Read(what) EXCEPT !.step = @ + 1]
        BY <2>1
      <3> HIDE DEF what
      <3> QED
        BY <2>1, <2>4, <3>3, <3>4, ListsRead
    <2> QED
      BY <2>1, <2>2, <2>3, <2>4 DEF Kinds
  <1>4. UNCHANGED page \/ Ask \/ Show \/ ReadNext
    BY DEF Next, vars, client, center, Beat, Ship, EdgeRestart, PostOther, Tick,
           Receive, Decode, Duplicate, Apply, ApplyFails, Reply
  <1> QED
    BY <1>1, <1>2, <1>3, <1>4

THEOREM WindowInvariance == Spec => []WindowInv
  <1>1. Init => WindowInv
    <2> SUFFICES ASSUME Init PROVE WindowOK /\ ListsOK
      BY InitInv DEF WindowInv
    <2> QED
      BY EmptySeq, FleetAssumption
         DEF Init, WindowOK, OrderedUpTo, ListsOK, NewView, NoPage
  <1>2. WindowInv /\ [Next]_vars /\ Inv' => WindowInv'
    <2> SUFFICES ASSUME WindowInv, [Next]_vars PROVE WindowOK' /\ ListsOK'
      BY DEF WindowInv
    <2>1. WindowOK' /\ ReachesAs(view'.window, view.window)
      BY WindowKeeps DEF WindowInv
    <2> QED
      BY <2>1, ListsKeep DEF WindowInv
  <1> QED
    BY <1>1, <1>2, Invariance, PTL DEF Spec

\* The window of a node holds no event twice, none out of order, and never more
\* than the limit, whatever is posted again, overtaken or lost, and whenever the
\* edge starts over.
THEOREM WindowInOrder == Spec => []WindowAscends
  <1>1. WindowInv => WindowAscends
    <2> SUFFICES ASSUME WindowInv PROVE WindowAscends
      OBVIOUS
    <2>1. view.window \in Seq(Entry) /\ DOMAIN view.window = 1 .. Len(view.window)
      BY LenProperties DEF WindowInv, WindowOK, OrderedUpTo
    <2> QED
      BY <2>1 DEF WindowInv, WindowOK, OrderedUpTo, WindowAscends
  <1> QED
    BY <1>1, WindowInvariance, PTL

\* The lists of a page reach at least as far as the header that was read before
\* them, whatever is ingested in between.
THEOREM ListsNotBehind == Spec => []ListsReachHeader
  <1>1. WindowInv => ListsReachHeader
    <2> SUFFICES ASSUME WindowInv, Complete, page.kind # "fleet", page.node.window # <<>>
                 PROVE  /\ page.events # <<>> /\ Newest(page.node.window) <= page.events[1].seq
                        /\ TimelinesReachTo(page.timelines, page.node.window)
      BY DEF ListsReachHeader, TimelinesReachTo
    <2>1. page.kind \in {"html", "api"} /\ page.step = Len(Reads(page.kind))
      BY DEF Complete, WindowInv, Inv, Badge, Kinds
    <2>2. page.step = 5
      BY <2>1 DEF Reads
    <2> QED
      BY <2>1, <2>2 DEF WindowInv, ListsOK
  <1> QED
    BY <1>1, WindowInvariance, PTL

-----------------------------------------------------------------------------
(* The version baseline *)

\* versionBaseline's loop runs through the versions.
LEMMA BestAfterIs ==
  ASSUME NEW versions, NEW order \in Seq(Nat)
  PROVE  /\ BestAfter(versions, order)[0] = NoVersion
         /\ \A i \in 1 .. Len(order) :
               BestAfter(versions, order)[i] =
                  IF Better(versions, BestAfter(versions, order)[i - 1], order[i])
                  THEN order[i] ELSE BestAfter(versions, order)[i - 1]
<1> DEFINE n == Len(order)
           step == [i \in 1 .. n |->
                      [best \in Nat |-> IF Better(versions, best, order[i]) THEN order[i] ELSE best]]
           Recurs(f) == f = [i \in 0 .. n |->
                               IF i = 0 THEN NoVersion
                               ELSE IF Better(versions, f[i - 1], order[i]) THEN order[i] ELSE f[i - 1]]
<1>1. n \in Nat /\ \A i \in 1 .. n : order[i] \in Nat
  BY LenProperties, ElementOfSeq
<1>2. step \in [1 .. n -> [Nat -> Nat]] /\ NoVersion \in Nat
  BY <1>1 DEF NoVersion
<1> HIDE DEF n
<1>3. PICK f \in [0 .. n -> Nat] : IsRun(f, NoVersion, n, step)
  <2> HIDE DEF step
  <2> QED
    BY <1>1, <1>2, LoopRuns
<1>4. ASSUME NEW i \in 0 .. n
      PROVE  f[i] = IF i = 0 THEN NoVersion
                    ELSE IF Better(versions, f[i - 1], order[i]) THEN order[i] ELSE f[i - 1]
  <2>1. CASE i = 0
    BY <1>3, <2>1 DEF IsRun
  <2>2. CASE i # 0
    <3>1. i \in 1 .. n /\ i - 1 \in 0 .. n
      BY <1>1, <2>2
    <3>2. f[i - 1] \in Nat /\ f[i] = step[i][f[i - 1]]
      BY <1>3, <3>1 DEF IsRun
    <3>3. step[i][f[i - 1]] = IF Better(versions, f[i - 1], order[i]) THEN order[i] ELSE f[i - 1]
      BY <3>1, <3>2
    <3> HIDE DEF step
    <3> QED
      BY <2>2, <3>2, <3>3
  <2> QED
    BY <2>1, <2>2
<1>5. Recurs(f)
  <2>1. f = [i \in 0 .. n |-> f[i]]
    OBVIOUS
  <2> QED
    BY <1>4, <2>1
<1>6. BestAfter(versions, order) = CHOOSE g : Recurs(g)
  BY DEF BestAfter, n
<1>7. Recurs(BestAfter(versions, order))
  <2> HIDE DEF Recurs
  <2> QED
    BY <1>5, <1>6
<1> DEFINE best == BestAfter(versions, order)
<1>8. best = [i \in 0 .. n |->
                IF i = 0 THEN NoVersion
                ELSE IF Better(versions, best[i - 1], order[i]) THEN order[i] ELSE best[i - 1]]
  BY <1>7
<1> HIDE DEF best
<1>9. best[0] = NoVersion /\ \A i \in 1 .. n :
         best[i] = IF Better(versions, best[i - 1], order[i]) THEN order[i] ELSE best[i - 1]
  <2>1. 0 \in 0 .. n /\ \A i \in 1 .. n : i \in 0 .. n /\ i # 0
    BY <1>1
  <2>2. best[0] = NoVersion
    BY <1>8, <2>1
  <2>3. ASSUME NEW i \in 1 .. n
        PROVE  best[i] = IF Better(versions, best[i - 1], order[i]) THEN order[i] ELSE best[i - 1]
    BY <1>8, <2>1
  <2> QED
    BY <2>2, <2>3
<1> QED
  BY <1>9 DEF best, n

\* No version of order up to i beats best.
Beats(versions, v, best) ==
    CountOf(versions, v) > CountOf(versions, best)
    \/ (CountOf(versions, v) = CountOf(versions, best) /\ v < best)

BestOfFirst(versions, order, i, best) ==
    /\ i = 0 => best = NoVersion
    /\ i # 0 => \E k \in 1 .. i : best = order[k]
    /\ \A k \in 1 .. i : ~Beats(versions, order[k], best)

\* In whatever order the versions come, the loop ends with the lowest of the
\* most frequent ones.
THEOREM LoopFindsBaseline ==
  ASSUME NEW versions, IsFiniteSet(DOMAIN versions),
         Known(versions) \subseteq Nat, Cardinality(Known(versions)) >= 2,
         NEW order \in Seq(Nat), Known(versions) = {order[i] : i \in 1 .. Len(order)}
  PROVE  IsBaselineOf(VersionBaseline(versions, order), versions)
<1> DEFINE n == Len(order)
           best == BestAfter(versions, order)
           Wrong == {i \in 0 .. n : ~BestOfFirst(versions, order, i, best[i])}
<1>1. n \in Nat /\ \A i \in 1 .. n : order[i] \in Nat \ {NoVersion}
  <2>1. n \in Nat
    BY LenProperties
  <2>2. \A i \in 1 .. n : order[i] \in Known(versions)
    OBVIOUS
  <2> QED
    BY <2>1, <2>2 DEF Known
<1>2. \A v : CountOf(versions, v) \in Nat
  <2> SUFFICES ASSUME NEW v PROVE CountOf(versions, v) \in Nat
    OBVIOUS
  <2>1. {x \in DOMAIN versions : versions[x] = v} \in SUBSET (DOMAIN versions)
    OBVIOUS
  <2>2. IsFiniteSet({x \in DOMAIN versions : versions[x] = v})
    BY <2>1, FS_Subset
  <2> QED
    BY <2>2, FS_CardinalityType DEF CountOf
<1>3. /\ best[0] = NoVersion
      /\ \A i \in 1 .. n : best[i] = IF Better(versions, best[i - 1], order[i])
                                     THEN order[i] ELSE best[i - 1]
  BY BestAfterIs
<1> HIDE DEF n, best
<1>4. ASSUME Wrong # {} PROVE FALSE
  <2>1. PICK i \in Wrong : \A k \in Wrong : i <= k
    <3>1. Wrong \in SUBSET Nat
      BY <1>1
    <3> HIDE DEF Wrong
    <3> QED
      BY <1>4, <3>1, HasLeast
  <2>2. i \in 0 .. n /\ ~BestOfFirst(versions, order, i, best[i])
    BY <2>1
  <2>3. i # 0
    BY <1>3, <2>2 DEF BestOfFirst
  <2>4. i - 1 \in 0 .. n /\ i - 1 < i /\ i \in 1 .. n
    BY <1>1, <2>2, <2>3
  <2>5. BestOfFirst(versions, order, i - 1, best[i - 1])
    <3>1. i - 1 \in Wrong => i <= i - 1
      BY <2>1
    <3>2. i - 1 \notin Wrong
      <4> HIDE DEF Wrong
      <4> QED
        BY <2>4, <3>1
    <3> QED
      BY <2>4, <3>2
  <2> DEFINE old == best[i - 1]
             new == best[i]
             v == order[i]
  <2>6. new = IF Better(versions, old, v) THEN v ELSE old
    BY <1>3, <2>4
  <2>7. /\ v \in Nat \ {NoVersion}
        /\ old = NoVersion => i = 1
        /\ i # 1 => old \in Nat \ {NoVersion}
        /\ i = 1 => old = NoVersion
    BY <1>1, <2>4, <2>5 DEF BestOfFirst
  <2>8. \A k \in 1 .. i : k \in 1 .. i - 1 \/ k = i
    BY <2>4
  <2>9. \A k \in 1 .. i - 1 : k \in 1 .. i /\ k \in 1 .. n /\ order[k] \in Nat
    BY <1>1, <2>4
  <2>10. i \in 1 .. i
    BY <2>4
  <2> HIDE DEF old, new, v
  <2>11. CASE Better(versions, old, v)
    <3>1. new = v /\ v = order[i]
      BY <2>6, <2>11 DEF v
    <3>2. ASSUME NEW k \in 1 .. i - 1 PROVE ~Beats(versions, order[k], v)
      <4>1. CASE old = NoVersion
        BY <2>4, <2>7, <3>2, <4>1
      <4>2. CASE old # NoVersion
        <5>1. ~Beats(versions, order[k], old) /\ Beats(versions, v, old)
          BY <2>5, <2>11, <3>2, <4>2 DEF BestOfFirst, Better, Beats, old
        <5>2. /\ CountOf(versions, order[k]) \in Nat /\ CountOf(versions, v) \in Nat
              /\ CountOf(versions, old) \in Nat
              /\ order[k] \in Nat /\ v \in Nat /\ old \in Nat
          BY <1>2, <2>7, <2>9, <3>2, <4>2
        <5> QED
          BY <5>1, <5>2 DEF Beats
      <4> QED
        BY <4>1, <4>2
    <3>3. ~Beats(versions, v, v)
      BY <1>2, <2>7 DEF Beats
    <3>4. BestOfFirst(versions, order, i, v)
      BY <2>3, <2>8, <2>10, <3>1, <3>2, <3>3 DEF BestOfFirst
    <3> QED
      BY <2>2, <3>1, <3>4 DEF new
  <2>12. CASE ~Better(versions, old, v)
    <3>1. new = old /\ old # NoVersion /\ i # 1 /\ ~Beats(versions, order[i], old)
      BY <2>6, <2>7, <2>12 DEF v, Better, Beats
    <3>2. (\E k \in 1 .. i - 1 : old = order[k]) /\ \A k \in 1 .. i - 1 : ~Beats(versions, order[k], old)
      <4>1. i - 1 # 0
        BY <2>4, <3>1
      <4> QED
        BY <2>5, <4>1 DEF BestOfFirst, old
    <3>3. BestOfFirst(versions, order, i, old)
      BY <2>3, <2>8, <2>9, <3>1, <3>2 DEF BestOfFirst
    <3> QED
      BY <2>2, <3>1, <3>3 DEF new
  <2> QED
    BY <2>11, <2>12
<1>5. n \in 0 .. n /\ BestOfFirst(versions, order, n, best[n])
  BY <1>1, <1>4
<1>6. n # 0
  <2> SUFFICES ASSUME n = 0 PROVE FALSE
    OBVIOUS
  <2>1. Known(versions) = {}
    BY DEF n
  <2>2. Cardinality(Known(versions)) = 0
    BY <2>1, FS_EmptySet
  <2> QED
    BY <2>2
<1>7. VersionBaseline(versions, order) = best[n]
  <2>1. Cardinality(Known(versions)) \in Nat
    <3>1. {order[i] : i \in 1 .. n} = Known(versions) /\ IsFiniteSet(1 .. n)
      BY <1>1, FS_Interval DEF n
    <3>2. IsFiniteSet(Known(versions))
      <4> DEFINE f == [i \in 1 .. n |-> order[i]]
      <4>1. f \in Surjection(1 .. n, Known(versions))
        BY <3>1 DEF Surjection
      <4> HIDE DEF f
      <4> QED
        BY <3>1, <4>1, FS_Surjection
    <3> QED
      BY <3>2, FS_CardinalityType
  <2> QED
    BY <2>1 DEF VersionBaseline, n, best
<1>8. best[n] \in Known(versions)
  BY <1>5, <1>6 DEF BestOfFirst, n
<1>9. ASSUME NEW v \in Known(versions)
      PROVE  \/ CountOf(versions, v) < CountOf(versions, best[n])
             \/ CountOf(versions, v) = CountOf(versions, best[n]) /\ best[n] <= v
  <2>1. ~Beats(versions, v, best[n])
    BY <1>5 DEF BestOfFirst, n
  <2>2. v \in Nat /\ best[n] \in Nat
    BY <1>8
  <2>3. CountOf(versions, v) \in Nat /\ CountOf(versions, best[n]) \in Nat
    BY <1>2
  <2> QED
    BY <2>1, <2>2, <2>3 DEF Beats
<1> QED
  BY <1>7, <1>8, <1>9 DEF IsBaselineOf

\* BaselineIsOrderFree: versionBaseline ranges over a map and finds the same
\* version in every order.
THEOREM BaselineForAnyOrder == Spec => []BaselineIsOrderFree
<1>1. ASSUME NEW versions \in [1 .. 5 -> 0 .. 3], Cardinality(Known(versions)) >= 2,
             NEW order \in SetToSeqs(Known(versions))
      PROVE  IsBaselineOf(VersionBaseline(versions, order), versions)
  <2> DEFINE K == Known(versions)
             n == Cardinality(K)
  <2>1. K \in SUBSET Nat /\ IsFiniteSet(K) /\ IsFiniteSet(DOMAIN versions)
    <3>1. K \in SUBSET (0 .. 3)
      BY DEF Known
    <3>2. IsFiniteSet(0 .. 3) /\ IsFiniteSet(1 .. 5) /\ DOMAIN versions = 1 .. 5
      <4>1. 0 \in Int /\ 3 \in Int /\ 1 \in Int /\ 5 \in Int
        OBVIOUS
      <4>2. IsFiniteSet(0 .. 3) /\ IsFiniteSet(1 .. 5)
        BY <4>1, FS_Interval
      <4> QED
        BY <4>2
    <3> HIDE DEF K
    <3>3. IsFiniteSet(K)
      BY <3>1, <3>2, FS_Subset
    <3> QED
      BY <3>1, <3>2, <3>3
  <2>2. n \in Nat
    BY <2>1, FS_CardinalityType
  <2>3. order \in [1 .. n -> K] /\ \A i, j \in 1 .. n : i # j => order[i] # order[j]
    BY DEF SetToSeqs
  <2> HIDE DEF K, n
  <2>4. order \in Injection(1 .. n, K)
    BY <2>3 DEF Injection, IsInjective
  <2>5. IsFiniteSet(1 .. n) /\ Cardinality(1 .. n) = n
    BY <2>2, FS_Interval
  <2>6. order \in Surjection(1 .. n, K)
    BY <2>1, <2>4, <2>5, FS_Injection DEF n
  <2>7. order \in Seq(Nat) /\ Len(order) = n
    <3>1. order \in [1 .. n -> Nat] /\ DOMAIN order = 1 .. n
      BY <2>1, <2>3
    <3>2. order \in Seq(Nat)
      BY <2>2, <3>1, SeqDef
    <3> QED
      BY <2>2, <3>1, <3>2, LenProperties
  <2>8. K = {order[i] : i \in 1 .. Len(order)}
    <3>1. \A t \in K : \E s \in 1 .. n : order[s] = t
      BY <2>6 DEF Surjection
    <3>2. \A s \in 1 .. n : order[s] \in K
      BY <2>3
    <3> QED
      BY <2>7, <3>1, <3>2
  <2> QED
    BY <1>1, <2>1, <2>7, <2>8, LoopFindsBaseline DEF K
<1>2. BaselineIsOrderFree
  BY <1>1 DEF BaselineIsOrderFree
<1> QED
  BY <1>2, PTL
=============================================================================
