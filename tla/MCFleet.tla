------------------------------ MODULE MCFleet ------------------------------
(* Small instances of the views of a node. *)
EXTENDS FleetView

Swaps == Permutations(Handlers)

\* Bodies of several envelopes, good ones and ones with a bad envelope in them.
OtherBodies ==
    {<<Batch(Node, 1, 2, <<Event(3, 3, <<"a">>, "run"), Event(4, 1, <<"b">>, "run")>>),
       JobEvent(Node)>>,
     <<Status(Node, 1), Batch(Node, 1, 1, <<Event(9, 1, <<"a">>, "run")>>)>>,
     <<JobEvent(Node), Status("n2", 1)>>}

-----------------------------------------------------------------------------
(* What the read views are for, over small inputs.  It does not depend on   *)
(* the state, so that the initial one is enough to look at it.             *)

\* Windows of up to three events of at most three sessions, one with the mark of
\* a run in its id, with clocks of the edge that need not run forward.
WindowEvents(seq) ==
    [seq : {seq}, recv : {seq}, ts : 1 .. 2, session : {<<>>, <<"s">>, <<"s", RunMark, "r">>},
     run : {<<>>, <<"r">>}, kind : {"run", "other"}]

Windows ==
    {<<>>} \cup {<<a>> : a \in WindowEvents(1)}
           \cup {<<a, b>> : a \in WindowEvents(1), b \in WindowEvents(2)}
           \cup {<<a, b, c>> : a \in WindowEvents(1), b \in WindowEvents(2), c \in WindowEvents(3)}

\* The timeline has all events of its key and no others, in the order of
\* arrival, and its summary is that of its events.
IsTimelineOf(tl, w) ==
    /\ tl.events # <<>>
    /\ \E at \in [DOMAIN tl.events -> DOMAIN w] :
          /\ \A a, b \in DOMAIN at : a < b => at[a] < at[b]
          /\ \A a \in DOMAIN at : tl.events[a] = w[at[a]]
          /\ \A n \in DOMAIN w : TimelineKey(w[n]) = tl.key <=> \E a \in DOMAIN at : at[a] = n
    /\ LET first == Head(tl.events)
           last == Last(tl.events)
       IN  /\ <<tl.firstTS, tl.firstRecv, tl.firstSeq>> = <<first.ts, first.recv, first.seq>>
           /\ <<tl.lastTS, tl.lastRecv, tl.lastSeq>> = <<last.ts, last.recv, last.seq>>
    /\ Len(tl.kinds) = Cardinality({a \in DOMAIN tl.events : tl.events[a].kind \in AuditKinds})

\* The timeline whose last event is the newest comes first.
NewestFirst(tls) ==
    \A i, j \in DOMAIN tls : i < j =>
        LET d == Last(tls[i].events)
            e == Last(tls[j].events)
        IN  \/ d.ts > e.ts
            \/ d.ts = e.ts /\ d.recv > e.recv
            \/ d.ts = e.ts /\ d.recv = e.recv /\ d.seq >= e.seq

\* AuditTimelines partitions a window by the key of session and run.
TimelinesOf(tls, w) ==
    /\ \A i, j \in DOMAIN tls : tls[i].key = tls[j].key => i = j
    /\ \A n \in DOMAIN w : \E i \in DOMAIN tls : tls[i].key = TimelineKey(w[n])
    /\ \A i \in DOMAIN tls : IsTimelineOf(tls[i], w)
    /\ NewestFirst(tls)

\* No event is lost, counted twice or put in the group of another key, and the
\* groups are in order, although time stamps are an edge's and may run backwards.
TimelinesRight == Init => \A w \in Windows : TimelinesOf(AuditTimelines(w, 0), w)

\* The version is the lowest of the most frequent ones.
IsBaselineOf(best, versions) ==
    /\ best \in Known(versions)
    /\ \A v \in Known(versions) :
          \/ CountOf(versions, v) < CountOf(versions, best)
          \/ CountOf(versions, v) = CountOf(versions, best) /\ best <= v

\* versionBaseline's loop over a map finds the same version in every order.
BaselineIsOrderFree ==
    Init => \A versions \in [1 .. 5 -> 0 .. 3] :
        Cardinality(Known(versions)) >= 2 =>
            \A order \in SetToSeqs(Known(versions)) :
                IsBaselineOf(VersionBaseline(versions, order), versions)
=============================================================================
