------------------------------- MODULE Views -------------------------------
(***************************************************************************)
(* What the center derives from its state when somebody looks at it: the   *)
(* sorted and grouped copies that internal/store hands out (AuditEvents,   *)
(* AuditTimelines), and the version baseline and the health signals of     *)
(* internal/center.  Operators only, which follow the loops of the code;   *)
(* MCFleet says over small inputs what the loops are for.                  *)
(***************************************************************************)
EXTENDS Naturals, Sequences, FiniteSets, SequencesExt

-----------------------------------------------------------------------------
(* Audit events and timelines *)

FirstFew(s, limit) == IF limit > 0 /\ Len(s) > limit THEN SubSeq(s, 1, limit) ELSE s

\* AuditEvents: newest first.
AuditEvents(window, limit) == FirstFew(Reverse(window), limit)

\* An id is a sequence of pieces of text, <<>> a missing one.  Ids are not
\* validated: the mark that timelineKey puts between two may be in one, too.
RunMark == "NUL run:"

\* timelineKey: the string, so that two different pairs may have the same key.
KeyOf(session, run) ==
    CASE session # <<>> /\ run # <<>> -> <<"session:">> \o session \o <<RunMark>> \o run
      [] session # <<>> /\ run = <<>> -> <<"session:">> \o session
      [] session = <<>> /\ run # <<>> -> <<"run:">> \o run
      [] OTHER -> <<"unscoped">>

TimelineKey(ev) == KeyOf(ev.session, ev.run)

\* The timeline a first event starts.
NewTimeline(ev) ==
    [key |-> TimelineKey(ev), firstTS |-> ev.ts, lastTS |-> ev.ts,
     firstRecv |-> ev.recv, lastRecv |-> ev.recv,
     firstSeq |-> ev.seq, lastSeq |-> ev.seq, kinds |-> <<>>, events |-> <<>>]

\* incrementAuditStats, for the kind of one event; kinds it does not know are
\* not counted.
AuditKinds == {"run", "thought", "tool_call", "observation", "final", "policy_deny", "system_error"}

CountKind(kinds, kind) == IF kind \in AuditKinds THEN Append(kinds, kind) ELSE kinds

\* A mutant of Extend: the last time stamp stays the first one.
Extend_KeepsTS(tl, ev) ==
    [tl EXCEPT !.events = Append(@, ev), !.lastRecv = ev.recv,
               !.lastSeq = ev.seq, !.kinds = CountKind(@, ev.kind)]
Extend(tl, ev) ==
    [tl EXCEPT !.events = Append(@, ev), !.lastTS = ev.ts, !.lastRecv = ev.recv,
               !.lastSeq = ev.seq, !.kinds = CountKind(@, ev.kind)]

\* One turn of the loop over the window.
AddToTimelines(tls, ev) ==
    IF \E i \in DOMAIN tls : tls[i].key = TimelineKey(ev)
    THEN [i \in DOMAIN tls |->
             IF tls[i].key = TimelineKey(ev) THEN Extend(tls[i], ev) ELSE tls[i]]
    ELSE Append(tls, Extend(NewTimeline(ev), ev))

TimelineBefore(a, b) ==
    \/ a.lastTS > b.lastTS
    \/ a.lastTS = b.lastTS /\ a.lastRecv > b.lastRecv
    \/ a.lastTS = b.lastTS /\ a.lastRecv = b.lastRecv /\ a.lastSeq > b.lastSeq

\* sort.SliceStable: how many timelines end up before the i-th.
RankIn(tls, i) ==
    Cardinality({k \in DOMAIN tls : \/ TimelineBefore(tls[k], tls[i])
                                    \/ k < i /\ ~TimelineBefore(tls[i], tls[k])})

Sorted(tls) == [p \in DOMAIN tls |-> tls[CHOOSE i \in DOMAIN tls : RankIn(tls, i) = p - 1]]

\* The loop: the timelines after each event.
Grouped(window) ==
    LET after[i \in 0 .. Len(window)] ==
            IF i = 0 THEN <<>> ELSE AddToTimelines(after[i - 1], window[i])
    IN  after

AuditTimelines(window, limit) == FirstFew(Sorted(Grouped(window)[Len(window)]), limit)

-----------------------------------------------------------------------------
(* Versions and health *)

\* A version is a number here, in the order of the strings, and 0 for "".
NoVersion == 0

\* versionBaseline's counts.
CountOf(versions, v) == Cardinality({n \in DOMAIN versions : versions[n] = v})

Known(versions) == {versions[n] : n \in DOMAIN versions} \ {NoVersion}

\* One turn of the loop over the counts.
\* A mutant of Better: the first of several most frequent versions stays.
Better_First(versions, best, v) ==
    best = NoVersion \/ CountOf(versions, v) > CountOf(versions, best)
Better(versions, best, v) ==
    \/ best = NoVersion
    \/ CountOf(versions, v) > CountOf(versions, best)
    \/ CountOf(versions, v) = CountOf(versions, best) /\ v < best

\* The loop: the best version after each one.
BestAfter(versions, order) ==
    LET best[i \in 0 .. Len(order)] ==
            IF i = 0 THEN NoVersion
            ELSE IF Better(versions, best[i - 1], order[i]) THEN order[i] ELSE best[i - 1]
    IN  best

\* versionBaseline: the loop ranges over a map, so the versions come in any
\* order.  With less than two of them there is no baseline.
VersionBaseline(versions, order) ==
    IF Cardinality(Known(versions)) < 2 THEN NoVersion
    ELSE BestAfter(versions, order)[Len(order)]

Online(last, now, stale) == last # 0 /\ now <= last + stale

\* nodeHealthSignals, those that follow from what FleetView keeps of a node.
Signals(v, now, stale) ==
    {s \in {"offline", "audit_gap", "duplicate_audit_report", "audit_body_lag"} :
        CASE s = "offline" -> ~Online(v.last, now, stale)
          [] s = "audit_gap" -> v.gaps > 0
          [] s = "duplicate_audit_report" -> v.duplicates > 0
          [] s = "audit_body_lag" -> v.reported > v.stored}
=============================================================================
