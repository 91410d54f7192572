--------------------------- MODULE AuditDelivery ---------------------------
(***************************************************************************)
(* What shipping the nodes' audit logs promises: a node's events are       *)
(* stored from the first on, in order, each once, chunk by chunk in a      *)
(* journal, and a node only forgets events that are stored.                *)
(*                                                                         *)
(* An event is named by where it is in the node's log.                     *)
(***************************************************************************)
EXTENDS Naturals

CONSTANT Nodes

VARIABLES
    stream,     \* the events each node has
    stored,     \* the journal of each node: chunks of events by their number
    forgotten   \* the events each node no longer keeps

vars == <<stream, stored, forgotten>>

Before(d, e) == d.gen < e.gen \/ (d.gen = e.gen /\ d.byte < e.byte)

\* f and g differ in what they say of n, and in nothing else.
OnlyOf(f, g, n) == g[n] # f[n] /\ g = [f EXCEPT ![n] = g[n]]

\* The new events in more are the next ones of all: they come after the old
\* ones, and the rest of all comes after them.
Extends(few, more, all) ==
    /\ few \subseteq more /\ more \subseteq all
    /\ \A e \in more \ few :
          /\ \A d \in few : Before(d, e)
          /\ \A d \in all \ more : Before(e, d)

Init ==
    /\ stream = [n \in Nodes |-> {}]
    /\ stored = [n \in Nodes |-> <<>>]
    /\ forgotten = [n \in Nodes |-> {}]

Write(n) ==
    /\ OnlyOf(stream, stream', n)
    /\ Extends(stream[n], stream'[n], stream'[n])
    /\ UNCHANGED <<stored, forgotten>>

Kept(journal) == UNION {journal[i] : i \in DOMAIN journal}

\* The chunk is numbered after all others.
Store(n) ==
    /\ OnlyOf(stored, stored', n)
    /\ \E i \in DOMAIN stored'[n] :
          /\ DOMAIN stored[n] = DOMAIN stored'[n] \ {i}
          /\ \A k \in DOMAIN stored[n] : k < i /\ stored'[n][k] = stored[n][k]
          /\ stored'[n][i] \cap Kept(stored[n]) = {}
          /\ Extends(Kept(stored[n]), Kept(stored'[n]), stream[n])
    /\ UNCHANGED <<stream, forgotten>>

Forget(n) ==
    /\ OnlyOf(forgotten, forgotten', n)
    /\ Extends(forgotten[n], forgotten'[n], Kept(stored[n]))
    /\ UNCHANGED <<stream, stored>>

Next == \E n \in Nodes : Write(n) \/ Store(n) \/ Forget(n)

Spec == Init /\ [][Next]_vars
=============================================================================
