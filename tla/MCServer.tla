------------------------------ MODULE MCServer ------------------------------
(* The life of the center with a few requests of different sizes. *)
EXTENDS ServerLifecycle

CONSTANTS r1, r2, r3

\* A page that writes nothing, a heartbeat, and a post of two envelopes.
MCSize == [r \in Requests |-> CASE r = r1 -> 2 [] r = r2 -> 1 [] r = r3 -> 0]
=============================================================================
