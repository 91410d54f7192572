---------------------------- MODULE JobLifecycle ----------------------------
(***************************************************************************)
(* What the dispatch queue promises about one job, whoever asks, whoever   *)
(* reports and whatever crashes: it is created once, leaves the queue for  *)
(* good, is leased at most once and only from the queue, reaches an edge   *)
(* at most once and only if it was leased, and keeps the end it comes to.  *)
(* It does not promise that what is reported of a job is true, nor that a  *)
(* job which is reported on was leased.                                    *)
(***************************************************************************)
CONSTANT Jobs

VARIABLES phase, leased, reached

vars == <<phase, leased, reached>>

Ends == {"done", "failed", "rejected"}
Reports == {"accepted", "running"} \cup Ends

Init ==
    /\ phase = [j \in Jobs |-> "absent"]
    /\ leased = {} /\ reached = {}

Create(j) ==
    /\ phase[j] = "absent"
    /\ phase' = [phase EXCEPT ![j] = "queued"]
    /\ UNCHANGED <<leased, reached>>

Lease(j) ==
    /\ phase[j] = "queued" /\ j \notin leased
    /\ phase' = [phase EXCEPT ![j] = "leased"]
    /\ leased' = leased \cup {j}
    /\ UNCHANGED reached

Reach(js) ==
    /\ js \subseteq leased \ reached
    /\ reached' = reached \cup js
    /\ UNCHANGED <<phase, leased>>

\* A report of anybody, or the queue's own rejection.
MoveOn(j, p) ==
    /\ phase[j] \notin Ends \cup {"absent"}
    /\ phase' = [phase EXCEPT ![j] = p]
    /\ UNCHANGED <<leased, reached>>

Next ==
    \/ \E j \in Jobs : Create(j) \/ Lease(j)
    \/ \E js \in SUBSET Jobs : Reach(js)
    \/ \E j \in Jobs, p \in Reports : MoveOn(j, p)

Spec == Init /\ [][Next]_vars
=============================================================================
