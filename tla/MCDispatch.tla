----------------------------- MODULE MCDispatch -----------------------------
(* Small instances of the dispatch queue. *)
EXTENDS DispatchStore

CONSTANTS n1, n2, j1, j2, k1, k2, gpu

Req(j, k, n, p, d, need) ==
    [job |-> j, idem |-> k, node |-> n, policy |-> p, deadline |-> d, need |-> need]

Status(ceiling, described, caps) ==
    [ceiling |-> ceiling, described |-> described, caps |-> caps]

\* Two jobs of one node: one expires, one asks for more than the ceiling and
\* needs a capability; and a retry of the first one's key under the second id.
TwoJobs ==
    {Req(j1, k1, n1, "", 1, {}),
     Req(j2, k2, n1, "unrestricted", 9, {gpu}),
     Req(j2, k1, n1, "readonly", 9, {})}

\* One job for each of two nodes, and the second id retried with the first key
\* for a capability that no node has.
JobPerNode ==
    {Req(j1, k1, n1, "guarded", 9, {}),
     Req(j2, k2, n2, "unrestricted", 9, {}),
     Req(j2, k1, n1, "readonly", 9, {gpu})}

\* A status that says as little as an audit batch.
Plain == {Status("", TRUE, {})}

\* The capability is lost, and the ceiling is no policy.
FullAndLost == {Status("unrestricted", TRUE, {gpu}), Status("unknown", TRUE, {})}

\* A ceiling that is no policy, in a body that describes no capabilities.
FullAndOdd == {Status("guarded", TRUE, {gpu}), Status("unknown", FALSE, {})}
=============================================================================
