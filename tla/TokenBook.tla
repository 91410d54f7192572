----------------------------- MODULE TokenBook -----------------------------
(***************************************************************************)
(* What node token management promises: a node has at most one token; only *)
(* a request of an operator changes it, to a secret that was never in      *)
(* force before or to none; restarts and failures change nothing.          *)
(***************************************************************************)
CONSTANTS Nodes, Secrets, NoSecret

VARIABLES
    token,   \* the secret in force for each node
    spent    \* the secrets that were in force or given up

vars == <<token, spent>>

Replace(n) ==
    /\ \E s \in Secrets \ spent :
          token' = [token EXCEPT ![n] = s] /\ s \in spent'
    /\ spent \subseteq spent'

Revoke(n) ==
    /\ token' = [token EXCEPT ![n] = NoSecret]
    /\ spent \subseteq spent'

GiveUp ==
    /\ spent \subseteq spent'
    /\ UNCHANGED token

Init ==
    /\ token \in [Nodes -> Secrets \cup {NoSecret}]
    /\ \A n \in Nodes : token[n] \in spent \cup {NoSecret}

Next == GiveUp \/ \E n \in Nodes : Replace(n) \/ Revoke(n)

Spec == Init /\ [][Next]_vars
=============================================================================
