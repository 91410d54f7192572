----------------------------- MODULE NodeTokens -----------------------------
(***************************************************************************)
(* The tokens that authenticate edges (internal/tokens): static entries    *)
(* from a file and from the command line or environment, overlaid at every *)
(* start by a managed state that operators change from the dashboard       *)
(* (internal/center/tokens.go) and that is kept in a file of its own.      *)
(* One mutex is held from the check of a request to the change in memory;  *)
(* the new secret is made before it is taken.                              *)
(***************************************************************************)
EXTENDS Naturals, Sequences, FiniteSets, SequencesExt

CONSTANTS
    Nodes, Secrets,
    NoNode, NoSecret,
    FileTokens,    \* the entries of the static token file, in no order
    InlineTokens,  \* the entries given inline, in order
    Handlers,      \* the goroutines that can serve operators at a time
    MaxCrashes,    \* bound on crashes of the center
    MaxFailures    \* bound on saves that fail

StaticSecrets == {e.secret : e \in FileTokens \cup Range(InlineTokens)}

ASSUME TokenAssumption ==
    /\ Nodes # {} /\ IsFiniteSet(Nodes)
    /\ NoNode \notin Nodes /\ NoSecret \notin Secrets
    /\ FileTokens \subseteq [node : Nodes, secret : Secrets]
    /\ IsFiniteSet(FileTokens)
    /\ InlineTokens \in Seq([node : Nodes, secret : Secrets])
    /\ MaxCrashes \in Nat /\ MaxFailures \in Nat

VARIABLES
    byToken,        \* Registry.byToken: the node each secret authenticates
    managedState,   \* Registry.managedState
    file,           \* managed_node_tokens.json
    handler,        \* the request each goroutine serves
    minted,         \* the secrets that were ever generated
    refused,        \* the secrets whose request was answered with an error
    up, crashes, failures

vars == <<byToken, managedState, file, handler, minted, refused, up, crashes, failures>>

-----------------------------------------------------------------------------
(* Loading *)

Entry(n, s) == [node |-> n, secret |-> s]

ManagedStates == [tokens : [Nodes -> Secrets \cup {NoSecret}], revoked : SUBSET Nodes]

NoManaged == [tokens |-> [n \in Nodes |-> NoSecret], revoked |-> {}]

HasToken(m) == {n \in Nodes : m.tokens[n] # NoSecret}

\* normalizeManagedState: a node with a token is not revoked.
Normalize(m) == [m EXCEPT !.revoked = @ \ HasToken(m)]

ManagedEntries(m) == SetToSeq({Entry(n, m.tokens[n]) : n \in HasToken(m)})

\* ApplyManagedState: static entries of revoked nodes are dropped, managed
\* tokens come last.  A dropped entry is left blank: no secret is NoSecret and no
\* node NoNode, so it counts for nothing.
Overlay_NoRevoked(entries, m) ==   \* a mutant: revocations are not applied at the start
    entries \o ManagedEntries(m)
Overlay(entries, m) ==
    [i \in DOMAIN entries |->
        IF entries[i].node \in m.revoked THEN Entry(NoNode, NoSecret) ELSE entries[i]]
    \o ManagedEntries(m)

Nobody == [s \in Secrets |-> NoNode]

\* newEntries: entry j drops the token of the last entry before it that was
\* for its node, whatever node has that token by then.
Drops(entries, j, secret) ==
    \E k \in 1 .. j - 1 :
        /\ entries[k] = Entry(entries[j].node, secret)
        /\ \A l \in k + 1 .. j - 1 : entries[l].node # entries[j].node

\* Entry i is what is left of its secret at the end.
IsLeft(entries, i) ==
    \A j \in i + 1 .. Len(entries) :
        /\ entries[j].secret # entries[i].secret
        /\ ~Drops(entries, j, entries[i].secret)

NewEntries(entries) ==
    LET left == {entries[i] : i \in {i \in DOMAIN entries : IsLeft(entries, i)}}
    IN  [s \in Secrets |->
            IF \E e \in left : e.secret = s THEN (CHOOSE e \in left : e.secret = s).node
            ELSE NoNode]

\* The static entries as a start may see them: the file's come from a Go map,
\* in any order.
StaticEntries == {fromFile \o InlineTokens : fromFile \in SetToSeqs(FileTokens)}

\* What a start may load from managed state m.
Loads(m) ==
    {NewEntries(entries) : entries \in {Overlay(static, m) : static \in StaticEntries}}

-----------------------------------------------------------------------------
(* The registry *)

\* removeNodeLocked, setLocked.
Without(n) == [s \in Secrets |-> IF byToken[s] = n THEN NoNode ELSE byToken[s]]
With(n, secret) == [Without(n) EXCEPT ![secret] = n]

Taken(n, secret) == byToken[secret] \notin {NoNode, n}

Managed_StillRevoked(n, secret) ==   \* a mutant: the node's revocation stays
    [managedState EXCEPT !.tokens[n] = secret]
Managed(n, secret) ==
    Normalize([managedState EXCEPT !.tokens[n] = secret, !.revoked = @ \ {n}])

Unmanaged_OnlyDeleted(n) ==   \* a mutant: the revocation is not recorded
    Normalize([managedState EXCEPT !.tokens[n] = NoSecret])
Unmanaged(n) ==
    Normalize([managedState EXCEPT !.tokens[n] = NoSecret, !.revoked = @ \cup {n}])

-----------------------------------------------------------------------------
(* The handlers *)

Idle == [op |-> "none", node |-> CHOOSE n \in Nodes : TRUE, secret |-> NoSecret]

Doing(h, op) == up /\ handler[h].op = op
Answer(h) == handler' = [handler EXCEPT ![h] = Idle]

\* handleTokenCreate and handleTokenRotate make a secret first.
Mint(h, n) ==
    /\ Doing(h, "none")
    /\ \E s \in Secrets \ (minted \cup StaticSecrets) :
          /\ minted' = minted \cup {s}
          /\ handler' = [handler EXCEPT ![h] = [op |-> "set", node |-> n, secret |-> s]]
    /\ UNCHANGED <<byToken, managedState, file, refused, up, crashes, failures>>

AskRevoke(h, n) ==
    /\ Doing(h, "none")
    /\ handler' = [handler EXCEPT ![h] = [op |-> "revoke", node |-> n, secret |-> NoSecret]]
    /\ UNCHANGED <<byToken, managedState, file, minted, refused, up, crashes, failures>>

\* What the request of h saves.
Wanted(h) ==
    IF handler[h].op = "set" THEN Managed(handler[h].node, handler[h].secret)
    ELSE Unmanaged(handler[h].node)

\* UpsertManaged and RevokeManaged: save, then change memory.
UpsertManaged(h) ==
    /\ Doing(h, "set") /\ ~Taken(handler[h].node, handler[h].secret)
    /\ file' = Normalize(Wanted(h))
    /\ managedState' = Wanted(h)
    /\ byToken' = With(handler[h].node, handler[h].secret)
    /\ Answer(h)
    /\ UNCHANGED <<minted, refused, up, crashes, failures>>

RevokeManaged(h) ==
    /\ Doing(h, "revoke")
    /\ file' = Normalize(Wanted(h))
    /\ managedState' = Wanted(h)
    /\ byToken' = Without(handler[h].node)
    /\ Answer(h)
    /\ UNCHANGED <<minted, refused, up, crashes, failures>>

\* The temporary file cannot be written or renamed: memory keeps its state.
AfterFailure_Applied(h) ==   \* a mutant: memory is changed before the save
    IF handler[h].op = "set" THEN With(handler[h].node, handler[h].secret) ELSE byToken
AfterFailure(h) == byToken

SaveFails(h) ==
    /\ Doing(h, "set") \/ Doing(h, "revoke")
    /\ failures < MaxFailures
    /\ failures' = failures + 1
    /\ byToken' = AfterFailure(h)
    /\ refused' = refused \cup ({handler[h].secret} \ {NoSecret})
    /\ Answer(h)
    /\ UNCHANGED <<managedState, file, minted, up, crashes>>

Die ==
    /\ crashes < MaxCrashes
    /\ up' = FALSE
    /\ byToken' = Nobody /\ managedState' = NoManaged
    /\ handler' = [h \in Handlers |-> Idle]
    /\ crashes' = crashes + 1

\* The process dies when the file is renamed and nobody was answered.
KilledInSave(h) ==
    /\ Doing(h, "set") \/ Doing(h, "revoke")
    /\ file' = Normalize(Wanted(h))
    /\ Die
    /\ UNCHANGED <<minted, refused, failures>>

Crash ==
    /\ up /\ Die
    /\ UNCHANGED <<file, minted, refused, failures>>

\* NewEntriesWithManaged.
Restart ==
    /\ ~up
    /\ up' = TRUE
    /\ managedState' = Normalize(file)
    /\ byToken' \in Loads(Normalize(file))
    /\ UNCHANGED <<file, handler, minted, refused, crashes, failures>>

-----------------------------------------------------------------------------
Init ==
    /\ byToken \in Loads(NoManaged)
    /\ managedState = NoManaged /\ file = NoManaged
    /\ handler = [h \in Handlers |-> Idle]
    /\ minted = {} /\ refused = {}
    /\ up = TRUE /\ crashes = 0 /\ failures = 0

Next ==
    \/ \E h \in Handlers :
          \/ \E n \in Nodes : Mint(h, n) \/ AskRevoke(h, n)
          \/ UpsertManaged(h) \/ RevokeManaged(h) \/ SaveFails(h) \/ KilledInSave(h)
    \/ Crash
    \/ Restart

Spec == Init /\ [][Next]_vars

-----------------------------------------------------------------------------
(* Properties *)

\* The variables have the types the code gives them; a node with a managed
\* token is not revoked.
TypeOK ==
    /\ byToken \in [Secrets -> Nodes \cup {NoNode}]
    /\ managedState \in ManagedStates /\ file \in ManagedStates
    /\ HasToken(managedState) \cap managedState.revoked = {}
    /\ HasToken(file) \cap file.revoked = {}
    /\ handler \in [Handlers -> [op : {"none", "set", "revoke"}, node : Nodes,
                                 secret : Secrets \cup {NoSecret}]]
    /\ minted \subseteq Secrets /\ refused \subseteq Secrets
    /\ up \in BOOLEAN /\ crashes \in 0 .. MaxCrashes /\ failures \in 0 .. MaxFailures

\* The token of node n by the documentation: the managed one, none if the node
\* is revoked, else the last one configured for it.
Configured(n) ==
    LET inline == {i \in DOMAIN InlineTokens : InlineTokens[i].node = n}
        fromFile == {e.secret : e \in {e \in FileTokens : e.node = n}}
    IN  IF inline # {} THEN InlineTokens[Max(inline)].secret
        ELSE IF fromFile # {} THEN CHOOSE s \in fromFile : TRUE
        ELSE NoSecret

InForce(n) ==
    IF n \in HasToken(file) THEN file.tokens[n]
    ELSE IF n \in file.revoked THEN NoSecret
    ELSE Configured(n)

\* A node authenticates with the token that is in force for it by what is on
\* disk, and with no other: no restart gives a rotated or revoked token back or
\* takes one away, and no node has two.
EnforcedIsInForce ==
    up => \A n \in Nodes : {s \in Secrets : byToken[s] = n} = {InForce(n)} \ {NoSecret}

\* A secret whose request failed never authenticates, not after a restart
\* either.
RefusedStayOut ==
    \A s \in refused :
        byToken[s] = NoNode /\ \A n \in Nodes : file.tokens[n] # s

\* The secrets no request still holds.
Spent == (StaticSecrets \cup minted) \ {handler[h].secret : h \in Handlers}

Book == INSTANCE TokenBook WITH
    token <- [n \in Nodes |-> InForce(n)],
    spent <- Spent

\* Tokens change as TokenBook has it: one node at a time, at an operator's
\* request, and never back to a secret that was in force before.
ImplementsBook == Book!Spec
=============================================================================
