---------------------------- MODULE TokenProofs ----------------------------
(***************************************************************************)
(* Which secret authenticates which node, for any configuration, any       *)
(* number of nodes and operators and any sequence of changes and crashes.  *)
(***************************************************************************)
EXTENDS NodeTokens, FiniteSetTheorems, TLAPS

EntryType == [node : Nodes \cup {NoNode}, secret : Secrets \cup {NoSecret}]

-----------------------------------------------------------------------------
(* Numbers and sets *)

\* The subsets of a set are well founded, and so are the numbers below each
\* element of T.
LEMMA HasLeast ==
  ASSUME NEW T \in SUBSET Nat, T # {}
  PROVE  \E x \in T : \A y \in T : x <= y
<1> DEFINE Below == {0 .. x : x \in T}
           R == StrictSubsetOrdering(Nat)
           F == FiniteSubsetsOf(Nat)
<1>1. IsWellFoundedOn(R, F)
  BY FS_StrictSubsetOrderingWellFounded
<1>2. Below \subseteq F
  <2> SUFFICES ASSUME NEW x \in T PROVE 0 .. x \in F
    OBVIOUS
  <2>1. x \in Int /\ 0 \in Int /\ 0 .. x \in SUBSET Nat
    OBVIOUS
  <2>2. IsFiniteSet(0 .. x)
    BY <2>1, FS_Interval
  <2> QED
    BY <2>1, <2>2 DEF FiniteSubsetsOf
<1>3. Below # {}
  OBVIOUS
<1>4. PICK b \in Below : \A c \in Below : ~(<<c, b>> \in R)
  <2> HIDE DEF Below, R, F
  <2> QED
    BY <1>1, <1>2, <1>3, WFMin
<1>5. PICK x \in T : b = 0 .. x
  BY <1>4
<1>6. ASSUME NEW y \in T PROVE x <= y
  <2> SUFFICES ASSUME y < x PROVE FALSE
    OBVIOUS
  <2>1. 0 .. y \in Below /\ 0 .. y \in SUBSET Nat /\ 0 .. x \in SUBSET Nat
    OBVIOUS
  <2>2. 0 .. y \subseteq 0 .. x /\ x \in 0 .. x /\ x \notin 0 .. y
    OBVIOUS
  <2>3. <<0 .. y, 0 .. x>> \in R
    <3>1. 0 .. y # 0 .. x
      BY <2>2
    <3> QED
      BY <2>1, <2>2, <3>1 DEF StrictSubsetOrdering
  <2> QED
    BY <1>4, <1>5, <2>1, <2>3
<1> QED
  BY <1>6

LEMMA HasGreatest ==
  ASSUME NEW N \in Nat, NEW T \in SUBSET (1 .. N), T # {}
  PROVE  \E x \in T : \A y \in T : y <= x
<1> DEFINE U == {N - t : t \in T}
<1>1. \A t \in T : t \in Nat /\ N - t \in Nat
  OBVIOUS
<1>2. U \in SUBSET Nat /\ U # {}
  BY <1>1
<1>3. PICK u \in U : \A v \in U : u <= v
  <2> HIDE DEF U
  <2> QED
    BY <1>2, HasLeast
<1>4. PICK x \in T : u = N - x
  BY <1>3
<1>5. \A y \in T : y <= x
  <2> SUFFICES ASSUME NEW y \in T PROVE y <= x
    OBVIOUS
  <2>1. N - y \in U
    OBVIOUS
  <2>2. N - x <= N - y
    BY <2>1, <1>3, <1>4
  <2> QED
    BY <2>2, <1>1
<1> QED
  BY <1>5

LEMMA EntriesListed ==
  ASSUME NEW S, IsFiniteSet(S)
  PROVE  /\ SetToSeq(S) \in [1 .. Cardinality(S) -> S]
         /\ Cardinality(S) \in Nat
         /\ \A i, k \in 1 .. Cardinality(S) : SetToSeq(S)[i] = SetToSeq(S)[k] => i = k
         /\ \A e \in S : \E i \in 1 .. Cardinality(S) : SetToSeq(S)[i] = e
<1>1. Cardinality(S) \in Nat /\ ExistsBijection(1 .. Cardinality(S), S)
  BY FS_CardinalityType
<1> DEFINE D == 1 .. Cardinality(S)
<1>2. \E f \in [D -> S] : IsInjective(f)
  BY <1>1 DEF ExistsBijection, Bijection, Injection, IsInjective
<1>3. SetToSeq(S) \in [D -> S] /\ IsInjective(SetToSeq(S))
  BY <1>2 DEF SetToSeq
<1>4. SetToSeq(S) \in Injection(D, S)
  BY <1>3 DEF Injection, IsInjective
<1>5. IsFiniteSet(D) /\ Cardinality(D) = Cardinality(S)
  BY <1>1, FS_Interval
<1>6. SetToSeq(S) \in Surjection(D, S)
  <2> HIDE DEF D
  <2> QED
    BY <1>4, <1>5, FS_Injection
<1> QED
  BY <1>1, <1>3, <1>6 DEF IsInjective, Surjection

-----------------------------------------------------------------------------
(* The lists a start reads *)

Pair == [node : Nodes, secret : Secrets]

Blank == Entry(NoNode, NoSecret)

Lists(list, S) ==
    /\ list \in Seq(Pair)
    /\ \A i \in DOMAIN list : list[i] \in S
    /\ \A e \in S : \E i \in DOMAIN list : list[i] = e
    /\ \A i, k \in DOMAIN list : list[i] = list[k] => i = k

ManagedSet(m) == {Entry(n, m.tokens[n]) : n \in HasToken(m)}

LEMMA ManagedSetFinite ==
  ASSUME NEW m \in ManagedStates
  PROVE  IsFiniteSet(ManagedSet(m)) /\ ManagedSet(m) \subseteq Pair
<1> DEFINE f == [n \in HasToken(m) |-> Entry(n, m.tokens[n])]
<1>1. f \in Surjection(HasToken(m), ManagedSet(m))
  BY DEF Surjection, ManagedSet
<1>2. IsFiniteSet(HasToken(m))
  <2>1. HasToken(m) \in SUBSET Nodes
    BY DEF HasToken
  <2> QED
    BY <2>1, FS_Subset, TokenAssumption
<1>3. IsFiniteSet(ManagedSet(m))
  <2> HIDE DEF f
  <2> QED
    BY <1>1, <1>2, FS_Surjection
<1> QED
  BY <1>3 DEF ManagedSet, HasToken, ManagedStates, Entry, Pair

LEMMA ManagedListed ==
  ASSUME NEW m \in ManagedStates
  PROVE  Lists(ManagedEntries(m), ManagedSet(m))
<1> DEFINE M == SetToSeq(ManagedSet(m))
           K == Cardinality(ManagedSet(m))
<1>1. M = ManagedEntries(m)
  BY DEF ManagedEntries, ManagedSet
<1>2. /\ M \in [1 .. K -> ManagedSet(m)] /\ K \in Nat
      /\ \A i, k \in 1 .. K : M[i] = M[k] => i = k
      /\ \A e \in ManagedSet(m) : \E i \in 1 .. K : M[i] = e
  BY ManagedSetFinite, EntriesListed
<1> HIDE DEF M, K
<1>3. M \in Seq(Pair) /\ DOMAIN M = 1 .. K
  BY <1>2, ManagedSetFinite
<1> QED
  BY <1>1, <1>2, <1>3 DEF Lists

LEMMA FileListed ==
  ASSUME NEW list \in SetToSeqs(FileTokens)
  PROVE  Lists(list, FileTokens)
<1> DEFINE K == Cardinality(FileTokens)
           D == 1 .. K
<1>1. K \in Nat /\ IsFiniteSet(D) /\ Cardinality(D) = K /\ FileTokens \subseteq Pair
  <2>1. IsFiniteSet(FileTokens) /\ FileTokens \subseteq Pair
    BY TokenAssumption DEF Pair
  <2>2. K \in Nat
    BY <2>1, FS_CardinalityType
  <2>3. IsFiniteSet(1 .. K) /\ Cardinality(1 .. K) = IF 1 > K THEN 0 ELSE K - 1 + 1
    BY <2>2, FS_Interval
  <2> HIDE DEF K
  <2> QED
    BY <2>1, <2>2, <2>3
<1>2. list \in Injection(D, FileTokens)
  BY DEF SetToSeqs, Injection, IsInjective
<1>3. list \in Surjection(D, FileTokens)
  <2> HIDE DEF D
  <2> QED
    BY <1>1, <1>2, TokenAssumption, FS_Injection
<1>4. list \in [D -> FileTokens]
  BY <1>2 DEF Injection
<1>5. list \in Seq(Pair) /\ DOMAIN list = D
  BY <1>1, <1>4
<1> HIDE DEF D
<1> QED
  BY <1>2, <1>3, <1>4, <1>5 DEF Lists, Injection, Surjection, IsInjective

LEMMA OverlayEntries ==
  ASSUME NEW static \in Seq(Pair), NEW m \in ManagedStates
  PROVE  LET M == ManagedEntries(m)
             E == Overlay(static, m)
         IN  /\ Len(static) \in Nat /\ Len(M) \in Nat
             /\ M \in Seq(Pair)
             /\ E \in Seq(EntryType) /\ Len(E) = Len(static) + Len(M)
             /\ \A i \in 1 .. Len(static) :
                   E[i] = IF static[i].node \in m.revoked THEN Blank ELSE static[i]
             /\ \A i \in 1 .. Len(M) : E[Len(static) + i] = M[i]
<1> DEFINE M == ManagedEntries(m)
           B == [i \in DOMAIN static |->
                   IF static[i].node \in m.revoked THEN Entry(NoNode, NoSecret) ELSE static[i]]
<1>1. M \in Seq(Pair)
  BY ManagedListed DEF Lists
<1>2. Pair \subseteq EntryType /\ Blank \in EntryType
  BY DEF Pair, EntryType, Blank, Entry
<1>3. B \in Seq(EntryType) /\ Len(B) = Len(static) /\ DOMAIN static = 1 .. Len(static)
  <2>1. \A i \in DOMAIN static : static[i] \in Pair
    OBVIOUS
  <2>2. B \in [1 .. Len(static) -> EntryType] /\ DOMAIN static = 1 .. Len(static)
    BY <2>1, <1>2 DEF Blank
  <2>3. Len(static) \in Nat
    OBVIOUS
  <2> HIDE DEF B
  <2> QED
    BY <2>2, <2>3
<1>4. M \in Seq(EntryType)
  BY <1>1, <1>2
<1>5. Overlay(static, m) = B \o M
  BY DEF Overlay
<1>6. \A i \in 1 .. Len(static) :
          B[i] = IF static[i].node \in m.revoked THEN Blank ELSE static[i]
  BY <1>3 DEF Blank
<1> HIDE DEF B, M
<1>7. /\ B \o M \in Seq(EntryType) /\ Len(B \o M) = Len(static) + Len(M)
      /\ \A i \in 1 .. Len(static) : (B \o M)[i] = B[i]
      /\ \A i \in 1 .. Len(M) : (B \o M)[Len(static) + i] = M[i]
  BY <1>3, <1>4
<1> QED
  BY <1>1, <1>5, <1>6, <1>7 DEF M
-----------------------------------------------------------------------------
(* What newEntries leaves *)

LastOf(E, i, n) == E[i].node = n /\ \A k \in i + 1 .. Len(E) : E[k].node # n

LeftIn(E) == {E[i] : i \in {i \in DOMAIN E : IsLeft(E, i)}}

LEMMA NewEntriesValue ==
  ASSUME NEW E \in Seq(EntryType), NEW s \in Secrets
  PROVE  /\ NewEntries(E)[s] \in Nodes \cup {NoNode}
         /\ NewEntries(E)[s] # NoNode =>
               \E i \in DOMAIN E : IsLeft(E, i) /\ E[i] = Entry(NewEntries(E)[s], s)
         /\ \A i \in DOMAIN E : IsLeft(E, i) /\ E[i].secret = s =>
               \E k \in DOMAIN E : E[k].secret = s /\ E[k].node = NewEntries(E)[s]
<1> DEFINE c == CHOOSE e \in LeftIn(E) : e.secret = s
<1>1. NewEntries(E)[s] = IF \E e \in LeftIn(E) : e.secret = s THEN c.node ELSE NoNode
  BY DEF NewEntries, LeftIn
<1>2. ASSUME \E e \in LeftIn(E) : e.secret = s
      PROVE  \E i \in DOMAIN E : IsLeft(E, i) /\ E[i] = Entry(c.node, s) /\ c.node \in Nodes \cup {NoNode}
  <2>1. c \in LeftIn(E) /\ c.secret = s
    BY <1>2
  <2>2. PICK i \in DOMAIN E : IsLeft(E, i) /\ E[i] = c
    BY <2>1 DEF LeftIn
  <2>3. E[i] \in EntryType
    OBVIOUS
  <2> QED
    BY <2>1, <2>2, <2>3 DEF EntryType, Entry
<1>3. \A i \in DOMAIN E : IsLeft(E, i) => E[i] \in LeftIn(E)
  BY DEF LeftIn
<1> HIDE DEF c
<1> QED
  BY <1>1, <1>2, <1>3 DEF Entry

\* Equal secrets are of one node, and an entry without a node has no secret.
OneOwner(E) == \A i, k \in DOMAIN E : E[i].secret = E[k].secret => E[i].node = E[k].node

LEMMA LastIsLeft ==
  ASSUME NEW E \in Seq(EntryType), OneOwner(E), NEW n \in Nodes, NEW i \in DOMAIN E,
         LastOf(E, i, n)
  PROVE  IsLeft(E, i)
<1> SUFFICES ASSUME NEW j \in i + 1 .. Len(E)
             PROVE  E[j].secret # E[i].secret /\ ~Drops(E, j, E[i].secret)
  BY DEF IsLeft
<1>1. DOMAIN E = 1 .. Len(E) /\ Len(E) \in Nat
  OBVIOUS
<1>2. j \in DOMAIN E /\ E[j].node # n
  BY <1>1 DEF LastOf
<1>3. E[j].secret # E[i].secret
  BY <1>2 DEF OneOwner, LastOf
<1>4. ASSUME Drops(E, j, E[i].secret) PROVE FALSE
  <2>1. PICK k \in 1 .. j - 1 : E[k] = Entry(E[j].node, E[i].secret)
    BY <1>4 DEF Drops
  <2>2. k \in DOMAIN E
    BY <1>1, <1>2
  <2>3. E[k].secret = E[i].secret /\ E[k].node = E[j].node
    BY <2>1 DEF Entry
  <2> QED
    BY <1>2, <2>2, <2>3 DEF OneOwner, LastOf
<1> QED
  BY <1>3, <1>4

LEMMA LeftIsLast ==
  ASSUME NEW E \in Seq(EntryType), NEW n \in Nodes, NEW i \in DOMAIN E,
         E[i].node = n, IsLeft(E, i)
  PROVE  LastOf(E, i, n)
<1>1. DOMAIN E = 1 .. Len(E) /\ Len(E) \in Nat
  OBVIOUS
<1> DEFINE T == {j \in i + 1 .. Len(E) : E[j].node = n}
<1> SUFFICES ASSUME T # {} PROVE FALSE
  BY DEF LastOf
<1>2. T \in SUBSET Nat
  BY <1>1
<1>3. PICK j \in T : \A l \in T : j <= l
  <2> HIDE DEF T
  <2> QED
    BY <1>2, HasLeast
<1>4. j \in i + 1 .. Len(E) /\ E[j].node = n /\ i \in 1 .. j - 1
  BY <1>1
<1>5. E[i] = Entry(E[j].node, E[i].secret)
  <2>1. E[i] \in EntryType
    OBVIOUS
  <2> QED
    BY <2>1, <1>4 DEF EntryType, Entry
<1>6. \A l \in i + 1 .. j - 1 : E[l].node # E[j].node
  <2> SUFFICES ASSUME NEW l \in i + 1 .. j - 1, E[l].node = n PROVE FALSE
    BY <1>4
  <2>1. l \in T
    BY <1>1, <1>4
  <2> QED
    BY <2>1, <1>3, <1>1
<1>7. Drops(E, j, E[i].secret)
  BY <1>4, <1>5, <1>6 DEF Drops
<1> QED
  BY <1>4, <1>7 DEF IsLeft

\* A secret authenticates a node just when the node's last entry has it.
LEMMA NewEntriesLast ==
  ASSUME NEW E \in Seq(EntryType), OneOwner(E), NEW n \in Nodes, NEW s \in Secrets
  PROVE  NewEntries(E)[s] = n <=>
            \E i \in DOMAIN E : E[i] = Entry(n, s) /\ LastOf(E, i, n)
<1>1. ASSUME NewEntries(E)[s] = n
      PROVE  \E i \in DOMAIN E : E[i] = Entry(n, s) /\ LastOf(E, i, n)
  <2>1. NewEntries(E)[s] # NoNode
    BY <1>1, TokenAssumption
  <2>2. PICK i \in DOMAIN E : IsLeft(E, i) /\ E[i] = Entry(n, s)
    BY <1>1, <2>1, NewEntriesValue
  <2>3. E[i].node = n
    BY <2>2 DEF Entry
  <2> QED
    BY <2>2, <2>3, LeftIsLast
<1>2. ASSUME NEW i \in DOMAIN E, E[i] = Entry(n, s), LastOf(E, i, n)
      PROVE  NewEntries(E)[s] = n
  <2>1. IsLeft(E, i) /\ E[i].secret = s /\ E[i].node = n
    BY <1>2, LastIsLeft DEF Entry
  <2>2. PICK k \in DOMAIN E : E[k].secret = s /\ E[k].node = NewEntries(E)[s]
    BY <2>1, NewEntriesValue
  <2> QED
    BY <2>1, <2>2 DEF OneOwner
<1> QED
  BY <1>1, <1>2
-----------------------------------------------------------------------------
(* What a start enforces *)

Static == FileTokens \cup Range(InlineTokens)

\* The configuration gives a secret to one node, and the file a node one secret.
OneTokenEach ==
    /\ \A e, f \in FileTokens : e.node = f.node => e = f
    /\ \A e, f \in Static : e.secret = f.secret => e.node = f.node

\* Managed tokens are of one node each, not configured, and not revoked.
Own(m) ==
    /\ \A a, b \in HasToken(m) : m.tokens[a] = m.tokens[b] => a = b
    /\ \A n \in HasToken(m) : m.tokens[n] \notin StaticSecrets
    /\ HasToken(m) \cap m.revoked = {}

TokenOf(m, n) ==
    IF n \in HasToken(m) THEN m.tokens[n]
    ELSE IF n \in m.revoked THEN NoSecret
    ELSE Configured(n)

LEMMA StaticType == Static \subseteq Pair /\ \A e \in Static : e.secret \in StaticSecrets
<1>1. \A e \in Range(InlineTokens) : e \in Pair
  <2>1. InlineTokens \in Seq(Pair)
    BY TokenAssumption DEF Pair
  <2>2. \A i \in DOMAIN InlineTokens : InlineTokens[i] \in Pair
    BY <2>1
  <2> QED
    BY <2>2 DEF Range
<1> QED
  BY <1>1, TokenAssumption DEF Static, StaticSecrets, Pair

\* The file's entries in an order, and the inline ones behind them.
InlineBehind(static, list) ==
    /\ static \in Seq(Pair) /\ Lists(list, FileTokens)
    /\ Len(list) \in Nat /\ Len(InlineTokens) \in Nat
    /\ DOMAIN list = 1 .. Len(list) /\ DOMAIN InlineTokens = 1 .. Len(InlineTokens)
    /\ Len(static) = Len(list) + Len(InlineTokens)
    /\ \A i \in 1 .. Len(list) : static[i] = list[i]
    /\ \A i \in 1 .. Len(InlineTokens) : static[Len(list) + i] = InlineTokens[i]

LEMMA StaticListed ==
  ASSUME NEW static \in StaticEntries
  PROVE  \E list \in SetToSeqs(FileTokens) : InlineBehind(static, list)
<1>1. PICK list \in SetToSeqs(FileTokens) : static = list \o InlineTokens
  BY DEF StaticEntries
<1>2. Lists(list, FileTokens) /\ list \in Seq(Pair)
  BY FileListed DEF Lists
<1>3. InlineTokens \in Seq(Pair)
  BY TokenAssumption DEF Pair
<1>4. /\ static \in Seq(Pair) /\ Len(static) = Len(list) + Len(InlineTokens)
      /\ Len(list) \in Nat /\ Len(InlineTokens) \in Nat
      /\ DOMAIN list = 1 .. Len(list) /\ DOMAIN InlineTokens = 1 .. Len(InlineTokens)
      /\ \A i \in 1 .. Len(list) : static[i] = list[i]
      /\ \A i \in 1 .. Len(InlineTokens) : static[Len(list) + i] = InlineTokens[i]
  BY <1>1, <1>2, <1>3
<1> QED
  BY <1>2, <1>4 DEF InlineBehind

\* Index i of two sequences, one behind the other.
LEMMA Halves ==
  ASSUME NEW a \in Nat, NEW b \in Nat, NEW i \in 1 .. a + b
  PROVE  i \in 1 .. a \/ \E k \in 1 .. b : i = a + k
<1>1. CASE i <= a
  BY <1>1
<1>2. CASE i > a
  <2>1. i - a \in 1 .. b /\ i = a + (i - a)
    BY <1>2
  <2> QED
    BY <2>1
<1> QED
  BY <1>1, <1>2

LEMMA StaticMembers ==
  ASSUME NEW static \in StaticEntries, NEW i \in DOMAIN static
  PROVE  static[i] \in Static
<1>1. PICK list \in SetToSeqs(FileTokens) : InlineBehind(static, list)
  BY StaticListed
<1>2. i \in 1 .. Len(list) + Len(InlineTokens)
  BY <1>1 DEF InlineBehind
<1>3. CASE i \in 1 .. Len(list)
  BY <1>1, <1>3 DEF InlineBehind, Lists, Static
<1>4. CASE \E k \in 1 .. Len(InlineTokens) : i = Len(list) + k
  BY <1>1, <1>4 DEF InlineBehind, Range, Static
<1>5. Len(list) \in Nat /\ Len(InlineTokens) \in Nat
  BY <1>1 DEF InlineBehind
<1> QED
  BY <1>2, <1>3, <1>4, <1>5, Halves

LEMMA OverlayMembers ==
  ASSUME NEW static \in StaticEntries, NEW m \in ManagedStates,
         NEW i \in DOMAIN Overlay(static, m)
  PROVE  Overlay(static, m)[i] \in {Blank} \cup Static \cup ManagedSet(m)
<1> DEFINE E == Overlay(static, m)
           M == ManagedEntries(m)
<1>1. static \in Seq(Pair)
  BY StaticListed DEF InlineBehind
<1>2. /\ Len(static) \in Nat /\ Len(M) \in Nat /\ M \in Seq(Pair)
      /\ E \in Seq(EntryType) /\ Len(E) = Len(static) + Len(M)
      /\ \A k \in 1 .. Len(static) :
            E[k] = IF static[k].node \in m.revoked THEN Blank ELSE static[k]
      /\ \A k \in 1 .. Len(M) : E[Len(static) + k] = M[k]
  BY <1>1, OverlayEntries
<1>3. \A k \in DOMAIN M : M[k] \in ManagedSet(m)
  BY ManagedListed DEF Lists
<1> HIDE DEF E, M
<1>4. i \in 1 .. Len(static) + Len(M)
  BY <1>2 DEF E
<1>5. CASE i \in 1 .. Len(static)
  <2>1. static[i] \in Static
    BY <1>1, <1>5, StaticMembers
  <2> QED
    BY <1>2, <1>5, <2>1 DEF E
<1>6. CASE \E k \in 1 .. Len(M) : i = Len(static) + k
  BY <1>2, <1>3, <1>6 DEF E
<1> QED
  BY <1>2, <1>4, <1>5, <1>6, Halves

LEMMA OverlayOneOwner ==
  ASSUME OneTokenEach, NEW static \in StaticEntries, NEW m \in ManagedStates, Own(m)
  PROVE  OneOwner(Overlay(static, m))
<1>1. ASSUME NEW e \in {Blank} \cup Static \cup ManagedSet(m),
             NEW f \in {Blank} \cup Static \cup ManagedSet(m), e.secret = f.secret
      PROVE  e.node = f.node
  <2>1. Blank.secret = NoSecret /\ NoSecret \notin Secrets
    BY TokenAssumption DEF Blank, Entry
  <2>2. \A g \in Static : g.secret \in Secrets /\ g.secret \in StaticSecrets
    BY StaticType DEF Pair
  <2>3. \A g \in ManagedSet(m) :
            /\ g.node \in HasToken(m) /\ g.secret = m.tokens[g.node]
            /\ g.secret \in Secrets /\ g.secret \notin StaticSecrets
    BY DEF ManagedSet, Entry, Own, HasToken, ManagedStates
  <2>4. CASE e = Blank \/ f = Blank
    BY <1>1, <2>1, <2>2, <2>3, <2>4
  <2>5. CASE e \in Static /\ f \in Static
    BY <1>1, <2>5 DEF OneTokenEach
  <2>6. CASE e \in ManagedSet(m) /\ f \in ManagedSet(m)
    BY <1>1, <2>3, <2>6 DEF Own
  <2> QED
    BY <1>1, <2>2, <2>3, <2>4, <2>5, <2>6
<1> QED
  BY <1>1, OverlayMembers DEF OneOwner
LEMMA ConfiguredType ==
  ASSUME NEW n \in Nodes
  PROVE  Configured(n) \in StaticSecrets \cup {NoSecret}
<1> DEFINE inline == {i \in DOMAIN InlineTokens : InlineTokens[i].node = n}
           fromFile == {e.secret : e \in {e \in FileTokens : e.node = n}}
<1>1. Configured(n) = IF inline # {} THEN InlineTokens[Max(inline)].secret
                      ELSE IF fromFile # {} THEN CHOOSE s \in fromFile : TRUE
                      ELSE NoSecret
  BY DEF Configured
<1>2. CASE inline # {}
  <2>1. Len(InlineTokens) \in Nat /\ inline \in SUBSET (1 .. Len(InlineTokens))
    BY TokenAssumption
  <2>2. PICK x \in inline : \A y \in inline : y <= x
    <3> HIDE DEF inline
    <3> QED
      BY <1>2, <2>1, HasGreatest
  <2>3. \A y \in inline : x >= y
    BY <2>1, <2>2
  <2>4. Max(inline) \in inline
    <3> HIDE DEF inline
    <3> QED
      BY <2>3 DEF Max
  <2>5. InlineTokens[Max(inline)] \in Static
    BY <2>4 DEF Static, Range
  <2> QED
    BY <1>1, <1>2, <2>5, StaticType
<1>3. CASE inline = {} /\ fromFile # {}
  <2>1. Configured(n) \in fromFile
    BY <1>1, <1>3
  <2> QED
    BY <2>1, StaticType DEF Static
<1>4. CASE inline = {} /\ fromFile = {}
  BY <1>1, <1>4
<1> QED
  BY <1>2, <1>3, <1>4

LEMMA StaticLast ==
  ASSUME OneTokenEach, NEW static \in StaticEntries, NEW n \in Nodes
  PROVE  /\ Configured(n) \in StaticSecrets \cup {NoSecret}
         /\ Configured(n) # NoSecret =>
              \E i \in DOMAIN static :
                 static[i] = Entry(n, Configured(n)) /\ LastOf(static, i, n)
         /\ Configured(n) = NoSecret => \A i \in DOMAIN static : static[i].node # n
<1> DEFINE L == Len(InlineTokens)
           inline == {i \in DOMAIN InlineTokens : InlineTokens[i].node = n}
           fromFile == {e.secret : e \in {e \in FileTokens : e.node = n}}
<1>1. PICK list \in SetToSeqs(FileTokens) : InlineBehind(static, list)
  BY StaticListed
<1>2. DOMAIN static = 1 .. Len(list) + L /\ L \in Nat /\ Len(list) \in Nat
  BY <1>1 DEF InlineBehind
<1>3. \A i \in DOMAIN static :
         i \in 1 .. Len(list) \/ \E k \in 1 .. L : i = Len(list) + k
  <2> SUFFICES ASSUME NEW i \in 1 .. Len(list) + L
               PROVE  i \in 1 .. Len(list) \/ \E k \in 1 .. L : i = Len(list) + k
    BY <1>2
  <2> HIDE DEF L
  <2> QED
    BY <1>2, Halves
<1>4. \A i \in DOMAIN InlineTokens : InlineTokens[i] \in Static
  BY DEF Static, Range
<1>5. Configured(n) = IF inline # {} THEN InlineTokens[Max(inline)].secret
                      ELSE IF fromFile # {} THEN CHOOSE s \in fromFile : TRUE
                      ELSE NoSecret
  BY DEF Configured
<1>6. \A e \in Static : e = Entry(e.node, e.secret) /\ e.secret # NoSecret
                        /\ e.secret \in StaticSecrets
  BY StaticType, TokenAssumption DEF Pair, Entry
<1>7. CASE inline # {}
  <2>1. inline \in SUBSET (1 .. L)
    BY <1>1 DEF InlineBehind
  <2>2. \E x \in inline : \A y \in inline : x >= y
    <3>1. PICK x \in inline : \A y \in inline : y <= x
      <4> HIDE DEF inline
      <4> QED
        BY <1>2, <1>7, <2>1, HasGreatest
    <3>2. \A y \in inline : x >= y
      BY <3>1, <2>1
    <3> QED
      BY <3>2
  <2> DEFINE p == Max(inline)
             q == Len(list) + p
  <2>3. p \in inline /\ \A y \in inline : p >= y
    <3> HIDE DEF inline
    <3> QED
      BY <2>2 DEF Max
  <2>4. Configured(n) = InlineTokens[p].secret /\ InlineTokens[p].node = n
    BY <1>5, <1>7, <2>3
  <2>5. p \in 1 .. L /\ p \in DOMAIN InlineTokens
    BY <2>1, <2>3
  <2> HIDE DEF p
  <2>6. q \in DOMAIN static /\ static[q] = InlineTokens[p]
    BY <1>1, <1>2, <2>5 DEF InlineBehind
  <2>7. ASSUME NEW k \in q + 1 .. Len(static), static[k].node = n PROVE FALSE
    <3>1. k \in DOMAIN static /\ ~(k \in 1 .. Len(list)) /\ k > q
      BY <1>1, <1>2, <2>5 DEF InlineBehind
    <3>2. PICK l \in 1 .. L : k = Len(list) + l
      BY <1>3, <3>1
    <3>3. InlineTokens[l].node = n /\ l \in DOMAIN InlineTokens
      BY <1>1, <2>7, <3>2 DEF InlineBehind
    <3>4. p >= l
      BY <2>3, <3>3
    <3> QED
      BY <3>1, <3>2, <3>4, <2>5, <1>2
  <2>8. InlineTokens[p] = Entry(n, Configured(n)) /\ Configured(n) # NoSecret
        /\ Configured(n) \in StaticSecrets
    BY <1>4, <1>6, <2>4, <2>5
  <2>9. static[q] = Entry(n, Configured(n)) /\ LastOf(static, q, n)
    BY <2>4, <2>6, <2>7, <2>8 DEF LastOf
  <2> QED
    BY <2>6, <2>8, <2>9
<1>8. CASE inline = {} /\ fromFile # {}
  <2>1. Configured(n) \in fromFile
    BY <1>5, <1>8
  <2>2. PICK e \in FileTokens : e.node = n /\ e.secret = Configured(n)
    BY <2>1
  <2>3. e = Entry(n, Configured(n)) /\ Configured(n) # NoSecret /\ Configured(n) \in StaticSecrets
    BY <1>6, <2>2 DEF Static
  <2>4. PICK i \in 1 .. Len(list) : list[i] = e
    BY <1>1, <2>2 DEF InlineBehind, Lists
  <2>5. i \in DOMAIN static /\ static[i] = e
    BY <1>1, <1>2, <2>4 DEF InlineBehind
  <2>6. ASSUME NEW k \in i + 1 .. Len(static), static[k].node = n PROVE FALSE
    <3>1. k \in DOMAIN static /\ k # i
      BY <1>1, <1>2, <2>4 DEF InlineBehind
    <3>2. CASE k \in 1 .. Len(list)
      <4>1. list[k] \in FileTokens /\ list[k].node = n
        BY <1>1, <2>6, <3>2 DEF InlineBehind, Lists
      <4>2. list[k] = list[i]
        BY <2>2, <2>4, <4>1 DEF OneTokenEach
      <4> QED
        BY <1>1, <2>4, <3>1, <3>2, <4>2 DEF InlineBehind, Lists
    <3>3. CASE \E l \in 1 .. L : k = Len(list) + l
      BY <1>1, <1>8, <2>6, <3>3 DEF InlineBehind
    <3> QED
      BY <1>3, <3>1, <3>2, <3>3
  <2>7. static[i] = Entry(n, Configured(n)) /\ LastOf(static, i, n)
    BY <2>2, <2>3, <2>5, <2>6 DEF LastOf
  <2> QED
    BY <2>3, <2>5, <2>7
<1>9. CASE inline = {} /\ fromFile = {}
  <2>1. ASSUME NEW i \in DOMAIN static, static[i].node = n PROVE FALSE
    <3>1. CASE i \in 1 .. Len(list)
      <4>1. list[i] \in FileTokens /\ list[i].node = n
        BY <1>1, <2>1, <3>1 DEF InlineBehind, Lists
      <4> QED
        BY <1>9, <4>1
    <3>2. CASE \E l \in 1 .. L : i = Len(list) + l
      BY <1>1, <1>9, <2>1, <3>2 DEF InlineBehind
    <3> QED
      BY <1>3, <3>1, <3>2
  <2> QED
    BY <1>5, <1>9, <2>1
<1> QED
  BY <1>7, <1>8, <1>9

LEMMA OverlayLast ==
  ASSUME OneTokenEach, NEW static \in StaticEntries, NEW m \in ManagedStates, Own(m),
         NEW n \in Nodes
  PROVE  LET E == Overlay(static, m)
         IN  /\ TokenOf(m, n) # NoSecret =>
                  \E i \in DOMAIN E : E[i] = Entry(n, TokenOf(m, n)) /\ LastOf(E, i, n)
             /\ TokenOf(m, n) = NoSecret => \A i \in DOMAIN E : E[i].node # n
<1> DEFINE E == Overlay(static, m)
           M == ManagedEntries(m)
           L == Len(static)
           K == Len(M)
<1>1. static \in Seq(Pair)
  BY StaticListed DEF InlineBehind
<1>2. /\ L \in Nat /\ K \in Nat /\ M \in Seq(Pair)
      /\ E \in Seq(EntryType) /\ Len(E) = L + K
      /\ \A k \in 1 .. L :
            E[k] = IF static[k].node \in m.revoked THEN Blank ELSE static[k]
      /\ \A k \in 1 .. K : E[L + k] = M[k]
  BY <1>1, OverlayEntries
<1>3. DOMAIN E = 1 .. L + K /\ DOMAIN M = 1 .. K /\ DOMAIN static = 1 .. L
  BY <1>1, <1>2
<1>4. Lists(M, ManagedSet(m))
  BY ManagedListed
<1> HIDE DEF E, M, L, K
<1>5. \A i \in 1 .. L + K : i \in 1 .. L \/ \E k \in 1 .. K : i = L + k
  BY <1>2, Halves
<1>6. \A k \in 1 .. K : M[k].node \in HasToken(m) /\ M[k] = Entry(M[k].node, m.tokens[M[k].node])
  <2> SUFFICES ASSUME NEW k \in 1 .. K
               PROVE  M[k].node \in HasToken(m) /\ M[k] = Entry(M[k].node, m.tokens[M[k].node])
    OBVIOUS
  <2>1. M[k] \in ManagedSet(m)
    BY <1>3, <1>4 DEF Lists
  <2> QED
    BY <2>1 DEF ManagedSet, Entry
<1>7. Blank.node = NoNode /\ NoNode # n
  BY TokenAssumption DEF Blank, Entry
<1>8. CASE n \in HasToken(m)
  <2>1. TokenOf(m, n) = m.tokens[n] /\ m.tokens[n] # NoSecret
    BY <1>8 DEF TokenOf, HasToken
  <2>2. Entry(n, m.tokens[n]) \in ManagedSet(m)
    BY <1>8 DEF ManagedSet
  <2>3. PICK p \in 1 .. K : M[p] = Entry(n, m.tokens[n])
    BY <1>3, <1>4, <2>2 DEF Lists
  <2>4. L + p \in DOMAIN E /\ E[L + p] = Entry(n, m.tokens[n])
    BY <1>2, <1>3, <2>3
  <2>5. ASSUME NEW k \in L + p + 1 .. Len(E), E[k].node = n PROVE FALSE
    <3>1. k \in 1 .. L + K /\ ~(k \in 1 .. L) /\ k > L + p
      BY <1>2, <2>3
    <3>2. PICK l \in 1 .. K : k = L + l
      BY <1>5, <3>1
    <3>3. M[l] = M[p]
      BY <1>2, <1>6, <2>3, <2>5, <3>2
    <3>4. l = p
      BY <1>3, <1>4, <2>3, <3>2, <3>3 DEF Lists
    <3> QED
      BY <1>2, <2>3, <3>1, <3>2, <3>4
  <2>6. LastOf(E, L + p, n)
    BY <2>4, <2>5 DEF LastOf, Entry
  <2> QED
    BY <2>1, <2>4, <2>6 DEF E
<1>9. CASE n \notin HasToken(m) /\ n \in m.revoked
  <2>1. TokenOf(m, n) = NoSecret
    BY <1>9 DEF TokenOf
  <2>2. ASSUME NEW i \in DOMAIN E, E[i].node = n PROVE FALSE
    <3>1. CASE i \in 1 .. L
      BY <1>2, <1>7, <1>9, <2>2, <3>1
    <3>2. CASE \E k \in 1 .. K : i = L + k
      BY <1>2, <1>6, <1>9, <2>2, <3>2
    <3> QED
      BY <1>3, <1>5, <3>1, <3>2
  <2> QED
    BY <2>1, <2>2 DEF E
<1>10. CASE n \notin HasToken(m) /\ n \notin m.revoked
  <2>1. TokenOf(m, n) = Configured(n)
    BY <1>10 DEF TokenOf
  <2>2. \A i \in 1 .. L : static[i].node = n => E[i] = static[i]
    BY <1>2, <1>10
  <2>3. \A i \in 1 .. L : E[i].node = n => static[i].node = n
    BY <1>2, <1>7
  <2>4. \A k \in 1 .. K : E[L + k].node # n
    BY <1>2, <1>6, <1>10
  <2>5. ASSUME Configured(n) # NoSecret
        PROVE  \E i \in DOMAIN E : E[i] = Entry(n, Configured(n)) /\ LastOf(E, i, n)
    <3>1. PICK i \in DOMAIN static :
               static[i] = Entry(n, Configured(n)) /\ LastOf(static, i, n)
      BY <2>5, StaticLast
    <3>2. i \in 1 .. L /\ static[i].node = n
      BY <1>3, <3>1 DEF Entry
    <3>3. E[i] = Entry(n, Configured(n)) /\ i \in DOMAIN E
      BY <1>2, <1>3, <2>2, <3>1, <3>2
    <3>4. ASSUME NEW k \in i + 1 .. Len(E), E[k].node = n PROVE FALSE
      <4>1. k \in 1 .. L + K /\ k > i
        BY <1>2, <3>2
      <4>2. CASE k \in 1 .. L
        <5>1. k \in i + 1 .. Len(static)
          BY <4>1, <4>2, <3>2, <1>2 DEF L
        <5> QED
          BY <2>3, <3>1, <3>4, <4>2, <5>1 DEF LastOf
      <4> QED
        BY <1>5, <2>4, <3>4, <4>1, <4>2
    <3>5. LastOf(E, i, n)
      BY <3>3, <3>4 DEF LastOf, Entry
    <3> QED
      BY <3>3, <3>5
  <2>6. ASSUME Configured(n) = NoSecret, NEW i \in DOMAIN E PROVE E[i].node # n
    <3>1. \A k \in DOMAIN static : static[k].node # n
      BY <2>6, StaticLast
    <3> QED
      BY <1>3, <1>5, <2>3, <2>4, <3>1
  <2> QED
    BY <2>1, <2>5, <2>6 DEF E
<1> QED
  BY <1>8, <1>9, <1>10

\* A start enforces exactly the tokens in force.
LEMMA LoadsWhatIsInForce ==
  ASSUME OneTokenEach, NEW m \in ManagedStates, Own(m), NEW b \in Loads(m),
         NEW n \in Nodes, NEW s \in Secrets
  PROVE  b[s] = n <=> s = TokenOf(m, n)
<1>1. PICK static \in StaticEntries : b = NewEntries(Overlay(static, m))
  BY DEF Loads
<1> DEFINE E == Overlay(static, m)
<1>2. static \in Seq(Pair)
  BY StaticListed DEF InlineBehind
<1>3. E \in Seq(EntryType)
  BY <1>2, OverlayEntries
<1>4. OneOwner(E)
  BY OverlayOneOwner
<1>5. /\ TokenOf(m, n) # NoSecret =>
           \E i \in DOMAIN E : E[i] = Entry(n, TokenOf(m, n)) /\ LastOf(E, i, n)
      /\ TokenOf(m, n) = NoSecret => \A i \in DOMAIN E : E[i].node # n
  BY OverlayLast
<1> HIDE DEF E
<1>6. b[s] = n <=> \E i \in DOMAIN E : E[i] = Entry(n, s) /\ LastOf(E, i, n)
  BY <1>1, <1>3, <1>4, NewEntriesLast DEF E
<1>7. s # NoSecret
  BY TokenAssumption
<1>8. ASSUME s = TokenOf(m, n) PROVE b[s] = n
  BY <1>5, <1>6, <1>7, <1>8
<1>9. ASSUME b[s] = n PROVE s = TokenOf(m, n)
  <2>1. PICK i \in DOMAIN E : E[i] = Entry(n, s) /\ LastOf(E, i, n)
    BY <1>6, <1>9
  <2>2. E[i].node = n /\ E[i].secret = s
    BY <2>1 DEF Entry
  <2>3. TokenOf(m, n) # NoSecret
    BY <1>5, <2>2
  <2>4. PICK k \in DOMAIN E : E[k] = Entry(n, TokenOf(m, n)) /\ LastOf(E, k, n)
    BY <1>5, <2>3
  <2>5. E[k].node = n /\ E[k].secret = TokenOf(m, n)
    BY <2>4 DEF Entry
  <2>6. DOMAIN E = 1 .. Len(E) /\ Len(E) \in Nat
    BY <1>3
  <2>7. ~(k > i) /\ ~(i > k)
    <3>1. k > i => k \in i + 1 .. Len(E)
      BY <2>6
    <3>2. i > k => i \in k + 1 .. Len(E)
      BY <2>6
    <3> QED
      BY <2>1, <2>2, <2>4, <2>5, <3>1, <3>2 DEF LastOf
  <2>8. k = i
    BY <2>6, <2>7
  <2> QED
    BY <2>2, <2>5, <2>8
<1> QED
  BY <1>8, <1>9

\* What a start enforces is configured or managed, and of a node.
LEMMA LoadsType ==
  ASSUME NEW m \in ManagedStates, NEW b \in Loads(m)
  PROVE  /\ b \in [Secrets -> Nodes \cup {NoNode}]
         /\ \A s \in Secrets :
               b[s] # NoNode => s \in StaticSecrets \/ m.tokens[b[s]] = s
<1>1. PICK static \in StaticEntries : b = NewEntries(Overlay(static, m))
  BY DEF Loads
<1> DEFINE E == Overlay(static, m)
<1>2. static \in Seq(Pair)
  BY StaticListed DEF InlineBehind
<1>3. E \in Seq(EntryType)
  BY <1>2, OverlayEntries
<1>4. \A s \in Secrets : b[s] \in Nodes \cup {NoNode}
  <2> HIDE DEF E
  <2> QED
    BY <1>1, <1>3, NewEntriesValue DEF E
<1>5. b = [s \in Secrets |-> b[s]]
  BY <1>1 DEF NewEntries
<1>6. ASSUME NEW s \in Secrets, b[s] # NoNode
      PROVE  s \in StaticSecrets \/ m.tokens[b[s]] = s
  <2>1. PICK i \in DOMAIN E : E[i] = Entry(b[s], s)
    <3> HIDE DEF E
    <3> QED
      BY <1>1, <1>3, <1>6, NewEntriesValue DEF E
  <2>2. /\ E[i] \in {Blank} \cup Static \cup ManagedSet(m)
        /\ E[i].secret = s /\ E[i].node = b[s]
    BY <2>1, OverlayMembers DEF Entry
  <2>3. E[i] # Blank
    BY <2>2, TokenAssumption DEF Blank, Entry
  <2>4. CASE E[i] \in Static
    BY <2>2, <2>4, StaticType
  <2>5. CASE E[i] \in ManagedSet(m)
    BY <2>2, <2>5 DEF ManagedSet, Entry, HasToken
  <2> QED
    BY <2>2, <2>3, <2>4, <2>5
<1> QED
  BY <1>4, <1>5, <1>6
-----------------------------------------------------------------------------
(* Types *)

LEMMA IdleType ==
  /\ Idle.op = "none" /\ Idle.secret = NoSecret
  /\ Idle \in [op : {"none", "set", "revoke"}, node : Nodes, secret : Secrets \cup {NoSecret}]
<1>1. (CHOOSE n \in Nodes : TRUE) \in Nodes
  BY TokenAssumption
<1> QED
  BY <1>1 DEF Idle

LEMMA NormalizeType ==
  ASSUME NEW m \in ManagedStates
  PROVE  /\ Normalize(m) \in ManagedStates
         /\ Normalize(m).tokens = m.tokens
         /\ HasToken(Normalize(m)) = HasToken(m)
         /\ HasToken(Normalize(m)) \cap Normalize(m).revoked = {}
         /\ HasToken(m) \cap m.revoked = {} => Normalize(m) = m
<1>1. Normalize(m) = [tokens |-> m.tokens, revoked |-> m.revoked \ HasToken(m)]
  BY DEF Normalize, ManagedStates
<1>2. HasToken(Normalize(m)) = HasToken(m)
  BY <1>1 DEF HasToken
<1>3. ASSUME HasToken(m) \cap m.revoked = {} PROVE Normalize(m) = m
  <2>1. m.revoked \ HasToken(m) = m.revoked
    BY <1>3
  <2>2. m = [tokens |-> m.tokens, revoked |-> m.revoked]
    BY DEF ManagedStates
  <2> QED
    BY <1>1, <2>1, <2>2
<1> QED
  BY <1>1, <1>2, <1>3 DEF ManagedStates

LEMMA NoManagedType ==
  NoManaged \in ManagedStates /\ HasToken(NoManaged) = {} /\ NoManaged.revoked = {}
BY DEF NoManaged, ManagedStates, HasToken

LEMMA WantedType ==
  ASSUME TypeOK, NEW h \in Handlers
  PROVE  Wanted(h) \in ManagedStates /\ HasToken(Wanted(h)) \cap Wanted(h).revoked = {}
<1> DEFINE n == handler[h].node
           c == handler[h].secret
           set == [managedState EXCEPT !.tokens[n] = c, !.revoked = @ \ {n}]
           out == [managedState EXCEPT !.tokens[n] = NoSecret, !.revoked = @ \cup {n}]
<1>1. n \in Nodes /\ c \in Secrets \cup {NoSecret} /\ managedState \in ManagedStates
  BY DEF TypeOK
<1>2. set \in ManagedStates /\ out \in ManagedStates
  BY <1>1 DEF ManagedStates
<1>3. Wanted(h) \in {Normalize(set), Normalize(out)}
  BY DEF Wanted, Managed, Unmanaged
<1> HIDE DEF set, out
<1> QED
  BY <1>2, <1>3, NormalizeType

LEMMA TypeInit == Init => TypeOK
<1> SUFFICES ASSUME Init PROVE TypeOK
  OBVIOUS
<1>1. byToken \in [Secrets -> Nodes \cup {NoNode}]
  BY NoManagedType, LoadsType DEF Init
<1> QED
  BY <1>1, NoManagedType, IdleType, TokenAssumption DEF Init, TypeOK

LEMMA TypeStep == TypeOK /\ [Next]_vars => TypeOK'
<1> SUFFICES ASSUME TypeOK, [Next]_vars PROVE TypeOK'
  OBVIOUS
<1>1. ASSUME NEW h \in Handlers, NEW n \in Nodes, Mint(h, n) PROVE TypeOK'
  BY <1>1 DEF Mint, TypeOK
<1>2. ASSUME NEW h \in Handlers, NEW n \in Nodes, AskRevoke(h, n) PROVE TypeOK'
  BY <1>2 DEF AskRevoke, TypeOK
<1>3. ASSUME NEW h \in Handlers PROVE Normalize(Wanted(h)) \in ManagedStates
                                      /\ HasToken(Normalize(Wanted(h))) \cap Normalize(Wanted(h)).revoked = {}
  BY WantedType, NormalizeType
<1>4. ASSUME NEW h \in Handlers, UpsertManaged(h) \/ RevokeManaged(h) PROVE TypeOK'
  <2>1. /\ file' = Normalize(Wanted(h)) /\ managedState' = Wanted(h)
        /\ handler' = [handler EXCEPT ![h] = Idle]
        /\ UNCHANGED <<minted, refused, up, crashes, failures>>
    BY <1>4 DEF UpsertManaged, RevokeManaged, Answer
  <2>2. byToken' \in [Secrets -> Nodes \cup {NoNode}]
    BY <1>4 DEF UpsertManaged, RevokeManaged, With, Without, TypeOK
  <2> QED
    BY <2>1, <2>2, <1>3, WantedType, IdleType DEF TypeOK
<1>5. ASSUME NEW h \in Handlers, SaveFails(h) PROVE TypeOK'
  <2>1. failures' \in 0 .. MaxFailures
    BY <1>5, TokenAssumption DEF SaveFails, TypeOK
  <2>2. handler[h].secret \in Secrets \cup {NoSecret}
    BY DEF TypeOK
  <2>3. refused' \subseteq Secrets
    BY <1>5, <2>2 DEF SaveFails, TypeOK
  <2>4. /\ handler' = [handler EXCEPT ![h] = Idle]
        /\ UNCHANGED <<byToken, managedState, file, minted, up, crashes>>
    BY <1>5 DEF SaveFails, AfterFailure, Answer
  <2> QED
    BY <2>1, <2>3, <2>4, IdleType DEF TypeOK
<1>6. ASSUME Die PROVE /\ byToken' \in [Secrets -> Nodes \cup {NoNode}]
                       /\ managedState' \in ManagedStates
                       /\ HasToken(managedState') \cap managedState'.revoked = {}
                       /\ handler' \in [Handlers -> [op : {"none", "set", "revoke"},
                                           node : Nodes, secret : Secrets \cup {NoSecret}]]
                       /\ up' \in BOOLEAN /\ crashes' \in 0 .. MaxCrashes
  <2>1. crashes' \in 0 .. MaxCrashes
    BY <1>6, TokenAssumption DEF Die, TypeOK
  <2> QED
    BY <1>6, <2>1, NoManagedType, IdleType DEF Die, Nobody
<1>7. ASSUME NEW h \in Handlers, KilledInSave(h) PROVE TypeOK'
  BY <1>3, <1>6, <1>7 DEF KilledInSave, TypeOK
<1>8. ASSUME Crash PROVE TypeOK'
  BY <1>6, <1>8 DEF Crash, TypeOK
<1>9. ASSUME Restart PROVE TypeOK'
  <2>1. Normalize(file) \in ManagedStates
        /\ HasToken(Normalize(file)) \cap Normalize(file).revoked = {}
    BY NormalizeType DEF TypeOK
  <2>2. byToken' \in [Secrets -> Nodes \cup {NoNode}]
    BY <1>9, <2>1, LoadsType DEF Restart
  <2> QED
    BY <1>9, <2>1, <2>2 DEF Restart, TypeOK
<1>10. ASSUME UNCHANGED vars PROVE TypeOK'
  BY <1>10 DEF vars, TypeOK
<1> QED
  BY <1>1, <1>2, <1>4, <1>5, <1>7, <1>8, <1>9, <1>10 DEF Next

\* Secrets authenticate nodes, and no node is both managed and revoked: TypeOK.
THEOREM TypeCorrect == Spec => []TypeOK
BY TypeInit, TypeStep, PTL DEF Spec

-----------------------------------------------------------------------------
(* Where secrets come from, and where they are *)

\* A secret that a request holds is new: in no file, not refused, and of that
\* request.
Fresh ==
    \A h \in Handlers :
        /\ handler[h].op # "set" => handler[h].secret = NoSecret
        /\ handler[h].op = "set" =>
              /\ handler[h].secret \in minted \ refused
              /\ \A n \in Nodes : file.tokens[n] # handler[h].secret
              /\ \A k \in Handlers :
                    handler[k].op = "set" /\ handler[k].secret = handler[h].secret => k = h

\* A managed token was minted, is of one node, and was not refused.
Managing ==
    /\ \A n \in Nodes : file.tokens[n] \in (minted \ refused) \cup {NoSecret}
    /\ \A a, b \in HasToken(file) : file.tokens[a] = file.tokens[b] => a = b

\* What authenticates a node is configured, or is its managed token.
Enforcing ==
    \A s \in Secrets :
        byToken[s] # NoNode => s \in StaticSecrets \/ file.tokens[byToken[s]] = s

SecretsInv ==
    /\ TypeOK
    /\ Fresh /\ Managing /\ Enforcing
    /\ minted \cap StaticSecrets = {} /\ refused \subseteq minted
    /\ up => managedState = file

\* What a request that can be served makes of the managed state.
LEMMA WantedIs ==
  ASSUME SecretsInv, up, NEW h \in Handlers
  PROVE  /\ Normalize(Wanted(h)) = Wanted(h)
         /\ handler[h].op = "set" =>
               /\ Wanted(h).tokens = [file.tokens EXCEPT ![handler[h].node] = handler[h].secret]
               /\ Wanted(h).revoked = file.revoked \ {handler[h].node}
         /\ handler[h].op # "set" =>
               /\ Wanted(h).tokens = [file.tokens EXCEPT ![handler[h].node] = NoSecret]
               /\ Wanted(h).revoked = file.revoked \cup {handler[h].node}
<1> DEFINE n == handler[h].node
           c == handler[h].secret
           set == [managedState EXCEPT !.tokens[n] = c, !.revoked = @ \ {n}]
           out == [managedState EXCEPT !.tokens[n] = NoSecret, !.revoked = @ \cup {n}]
<1>1. /\ n \in Nodes /\ managedState = file /\ file \in ManagedStates
      /\ HasToken(file) \cap file.revoked = {}
      /\ handler[h].op = "set" => c \in Secrets
  BY DEF SecretsInv, TypeOK, Fresh
<1>2. Normalize(Wanted(h)) = Wanted(h)
  BY WantedType, NormalizeType DEF SecretsInv
<1>3. ASSUME handler[h].op = "set"
      PROVE  /\ Wanted(h).tokens = [file.tokens EXCEPT ![n] = c]
             /\ Wanted(h).revoked = file.revoked \ {n}
  <2>1. set \in ManagedStates /\ set.tokens = [file.tokens EXCEPT ![n] = c]
        /\ set.revoked = file.revoked \ {n}
    BY <1>1, <1>3 DEF ManagedStates
  <2>2. HasToken(set) \cap set.revoked = {}
    BY <1>1, <2>1 DEF HasToken, ManagedStates
  <2>3. Wanted(h) = Normalize(set)
    BY <1>3 DEF Wanted, Managed
  <2> HIDE DEF set
  <2> QED
    BY <2>1, <2>2, <2>3, NormalizeType
<1>4. ASSUME handler[h].op # "set"
      PROVE  /\ Wanted(h).tokens = [file.tokens EXCEPT ![n] = NoSecret]
             /\ Wanted(h).revoked = file.revoked \cup {n}
  <2>1. out \in ManagedStates /\ out.tokens = [file.tokens EXCEPT ![n] = NoSecret]
        /\ out.revoked = file.revoked \cup {n}
    BY <1>1 DEF ManagedStates
  <2>2. HasToken(out) \cap out.revoked = {}
    BY <1>1, <2>1 DEF HasToken, ManagedStates
  <2>3. Wanted(h) = Normalize(out)
    BY <1>4 DEF Wanted, Unmanaged
  <2> HIDE DEF out
  <2> QED
    BY <2>1, <2>2, <2>3, NormalizeType
<1> QED
  BY <1>2, <1>3, <1>4

\* The file after a save keeps what is known of managed tokens, and the other
\* requests' secrets are still new.
LEMMA SaveKeeps ==
  ASSUME SecretsInv, up, NEW h \in Handlers, file' = Normalize(Wanted(h)),
         UNCHANGED <<minted, refused>>
  PROVE  /\ Managing'
         /\ \A k \in Handlers \ {h}, n \in Nodes :
               handler[k].op = "set" => file'.tokens[n] # handler[k].secret
<1> DEFINE n == handler[h].node
           c == handler[h].secret
           put == IF handler[h].op = "set" THEN c ELSE NoSecret
<1>1. /\ file'.tokens = [file.tokens EXCEPT ![n] = put]
      /\ n \in Nodes /\ DOMAIN file.tokens = Nodes
  BY WantedIs DEF SecretsInv, TypeOK, ManagedStates
<1>2. /\ put \in (minted \ refused) \cup {NoSecret}
      /\ \A m \in Nodes : put # NoSecret => file.tokens[m] # put
      /\ \A k \in Handlers \ {h} : handler[k].op = "set" => handler[k].secret # put
  <2>1. NoSecret \notin minted
    BY TokenAssumption DEF SecretsInv, TypeOK
  <2> QED
    BY <2>1 DEF SecretsInv, Fresh
<1> HIDE DEF put
<1>3. \A m \in Nodes : file'.tokens[m] = IF m = n THEN put ELSE file.tokens[m]
  BY <1>1
<1>4. Managing'
  <2>1. \A m \in Nodes : file'.tokens[m] \in (minted \ refused) \cup {NoSecret}
    BY <1>2, <1>3 DEF SecretsInv, Managing
  <2>2. ASSUME NEW a \in Nodes, NEW b \in Nodes, file'.tokens[a] # NoSecret,
               file'.tokens[a] = file'.tokens[b]
        PROVE  a = b
    BY <1>2, <1>3, <2>2 DEF SecretsInv, Managing, HasToken
  <2> QED
    BY <2>1, <2>2 DEF Managing, HasToken
<1>5. \A k \in Handlers \ {h}, m \in Nodes :
         handler[k].op = "set" => file'.tokens[m] # handler[k].secret
  BY <1>2, <1>3 DEF SecretsInv, Fresh
<1> QED
  BY <1>4, <1>5

LEMMA SecretsInit == Init => SecretsInv
<1> SUFFICES ASSUME Init PROVE SecretsInv
  OBVIOUS
<1>1. TypeOK
  BY TypeInit
<1>2. Fresh
  BY IdleType DEF Init, Fresh
<1>3. Managing
  BY NoManagedType DEF Init, Managing, NoManaged
<1>4. Enforcing
  BY NoManagedType, LoadsType DEF Init, Enforcing
<1> QED
  BY <1>1, <1>2, <1>3, <1>4 DEF Init, SecretsInv

LEMMA SecretsStep == SecretsInv /\ [Next]_vars => SecretsInv'
<1> SUFFICES ASSUME SecretsInv, [Next]_vars PROVE SecretsInv'
  OBVIOUS
<1>1. TypeOK /\ TypeOK'
  BY TypeStep DEF SecretsInv
<1>2. ASSUME NEW h \in Handlers, NEW n \in Nodes, Mint(h, n) PROVE SecretsInv'
  <2>1. PICK c \in Secrets \ (minted \cup StaticSecrets) :
             /\ minted' = minted \cup {c}
             /\ handler' = [handler EXCEPT ![h] = [op |-> "set", node |-> n, secret |-> c]]
    BY <1>2 DEF Mint
  <2>2. UNCHANGED <<byToken, managedState, file, refused, up>>
    BY <1>2 DEF Mint
  <2>3. \A k \in Handlers : handler'[k] =
           IF k = h THEN [op |-> "set", node |-> n, secret |-> c] ELSE handler[k]
    BY <2>1, <1>1 DEF TypeOK
  <2>4. \A m \in Nodes : file.tokens[m] # c
    BY <2>1, TokenAssumption DEF SecretsInv, Managing
  <2>5. c \notin refused /\ refused \subseteq minted
    BY <2>1 DEF SecretsInv
  <2>6. Fresh'
    BY <2>1, <2>2, <2>3, <2>4, <2>5 DEF SecretsInv, Fresh
  <2> QED
    BY <1>1, <2>1, <2>2, <2>5, <2>6 DEF SecretsInv, Managing, Enforcing, HasToken
<1>3. ASSUME NEW h \in Handlers, NEW n \in Nodes, AskRevoke(h, n) PROVE SecretsInv'
  <2>1. /\ UNCHANGED <<byToken, managedState, file, minted, refused, up>>
        /\ \A k \in Handlers : handler'[k] =
              IF k = h THEN [op |-> "revoke", node |-> n, secret |-> NoSecret] ELSE handler[k]
    BY <1>1, <1>3 DEF AskRevoke, TypeOK
  <2>2. Fresh'
    BY <2>1 DEF SecretsInv, Fresh
  <2> QED
    BY <1>1, <2>1, <2>2 DEF SecretsInv, Managing, Enforcing, HasToken
<1>4. ASSUME NEW h \in Handlers, UpsertManaged(h) \/ RevokeManaged(h) PROVE SecretsInv'
  <2> DEFINE n == handler[h].node
             c == handler[h].secret
  <2>1. /\ up /\ file' = Normalize(Wanted(h)) /\ managedState' = Wanted(h)
        /\ handler' = [handler EXCEPT ![h] = Idle]
        /\ UNCHANGED <<minted, refused, up>>
    BY <1>4 DEF UpsertManaged, RevokeManaged, Answer, Doing
  <2>2. \A k \in Handlers : handler'[k] = IF k = h THEN Idle ELSE handler[k]
    BY <1>1, <2>1 DEF TypeOK
  <2>3. /\ Managing'
        /\ \A k \in Handlers \ {h}, m \in Nodes :
              handler[k].op = "set" => file'.tokens[m] # handler[k].secret
    BY <2>1, SaveKeeps
  <2>4. Fresh'
    BY <2>1, <2>2, <2>3, IdleType DEF SecretsInv, Fresh
  <2>5. n \in Nodes /\ DOMAIN file.tokens = Nodes
    BY <1>1 DEF TypeOK, ManagedStates
  <2>6. Enforcing'
    <3>1. CASE UpsertManaged(h)
      <4>1. byToken' = With(n, c) /\ handler[h].op = "set"
        BY <3>1 DEF UpsertManaged, Doing
      <4>2. file'.tokens = [file.tokens EXCEPT ![n] = c]
        BY <2>1, <4>1, WantedIs
      <4>3. c \in Secrets
        BY <1>1, <4>1 DEF SecretsInv, Fresh, TypeOK
      <4>4. \A s \in Secrets : byToken'[s] =
               IF s = c THEN n ELSE IF byToken[s] = n THEN NoNode ELSE byToken[s]
        BY <4>1, <4>3 DEF With, Without
      <4>5. \A s \in Secrets : byToken[s] \in Nodes \cup {NoNode}
        BY <1>1 DEF TypeOK
      <4> QED
        BY <2>5, <4>2, <4>4, <4>5 DEF SecretsInv, Enforcing
    <3>2. CASE RevokeManaged(h)
      <4>1. byToken' = Without(n) /\ handler[h].op # "set"
        BY <3>2 DEF RevokeManaged, Doing
      <4>2. file'.tokens = [file.tokens EXCEPT ![n] = NoSecret]
        BY <2>1, <4>1, WantedIs
      <4>3. \A s \in Secrets : byToken'[s] = IF byToken[s] = n THEN NoNode ELSE byToken[s]
        BY <4>1 DEF Without
      <4>4. \A s \in Secrets : byToken[s] \in Nodes \cup {NoNode}
        BY <1>1 DEF TypeOK
      <4> QED
        BY <2>5, <4>2, <4>3, <4>4 DEF SecretsInv, Enforcing
    <3> QED
      BY <1>4, <3>1, <3>2
  <2>7. managedState' = file'
    BY <2>1, WantedIs
  <2> QED
    BY <1>1, <2>1, <2>3, <2>4, <2>6, <2>7 DEF SecretsInv
<1>5. ASSUME NEW h \in Handlers, SaveFails(h) PROVE SecretsInv'
  <2>1. /\ UNCHANGED <<byToken, managedState, file, minted, up>>
        /\ refused' = refused \cup ({handler[h].secret} \ {NoSecret})
        /\ handler' = [handler EXCEPT ![h] = Idle]
    BY <1>5 DEF SaveFails, AfterFailure, Answer
  <2>2. \A k \in Handlers : handler'[k] = IF k = h THEN Idle ELSE handler[k]
    BY <1>1, <2>1 DEF TypeOK
  <2>3. /\ refused' \subseteq minted
        /\ \A n \in Nodes : file.tokens[n] \notin refused' \ refused
        /\ \A k \in Handlers \ {h} :
              handler[k].op = "set" => handler[k].secret \notin refused' \ refused
    BY <2>1 DEF SecretsInv, Fresh
  <2>4. Fresh'
    BY <2>1, <2>2, <2>3, IdleType DEF SecretsInv, Fresh
  <2>5. Managing'
    BY <2>1, <2>3 DEF SecretsInv, Managing, HasToken
  <2> QED
    BY <1>1, <2>1, <2>3, <2>4, <2>5 DEF SecretsInv, Enforcing
<1>6. ASSUME Die PROVE (\A h \in Handlers : handler'[h] = Idle) /\ ~up' /\ Enforcing'
  BY <1>6 DEF Die, Nobody, Enforcing
<1>7. ASSUME NEW h \in Handlers, KilledInSave(h) PROVE SecretsInv'
  <2>1. up /\ file' = Normalize(Wanted(h)) /\ Die /\ UNCHANGED <<minted, refused>>
    BY <1>7 DEF KilledInSave, Doing
  <2>2. Managing'
    BY <2>1, SaveKeeps
  <2>3. Fresh'
    BY <1>6, <2>1, IdleType DEF Fresh
  <2> QED
    BY <1>1, <1>6, <2>1, <2>2, <2>3 DEF SecretsInv
<1>8. ASSUME Crash PROVE SecretsInv'
  <2>1. Die /\ UNCHANGED <<file, minted, refused>>
    BY <1>8 DEF Crash
  <2>2. Fresh'
    BY <1>6, <2>1, IdleType DEF Fresh
  <2> QED
    BY <1>1, <1>6, <2>1, <2>2 DEF SecretsInv, Managing, HasToken
<1>9. ASSUME Restart PROVE SecretsInv'
  <2>1. /\ UNCHANGED <<file, handler, minted, refused>>
        /\ managedState' = file /\ byToken' \in Loads(file)
    <3>1. Normalize(file) = file
      BY <1>1, NormalizeType DEF TypeOK
    <3> QED
      BY <1>9, <3>1 DEF Restart
  <2>2. Enforcing'
    BY <1>1, <2>1, LoadsType DEF Enforcing, TypeOK
  <2> QED
    BY <1>1, <2>1, <2>2 DEF SecretsInv, Fresh, Managing, HasToken
<1>10. ASSUME UNCHANGED vars PROVE SecretsInv'
  BY <1>1, <1>10 DEF vars, SecretsInv, Fresh, Managing, Enforcing, HasToken
<1> QED
  BY <1>2, <1>3, <1>4, <1>5, <1>7, <1>8, <1>9, <1>10 DEF Next

\* A secret whose request failed authenticates nobody, now or after any
\* restart, for any configuration: RefusedStayOut.
THEOREM RefusedSecretsStayOut == Spec => []RefusedStayOut
<1>1. SecretsInv => RefusedStayOut
  <2> SUFFICES ASSUME SecretsInv, NEW s \in refused
               PROVE  byToken[s] = NoNode /\ \A n \in Nodes : file.tokens[n] # s
    BY DEF RefusedStayOut
  <2>1. s \in Secrets /\ s \notin StaticSecrets /\ s # NoSecret
    BY TokenAssumption DEF SecretsInv, TypeOK
  <2>2. \A n \in Nodes : file.tokens[n] # s
    BY <2>1 DEF SecretsInv, Managing
  <2>3. byToken[s] \in Nodes \cup {NoNode}
    BY <2>1 DEF SecretsInv, TypeOK
  <2> QED
    BY <2>1, <2>2, <2>3 DEF SecretsInv, Enforcing
<1> QED
  BY <1>1, SecretsInit, SecretsStep, PTL DEF Spec
-----------------------------------------------------------------------------
(* The token in force *)

Enforced(b, m) == \A n \in Nodes, s \in Secrets : b[s] = n <=> s = TokenOf(m, n)

EnforcedInv == SecretsInv /\ (up => Enforced(byToken, file))

LEMMA TokenOfType ==
  ASSUME NEW m \in ManagedStates, NEW n \in Nodes
  PROVE  TokenOf(m, n) \in Secrets \cup {NoSecret}
<1>1. StaticSecrets \subseteq Secrets
  BY StaticType DEF StaticSecrets, Static, Pair
<1> QED
  BY <1>1, ConfiguredType DEF TokenOf, ManagedStates

\* A save changes the token in force of its node.
LEMMA TokenOfSaved ==
  ASSUME SecretsInv, up, NEW h \in Handlers, file' = Normalize(Wanted(h))
  PROVE  /\ handler[h].op = "set" => TokenOf(file', handler[h].node) = handler[h].secret
         /\ handler[h].op # "set" => TokenOf(file', handler[h].node) = NoSecret
         /\ \A m \in Nodes \ {handler[h].node} : TokenOf(file', m) = TokenOf(file, m)
<1> DEFINE n == handler[h].node
           c == handler[h].secret
<1>1. n \in Nodes /\ DOMAIN file.tokens = Nodes
  BY DEF SecretsInv, TypeOK, ManagedStates
<1>2. CASE handler[h].op = "set"
  <2>1. c # NoSecret
    BY <1>2, TokenAssumption DEF SecretsInv, Fresh, TypeOK
  <2>2. /\ file'.tokens = [file.tokens EXCEPT ![n] = c]
        /\ file'.revoked = file.revoked \ {n}
    BY <1>2, WantedIs
  <2> HIDE DEF n, c
  <2> QED
    BY <1>1, <1>2, <2>1, <2>2 DEF TokenOf, HasToken, n, c
<1>3. CASE handler[h].op # "set"
  <2>1. /\ file'.tokens = [file.tokens EXCEPT ![n] = NoSecret]
        /\ file'.revoked = file.revoked \cup {n}
    BY <1>3, WantedIs
  <2> QED
    BY <1>1, <1>3, <2>1 DEF TokenOf, HasToken
<1> QED
  BY <1>2, <1>3

LEMMA FileIsOwn == SecretsInv => Own(file)
BY DEF SecretsInv, TypeOK, Managing, Own, HasToken

LEMMA EnforcedStep ==
  ASSUME OneTokenEach PROVE EnforcedInv /\ [Next]_vars => EnforcedInv'
<1> SUFFICES ASSUME EnforcedInv, [Next]_vars, up' PROVE Enforced(byToken', file')
  BY SecretsStep DEF EnforcedInv
<1>1. SecretsInv /\ TypeOK
  BY DEF EnforcedInv, SecretsInv
<1>2. ASSUME up, UNCHANGED <<byToken, file>> PROVE Enforced(byToken', file')
  BY <1>2 DEF EnforcedInv
<1>3. ASSUME NEW h \in Handlers, UpsertManaged(h) PROVE Enforced(byToken', file')
  <2> DEFINE n == handler[h].node
             c == handler[h].secret
  <2>1. /\ up /\ file' = Normalize(Wanted(h)) /\ byToken' = With(n, c)
        /\ handler[h].op = "set" /\ ~Taken(n, c)
    BY <1>3 DEF UpsertManaged, Doing
  <2>3. /\ n \in Nodes /\ NoNode # n /\ c \in Secrets
        /\ byToken \in [Secrets -> Nodes \cup {NoNode}]
    BY <1>1, <2>1, TokenAssumption DEF SecretsInv, Fresh, TypeOK
  <2>4. TokenOf(file', n) = c
    BY <1>1, <2>1, TokenOfSaved
  <2>5. \A m \in Nodes \ {n} : TokenOf(file', m) = TokenOf(file, m)
    BY <1>1, <2>1, TokenOfSaved
  <2>6. \A s \in Secrets : byToken'[s] =
           IF s = c THEN n ELSE IF byToken[s] = n THEN NoNode ELSE byToken[s]
    BY <2>1, <2>3 DEF With, Without
  <2>7. \A m \in Nodes \ {n} : c # TokenOf(file, m)
    BY <2>1, <2>3, TokenAssumption DEF Taken, EnforcedInv, Enforced
  <2> HIDE DEF n, c
  <2>8. ASSUME NEW m \in Nodes, NEW s \in Secrets
        PROVE  byToken'[s] = m <=> s = TokenOf(file', m)
    <3>1. CASE m = n
      BY <2>3, <2>4, <2>6, <3>1
    <3>2. CASE m # n
      <4>1. byToken[s] = m <=> s = TokenOf(file, m)
        BY <2>1 DEF EnforcedInv, Enforced
      <4>2. m # NoNode
        BY TokenAssumption
      <4> QED
        BY <2>5, <2>6, <2>7, <3>2, <4>1, <4>2
    <3> QED
      BY <3>1, <3>2
  <2> QED
    BY <2>8 DEF Enforced
<1>4. ASSUME NEW h \in Handlers, RevokeManaged(h) PROVE Enforced(byToken', file')
  <2> DEFINE n == handler[h].node
  <2>1. /\ up /\ file' = Normalize(Wanted(h)) /\ byToken' = Without(n)
        /\ handler[h].op # "set"
    BY <1>4 DEF RevokeManaged, Doing
  <2>4. TokenOf(file', n) = NoSecret
    BY <1>1, <2>1, TokenOfSaved
  <2>5. \A m \in Nodes \ {n} : TokenOf(file', m) = TokenOf(file, m)
    BY <1>1, <2>1, TokenOfSaved
  <2>6. \A s \in Secrets : byToken'[s] = IF byToken[s] = n THEN NoNode ELSE byToken[s]
    BY <2>1 DEF Without
  <2> HIDE DEF n
  <2>7. ASSUME NEW m \in Nodes, NEW s \in Secrets
        PROVE  byToken'[s] = m <=> s = TokenOf(file', m)
    <3>1. m # NoNode /\ s # NoSecret
      BY TokenAssumption
    <3>2. byToken[s] = m <=> s = TokenOf(file, m)
      BY <2>1 DEF EnforcedInv, Enforced
    <3> QED
      BY <2>4, <2>5, <2>6, <3>1, <3>2
  <2> QED
    BY <2>7 DEF Enforced
<1>5. ASSUME Restart PROVE Enforced(byToken', file')
  <2>1. Normalize(file) = file /\ file \in ManagedStates
    BY <1>1, NormalizeType DEF TypeOK
  <2>2. file' = file /\ byToken' \in Loads(file)
    BY <1>5, <2>1 DEF Restart
  <2> QED
    BY <1>1, <2>1, <2>2, FileIsOwn, LoadsWhatIsInForce DEF Enforced
<1>6. ASSUME NEW h \in Handlers, NEW n \in Nodes, Mint(h, n) \/ AskRevoke(h, n)
      PROVE  Enforced(byToken', file')
  BY <1>2, <1>6 DEF Mint, AskRevoke, Doing
<1>7. ASSUME NEW h \in Handlers, SaveFails(h) PROVE Enforced(byToken', file')
  BY <1>2, <1>7 DEF SaveFails, AfterFailure, Doing
<1>8. ASSUME UNCHANGED vars PROVE Enforced(byToken', file')
  BY <1>2, <1>8 DEF vars
<1>9. ASSUME NEW h \in Handlers, KilledInSave(h) \/ Crash PROVE FALSE
  BY <1>9 DEF KilledInSave, Crash, Die
<1>10. ASSUME Crash PROVE FALSE
  BY <1>10 DEF Crash, Die
<1> QED
  BY <1>3, <1>4, <1>5, <1>6, <1>7, <1>8, <1>9, <1>10 DEF Next

\* If the configuration gives a secret to one node, a node authenticates with
\* the token in force for it and no other, over any mixture of file, inline and
\* managed tokens, changes, failed saves and restarts: EnforcedIsInForce.
THEOREM ExactlyTheTokenInForce == ASSUME OneTokenEach PROVE Spec => []EnforcedIsInForce
<1>1. Init => EnforcedInv
  <2> SUFFICES ASSUME Init PROVE Enforced(byToken, file)
    BY SecretsInit DEF EnforcedInv
  <2>1. file \in ManagedStates /\ Own(file) /\ byToken \in Loads(file)
    BY NoManagedType DEF Init, Own
  <2> QED
    BY <2>1, LoadsWhatIsInForce DEF Enforced
<1>2. EnforcedInv => EnforcedIsInForce
  <2> SUFFICES ASSUME EnforcedInv, up, NEW n \in Nodes
               PROVE  {s \in Secrets : byToken[s] = n} = {InForce(n)} \ {NoSecret}
    BY DEF EnforcedIsInForce
  <2>1. InForce(n) = TokenOf(file, n)
    BY DEF InForce, TokenOf
  <2>2. TokenOf(file, n) \in Secrets \cup {NoSecret}
    BY TokenOfType DEF EnforcedInv, SecretsInv, TypeOK
  <2>3. \A s \in Secrets : s # NoSecret /\ (byToken[s] = n <=> s = TokenOf(file, n))
    BY TokenAssumption DEF EnforcedInv, Enforced
  <2> QED
    BY <2>1, <2>2, <2>3
<1> QED
  BY <1>1, <1>2, EnforcedStep, PTL DEF Spec
-----------------------------------------------------------------------------
(* The refinement of TokenBook *)

InForceNow == [n \in Nodes |-> TokenOf(file, n)]

LEMMA InForceIs == InForceNow = [n \in Nodes |-> InForce(n)]
BY DEF InForceNow, InForce, TokenOf

\* A secret that is given up stays so when requests only drop what they hold or
\* take secrets that are new.
LEMMA SpentGrows ==
  ASSUME minted \subseteq minted',
         \A h \in Handlers :
            handler'[h].secret \in {handler[h].secret, NoSecret} \cup (minted' \ (minted \cup StaticSecrets)),
         SecretsInv
  PROVE  Spent \subseteq Spent'
<1>1. NoSecret \notin minted \cup StaticSecrets
  <2>1. StaticSecrets \subseteq Secrets
    BY StaticType DEF StaticSecrets, Static, Pair
  <2> QED
    BY <2>1, TokenAssumption DEF SecretsInv, TypeOK
<1> SUFFICES ASSUME NEW s \in Spent PROVE s \in Spent'
  OBVIOUS
<1>2. s \in minted \cup StaticSecrets /\ \A h \in Handlers : handler[h].secret # s
  BY DEF Spent
<1>3. \A h \in Handlers : handler'[h].secret # s
  BY <1>1, <1>2
<1> QED
  BY <1>2, <1>3 DEF Spent

\* What a save does to the book.
LEMMA SaveInBook ==
  ASSUME SecretsInv, up, NEW h \in Handlers, handler[h].op \in {"set", "revoke"},
         file' = Normalize(Wanted(h)), UNCHANGED minted,
         \A k \in Handlers : handler'[k] \in {handler[k], Idle}, handler'[h] = Idle
  PROVE  \E n \in Nodes :
            \/ /\ \E s \in Secrets \ Spent :
                     InForceNow' = [InForceNow EXCEPT ![n] = s] /\ s \in Spent'
               /\ Spent \subseteq Spent'
            \/ InForceNow' = [InForceNow EXCEPT ![n] = NoSecret] /\ Spent \subseteq Spent'
<1> DEFINE n == handler[h].node
           c == handler[h].secret
           put == IF handler[h].op = "set" THEN c ELSE NoSecret
<1>1. n \in Nodes
  BY DEF SecretsInv, TypeOK
<1>2. InForceNow' = [InForceNow EXCEPT ![n] = put]
  <2>1. TokenOf(file', n) = put /\ \A m \in Nodes \ {n} : TokenOf(file', m) = TokenOf(file, m)
    BY TokenOfSaved
  <2> HIDE DEF put, n
  <2> QED
    BY <1>1, <2>1 DEF InForceNow
<1>3. Spent \subseteq Spent'
  BY IdleType, SpentGrows
<1>4. ASSUME handler[h].op = "set" PROVE c \in Secrets \ Spent /\ c \in Spent'
  <2>1. c \in Secrets /\ c \in minted /\ c # NoSecret
    BY <1>4, TokenAssumption DEF SecretsInv, Fresh, TypeOK
  <2>2. \A k \in Handlers : handler'[k].secret # c
    <3> SUFFICES ASSUME NEW k \in Handlers, handler'[k].secret = c PROVE FALSE
      OBVIOUS
    <3>1. k # h /\ handler'[k] = handler[k]
      BY <2>1, IdleType
    <3>2. handler[k].op = "set"
      BY <2>1, <3>1 DEF SecretsInv, Fresh
    <3> QED
      BY <1>4, <3>1, <3>2 DEF SecretsInv, Fresh
  <2> QED
    BY <2>1, <2>2 DEF Spent
<1> QED
  BY <1>1, <1>2, <1>3, <1>4

BookStep ==
    \/ Spent \subseteq Spent' /\ UNCHANGED InForceNow
    \/ \E n \in Nodes :
          \/ /\ \E s \in Secrets \ Spent :
                   InForceNow' = [InForceNow EXCEPT ![n] = s] /\ s \in Spent'
             /\ Spent \subseteq Spent'
          \/ InForceNow' = [InForceNow EXCEPT ![n] = NoSecret] /\ Spent \subseteq Spent'

LEMMA BookSteps == SecretsInv /\ [Next]_vars => BookStep
<1> SUFFICES ASSUME SecretsInv, [Next]_vars PROVE BookStep
  OBVIOUS
<1>1. \A h \in Handlers : handler[h].op # "set" => handler[h].secret = NoSecret
  BY DEF SecretsInv, Fresh
<1>2. DOMAIN handler = Handlers
  BY DEF SecretsInv, TypeOK
<1>3. ASSUME UNCHANGED file, Spent \subseteq Spent' PROVE BookStep
  BY <1>3 DEF BookStep, InForceNow
<1>4. ASSUME NEW h \in Handlers, NEW n \in Nodes, Mint(h, n) PROVE BookStep
  <2>1. PICK c \in Secrets \ (minted \cup StaticSecrets) :
             /\ minted' = minted \cup {c} /\ UNCHANGED file
             /\ handler' = [handler EXCEPT ![h] = [op |-> "set", node |-> n, secret |-> c]]
    BY <1>4 DEF Mint
  <2>2. \A k \in Handlers : handler'[k].secret \in {handler[k].secret, c}
    BY <1>2, <2>1
  <2> QED
    BY <1>3, <2>1, <2>2, SpentGrows
<1>5. ASSUME NEW h \in Handlers, NEW n \in Nodes, AskRevoke(h, n) PROVE BookStep
  <2>1. UNCHANGED <<file, minted>>
        /\ \A k \in Handlers : handler'[k].secret \in {handler[k].secret, NoSecret}
    BY <1>2, <1>5 DEF AskRevoke
  <2> QED
    BY <1>3, <2>1, SpentGrows
<1>6. ASSUME NEW h \in Handlers, UpsertManaged(h) \/ RevokeManaged(h) PROVE BookStep
  <2>1. /\ up /\ handler[h].op \in {"set", "revoke"}
        /\ file' = Normalize(Wanted(h)) /\ UNCHANGED minted
        /\ handler' = [handler EXCEPT ![h] = Idle]
    BY <1>6 DEF UpsertManaged, RevokeManaged, Doing, Answer
  <2> QED
    BY <1>2, <2>1, SaveInBook DEF BookStep
<1>7. ASSUME NEW h \in Handlers, SaveFails(h) PROVE BookStep
  <2>1. UNCHANGED <<file, minted>>
        /\ \A k \in Handlers : handler'[k].secret \in {handler[k].secret, NoSecret}
    BY <1>2, <1>7, IdleType DEF SaveFails, Answer
  <2> QED
    BY <1>3, <2>1, SpentGrows
<1>8. ASSUME NEW h \in Handlers, KilledInSave(h) PROVE BookStep
  <2>1. /\ up /\ handler[h].op \in {"set", "revoke"}
        /\ file' = Normalize(Wanted(h)) /\ UNCHANGED minted
        /\ \A k \in Handlers : handler'[k] = Idle
    BY <1>8 DEF KilledInSave, Doing, Die
  <2> QED
    BY <2>1, SaveInBook DEF BookStep
<1>9. ASSUME Crash PROVE BookStep
  <2>1. UNCHANGED <<file, minted>> /\ \A k \in Handlers : handler'[k].secret = NoSecret
    BY <1>9, IdleType DEF Crash, Die
  <2> QED
    BY <1>3, <2>1, SpentGrows
<1>10. ASSUME Restart \/ UNCHANGED vars PROVE BookStep
  <2>1. UNCHANGED <<file, minted, handler>>
    BY <1>10 DEF Restart, vars
  <2> QED
    BY <1>3, <2>1, SpentGrows
<1> QED
  BY <1>4, <1>5, <1>6, <1>7, <1>8, <1>9, <1>10 DEF Next

\* Whatever is configured, and whatever fails, tokens change as TokenBook has
\* it: ImplementsBook.
THEOREM TokensImplementBook == Spec => ImplementsBook
<1>1. Init => Book!Init
  <2> SUFFICES ASSUME Init PROVE Book!Init
    OBVIOUS
  <2>1. file \in ManagedStates /\ \A n \in Nodes : TokenOf(file, n) = Configured(n)
    BY NoManagedType DEF Init, TokenOf
  <2>2. InForceNow \in [Nodes -> Secrets \cup {NoSecret}]
    BY <2>1, TokenOfType DEF InForceNow
  <2>3. NoSecret \notin StaticSecrets
    BY StaticType, TokenAssumption DEF StaticSecrets, Static, Pair
  <2>4. Spent = StaticSecrets
    BY <2>3, IdleType DEF Init, Spent
  <2>5. \A n \in Nodes : InForceNow[n] \in Spent \cup {NoSecret}
    BY <2>1, <2>4, ConfiguredType DEF InForceNow
  <2> QED
    BY <2>2, <2>5, InForceIs DEF Book!Init
<1>2. SecretsInv /\ [Next]_vars => [Book!Next]_(Book!vars)
  <2> SUFFICES ASSUME BookStep PROVE Book!Next
    BY BookSteps
  <2>1. InForceNow = [n \in Nodes |-> InForce(n)]
    BY InForceIs
  <2>2. InForceNow' = [n \in Nodes |-> InForce(n)]'
    BY DEF InForceNow, InForce, TokenOf
  <2> QED
    BY <2>1, <2>2 DEF BookStep, Book!Next, Book!GiveUp, Book!Replace, Book!Revoke
<1> QED
  BY <1>1, <1>2, SecretsInit, SecretsStep, PTL DEF Spec, ImplementsBook, Book!Spec
=============================================================================
