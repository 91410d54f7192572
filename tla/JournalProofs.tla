--------------------------- MODULE JournalProofs ---------------------------
(***************************************************************************)
(* What the log loses at most, for any number of records, failures and     *)
(* crashes.                                                                *)
(***************************************************************************)
EXTENDS Journal, FiniteSetTheorems, SequenceTheorems, WellFoundedInduction, TLAPS

PieceType == [rec : Records, whole : BOOLEAN, nl : BOOLEAN]

\* A record is in the file at most once.
Once == \A i, k \in DOMAIN file : file[i].rec = file[k].rec => i = k

\* An acknowledged record is a whole piece that fsync covers.
Kept == \A i \in DOMAIN acked : \E k \in 1 .. synced : file[k] = Piece(acked[i], TRUE, TRUE)

LogInv ==
    /\ file \in Seq(PieceType) /\ synced \in 0 .. Len(file)
    /\ acked \in Seq(Records)
    /\ Once /\ Kept

-----------------------------------------------------------------------------

LEMMA PieceTyped ==
  ASSUME NEW r \in Records, NEW whole \in BOOLEAN, NEW nl \in BOOLEAN
  PROVE  Piece(r, whole, nl) \in PieceType /\ Piece(r, whole, nl).rec = r
BY DEF Piece, PieceType

LEMMA TornTyped ==
  ASSUME NEW r \in Records, NEW p \in TornPieces(r)
  PROVE  p \in PieceType /\ p.rec = r
<1>1. p = Piece(r, FALSE, FALSE) \/ p = Piece(r, TRUE, FALSE)
  BY DEF TornPieces
<1>2. TRUE \in BOOLEAN /\ FALSE \in BOOLEAN
  OBVIOUS
<1> QED
  BY <1>1, <1>2, PieceTyped

LEMMA AppendKeeps ==
  ASSUME LogInv, NEW p \in PieceType, p.rec \notin Tried, file' = Append(file, p)
  PROVE  /\ file' \in Seq(PieceType) /\ Len(file') = Len(file) + 1 /\ Len(file) \in Nat
         /\ \A k \in 1 .. Len(file) : file'[k] = file[k]
         /\ file'[Len(file) + 1] = p
         /\ Once'
<1>1. /\ file' \in Seq(PieceType) /\ Len(file') = Len(file) + 1 /\ Len(file) \in Nat
      /\ \A k \in 1 .. Len(file) : file'[k] = file[k]
      /\ file'[Len(file) + 1] = p
      /\ DOMAIN file = 1 .. Len(file) /\ DOMAIN file' = 1 .. Len(file) + 1
  BY DEF LogInv
<1>2. \A k \in 1 .. Len(file) : file[k].rec # p.rec
  BY <1>1 DEF Tried
<1>3. \A k \in 1 .. Len(file) + 1 : k \in 1 .. Len(file) \/ k = Len(file) + 1
  BY <1>1
<1>4. Once'
  <2> SUFFICES ASSUME NEW i \in 1 .. Len(file) + 1, NEW k \in 1 .. Len(file) + 1,
                      file'[i].rec = file'[k].rec
               PROVE  i = k
    BY <1>1 DEF Once
  <2>1. CASE i \in 1 .. Len(file) /\ k \in 1 .. Len(file)
    BY <1>1, <2>1 DEF LogInv, Once
  <2> QED
    BY <1>1, <1>2, <1>3, <2>1
<1> QED
  BY <1>1, <1>4

\* What fsync covers stays, whatever is appended.
LEMMA UnsyncedStep ==
  ASSUME LogInv, UNCHANGED <<synced, acked>>, NEW r \in Records, r \notin Tried,
         \/ UNCHANGED file
         \/ file' = Append(file, Piece(r, TRUE, TRUE))
         \/ \E p \in TornPieces(r) : file' = Append(file, p)
  PROVE  LogInv'
<1>1. CASE UNCHANGED file
  BY <1>1 DEF LogInv, Once, Kept
<1>2. ASSUME NEW p \in PieceType, p.rec = r, file' = Append(file, p) PROVE LogInv'
  <2>1. /\ file' \in Seq(PieceType) /\ Len(file') = Len(file) + 1 /\ Len(file) \in Nat
        /\ \A k \in 1 .. Len(file) : file'[k] = file[k]
        /\ Once'
    BY <1>2, AppendKeeps
  <2>2. synced' \in 0 .. Len(file') /\ \A k \in 1 .. synced : k \in 1 .. Len(file)
    BY <2>1 DEF LogInv
  <2>3. Kept'
    BY <2>1, <2>2 DEF LogInv, Kept
  <2> QED
    BY <2>1, <2>2, <2>3 DEF LogInv
<1>3. /\ Piece(r, TRUE, TRUE) \in PieceType /\ Piece(r, TRUE, TRUE).rec = r
      /\ \A p \in TornPieces(r) : p \in PieceType /\ p.rec = r
  BY PieceTyped, TornTyped
<1> QED
  BY <1>1, <1>2, <1>3

LEMMA PersistStep ==
  ASSUME LogInv, NEW r \in Records, Persist(r)
  PROVE  LogInv'
<1> DEFINE p == Piece(r, TRUE, TRUE)
<1>1. p \in PieceType /\ p.rec = r
  BY PieceTyped
<1>2. /\ file' = Append(file, p) /\ r \notin Tried
      /\ synced' = Len(file') /\ acked' = Append(acked, r)
  BY DEF Persist, SyncedTo
<1>3. /\ file' \in Seq(PieceType) /\ Len(file') = Len(file) + 1 /\ Len(file) \in Nat
      /\ \A k \in 1 .. Len(file) : file'[k] = file[k]
      /\ file'[Len(file) + 1] = p
      /\ Once'
  BY <1>1, <1>2, AppendKeeps
<1>4. /\ acked' \in Seq(Records) /\ Len(acked) \in Nat
      /\ DOMAIN acked = 1 .. Len(acked) /\ DOMAIN acked' = 1 .. Len(acked) + 1
      /\ \A i \in 1 .. Len(acked) : acked'[i] = acked[i]
      /\ acked'[Len(acked) + 1] = r
  BY <1>2 DEF LogInv
<1>5. Kept'
  <2> SUFFICES ASSUME NEW i \in 1 .. Len(acked) + 1
               PROVE  \E k \in 1 .. Len(file) + 1 : file'[k] = Piece(acked'[i], TRUE, TRUE)
    BY <1>2, <1>3, <1>4 DEF Kept
  <2>1. CASE i \in 1 .. Len(acked)
    <3>1. PICK k \in 1 .. synced : file[k] = Piece(acked[i], TRUE, TRUE)
      BY <1>4, <2>1 DEF LogInv, Kept
    <3>2. k \in 1 .. Len(file) /\ k \in 1 .. Len(file) + 1
      BY <1>3 DEF LogInv
    <3> QED
      BY <1>3, <1>4, <2>1, <3>1, <3>2
  <2>2. CASE i = Len(acked) + 1
    <3>1. file'[Len(file) + 1] = Piece(acked'[i], TRUE, TRUE)
      BY <1>3, <1>4, <2>2
    <3>2. Len(file) + 1 \in 1 .. Len(file) + 1
      BY <1>3
    <3> QED
      BY <3>1, <3>2
  <2>3. i \in 1 .. Len(acked) \/ i = Len(acked) + 1
    BY <1>4
  <2> QED
    BY <2>1, <2>2, <2>3
<1>6. synced' \in 0 .. Len(file')
  BY <1>2, <1>3
<1> QED
  BY <1>3, <1>4, <1>5, <1>6 DEF LogInv

LEMMA HostCrashStep ==
  ASSUME LogInv, HostCrash
  PROVE  LogInv'
<1>1. UNCHANGED <<synced, acked>>
  BY DEF HostCrash
<1>2. PICK n \in synced .. Len(file) :
          \/ file' = SubSeq(file, 1, n)
          \/ /\ n < Len(file)
             /\ \E p \in TornPieces(file[n + 1].rec) : file' = Append(SubSeq(file, 1, n), p)
  BY DEF HostCrash
<1>3. n \in Nat /\ synced \in Nat /\ synced <= n /\ n <= Len(file) /\ Len(file) \in Nat
      /\ DOMAIN file = 1 .. Len(file)
  BY DEF LogInv
<1> DEFINE f == SubSeq(file, 1, n)
<1>4. f \in Seq(PieceType) /\ Len(f) = n /\ \A k \in 1 .. n : f[k] = file[k]
  BY <1>3 DEF LogInv
<1> HIDE DEF f
<1>5. CASE file' = f
  <2>1. file' \in Seq(PieceType) /\ Len(file') = n /\ DOMAIN file' = 1 .. n
        /\ \A k \in 1 .. n : file'[k] = file[k]
    BY <1>4, <1>5
  <2>2. Once'
    BY <1>3, <2>1 DEF LogInv, Once
  <2>3. \A k \in 1 .. synced : k \in 1 .. n /\ file'[k] = file[k]
    BY <1>3, <2>1
  <2>4. Kept'
    BY <1>1, <2>3 DEF LogInv, Kept
  <2> QED
    BY <1>1, <1>3, <2>1, <2>2, <2>4 DEF LogInv
<1>6. ASSUME n < Len(file), NEW p \in TornPieces(file[n + 1].rec), file' = Append(f, p)
      PROVE  LogInv'
  <2>1. n + 1 \in 1 .. Len(file)
    BY <1>3, <1>6
  <2>2. p \in PieceType /\ p.rec = file[n + 1].rec
    <3>1. file[n + 1] \in PieceType
      BY <2>1 DEF LogInv
    <3>2. file[n + 1].rec \in Records
      BY <3>1 DEF PieceType
    <3> QED
      BY <1>6, <3>2, TornTyped
  <2>3. /\ file' \in Seq(PieceType) /\ Len(file') = n + 1 /\ DOMAIN file' = 1 .. n + 1
        /\ \A k \in 1 .. n : file'[k] = file[k]
        /\ file'[n + 1] = p
    BY <1>3, <1>4, <1>6, <2>2
  <2>4. \A k \in 1 .. n + 1 : file'[k].rec = file[k].rec /\ k \in 1 .. Len(file)
    BY <1>3, <2>1, <2>2, <2>3
  <2>5. Once'
    BY <1>3, <2>3, <2>4 DEF LogInv, Once
  <2>6. \A k \in 1 .. synced : k \in 1 .. n /\ file'[k] = file[k]
    BY <1>3, <2>3
  <2>7. Kept'
    BY <1>1, <2>6 DEF LogInv, Kept
  <2> QED
    BY <1>1, <1>3, <2>3, <2>5, <2>7 DEF LogInv
<1> QED
  BY <1>2, <1>5, <1>6 DEF f

\* Every acknowledged record is in the file, whole, once and covered by fsync.
THEOREM AckedAreInTheLog == Spec => []LogInv
<1>1. Init => LogInv
  BY DEF Init, LogInv, Once, Kept
<1>2. LogInv /\ [Next]_vars => LogInv'
  <2> SUFFICES ASSUME LogInv, [Next]_vars PROVE LogInv'
    OBVIOUS
  <2>1. ASSUME NEW r \in Records, WriteFails(r) \/ SyncFails(r) \/ KilledInPersist(r)
        PROVE  LogInv'
    BY <2>1, UnsyncedStep DEF WriteFails, SyncFails, KilledInPersist
  <2>2. ASSUME Stop \/ Open \/ UNCHANGED vars PROVE LogInv'
    BY <2>2 DEF Stop, Open, vars, LogInv, Once, Kept
  <2> QED
    BY <2>1, <2>2, PersistStep, HostCrashStep DEF Next
<1> QED
  BY <1>1, <1>2, PTL DEF Spec

\* Where an acknowledged record is.
At(r) == CHOOSE k \in 1 .. synced : file[k] = Piece(r, TRUE, TRUE)

Torn == {i \in DOMAIN file : ~file[i].nl}

\* A lost record is behind a torn piece.
LEMMA LostIsBehindTorn ==
  ASSUME LogInv, NEW r \in Lost
  PROVE  /\ At(r) \in Nat /\ At(r) \in 1 .. Len(file)
         /\ At(r) - 1 \in Torn /\ file[At(r)].rec = r
<1>1. DOMAIN file = 1 .. Len(file) /\ Len(file) \in Nat /\ synced \in Nat /\ synced <= Len(file)
  BY DEF LogInv
<1>2. \E k \in 1 .. synced : file[k] = Piece(r, TRUE, TRUE)
  BY DEF LogInv, Kept, Lost, IsAcked
<1>3. At(r) \in 1 .. synced /\ file[At(r)] = Piece(r, TRUE, TRUE)
  BY <1>2 DEF At
<1>4. At(r) \in 1 .. Len(file) /\ At(r) \in DOMAIN file
  BY <1>1, <1>3
<1>5. file[At(r)].rec = r /\ file[At(r)].whole /\ file[At(r)].nl
  BY <1>3 DEF Piece
<1>6. ~Readable(file, At(r))
  BY <1>4, <1>5 DEF Lost, ReadableLines
<1>7. At(r) > 1 /\ ~file[At(r) - 1].nl
  BY <1>5, <1>6 DEF Readable
<1>8. At(r) - 1 \in DOMAIN file
  BY <1>1, <1>4, <1>7
<1> QED
  BY <1>4, <1>5, <1>7, <1>8 DEF Torn

\* However often writes are torn, fsyncs fail, processes are killed and hosts
\* lose power, every torn piece costs one acknowledged record at most:
\* BoundedLoss.
THEOREM LossIsBounded == Spec => []BoundedLoss
<1>1. LogInv => BoundedLoss
  <2> SUFFICES ASSUME LogInv PROVE Cardinality(Lost) <= Cardinality(Torn)
    BY DEF BoundedLoss, Torn
  <2> DEFINE before == [r \in Lost |-> At(r) - 1]
  <2>1. before \in [Lost -> Torn]
    BY LostIsBehindTorn
  <2>2. ASSUME NEW r \in Lost, NEW s \in Lost, before[r] = before[s] PROVE r = s
    <3>1. At(r) \in Nat /\ At(s) \in Nat /\ file[At(r)].rec = r /\ file[At(s)].rec = s
      BY LostIsBehindTorn
    <3>2. At(r) - 1 = At(s) - 1
      BY <2>2
    <3>3. At(r) = At(s)
      BY <3>1, <3>2
    <3> QED
      BY <3>1, <3>3
  <2>3. before \in Injection(Lost, Torn)
    <3>1. DOMAIN before = Lost
      OBVIOUS
    <3> HIDE DEF before
    <3> QED
      BY <2>1, <2>2, <3>1 DEF Injection, IsInjective
  <2>4. IsFiniteSet(Torn)
    <3>1. Len(file) \in Nat /\ DOMAIN file = 1 .. Len(file)
      BY DEF LogInv
    <3>2. IsFiniteSet(1 .. Len(file))
      BY <3>1, FS_Interval
    <3>3. Torn \in SUBSET (1 .. Len(file))
      BY <3>1 DEF Torn
    <3> QED
      BY <3>2, <3>3, FS_Subset
  <2> HIDE DEF before
  <2> QED
    BY <2>3, <2>4, FS_Injection
<1> QED
  BY <1>1, AckedAreInTheLog, PTL

\* As long as nothing is written behind a torn line, a replay finds every
\* acknowledged record.
THEOREM UngluedLosesNothing == Spec => [](Unglued => Lost = {})
<1>1. LogInv => (Unglued => Lost = {})
  <2> SUFFICES ASSUME LogInv, Unglued, NEW r \in Lost PROVE FALSE
    OBVIOUS
  <2>1. DOMAIN file = 1 .. Len(file) /\ Len(file) \in Nat
    BY DEF LogInv
  <2>2. At(r) \in 1 .. Len(file) /\ At(r) - 1 \in 1 .. Len(file) /\ ~file[At(r) - 1].nl
    BY <2>1, LostIsBehindTorn DEF Torn
  <2>3. At(r) - 1 \in 1 .. Len(file) - 1
    BY <2>1, <2>2
  <2> QED
    BY <2>2, <2>3 DEF Unglued
<1> QED
  BY <1>1, AckedAreInTheLog, PTL
-----------------------------------------------------------------------------
(* What a replay finds *)

LEMMA HasLeast ==
  ASSUME NEW T \in SUBSET Nat, T # {}
  PROVE  \E x \in T : \A y \in T : x <= y
<1> DEFINE Below == {0 .. x : x \in T}
           R == StrictSubsetOrdering(Nat)
           F == FiniteSubsetsOf(Nat)
<1>1. IsWellFoundedOn(R, F)
  BY FS_StrictSubsetOrderingWellFounded
<1>2. Below \subseteq F
  <2> SUFFICES ASSUME NEW x \in T PROVE 0 .. x \in F
    OBVIOUS
  <2>1. x \in Int /\ 0 \in Int /\ 0 .. x \in SUBSET Nat
    OBVIOUS
  <2>2. IsFiniteSet(0 .. x)
    BY <2>1, FS_Interval
  <2> QED
    BY <2>1, <2>2 DEF FiniteSubsetsOf
<1>3. Below # {}
  OBVIOUS
<1>4. PICK b \in Below : \A c \in Below : ~(<<c, b>> \in R)
  <2> HIDE DEF Below, R, F
  <2> QED
    BY <1>1, <1>2, <1>3, WFMin
<1>5. PICK x \in T : b = 0 .. x
  BY <1>4
<1>6. ASSUME NEW y \in T PROVE x <= y
  <2> SUFFICES ASSUME y < x PROVE FALSE
    OBVIOUS
  <2>1. 0 .. y \in Below /\ 0 .. y \in SUBSET Nat /\ 0 .. x \in SUBSET Nat
    OBVIOUS
  <2>2. 0 .. y \subseteq 0 .. x /\ x \in 0 .. x /\ x \notin 0 .. y
    OBVIOUS
  <2>3. <<0 .. y, 0 .. x>> \in R
    <3>1. 0 .. y # 0 .. x
      BY <2>2
    <3> QED
      BY <2>1, <2>2, <3>1 DEF StrictSubsetOrdering
  <2> QED
    BY <1>4, <1>5, <2>1, <2>3
<1> QED
  BY <1>6

\* What one more line gives.
Taken(f, i, before) == IF i \in ReadableLines(f) THEN Append(before, f[i].rec) ELSE before

\* Replayed is what its recursion says it is.
LEMMA ReplayedIs ==
    ASSUME NEW s \in Seq(PieceType)
    PROVE  Replayed(s) = [i \in 0 .. Len(s) |->
                            IF i = 0 THEN <<>> ELSE Taken(s, i, Replayed(s)[i - 1])]
  <1> DEFINE Recurs(f, n) == f = [i \in 0 .. n |->
                                     IF i = 0 THEN <<>> ELSE Taken(s, i, f[i - 1])]
             Undefined == {n \in 0 .. Len(s) : ~\E f : Recurs(f, n)}
  <1>1. Len(s) \in Nat
    OBVIOUS
  <1>2. Undefined = {}
    <2> SUFFICES ASSUME Undefined # {} PROVE FALSE
      OBVIOUS
    <2>1. PICK m \in Undefined : \A n \in Undefined : m <= n
      <3>1. Undefined \in SUBSET Nat
        OBVIOUS
      <3> HIDE DEF Undefined
      <3> QED
        BY <3>1, HasLeast
    <2>2. m # 0
      <3> DEFINE f == [i \in 0 .. 0 |-> <<>>]
      <3>1. Recurs(f, 0)
        OBVIOUS
      <3> QED
        BY <3>1
    <2>3. m - 1 \in 0 .. Len(s) /\ m - 1 \notin Undefined
      <3>1. m \in 0 .. Len(s)
        BY <2>1
      <3> HIDE DEF Undefined
      <3>2. m - 1 \in 0 .. Len(s) /\ m - 1 < m
        BY <1>1, <2>2, <3>1
      <3>3. m - 1 \in Undefined => m <= m - 1
        BY <2>1
      <3> QED
        BY <3>1, <3>2, <3>3
    <2>4. PICK f : Recurs(f, m - 1)
      BY <2>3
    <2> DEFINE g == [i \in 0 .. m |-> IF i = m THEN Taken(s, m, f[m - 1]) ELSE f[i]]
    <2>5. Recurs(g, m)
      <3>1. ASSUME NEW i \in 0 .. m
            PROVE  g[i] = IF i = 0 THEN <<>> ELSE Taken(s, i, g[i - 1])
        <4>1. CASE i = m
          <5>1. g[m] = Taken(s, m, f[m - 1]) /\ g[m - 1] = f[m - 1]
            BY <2>2, <2>3
          <5> HIDE DEF g
          <5> QED
            BY <2>2, <4>1, <5>1
        <4>2. CASE i # m /\ i # 0
          <5>1. i \in 0 .. m - 1 /\ i - 1 \in 0 .. m - 1
            BY <2>3, <4>2
          <5>2. g[i] = f[i] /\ g[i - 1] = f[i - 1]
            BY <4>2, <5>1
          <5>3. f[i] = Taken(s, i, f[i - 1])
            BY <2>4, <4>2, <5>1
          <5> HIDE DEF g
          <5> QED
            BY <4>2, <5>2, <5>3
        <4>3. CASE i # m /\ i = 0
          <5>1. 0 \in 0 .. m - 1
            BY <2>3
          <5>2. g[0] = f[0] /\ f[0] = <<>>
            BY <2>2, <2>4, <5>1
          <5> HIDE DEF g
          <5> QED
            BY <4>3, <5>2
        <4> QED
          BY <4>1, <4>2, <4>3
      <3>2. g = [i \in 0 .. m |-> g[i]]
        OBVIOUS
      <3> HIDE DEF g
      <3> QED
        BY <3>1, <3>2
    <2> QED
      BY <2>1, <2>5
  <1>3. \E f : Recurs(f, Len(s))
    BY <1>1, <1>2
  <1>4. Replayed(s) = CHOOSE f : Recurs(f, Len(s))
    BY DEF Replayed, Taken
  <1> HIDE DEF Undefined
  <1> QED
    BY <1>3, <1>4

\* The records are those of the readable lines up to n, in order, and line says
\* where each one is.
Lists(f, n, records, line) ==
    /\ records \in Seq(Records)
    /\ line \in [1 .. Len(records) -> Nat]
    /\ \A a \in 1 .. Len(records) :
          /\ line[a] \in ReadableLines(f) /\ line[a] <= n
          /\ records[a] = f[line[a]].rec
    /\ \A a, b \in 1 .. Len(records) : a < b => line[a] < line[b]
    /\ \A i \in ReadableLines(f) : i <= n => \E a \in 1 .. Len(records) : line[a] = i

LEMMA TakenLists ==
  ASSUME NEW f \in Seq(PieceType), NEW n \in 1 .. Len(f), NEW records, NEW line,
         Lists(f, n - 1, records, line)
  PROVE  \E more : Lists(f, n, Taken(f, n, records), more)
<1>1. /\ records \in Seq(Records) /\ Len(records) \in Nat /\ n \in Nat
      /\ ReadableLines(f) \subseteq Nat /\ f[n].rec \in Records
  <2>1. DOMAIN f = 1 .. Len(f) /\ Len(f) \in Nat /\ f[n] \in PieceType
    BY ElementOfSeq, LenProperties
  <2> QED
    BY <2>1 DEF Lists, ReadableLines, PieceType
<1>2. CASE n \notin ReadableLines(f)
  <2>1. Taken(f, n, records) = records
    BY <1>2 DEF Taken
  <2>2. \A i \in ReadableLines(f) : i <= n => i <= n - 1
    BY <1>1, <1>2
  <2>3. \A a \in 1 .. Len(records) : line[a] <= n - 1 => line[a] <= n
    BY <1>1 DEF Lists
  <2>4. Lists(f, n, records, line)
    BY <2>2, <2>3 DEF Lists
  <2> QED
    BY <2>1, <2>4
<1>3. CASE n \in ReadableLines(f)
  <2> DEFINE more == Append(records, f[n].rec)
             last == Len(records) + 1
             at == [a \in 1 .. last |-> IF a = last THEN n ELSE line[a]]
  <2>1. /\ more \in Seq(Records) /\ Len(more) = last /\ last \in Nat /\ more[last] = f[n].rec
        /\ \A a \in 1 .. Len(records) : more[a] = records[a]
    BY <1>1, AppendProperties
  <2>2. at[last] = n /\ \A a \in 1 .. Len(records) : at[a] = line[a]
    BY <1>1
  <2>3. at \in [1 .. last -> Nat]
    BY <1>1 DEF Lists
  <2>4. \A a \in 1 .. last : a = last \/ a \in 1 .. Len(records)
    BY <1>1
  <2>5. 1 .. Len(records) \subseteq 1 .. last /\ last \in 1 .. last
    BY <1>1
  <2>6. last = Len(records) + 1
    OBVIOUS
  <2> HIDE DEF more, at, last
  <2>7. ASSUME NEW a \in 1 .. last
        PROVE  at[a] \in ReadableLines(f) /\ at[a] <= n /\ more[a] = f[at[a]].rec
    <3>1. CASE a = last
      BY <1>1, <1>3, <2>1, <2>2, <3>1
    <3>2. CASE a \in 1 .. Len(records)
      <4>1. /\ line[a] \in ReadableLines(f) /\ line[a] <= n - 1
            /\ records[a] = f[line[a]].rec /\ line[a] \in Nat
        BY <3>2 DEF Lists
      <4> QED
        BY <1>1, <2>1, <2>2, <3>2, <4>1
    <3> QED
      BY <2>4, <3>1, <3>2
  <2>8. ASSUME NEW a \in 1 .. last, NEW b \in 1 .. last, a < b PROVE at[a] < at[b]
    <3>1. a \in 1 .. Len(records)
      BY <1>1, <2>6, <2>8
    <3>2. line[a] \in Nat /\ line[a] <= n - 1 /\ at[a] = line[a]
      BY <2>2, <3>1 DEF Lists
    <3>3. CASE b = last
      BY <1>1, <2>2, <3>2, <3>3
    <3>4. CASE b \in 1 .. Len(records)
      BY <2>2, <2>8, <3>1, <3>4 DEF Lists
    <3> QED
      BY <2>4, <3>3, <3>4
  <2>9. ASSUME NEW i \in ReadableLines(f), i <= n PROVE \E a \in 1 .. last : at[a] = i
    <3>1. CASE i = n
      BY <2>2, <2>5, <3>1
    <3>2. CASE i # n
      <4>1. i <= n - 1
        BY <1>1, <2>9, <3>2
      <4>2. PICK a \in 1 .. Len(records) : line[a] = i
        BY <4>1 DEF Lists
      <4> QED
        BY <2>2, <2>5, <4>2
    <3> QED
      BY <3>1, <3>2
  <2>10. Lists(f, n, more, at)
    BY <2>1, <2>3, <2>7, <2>8, <2>9 DEF Lists
  <2>11. Taken(f, n, records) = more
    BY <1>3 DEF Taken, more
  <2> QED
    BY <2>10, <2>11
<1> QED
  BY <1>2, <1>3

LEMMA ReplayLists ==
  ASSUME NEW f \in Seq(PieceType)
  PROVE  \E line : Lists(f, Len(f), Replay(f), line)
<1> DEFINE R == Replayed(f)
           Wrong == {n \in 0 .. Len(f) : ~\E line : Lists(f, n, R[n], line)}
<1>1. Len(f) \in Nat
  BY LenProperties
<1>2. R = [i \in 0 .. Len(f) |-> IF i = 0 THEN <<>> ELSE Taken(f, i, R[i - 1])]
  BY ReplayedIs
<1> HIDE DEF R
<1>3. ASSUME Wrong # {} PROVE FALSE
  <2>1. PICK m \in Wrong : \A n \in Wrong : m <= n
    <3>1. Wrong \in SUBSET Nat
      BY <1>1
    <3> HIDE DEF Wrong
    <3> QED
      BY <1>3, <3>1, HasLeast
  <2>2. m \in 0 .. Len(f) /\ ~\E line : Lists(f, m, R[m], line)
    BY <2>1
  <2>3. m # 0
    <3> SUFFICES ASSUME m = 0 PROVE FALSE
      OBVIOUS
    <3>1. R[0] = <<>>
      BY <1>1, <1>2
    <3>2. <<>> \in Seq(Records) /\ Len(<<>>) = 0
      OBVIOUS
    <3>3. \A i \in ReadableLines(f) : i >= 1 /\ i \in Nat
      BY <1>1, LenProperties DEF ReadableLines
    <3> DEFINE none == [a \in 1 .. 0 |-> 0]
    <3>4. none \in [1 .. 0 -> Nat]
      OBVIOUS
    <3> HIDE DEF none
    <3>5. Lists(f, 0, <<>>, none)
      BY <3>2, <3>3, <3>4 DEF Lists
    <3> QED
      BY <2>2, <3>1, <3>5
  <2>4. m - 1 \in 0 .. Len(f) /\ m - 1 < m /\ m \in 1 .. Len(f)
    BY <1>1, <2>2, <2>3
  <2>5. m - 1 \notin Wrong
    <3>1. m - 1 \in Wrong => m <= m - 1
      BY <2>1
    <3> HIDE DEF Wrong
    <3> QED
      BY <2>4, <3>1
  <2>6. PICK line : Lists(f, m - 1, R[m - 1], line)
    BY <2>4, <2>5
  <2>7. \E more : Lists(f, m, Taken(f, m, R[m - 1]), more)
    BY <2>4, <2>6, TakenLists
  <2>8. R[m] = Taken(f, m, R[m - 1])
    BY <1>2, <2>2, <2>3
  <2> QED
    BY <2>2, <2>7, <2>8
<1>4. Len(f) \in 0 .. Len(f) /\ Len(f) \notin Wrong
  BY <1>1, <1>3
<1> QED
  BY <1>4 DEF Replay, R
-----------------------------------------------------------------------------
(* The order of the acknowledged records *)

Recs(f) == {f[a].rec : a \in DOMAIN f}

\* The file has the acknowledged records in the order they were acknowledged.
InFileOrder(f, few) ==
    \A i, k \in DOMAIN few, a, b \in DOMAIN f :
        f[a].rec = few[i] /\ f[b].rec = few[k] => (i < k <=> a < b)

\* What is served was read from the file or written to it, in order and with
\* every acknowledged record as long as no line is glued to a torn one.
Served ==
    /\ mem \in Seq(Records) /\ \A a \in DOMAIN mem : mem[a] \in Recs(file)
    /\ Unglued => InOrder(acked, mem)

OrderInv ==
    /\ LogInv /\ up \in BOOLEAN
    /\ InFileOrder(file, acked)
    /\ up => Served

\* Replay gives the acknowledged records in order.
LEMMA ReplayInOrder ==
  ASSUME LogInv, InFileOrder(file, acked), Unglued
  PROVE  InOrder(acked, Replay(file))
<1>1. /\ DOMAIN file = 1 .. Len(file) /\ Len(file) \in Nat /\ DOMAIN acked = 1 .. Len(acked)
      /\ synced \in Nat /\ synced <= Len(file)
  BY DEF LogInv
<1>2. PICK line : Lists(file, Len(file), Replay(file), line)
  BY ReplayLists DEF LogInv
<1>3. DOMAIN Replay(file) = 1 .. Len(Replay(file))
  BY <1>2 DEF Lists
<1>4. ASSUME NEW i \in DOMAIN acked
      PROVE  \E a \in DOMAIN Replay(file) : Replay(file)[a] = acked[i]
  <2>1. PICK k \in 1 .. synced : file[k] = Piece(acked[i], TRUE, TRUE)
    BY <1>4 DEF LogInv, Kept
  <2>2. k \in 1 .. Len(file) /\ file[k].rec = acked[i] /\ file[k].whole /\ file[k].nl
    BY <1>1, <2>1 DEF Piece
  <2>3. k > 1 => file[k - 1].nl
    BY <1>1, <2>2 DEF Unglued
  <2>4. k \in ReadableLines(file) /\ k <= Len(file)
    BY <1>1, <2>2, <2>3 DEF ReadableLines, Readable
  <2>5. PICK a \in 1 .. Len(Replay(file)) : line[a] = k
    BY <1>2, <2>4 DEF Lists
  <2>6. Replay(file)[a] = file[k].rec
    BY <1>2, <2>5 DEF Lists
  <2> QED
    BY <1>3, <2>2, <2>5, <2>6
<1>5. ASSUME NEW i \in DOMAIN acked, NEW k \in DOMAIN acked,
             NEW a \in DOMAIN Replay(file), NEW b \in DOMAIN Replay(file),
             Replay(file)[a] = acked[i], Replay(file)[b] = acked[k]
      PROVE  i < k <=> a < b
  <2>1. /\ line[a] \in DOMAIN file /\ line[b] \in DOMAIN file
        /\ file[line[a]].rec = acked[i] /\ file[line[b]].rec = acked[k]
    BY <1>2, <1>3, <1>5 DEF Lists, ReadableLines
  <2>2. i < k <=> line[a] < line[b]
    BY <2>1 DEF InFileOrder
  <2>3. a \in Nat /\ b \in Nat /\ line[a] \in Nat /\ line[b] \in Nat
    BY <1>1, <1>2, <1>3, <2>1 DEF Lists
  <2>4. /\ a < b => line[a] < line[b]
        /\ b < a => line[b] < line[a]
    BY <1>2, <1>3 DEF Lists
  <2>5. a < b \/ b < a \/ a = b
    BY <2>3
  <2> QED
    BY <2>2, <2>3, <2>4, <2>5
<1> QED
  BY <1>4, <1>5 DEF InOrder

\* What a replay gives was in the file.
LEMMA ReplayFromFile ==
  ASSUME LogInv
  PROVE  /\ Replay(file) \in Seq(Records)
         /\ \A a \in DOMAIN Replay(file) : Replay(file)[a] \in Recs(file)
<1>1. PICK line : Lists(file, Len(file), Replay(file), line)
  BY ReplayLists DEF LogInv
<1>2. DOMAIN Replay(file) = 1 .. Len(Replay(file))
  BY <1>1 DEF Lists
<1> QED
  BY <1>1, <1>2 DEF Lists, ReadableLines, Recs

\* A piece of a record that was never tried is behind all that is acknowledged.
LEMMA OrderAppend ==
  ASSUME LogInv, InFileOrder(file, acked),
         NEW p \in PieceType, p.rec \notin Tried, file' = Append(file, p)
  PROVE  /\ InFileOrder(file', acked)
         /\ Unglued' => Unglued
         /\ Recs(file) \subseteq Recs(file') /\ p.rec \in Recs(file')
<1>1. /\ file' \in Seq(PieceType) /\ Len(file') = Len(file) + 1 /\ Len(file) \in Nat
      /\ \A k \in 1 .. Len(file) : file'[k] = file[k]
      /\ file'[Len(file) + 1] = p
  BY AppendKeeps
<1>2. /\ DOMAIN file = 1 .. Len(file) /\ DOMAIN file' = 1 .. Len(file) + 1
      /\ 1 .. Len(file) \subseteq 1 .. Len(file) + 1 /\ Len(file) + 1 \in 1 .. Len(file) + 1
      /\ \A a \in 1 .. Len(file) + 1 : a \in 1 .. Len(file) \/ a = Len(file) + 1
  BY <1>1 DEF LogInv
<1>3. \A i \in DOMAIN acked : p.rec # acked[i]
  BY DEF Tried
<1>4. InFileOrder(file', acked)
  <2> SUFFICES ASSUME NEW i \in DOMAIN acked, NEW k \in DOMAIN acked,
                      NEW a \in DOMAIN file', NEW b \in DOMAIN file',
                      file'[a].rec = acked[i], file'[b].rec = acked[k]
               PROVE  i < k <=> a < b
    BY DEF InFileOrder
  <2>1. a \in 1 .. Len(file) /\ b \in 1 .. Len(file)
    BY <1>1, <1>2, <1>3
  <2> QED
    BY <1>1, <1>2, <2>1 DEF InFileOrder
<1>5. ASSUME Unglued' PROVE Unglued
  <2> SUFFICES ASSUME NEW i \in 1 .. Len(file) - 1 PROVE file[i].nl
    BY DEF Unglued
  <2>1. i \in 1 .. Len(file) /\ i \in 1 .. Len(file') - 1
    BY <1>1
  <2> QED
    BY <1>1, <1>5, <2>1 DEF Unglued
<1>6. Recs(file) \subseteq Recs(file') /\ p.rec \in Recs(file')
  BY <1>1, <1>2 DEF Recs
<1> QED
  BY <1>4, <1>5, <1>6

LEMMA UnsyncedOrder ==
  ASSUME OrderInv, LogInv', UNCHANGED acked, NEW r \in Records, r \notin Tried,
         \/ UNCHANGED file
         \/ file' = Append(file, Piece(r, TRUE, TRUE))
         \/ \E p \in TornPieces(r) : file' = Append(file, p),
         up' = FALSE \/ UNCHANGED <<up, mem>>
  PROVE  OrderInv'
<1>1. /\ InFileOrder(file', acked)
      /\ Unglued' => Unglued
      /\ Recs(file) \subseteq Recs(file')
  <2>1. CASE UNCHANGED file
    BY <2>1 DEF OrderInv, Unglued
  <2>2. /\ Piece(r, TRUE, TRUE) \in PieceType /\ Piece(r, TRUE, TRUE).rec = r
        /\ \A p \in TornPieces(r) : p \in PieceType /\ p.rec = r
    BY PieceTyped, TornTyped
  <2>3. ASSUME NEW p \in PieceType, p.rec = r, file' = Append(file, p)
        PROVE  /\ InFileOrder(file', acked)
               /\ Unglued' => Unglued
               /\ Recs(file) \subseteq Recs(file')
    BY <2>3, OrderAppend DEF OrderInv
  <2> QED
    BY <2>1, <2>2, <2>3
<1>2. InFileOrder(file, acked)' /\ up' \in BOOLEAN
  BY <1>1 DEF OrderInv
<1>3. ASSUME UNCHANGED <<up, mem>>, up PROVE Served'
  <2>1. mem \in Seq(Records) /\ \A a \in DOMAIN mem : mem[a] \in Recs(file')
    BY <1>1, <1>3 DEF OrderInv, Served
  <2>2. Unglued' => InOrder(acked, mem)
    BY <1>1, <1>3 DEF OrderInv, Served
  <2>3. (Unglued => InOrder(acked, mem))'
    BY <1>3, <2>2
  <2> QED
    BY <1>3, <2>1, <2>3 DEF Served
<1>4. up' => Served'
  BY <1>3
<1> QED
  BY <1>2, <1>4 DEF OrderInv

LEMMA PersistOrder ==
  ASSUME OrderInv, LogInv', NEW r \in Records, Persist(r)
  PROVE  OrderInv'
<1> DEFINE p == Piece(r, TRUE, TRUE)
<1>1. p \in PieceType /\ p.rec = r
  BY PieceTyped
<1>2. /\ file' = Append(file, p) /\ r \notin Tried /\ up /\ up' = up
      /\ mem' = Append(mem, r) /\ acked' = Append(acked, r)
  BY DEF Persist
<1> HIDE DEF p
<1>3. /\ InFileOrder(file', acked)
      /\ Unglued' => Unglued
      /\ Recs(file) \subseteq Recs(file') /\ r \in Recs(file')
  BY <1>1, <1>2, OrderAppend DEF OrderInv
<1>4. /\ Len(file') = Len(file) + 1 /\ Len(file) \in Nat
      /\ \A k \in 1 .. Len(file) : file'[k] = file[k]
      /\ file'[Len(file) + 1].rec = r
      /\ DOMAIN file = 1 .. Len(file) /\ DOMAIN file' = 1 .. Len(file) + 1
      /\ \A a \in DOMAIN file' : a \in 1 .. Len(file) \/ a = Len(file) + 1
  BY <1>1, <1>2, AppendKeeps DEF OrderInv, LogInv
<1>5. /\ Len(acked) \in Nat
      /\ DOMAIN acked = 1 .. Len(acked) /\ DOMAIN acked' = 1 .. Len(acked) + 1
      /\ \A i \in 1 .. Len(acked) : acked'[i] = acked[i]
      /\ acked'[Len(acked) + 1] = r
      /\ \A i \in DOMAIN acked' : i \in 1 .. Len(acked) \/ i = Len(acked) + 1
  BY <1>2 DEF OrderInv, LogInv
<1>6. Served /\ mem \in Seq(Records)
  BY <1>2 DEF OrderInv, Served
<1>7. /\ mem' \in Seq(Records) /\ Len(mem) \in Nat
      /\ DOMAIN mem = 1 .. Len(mem) /\ DOMAIN mem' = 1 .. Len(mem) + 1
      /\ \A a \in 1 .. Len(mem) : mem'[a] = mem[a]
      /\ mem'[Len(mem) + 1] = r
      /\ \A a \in DOMAIN mem' : a \in 1 .. Len(mem) \/ a = Len(mem) + 1
  BY <1>2, <1>6
<1>8. /\ \A a \in 1 .. Len(file) : file[a].rec # r
      /\ \A i \in 1 .. Len(acked) : acked[i] # r
      /\ \A a \in 1 .. Len(mem) : mem[a] # r
  <2>1. (\A a \in 1 .. Len(file) : file[a].rec # r) /\ \A i \in 1 .. Len(acked) : acked[i] # r
    BY <1>2, <1>4, <1>5 DEF Tried
  <2>2. \A a \in 1 .. Len(mem) : mem[a] \in Recs(file)
    BY <1>6, <1>7 DEF Served
  <2> QED
    BY <1>4, <2>1, <2>2 DEF Recs
<1>9. InFileOrder(file', acked')
  <2> SUFFICES ASSUME NEW i \in DOMAIN acked', NEW k \in DOMAIN acked',
                      NEW a \in DOMAIN file', NEW b \in DOMAIN file',
                      file'[a].rec = acked'[i], file'[b].rec = acked'[k]
               PROVE  i < k <=> a < b
    BY DEF InFileOrder
  <2>1. (i = Len(acked) + 1 <=> a = Len(file) + 1) /\ (k = Len(acked) + 1 <=> b = Len(file) + 1)
    BY <1>4, <1>5, <1>8
  <2>2. CASE i \in 1 .. Len(acked) /\ k \in 1 .. Len(acked)
    <3>1. a \in 1 .. Len(file) /\ b \in 1 .. Len(file)
      BY <1>4, <1>5, <2>1, <2>2
    <3> QED
      BY <1>4, <1>5, <2>2, <3>1 DEF OrderInv, InFileOrder
  <2>3. CASE i = Len(acked) + 1
    <3>1. a = Len(file) + 1 /\ i >= k /\ a >= b
      BY <1>4, <1>5, <2>1, <2>3
    <3> QED
      BY <1>4, <1>5, <2>3, <3>1
  <2>4. CASE i \in 1 .. Len(acked) /\ k = Len(acked) + 1
    <3>1. a \in 1 .. Len(file) /\ b = Len(file) + 1
      BY <1>4, <1>5, <2>1, <2>4
    <3> QED
      BY <1>4, <1>5, <2>4, <3>1
  <2> QED
    BY <1>5, <2>2, <2>3, <2>4
<1>10. ASSUME Unglued' PROVE InOrder(acked', mem')
  <2>1. InOrder(acked, mem)
    BY <1>3, <1>6, <1>10 DEF Served
  <2>2. ASSUME NEW i \in DOMAIN acked' PROVE \E a \in DOMAIN mem' : mem'[a] = acked'[i]
    <3>1. CASE i = Len(acked) + 1
      BY <1>5, <1>7, <3>1
    <3>2. CASE i \in 1 .. Len(acked)
      <4>1. PICK a \in DOMAIN mem : mem[a] = acked[i]
        BY <1>5, <2>1, <3>2 DEF InOrder
      <4> QED
        BY <1>5, <1>7, <3>2, <4>1
    <3> QED
      BY <1>5, <2>2, <3>1, <3>2
  <2>3. ASSUME NEW i \in DOMAIN acked', NEW k \in DOMAIN acked',
               NEW a \in DOMAIN mem', NEW b \in DOMAIN mem',
               mem'[a] = acked'[i], mem'[b] = acked'[k]
        PROVE  i < k <=> a < b
    <3>1. (i = Len(acked) + 1 <=> a = Len(mem) + 1) /\ (k = Len(acked) + 1 <=> b = Len(mem) + 1)
      BY <1>5, <1>7, <1>8, <2>3
    <3>2. CASE i \in 1 .. Len(acked) /\ k \in 1 .. Len(acked)
      <4>1. a \in 1 .. Len(mem) /\ b \in 1 .. Len(mem)
        BY <1>5, <1>7, <3>1, <3>2
      <4> QED
        BY <1>5, <1>7, <2>1, <2>3, <3>2, <4>1 DEF InOrder
    <3>3. CASE i = Len(acked) + 1
      <4>1. a = Len(mem) + 1 /\ i >= k /\ a >= b
        BY <1>5, <1>7, <3>1, <3>3
      <4> QED
        BY <1>5, <1>7, <3>3, <4>1
    <3>4. CASE i \in 1 .. Len(acked) /\ k = Len(acked) + 1
      <4>1. a \in 1 .. Len(mem) /\ b = Len(mem) + 1
        BY <1>5, <1>7, <3>1, <3>4
      <4> QED
        BY <1>5, <1>7, <3>4, <4>1
    <3> QED
      BY <1>5, <3>2, <3>3, <3>4
  <2> QED
    BY <2>2, <2>3 DEF InOrder
<1>11. \A a \in DOMAIN mem' : mem'[a] \in Recs(file')
  BY <1>3, <1>6, <1>7 DEF Served
<1>12. Served'
  BY <1>7, <1>10, <1>11 DEF Served
<1>13. InFileOrder(file, acked)' /\ up' \in BOOLEAN
  BY <1>2, <1>9 DEF OrderInv
<1> QED
  BY <1>12, <1>13 DEF OrderInv

LEMMA HostCrashOrder ==
  ASSUME OrderInv, LogInv', HostCrash
  PROVE  OrderInv'
<1>1. up' = FALSE /\ acked' = acked
  BY DEF HostCrash, Die
<1>2. PICK n \in synced .. Len(file) :
          \/ file' = SubSeq(file, 1, n)
          \/ /\ n < Len(file)
             /\ \E p \in TornPieces(file[n + 1].rec) : file' = Append(SubSeq(file, 1, n), p)
  BY DEF HostCrash
<1>3. n \in Nat /\ n <= Len(file) /\ Len(file) \in Nat /\ file \in Seq(PieceType)
      /\ DOMAIN file = 1 .. Len(file)
  BY DEF OrderInv, LogInv
<1> DEFINE f == SubSeq(file, 1, n)
<1>4. f \in Seq(PieceType) /\ Len(f) = n /\ DOMAIN f = 1 .. n /\ \A k \in 1 .. n : f[k] = file[k]
  BY <1>3
<1> HIDE DEF f
<1>5. \A a \in DOMAIN file' : a \in DOMAIN file /\ file'[a].rec = file[a].rec
  <2>1. CASE file' = f
    BY <1>3, <1>4, <2>1
  <2>2. ASSUME n < Len(file), NEW p \in TornPieces(file[n + 1].rec), file' = Append(f, p)
        PROVE  \A a \in DOMAIN file' : a \in DOMAIN file /\ file'[a].rec = file[a].rec
    <3>1. n + 1 \in 1 .. Len(file) /\ file[n + 1].rec \in Records
      <4>1. n + 1 \in 1 .. Len(file)
        BY <1>3, <2>2
      <4>2. file[n + 1] \in PieceType
        BY <1>3, <4>1
      <4> QED
        BY <4>1, <4>2 DEF PieceType
    <3>2. p \in PieceType /\ p.rec = file[n + 1].rec
      BY <2>2, <3>1, TornTyped
    <3>3. /\ DOMAIN file' = 1 .. n + 1 /\ file'[n + 1] = p
          /\ \A k \in 1 .. n : file'[k] = file[k]
      BY <1>3, <1>4, <2>2, <3>2
    <3>4. \A a \in 1 .. n + 1 : a = n + 1 \/ a \in 1 .. n
      BY <1>3
    <3>5. \A a \in 1 .. n : a \in DOMAIN file
      BY <1>3
    <3> QED
      BY <1>3, <3>1, <3>2, <3>3, <3>4, <3>5
  <2> QED
    BY <1>2, <2>1, <2>2 DEF f
<1>6. InFileOrder(file', acked)
  BY <1>5 DEF OrderInv, InFileOrder
<1>7. InFileOrder(file, acked)'
  BY <1>1, <1>6
<1> QED
  BY <1>1, <1>7 DEF OrderInv

THEOREM OrderIsKept == Spec => []OrderInv
<1>1. Init => OrderInv
  <2> SUFFICES ASSUME Init PROVE OrderInv
    OBVIOUS
  <2>1. LogInv
    BY DEF Init, LogInv, Once, Kept
  <2>2. file = <<>> /\ acked = <<>> /\ mem = <<>> /\ up = TRUE
    BY DEF Init
  <2>3. InFileOrder(file, acked) /\ InOrder(acked, mem) /\ mem \in Seq(Records)
    BY <2>2 DEF InFileOrder, InOrder
  <2>4. \A a \in DOMAIN mem : mem[a] \in Recs(file)
    BY <2>2
  <2> QED
    BY <2>1, <2>2, <2>3, <2>4 DEF OrderInv, Served
<1>2. LogInv /\ LogInv' /\ OrderInv /\ [Next]_vars => OrderInv'
  <2> SUFFICES ASSUME LogInv', OrderInv, [Next]_vars PROVE OrderInv'
    OBVIOUS
  <2>1. ASSUME NEW r \in Records, WriteFails(r) \/ SyncFails(r) \/ KilledInPersist(r)
        PROVE  OrderInv'
    BY <2>1, UnsyncedOrder DEF WriteFails, SyncFails, KilledInPersist, Die
  <2>2. CASE Stop
    <3>1. up' = FALSE /\ file' = file /\ acked' = acked
      BY <2>2 DEF Stop, Die
    <3> QED
      BY <3>1 DEF OrderInv
  <2>3. CASE Open
    <3>1. up' = TRUE /\ file' = file /\ acked' = acked /\ mem' = Replay(file)
      BY <2>3 DEF Open
    <3>2. LogInv /\ InFileOrder(file, acked)
      BY DEF OrderInv
    <3>3. /\ mem' \in Seq(Records) /\ \A a \in DOMAIN mem' : mem'[a] \in Recs(file)
          /\ Unglued => InOrder(acked, mem')
      BY <3>1, <3>2, ReplayFromFile, ReplayInOrder
    <3>4. Unglued' => Unglued
      BY <3>1 DEF Unglued
    <3>5. Served'
      BY <3>1, <3>3, <3>4 DEF Served
    <3>6. InFileOrder(file, acked)'
      BY <3>1, <3>2
    <3> QED
      BY <3>1, <3>5, <3>6 DEF OrderInv
  <2>4. CASE UNCHANGED vars
    BY <2>4 DEF vars, OrderInv, Served, Unglued
  <2> QED
    BY <2>1, <2>2, <2>3, <2>4, PersistOrder, HostCrashOrder DEF Next
<1> QED
  BY <1>1, <1>2, AckedAreInTheLog, PTL DEF Spec

\* UngluedSurvive: until something is written behind a torn line, every
\* acknowledged record is found by a replay and served by an open center, in
\* the order of the acknowledgements, for any number of records and failures.
THEOREM AckedSurviveInOrder == Spec => []UngluedSurvive
<1>1. OrderInv => UngluedSurvive
  BY ReplayInOrder DEF OrderInv, Served, UngluedSurvive, AckedSurvive
<1> QED
  BY <1>1, OrderIsKept, PTL
=============================================================================
