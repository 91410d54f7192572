---------------------------- MODULE AuditProofs ----------------------------
(***************************************************************************)
(* Theorems about audit shipping, for any number of nodes and goroutines,  *)
(* any logs and limits, and any number of crashes, rotations and failures: *)
(* what was acknowledged is held, the window is the newest part of what    *)
(* was shipped, and shipping implements AuditDelivery.                     *)
(***************************************************************************)
EXTENDS AuditIngest, SequenceTheorems, FiniteSetTheorems, WellFoundedInduction, TLAPS

-----------------------------------------------------------------------------
(* The inductive invariant                                                  *)
(*                                                                         *)
(* The ranges of the post an edge wants an answer for are rungs of a       *)
(* ladder that begins where it stood when it made the post: each begins    *)
(* where the one before ends.  The edge, the center's memory and what a    *)
(* replay of the log finds stand on rungs of it, none above the next, and  *)
(* whatever else is on its way is not above the edge.                      *)

Cursors == [gen : Nat, byte : Nat]
ByteRanges == [gen : Nat, from : Nat, to : Nat]
AuditViews == [cursor : Cursors, window : Seq(Cursors), stored : Nat, dropped : Nat, gaps : Nat]

\* A view that nothing was shipped to stands where an edge begins.
Stand(c) == IF c.gen = 0 THEN Cursor(1, 0) ELSE c

\* A position in what the edge has written, and a range of it.
Within(file, c) == c \in Cursors /\ c.gen \in 1 .. Len(file) /\ c.byte <= file[c.gen]

Fits(file, r) ==
    /\ r \in ByteRanges /\ r.from < r.to
    /\ r.gen \in 1 .. Len(file) /\ r.to <= file[r.gen]

\* The range begins where c is, or with the generation after the one c is at
\* the end of.
Touches(file, c, r) ==
    \/ c.gen = r.gen /\ c.byte = r.from
    \/ r.from = 0 /\ r.gen = c.gen + 1 /\ c.byte = file[c.gen]

Rung(foot, want, i) == IF i = 0 THEN foot ELSE EndOf(want[i])

Ladder(file, foot, want) ==
    /\ want \in Seq(ByteRanges) /\ Within(file, foot)
    /\ \A i \in 1 .. Len(want) : Fits(file, want[i]) /\ Touches(file, Rung(foot, want, i - 1), want[i])
    /\ \A i, k \in 0 .. Len(want) : i < k => Behind(Rung(foot, want, i), Rung(foot, want, k))

\* The edge is on rung a, the center's memory on rung b, its log on rung c.
Climbed(at, want, held, found, foot, a, b, c) ==
    /\ a \in 0 .. Len(want) /\ b \in a .. Len(want) /\ c \in b .. Len(want)
    /\ at = Rung(foot, want, a)
    /\ Stand(held) = Rung(foot, want, b)
    /\ Stand(found) = Rung(foot, want, c)
    /\ want # <<>> => a < Len(want)

Climbing(file, at, want, held, found) ==
    \E foot \in Cursors, a, b, c \in Nat :
        Ladder(file, foot, want) /\ Climbed(at, want, held, found, foot, a, b, c)

\* An answer, or what will be one: the center holds what it says, and the edge
\* has passed it or it is on the ladder.
Answers(at, want, held, c) ==
    /\ c \in Cursors /\ ~Behind(held, c)
    /\ Behind(at, c) => \E i \in 1 .. Len(want) : c = EndOf(want[i])

\* A post is the one the edge wants an answer for, or it has its answer.
Posted(file, at, want, ranges) ==
    /\ ranges \in Seq(ByteRanges) /\ ranges # <<>>
    /\ \A i \in 1 .. Len(ranges) : Fits(file, ranges[i])
    /\ ranges = want \/ \A i \in 1 .. Len(ranges) : ~Behind(at, EndOf(ranges[i]))

\* A cursor of the center: nothing was shipped, or it is where a range ends.
Reached(c) == c \in Cursors /\ (c = Cursor(0, 0) \/ (c.gen >= 1 /\ c.byte >= 1))

\* A view holds the newest of the events up to its cursor.
Kept(file, v) ==
    /\ v \in AuditViews /\ Within(file, Stand(v.cursor)) /\ Reached(v.cursor)
    /\ IsFiniteSet(UpTo(file, v.cursor)) /\ IsNewestOf(v, UpTo(file, v.cursor))

\* Replay takes every event up to the cursor it comes to, in order.
Logs(file, records) ==
    /\ records \in Seq(ByteRanges)
    /\ \A i \in 1 .. Len(records) :
          Fits(file, records[i]) /\ ~Behind(Replay(records).cursor, EndOf(records[i]))
    /\ \/ Replay(records).cursor = Cursor(0, 0)
       \/ \E i \in 1 .. Len(records) : Replay(records).cursor = EndOf(records[i])
    /\ \A e \in UpTo(file, Replay(records).cursor) : \E i \in Taken(records) : e \in Span(records[i])
    /\ \A i, k \in Taken(records) : i < k =>
          \A d \in Span(records[i]), e \in Span(records[k]) : Behind(d, e)

\* What the center holds of a node: while it is down, what it will find.
Held(n) == IF up THEN view[n] ELSE Replay(log[n])

NodeInv(n) ==
    /\ Climbing(files[n], pos[n], post[n], Held(n).cursor, Replay(log[n]).cursor)
    /\ Kept(files[n], Held(n)) /\ Kept(files[n], Replay(log[n]))
    /\ Logs(files[n], log[n])

\* A handler has the rest of a post left to do, and the center holds the others.
Serves(n, ranges, k, todo, cursor) ==
    /\ [node |-> n, ranges |-> ranges] \in posts
    /\ k \in 0 .. Len(ranges) /\ todo = SubSeq(ranges, k + 1, Len(ranges))
    /\ k >= 1 => /\ ~Behind(Held(n).cursor, EndOf(ranges[k]))
                 /\ Answers(pos[n], post[n], Held(n).cursor, cursor)

HandlerInv(h) ==
    handler[h].busy =>
        /\ up /\ handler[h].node \in Nodes
        /\ \E ranges \in Seq(ByteRanges), k \in Nat :
              Serves(handler[h].node, ranges, k, handler[h].todo, handler[h].cursor)

PostInv(p) == Posted(files[p.node], pos[p.node], post[p.node], p.ranges)

AckInv(a) == Answers(pos[a.node], post[a.node], Held(a.node).cursor, a.cursor)

Goroutines == [busy : BOOLEAN, node : {Free.node} \cup Nodes, todo : Seq(ByteRanges), cursor : Cursors]

Typed ==
    /\ files \in [Nodes -> Seq(Nat)] /\ \A n \in Nodes : files[n] # <<>>
    /\ pos \in [Nodes -> Cursors] /\ post \in [Nodes -> Seq(ByteRanges)]
    /\ posts \subseteq [node : Nodes, ranges : Seq(ByteRanges)]
    /\ acks \subseteq [node : Nodes, cursor : Cursors]
    /\ handler \in [Handlers -> Goroutines]
    /\ view \in [Nodes -> AuditViews] /\ log \in [Nodes -> Seq(ByteRanges)]
    /\ up \in BOOLEAN /\ (up \/ view = [n \in Nodes |-> EmptyView])

Inv ==
    /\ Typed
    /\ \A n \in Nodes : NodeInv(n)
    /\ \A p \in posts : PostInv(p)
    /\ \A a \in acks : AckInv(a)
    /\ \A h \in Handlers : HandlerInv(h)

-----------------------------------------------------------------------------
(* Lemmas about cursors *)

\* After, as the edge says it.
LEMMA AfterIsBehind == ASSUME NEW c, NEW d PROVE After(c, d) <=> Behind(d, c)
  BY DEF After, Behind

LEMMA CursorOrder ==
    ASSUME NEW c \in Cursors, NEW d \in Cursors
    PROVE  /\ ~Behind(c, c)
           /\ Behind(c, d) => ~Behind(d, c)
           /\ ~Behind(c, d) /\ ~Behind(d, c) => c = d
  BY DEF Cursors, Behind

LEMMA BehindTransitive ==
    ASSUME NEW c \in Cursors, NEW d \in Cursors, NEW e \in Cursors
    PROVE  /\ Behind(c, d) /\ Behind(d, e) => Behind(c, e)
           /\ ~Behind(d, c) /\ Behind(d, e) => Behind(c, e)
           /\ Behind(c, d) /\ ~Behind(e, d) => Behind(c, e)
           /\ ~Behind(d, c) /\ ~Behind(e, d) => ~Behind(e, c)
  BY DEF Cursors, Behind

LEMMA CursorsAre ==
    ASSUME NEW g \in Nat, NEW b \in Nat
    PROVE  Cursor(g, b) \in Cursors /\ Cursor(g, b).gen = g /\ Cursor(g, b).byte = b
  BY DEF Cursor, Cursors

LEMMA EndsAre ==
    ASSUME NEW r \in ByteRanges
    PROVE  EndOf(r) \in Cursors /\ EndOf(r).gen = r.gen /\ EndOf(r).byte = r.to
  BY DEF EndOf, Cursor, Cursors, ByteRanges

LEMMA StandIs ==
    ASSUME NEW c \in Cursors
    PROVE  /\ Stand(c) \in Cursors
           /\ c.gen # 0 => Stand(c) = c
           /\ c.gen = 0 => Stand(c).gen = 1 /\ Stand(c).byte = 0
  BY DEF Stand, Cursor, Cursors

\* A view's cursor and where it stands are behind the same positions.
LEMMA StandOrder ==
    ASSUME NEW c \in Cursors, c.gen = 0 => c = Cursor(0, 0),
           NEW d \in Cursors, d.gen >= 1, d.byte >= 1
    PROVE  Behind(c, d) <=> Behind(Stand(c), d)
  BY DEF Stand, Cursor, Cursors, Behind

-----------------------------------------------------------------------------
(* Lemmas about replay *)

LEMMA HasLeast ==
  ASSUME NEW T \in SUBSET Nat, T # {}
  PROVE  \E x \in T : \A y \in T : x <= y
<1> DEFINE Below == {0 .. x : x \in T}
           R == StrictSubsetOrdering(Nat)
           F == FiniteSubsetsOf(Nat)
<1>1. IsWellFoundedOn(R, F)
  BY FS_StrictSubsetOrderingWellFounded
<1>2. Below \subseteq F
  <2> SUFFICES ASSUME NEW x \in T PROVE 0 .. x \in F
    OBVIOUS
  <2>1. x \in Int /\ 0 \in Int /\ 0 .. x \in SUBSET Nat
    OBVIOUS
  <2>2. IsFiniteSet(0 .. x)
    BY <2>1, FS_Interval
  <2> QED
    BY <2>1, <2>2 DEF FiniteSubsetsOf
<1>3. Below # {}
  OBVIOUS
<1>4. PICK b \in Below : \A c \in Below : ~(<<c, b>> \in R)
  <2> HIDE DEF Below, R, F
  <2> QED
    BY <1>1, <1>2, <1>3, WFMin
<1>5. PICK x \in T : b = 0 .. x
  BY <1>4
<1>6. ASSUME NEW y \in T PROVE x <= y
  <2> SUFFICES ASSUME y < x PROVE FALSE
    OBVIOUS
  <2>1. 0 .. y \in Below /\ 0 .. y \in SUBSET Nat /\ 0 .. x \in SUBSET Nat
    OBVIOUS
  <2>2. 0 .. y \subseteq 0 .. x /\ x \in 0 .. x /\ x \notin 0 .. y
    OBVIOUS
  <2>3. <<0 .. y, 0 .. x>> \in R
    <3>1. 0 .. y # 0 .. x
      BY <2>2
    <3> QED
      BY <2>1, <2>2, <3>1 DEF StrictSubsetOrdering
  <2> QED
    BY <1>4, <1>5, <2>1, <2>3
<1> QED
  BY <1>6


\* Replays is what its recursion says it is.
LEMMA ReplaysIs ==
    ASSUME NEW s \in Seq(ByteRanges)
    PROVE  Replays(s) = [i \in 0 .. Len(s) |->
                            IF i = 0 THEN EmptyView ELSE ApplyAudit(Replays(s)[i - 1], s[i])]
  <1> DEFINE Recurs(f, n) == f = [i \in 0 .. n |->
                                     IF i = 0 THEN EmptyView ELSE ApplyAudit(f[i - 1], s[i])]
             Undefined == {n \in 0 .. Len(s) : ~\E f : Recurs(f, n)}
  <1>1. Len(s) \in Nat
    OBVIOUS
  <1>2. Undefined = {}
    <2> SUFFICES ASSUME Undefined # {} PROVE FALSE
      OBVIOUS
    <2>1. PICK m \in Undefined : \A n \in Undefined : m <= n
      <3>1. Undefined \in SUBSET Nat
        OBVIOUS
      <3> HIDE DEF Undefined
      <3> QED
        BY <3>1, HasLeast
    <2>2. m # 0
      <3> DEFINE f == [i \in 0 .. 0 |-> EmptyView]
      <3>1. Recurs(f, 0)
        OBVIOUS
      <3> QED
        BY <3>1
    <2>3. m - 1 \in 0 .. Len(s) /\ m - 1 \notin Undefined
      <3>1. m \in 0 .. Len(s)
        BY <2>1
      <3> HIDE DEF Undefined
      <3>2. m - 1 \in 0 .. Len(s) /\ m - 1 < m
        BY <1>1, <2>2, <3>1
      <3>3. m - 1 \in Undefined => m <= m - 1
        BY <2>1
      <3> QED
        BY <3>1, <3>2, <3>3
    <2>4. PICK f : Recurs(f, m - 1)
      BY <2>3
    <2> DEFINE g == [i \in 0 .. m |-> IF i = m THEN ApplyAudit(f[m - 1], s[m]) ELSE f[i]]
    <2>5. Recurs(g, m)
      <3>1. ASSUME NEW i \in 0 .. m
            PROVE  g[i] = IF i = 0 THEN EmptyView ELSE ApplyAudit(g[i - 1], s[i])
        <4>1. CASE i = m
          <5>1. g[m] = ApplyAudit(f[m - 1], s[m]) /\ g[m - 1] = f[m - 1]
            BY <2>2, <2>3
          <5> HIDE DEF g
          <5> QED
            BY <2>2, <4>1, <5>1
        <4>2. CASE i # m /\ i # 0
          <5>1. i \in 0 .. m - 1 /\ i - 1 \in 0 .. m - 1
            BY <2>3, <4>2
          <5>2. g[i] = f[i] /\ g[i - 1] = f[i - 1]
            BY <4>2, <5>1
          <5>3. f[i] = ApplyAudit(f[i - 1], s[i])
            BY <2>4, <4>2, <5>1
          <5> HIDE DEF g
          <5> QED
            BY <4>2, <5>2, <5>3
        <4>3. CASE i # m /\ i = 0
          <5>1. 0 \in 0 .. m - 1
            BY <2>3
          <5>2. g[0] = f[0] /\ f[0] = EmptyView
            BY <2>2, <2>4, <5>1
          <5> HIDE DEF g
          <5> QED
            BY <4>3, <5>2
        <4> QED
          BY <4>1, <4>2, <4>3
      <3>2. g = [i \in 0 .. m |-> g[i]]
        OBVIOUS
      <3> HIDE DEF g
      <3> QED
        BY <3>1, <3>2
    <2> QED
      BY <2>1, <2>5
  <1>3. \E f : Recurs(f, Len(s))
    BY <1>1, <1>2
  <1>4. Replays(s) = CHOOSE f : Recurs(f, Len(s))
    BY DEF Replays
  <1> HIDE DEF Undefined
  <1> QED
    BY <1>3, <1>4

LEMMA ReplayEmpty == Replay(<<>>) = EmptyView
  <1>1. <<>> \in Seq(ByteRanges) /\ Len(<<>>) = 0
    OBVIOUS
  <1>2. Replays(<<>>) = [i \in 0 .. 0 |->
                            IF i = 0 THEN EmptyView ELSE ApplyAudit(Replays(<<>>)[i - 1], <<>>[i])]
    BY <1>1, ReplaysIs
  <1>3. Replays(<<>>)[0] = EmptyView
    BY <1>2
  <1> QED
    BY <1>1, <1>3 DEF Replay

\* One more record is one more ApplyAudit.
LEMMA ReplayAppend ==
    ASSUME NEW s \in Seq(ByteRanges), NEW r \in ByteRanges
    PROVE  Replay(Append(s, r)) = ApplyAudit(Replay(s), r)
  <1> DEFINE t == Append(s, r)
             n == Len(s)
             f == Replays(s)
             g == Replays(t)
             Differ == {i \in 0 .. n : f[i] # g[i]}
  <1>1. /\ n \in Nat /\ t \in Seq(ByteRanges) /\ Len(t) = n + 1
        /\ t[n + 1] = r /\ \A i \in 1 .. n : t[i] = s[i]
    BY AppendProperties
  <1>2. f = [i \in 0 .. n |-> IF i = 0 THEN EmptyView ELSE ApplyAudit(f[i - 1], s[i])]
    BY ReplaysIs
  <1>3. g = [i \in 0 .. n + 1 |-> IF i = 0 THEN EmptyView ELSE ApplyAudit(g[i - 1], t[i])]
    <2> HIDE DEF t
    <2> QED
      BY <1>1, ReplaysIs
  <1> HIDE DEF t, f, g
  <1>4. Differ = {}
    <2> SUFFICES ASSUME Differ # {} PROVE FALSE
      OBVIOUS
    <2>1. PICK m \in Differ : \A i \in Differ : m <= i
      <3>1. Differ \in SUBSET Nat
        OBVIOUS
      <3> HIDE DEF Differ
      <3> QED
        BY <3>1, HasLeast
    <2>2. m # 0
      <3>1. f[0] = EmptyView /\ g[0] = EmptyView
        BY <1>1, <1>2, <1>3
      <3> QED
        BY <3>1
    <2>3. m - 1 \in 0 .. n /\ f[m - 1] = g[m - 1] /\ m \in 0 .. n
      BY <2>1, <2>2
    <2>4. f[m] = ApplyAudit(f[m - 1], s[m])
      BY <1>2, <2>2, <2>3
    <2>5. m \in 0 .. n + 1 /\ t[m] = s[m]
      BY <1>1, <2>2, <2>3
    <2>6. g[m] = ApplyAudit(g[m - 1], t[m])
      BY <1>3, <2>2, <2>5
    <2>7. f[m] = g[m]
      BY <2>3, <2>4, <2>5, <2>6
    <2> QED
      BY <2>7
  <1>5. f[n] = g[n]
    BY <1>1, <1>4
  <1>6. n + 1 \in 0 .. n + 1 /\ n + 1 # 0 /\ n + 1 - 1 = n
    BY <1>1
  <1>7. g[n + 1] = ApplyAudit(g[n], t[n + 1])
    BY <1>3, <1>6
  <1>8. g[n + 1] = ApplyAudit(f[n], r)
    BY <1>1, <1>5, <1>7
  <1>9. Replay(s) = f[n] /\ Replay(t) = g[n + 1]
    BY <1>1 DEF Replay, f, g
  <1> QED
    BY <1>8, <1>9 DEF t

-----------------------------------------------------------------------------
(* Lemmas about events and windows *)

\* An event is a position that is not past the end of its file.
LEMMA StreamIs ==
    ASSUME NEW file \in Seq(Nat), NEW e
    PROVE  e \in Stream(file) <=>
              /\ e \in Cursors /\ e.gen \in 1 .. Len(file)
              /\ e.byte >= 1 /\ e.byte <= file[e.gen]
  <1>1. DOMAIN file = 1 .. Len(file) /\ \A g \in 1 .. Len(file) : file[g] \in Nat
    BY ElementOfSeq, LenProperties
  <1>2. ASSUME e \in Stream(file)
        PROVE  /\ e \in Cursors /\ e.gen \in 1 .. Len(file)
               /\ e.byte >= 1 /\ e.byte <= file[e.gen]
    <2>1. PICK g \in DOMAIN file : e \in {Cursor(g, b) : b \in 1 .. file[g]}
      BY <1>2 DEF Stream
    <2>2. PICK b \in 1 .. file[g] : e = Cursor(g, b)
      BY <2>1
    <2>3. g \in Nat /\ b \in Nat /\ g \in 1 .. Len(file)
      BY <1>1
    <2> QED
      BY <1>1, <2>2, <2>3, CursorsAre
  <1>3. ASSUME e \in Cursors, e.gen \in 1 .. Len(file), e.byte >= 1, e.byte <= file[e.gen]
        PROVE  e \in Stream(file)
    <2>1. e = Cursor(e.gen, e.byte) /\ e.byte \in Nat
      BY <1>3 DEF Cursors, Cursor
    <2>2. e.byte \in 1 .. file[e.gen]
      BY <1>1, <1>3, <2>1
    <2>3. e \in {Cursor(e.gen, b) : b \in 1 .. file[e.gen]}
      BY <2>1, <2>2
    <2> QED
      BY <1>1, <1>3, <2>3 DEF Stream
  <1> QED
    BY <1>2, <1>3

LEMMA SpanIs ==
    ASSUME NEW r \in ByteRanges, NEW e
    PROVE  e \in Span(r) <=> e \in Cursors /\ e.gen = r.gen /\ r.from < e.byte /\ e.byte <= r.to
  <1>1. r.gen \in Nat /\ r.from \in Nat /\ r.to \in Nat
    BY DEF ByteRanges
  <1>2. ASSUME e \in Span(r)
        PROVE  e \in Cursors /\ e.gen = r.gen /\ r.from < e.byte /\ e.byte <= r.to
    <2>1. PICK b \in r.from + 1 .. r.to : e = Cursor(r.gen, b)
      BY <1>2 DEF Span
    <2> QED
      BY <1>1, <2>1, CursorsAre
  <1>3. ASSUME e \in Cursors, e.gen = r.gen, r.from < e.byte, e.byte <= r.to
        PROVE  e \in Span(r)
    <2>1. e = Cursor(r.gen, e.byte) /\ e.byte \in Nat
      BY <1>3 DEF Cursors, Cursor
    <2>2. e.byte \in r.from + 1 .. r.to
      BY <1>1, <1>3, <2>1
    <2> QED
      BY <2>1, <2>2 DEF Span
  <1> QED
    BY <1>2, <1>3

\* The events of a range, as the center has them.
LEMMA EventsAre ==
    ASSUME NEW r \in ByteRanges, r.from < r.to
    PROVE  /\ Events(r) \in Seq(Cursors) /\ Len(Events(r)) = r.to - r.from
           /\ \A i \in 1 .. r.to - r.from :
                 Events(r)[i] \in Span(r) /\ Events(r)[i].byte = r.from + i
           /\ \A e \in Span(r) : \E i \in 1 .. r.to - r.from : e = Events(r)[i]
  <1>1. /\ r.gen \in Nat /\ r.from \in Nat /\ r.to \in Nat /\ r.to - r.from \in Nat
        /\ DOMAIN Events(r) = 1 .. r.to - r.from
        /\ \A i \in 1 .. r.to - r.from : Events(r)[i] = Cursor(r.gen, r.from + i)
    BY DEF ByteRanges, Events
  <1>2. \A i \in 1 .. r.to - r.from :
           /\ Events(r)[i] \in Cursors /\ Events(r)[i].gen = r.gen
           /\ Events(r)[i].byte = r.from + i
    <2> SUFFICES ASSUME NEW i \in 1 .. r.to - r.from
                 PROVE  /\ Events(r)[i] \in Cursors /\ Events(r)[i].gen = r.gen
                        /\ Events(r)[i].byte = r.from + i
      OBVIOUS
    <2>1. r.from + i \in Nat
      BY <1>1
    <2> QED
      BY <1>1, <2>1, CursorsAre
  <1>3. Events(r) \in Seq(Cursors) /\ Len(Events(r)) = r.to - r.from
    <2>1. Events(r) \in [1 .. r.to - r.from -> Cursors]
      BY <1>1, <1>2 DEF Events
    <2> QED
      BY <1>1, <2>1
  <1>4. \A i \in 1 .. r.to - r.from : Events(r)[i] \in Span(r)
    BY <1>1, <1>2, SpanIs
  <1>5. ASSUME NEW e \in Span(r) PROVE \E i \in 1 .. r.to - r.from : e = Events(r)[i]
    <2>1. PICK b \in r.from + 1 .. r.to : e = Cursor(r.gen, b)
      BY DEF Span
    <2>2. b - r.from \in 1 .. r.to - r.from /\ r.from + (b - r.from) = b
      BY <1>1
    <2> QED
      BY <1>1, <2>1, <2>2
  <1> QED
    BY <1>2, <1>3, <1>4, <1>5

\* How many events a range has.
LEMMA SpanSize ==
    ASSUME NEW r \in ByteRanges, r.from < r.to
    PROVE  IsFiniteSet(Span(r)) /\ Cardinality(Span(r)) = r.to - r.from
  <1> DEFINE I == 1 .. r.to - r.from
  <1>1. r.to - r.from \in Nat
    BY DEF ByteRanges
  <1>2. IsFiniteSet(I) /\ Cardinality(I) = r.to - r.from
    BY <1>1, FS_Interval
  <1>3. Events(r) \in Bijection(I, Span(r))
    <2>1. DOMAIN Events(r) = I /\ Events(r) = [i \in I |-> Events(r)[i]]
      BY DEF Events
    <2>2. Events(r) \in [I -> Span(r)]
      BY <2>1, EventsAre
    <2>3. \A i, k \in I : Events(r)[i] = Events(r)[k] => i = k
      <3> SUFFICES ASSUME NEW i \in I, NEW k \in I, Events(r)[i] = Events(r)[k] PROVE i = k
        OBVIOUS
      <3>1. r.from + i = r.from + k
        BY EventsAre
      <3> QED
        BY <1>1, <3>1 DEF ByteRanges
    <2>4. \A e \in Span(r) : \E i \in I : Events(r)[i] = e
      BY EventsAre
    <2> HIDE DEF I
    <2> QED
      BY <2>2, <2>3, <2>4 DEF Bijection, Injection, Surjection, IsInjective
  <1> HIDE DEF I
  <1> QED
    BY <1>2, <1>3, FS_Bijection DEF ExistsBijection

\* Where a range begins, no event is left out and none is there twice.
LEMMA UpToNext ==
    ASSUME NEW file \in Seq(Nat), NEW c, Within(file, c),
           NEW r, Fits(file, r), Touches(file, c, r)
    PROVE  /\ Within(file, EndOf(r)) /\ Behind(c, EndOf(r)) /\ EndOf(r).byte >= 1
           /\ Span(r) \subseteq Stream(file)
           /\ UpTo(file, EndOf(r)) = UpTo(file, c) \cup Span(r)
           /\ \A d \in UpTo(file, c), e \in Span(r) : Behind(d, e)
           /\ UpTo(file, c) \cap Span(r) = {}
  <1>1. /\ r \in ByteRanges /\ r.gen \in Nat /\ r.from \in Nat /\ r.to \in Nat /\ r.from < r.to
        /\ r.gen \in 1 .. Len(file) /\ r.to <= file[r.gen]
        /\ c \in Cursors /\ c.gen \in Nat /\ c.byte \in Nat
        /\ c.gen \in 1 .. Len(file) /\ c.byte <= file[c.gen]
    BY DEF Fits, Within, ByteRanges, Cursors
  <1>2. /\ Len(file) \in Nat
        /\ \A g \in 1 .. Len(file) : file[g] \in Nat
    BY ElementOfSeq
  <1>3. EndOf(r) \in Cursors /\ EndOf(r).gen = r.gen /\ EndOf(r).byte = r.to
    BY <1>1, EndsAre
  <1>4. \/ c.gen = r.gen /\ c.byte = r.from
        \/ r.from = 0 /\ r.gen = c.gen + 1 /\ c.byte = file[c.gen]
    BY DEF Touches
  <1>5. Behind(c, EndOf(r)) /\ Within(file, EndOf(r)) /\ EndOf(r).byte >= 1
    BY <1>1, <1>2, <1>3, <1>4 DEF Behind, Within
  <1>6. ASSUME NEW e \in Span(r)
        PROVE  e \in Stream(file) /\ ~Behind(EndOf(r), e) /\ Behind(c, e)
    <2>1. e \in Cursors /\ e.gen = r.gen /\ r.from < e.byte /\ e.byte <= r.to /\ e.byte \in Nat
      BY <1>1, SpanIs DEF Cursors
    <2>2. e \in Stream(file)
      <3>1. PICK size \in Nat : size = file[r.gen]
        BY <1>1, <1>2
      <3>2. e.byte >= 1 /\ e.byte <= size
        <4>1. PICK b \in Nat, from \in Nat, to \in Nat : b = e.byte /\ from = r.from /\ to = r.to
          BY <1>1, <2>1
        <4>2. from < b /\ b <= to /\ to <= size
          BY <1>1, <2>1, <3>1, <4>1
        <4>3. b >= 1 /\ b <= size
          BY <4>2
        <4> QED
          BY <4>1, <4>3
      <3>3. e.byte >= 1 /\ e.byte <= file[e.gen] /\ e.gen \in 1 .. Len(file)
        BY <1>1, <2>1, <3>1, <3>2
      <3> QED
        BY <2>1, <3>3, StreamIs
    <2> QED
      BY <1>1, <1>2, <1>3, <1>4, <2>1, <2>2 DEF Behind
  <1>7. ASSUME NEW e \in Stream(file), ~Behind(EndOf(r), e), Behind(c, e)
        PROVE  e \in Span(r)
    <2>1. /\ e \in Cursors /\ e.gen \in Nat /\ e.byte \in Nat /\ e.gen \in 1 .. Len(file)
          /\ e.byte >= 1 /\ e.byte <= file[e.gen]
      BY StreamIs DEF Cursors
    <2>2. e.gen = r.gen /\ r.from < e.byte /\ e.byte <= r.to
      <3>1. /\ ~(r.gen < e.gen \/ (r.gen = e.gen /\ r.to < e.byte))
            /\ c.gen < e.gen \/ (c.gen = e.gen /\ c.byte < e.byte)
        BY <1>3, <1>7 DEF Behind
      <3>2. CASE c.gen = r.gen /\ c.byte = r.from
        BY <1>1, <2>1, <3>1, <3>2
      <3>3. CASE r.from = 0 /\ r.gen = c.gen + 1 /\ c.byte = file[c.gen]
        <4>1. c.gen # e.gen
          BY <1>1, <1>2, <2>1, <3>1, <3>3
        <4> QED
          BY <1>1, <2>1, <3>1, <3>3, <4>1
      <3> QED
        BY <1>4, <3>2, <3>3
    <2> QED
      BY <1>1, <2>1, <2>2, SpanIs
  <1>8. ASSUME NEW e \in UpTo(file, c)
        PROVE  e \in Stream(file) /\ ~Behind(EndOf(r), e) /\ ~Behind(c, e) /\ e \in Cursors
    <2>1. e \in Stream(file) /\ ~Behind(c, e)
      BY DEF UpTo
    <2>2. e \in Cursors
      BY <2>1, StreamIs
    <2> QED
      BY <1>1, <1>3, <1>5, <2>1, <2>2, BehindTransitive, CursorOrder
  <1>9. UpTo(file, EndOf(r)) = UpTo(file, c) \cup Span(r)
    BY <1>6, <1>7, <1>8 DEF UpTo
  <1>10. ASSUME NEW d \in UpTo(file, c), NEW e \in Span(r) PROVE Behind(d, e)
    <2>1. Behind(c, e) /\ ~Behind(c, d) /\ d \in Cursors /\ e \in Cursors
      <3>1. e \in Stream(file)
        BY <1>6
      <3> QED
        BY <1>6, <1>8, <3>1, StreamIs
    <2> QED
      BY <1>1, <2>1, BehindTransitive
  <1>11. UpTo(file, c) \cap Span(r) = {}
    BY <1>6, <1>8
  <1> QED
    BY <1>5, <1>6, <1>9, <1>10, <1>11

\* Before anything is shipped there is nothing up to the cursor.
LEMMA UpToStand ==
    ASSUME NEW file \in Seq(Nat),
           NEW c \in Cursors, c.gen = 0 => c = Cursor(0, 0)
    PROVE  UpTo(file, c) = UpTo(file, Stand(c))
  <1>1. ASSUME NEW e \in Stream(file) PROVE Behind(c, e) <=> Behind(Stand(c), e)
    <2>1. e \in Cursors /\ e.gen >= 1 /\ e.byte >= 1
      BY StreamIs DEF Cursors
    <2> QED
      BY <2>1, StandOrder
  <1> QED
    BY <1>1 DEF UpTo

LEMMA SumMoves ==
    ASSUME NEW all \in Nat, NEW m \in Nat, NEW gone \in Nat, NEW cut \in Nat, NEW left \in Nat,
           all = m + gone, cut + left = m
    PROVE  all = left + (gone + cut)
  OBVIOUS

\* applyAuditRetention on a longer window: what it drops is older than what
\* it keeps.
LEMMA RetainKeeps ==
    ASSUME NEW v \in AuditViews, NEW all, IsFiniteSet(all), v.gaps > 0 <=> v.dropped > 0,
           \A i, k \in 1 .. Len(v.window) : i < k => Behind(v.window[i], v.window[k]),
           Range(v.window) \subseteq all,
           \A e \in all \ Range(v.window), i \in 1 .. Len(v.window) : Behind(e, v.window[i]),
           v.stored = Cardinality(all), v.stored = Len(v.window) + v.dropped
    PROVE  /\ Retain(v) \in AuditViews /\ Retain(v).cursor = v.cursor
           /\ IsNewestOf(Retain(v), all)
  <1>1. /\ v.cursor \in Cursors /\ v.window \in Seq(Cursors) /\ v.stored \in Nat
        /\ v.dropped \in Nat /\ v.gaps \in Nat /\ Len(v.window) \in Nat
        /\ DOMAIN v.window = 1 .. Len(v.window)
        /\ DOMAIN v = {"cursor", "window", "stored", "dropped", "gaps"}
    BY LenProperties DEF AuditViews
  <1>2. Retention \in Nat \ {0}
    BY AuditAssumption
  <1>3. CASE Len(v.window) <= Retention
    <2>1. Retain(v) = v
      BY <1>3 DEF Retain
    <2> QED
      BY <1>1, <1>3, <2>1 DEF IsNewestOf
  <1>4. CASE Len(v.window) > Retention
    <2> DEFINE w == v.window
               m == Len(w)
               cut == m - Retention
               short == SubSeq(w, cut + 1, m)
               u == Retain(v)
    <2>1. cut \in Nat /\ cut > 0 /\ m \in Nat /\ cut + Retention = m /\ cut < m
      BY <1>1, <1>2, <1>4
    <2>2. /\ u = [v EXCEPT !.window = short, !.dropped = @ + cut, !.gaps = @ + 1]
      BY <1>1, <1>2, <1>3, <1>4 DEF Retain
    <2>3. /\ u.cursor = v.cursor /\ u.window = short /\ u.stored = v.stored
          /\ u.dropped = v.dropped + cut /\ u.gaps = v.gaps + 1
          /\ DOMAIN u = {"cursor", "window", "stored", "dropped", "gaps"}
          /\ u = [cursor |-> v.cursor, window |-> short, stored |-> v.stored,
                  dropped |-> v.dropped + cut, gaps |-> v.gaps + 1]
      BY <1>1, <2>2
    <2>4. /\ short \in Seq(Cursors) /\ Len(short) = Retention
          /\ \A i \in 1 .. Retention : short[i] = w[cut + i] /\ cut + i \in 1 .. m
      <3>1. \A i \in cut + 1 .. m : w[i] \in Cursors
        BY <1>1, <2>1, ElementOfSeq
      <3>2. /\ short \in Seq(Cursors) /\ Len(short) = m - (cut + 1) + 1
            /\ \A i \in 1 .. m - (cut + 1) + 1 : short[i] = w[cut + 1 + i - 1]
        <4>1. cut + 1 \in Int /\ m \in Int /\ cut + 1 <= m
          BY <2>1
        <4> QED
          BY <3>1, <4>1, SubSeqProperties
      <3>3. m - (cut + 1) + 1 = Retention
        BY <1>2, <2>1
      <3>4. \A i \in 1 .. Retention : cut + 1 + i - 1 = cut + i /\ cut + i \in 1 .. m
        BY <1>2, <2>1
      <3> QED
        BY <3>2, <3>3, <3>4
    <2> HIDE DEF w, short, u, cut
    <2>5. u \in AuditViews
      BY <1>1, <2>1, <2>3, <2>4 DEF AuditViews
    <2>6. DOMAIN short = 1 .. Retention
      BY <2>4, LenProperties
    <2>7. \A i, k \in DOMAIN short : i < k => Behind(short[i], short[k])
      <3> SUFFICES ASSUME NEW i \in 1 .. Retention, NEW k \in 1 .. Retention, i < k
                   PROVE  Behind(short[i], short[k])
        BY <2>6
      <3>1. cut + i < cut + k /\ cut + i \in 1 .. m /\ cut + k \in 1 .. m
        BY <1>2, <2>1, <2>4
      <3> QED
        BY <2>4, <3>1 DEF w
    <2>8. Range(short) = {w[i] : i \in cut + 1 .. m}
      <3>1. Range(short) = {short[i] : i \in 1 .. Retention}
        BY <2>6 DEF Range
      <3>2. \A i \in 1 .. Retention : short[i] = w[cut + i] /\ cut + i \in cut + 1 .. m
        BY <1>2, <2>1, <2>4
      <3>3. \A k \in cut + 1 .. m : k - cut \in 1 .. Retention /\ w[k] = short[k - cut]
        <4> SUFFICES ASSUME NEW k \in cut + 1 .. m
                     PROVE  k - cut \in 1 .. Retention /\ w[k] = short[k - cut]
          OBVIOUS
        <4>1. k - cut \in 1 .. Retention /\ cut + (k - cut) = k
          BY <1>2, <2>1
        <4> QED
          BY <2>4, <4>1
      <3> QED
        BY <3>1, <3>2, <3>3
    <2>9. Range(w) = {w[i] : i \in 1 .. m}
      BY <1>1 DEF Range, w
    <2>10. Range(short) \subseteq all
      BY <2>1, <2>8, <2>9 DEF w
    <2>11. ASSUME NEW e \in all \ Range(short), NEW i \in DOMAIN short
           PROVE  Behind(e, short[i])
      <3>1. i \in 1 .. Retention /\ short[i] = w[cut + i] /\ cut + i \in 1 .. m
        BY <2>4, <2>6
      <3>2. CASE e \notin Range(w)
        BY <3>1, <3>2 DEF w
      <3>3. CASE e \in Range(w)
        <4>1. PICK k \in 1 .. m : e = w[k]
          BY <2>9, <3>3
        <4>2. k <= cut
          BY <2>1, <2>8, <4>1
        <4>3. k < cut + i
          BY <1>2, <2>1, <3>1, <4>2
        <4> QED
          BY <3>1, <4>1, <4>3 DEF w
      <3> QED
        BY <3>2, <3>3
    <2>12. /\ u.stored = Cardinality(all) /\ u.stored = Len(short) + u.dropped
           /\ u.gaps > 0 <=> u.dropped > 0
      <3>1. u.stored = Cardinality(all)
        BY <2>3
      <3>2. v.stored = m + v.dropped
        BY DEF w
      <3>3. u.stored = Len(short) + u.dropped
        <4>1. cut \in Nat /\ m \in Nat /\ Retention \in Nat /\ v.dropped \in Nat /\ v.stored \in Nat
          BY <1>1, <1>2, <2>1
        <4>2. cut + Retention = m /\ u.dropped = v.dropped + cut /\ u.stored = v.stored
          BY <2>1, <2>3
        <4>3. Len(short) = Retention
          BY <2>4
        <4>4. v.stored = Retention + (v.dropped + cut)
          <5>1. PICK s \in Nat, d \in Nat : s = v.stored /\ d = v.dropped
            BY <4>1
          <5> HIDE DEF m, u, cut, short
          <5>2. s = m + d /\ cut + Retention = m
            BY <3>2, <4>2, <5>1
          <5>3. s = Retention + (d + cut)
            BY <4>1, <5>2, SumMoves
          <5> QED
            BY <5>1, <5>3
        <4> QED
          BY <4>2, <4>3, <4>4
      <3>4. u.gaps > 0 /\ u.dropped > 0
        BY <1>1, <2>1, <2>3
      <3> QED
        BY <3>1, <3>3, <3>4
    <2>13. IsNewestOf(u, all)
      BY <1>2, <2>3, <2>4, <2>7, <2>10, <2>11, <2>12 DEF IsNewestOf
    <2> QED
      BY <2>3, <2>5, <2>13 DEF u
  <1> QED
    BY <1>1, <1>2, <1>3, <1>4

LEMMA ReachedIs ==
    ASSUME NEW c, Reached(c)
    PROVE  c \in Cursors /\ (c.gen = 0 => c = Cursor(0, 0)) /\ (c # Cursor(0, 0) => c.gen >= 1 /\ c.byte >= 1)
  BY DEF Reached, Cursors

LEMMA EmptyKept ==
    ASSUME NEW file \in Seq(Nat), file # <<>>
    PROVE  Kept(file, EmptyView) /\ UpTo(file, EmptyView.cursor) = {}
  <1> DEFINE v == EmptyView
  <1>1. /\ v = [cursor |-> Cursor(0, 0), window |-> <<>>, stored |-> 0, dropped |-> 0, gaps |-> 0]
        /\ Cursor(0, 0) \in Cursors /\ Cursor(0, 0).gen = 0 /\ Cursor(0, 0).byte = 0
    BY CursorsAre DEF EmptyView
  <1>2. v \in AuditViews /\ v.cursor = Cursor(0, 0)
    <2>1. <<>> \in Seq(Cursors)
      OBVIOUS
    <2> QED
      BY <1>1, <2>1 DEF AuditViews
  <1>3. UpTo(file, v.cursor) = {}
    <2>1. \A e \in Stream(file) : Behind(v.cursor, e)
      <3> SUFFICES ASSUME NEW e \in Stream(file) PROVE Behind(v.cursor, e)
        OBVIOUS
      <3>1. e \in Cursors /\ e.gen >= 1
        BY StreamIs DEF Cursors
      <3> QED
        BY <1>1, <1>2, <3>1 DEF Behind, Cursors
    <2> QED
      BY <2>1 DEF UpTo
  <1>4. IsFiniteSet({}) /\ Cardinality({}) = 0
    BY FS_EmptySet
  <1>5. Range(<<>>) = {} /\ Len(<<>>) = 0 /\ DOMAIN <<>> = {}
    BY DEF Range
  <1>6. IsNewestOf(v, {})
    BY <1>1, <1>4, <1>5, AuditAssumption DEF IsNewestOf
  <1>7. Within(file, Stand(v.cursor))
    <2>1. Len(file) \in Nat /\ Len(file) >= 1 /\ file[1] \in Nat
      BY ElementOfSeq, EmptySeq, LenProperties
    <2>2. Cursor(1, 0) \in Cursors /\ Cursor(1, 0).gen = 1 /\ Cursor(1, 0).byte = 0
      BY CursorsAre
    <2> QED
      BY <1>1, <1>2, <2>1, <2>2 DEF Stand, Within
  <1> QED
    BY <1>1, <1>2, <1>3, <1>4, <1>6, <1>7 DEF Kept, Reached

\* The fields of a view that a new range changes.
Grown(v, w, c, k) == [v EXCEPT !.window = w, !.cursor = c, !.stored = @ + k]

LEMMA GrownIs ==
    ASSUME NEW v \in AuditViews, NEW w \in Seq(Cursors), NEW c \in Cursors, NEW k \in Nat
    PROVE  /\ Grown(v, w, c, k) \in AuditViews
           /\ Grown(v, w, c, k).cursor = c /\ Grown(v, w, c, k).window = w
           /\ Grown(v, w, c, k).stored = v.stored + k
           /\ Grown(v, w, c, k).dropped = v.dropped /\ Grown(v, w, c, k).gaps = v.gaps
  <1> DEFINE u == [v EXCEPT !.window = w, !.cursor = c, !.stored = @ + k]
  <1>1. DOMAIN v = {"cursor", "window", "stored", "dropped", "gaps"}
    BY DEF AuditViews
  <1>2. /\ u.cursor = c /\ u.window = w /\ u.stored = v.stored + k
        /\ u.dropped = v.dropped /\ u.gaps = v.gaps
    BY <1>1
  <1>3. v.stored + k \in Nat /\ v.dropped \in Nat /\ v.gaps \in Nat
    BY DEF AuditViews
  <1>4. DOMAIN u = DOMAIN v /\ u = [f \in DOMAIN u |-> u[f]]
    OBVIOUS
  <1> HIDE DEF u
  <1>5. u = [cursor |-> c, window |-> w, stored |-> v.stored + k, dropped |-> v.dropped, gaps |-> v.gaps]
    BY <1>1, <1>2, <1>4
  <1>6. u \in AuditViews
    BY <1>3, <1>5 DEF AuditViews
  <1> QED
    BY <1>2, <1>6 DEF u, Grown

\* applyAudit on a range that begins where the view is.
LEMMA ApplyNext ==
    ASSUME NEW file \in Seq(Nat), NEW v, Kept(file, v),
           NEW r, Fits(file, r), Touches(file, Stand(v.cursor), r)
    PROVE  Kept(file, ApplyAudit(v, r)) /\ ApplyAudit(v, r).cursor = EndOf(r)
  <1> DEFINE old == UpTo(file, v.cursor)
             all == UpTo(file, EndOf(r))
             ev == Events(r)
             more == Grown(v, v.window \o ev, EndOf(r), r.to - r.from)
  <1>1. /\ v.cursor \in Cursors /\ v.window \in Seq(Cursors) /\ v.stored \in Nat
        /\ v.dropped \in Nat /\ v.gaps \in Nat /\ Len(v.window) \in Nat
        /\ DOMAIN v.window = 1 .. Len(v.window)
        /\ DOMAIN v = {"cursor", "window", "stored", "dropped", "gaps"}
        /\ v.cursor.gen = 0 => v.cursor = Cursor(0, 0)
        /\ Within(file, Stand(v.cursor))
        /\ IsFiniteSet(old) /\ IsNewestOf(v, old)
    BY LenProperties, ReachedIs DEF Kept, AuditViews
  <1>2. r \in ByteRanges /\ r.from \in Nat /\ r.to \in Nat /\ r.from < r.to /\ r.gen >= 1 /\ r.gen \in Nat
    BY DEF Fits, ByteRanges
  <1>3. UpTo(file, v.cursor) = UpTo(file, Stand(v.cursor))
    BY <1>1, UpToStand
  <1>4. /\ Within(file, EndOf(r)) /\ Behind(Stand(v.cursor), EndOf(r)) /\ EndOf(r).byte >= 1
        /\ Span(r) \subseteq Stream(file) /\ all = old \cup Span(r)
        /\ \A d \in old, e \in Span(r) : Behind(d, e)
        /\ old \cap Span(r) = {}
    BY <1>1, <1>3, UpToNext
  <1>5. EndOf(r) \in Cursors /\ EndOf(r).gen >= 1
    BY <1>2, EndsAre
  <1>6. Behind(v.cursor, EndOf(r))
    BY <1>1, <1>4, <1>5, StandOrder
  <1>7. ApplyAudit(v, r) = Retain(more)
    BY <1>6, AfterIsBehind DEF ApplyAudit, Grown
  <1>8. /\ ev \in Seq(Cursors) /\ Len(ev) = r.to - r.from
        /\ \A i \in 1 .. r.to - r.from : ev[i] \in Span(r) /\ ev[i].byte = r.from + i
        /\ \A e \in Span(r) : \E i \in 1 .. r.to - r.from : e = ev[i]
    BY <1>2, EventsAre
  <1>9. IsFiniteSet(Span(r)) /\ Cardinality(Span(r)) = r.to - r.from
    BY <1>2, SpanSize
  <1>10. IsFiniteSet(all) /\ Cardinality(all) = Cardinality(old) + (r.to - r.from)
    <2>1. /\ IsFiniteSet(old \cup Span(r))
          /\ Cardinality(old \cup Span(r)) =
                Cardinality(old) + Cardinality(Span(r)) - Cardinality(old \cap Span(r))
      BY <1>1, <1>9, FS_Union
    <2>2. Cardinality(old \cap Span(r)) = 0
      BY <1>4, FS_EmptySet
    <2>3. Cardinality(old) \in Nat
      BY <1>1, FS_CardinalityType
    <2> QED
      BY <1>2, <1>4, <1>9, <2>1, <2>2, <2>3
  <1> HIDE DEF old, all, ev
  <1>11. /\ more \in AuditViews
         /\ more.window = v.window \o ev /\ more.cursor = EndOf(r)
         /\ more.stored = v.stored + (r.to - r.from)
         /\ more.dropped = v.dropped /\ more.gaps = v.gaps
    <2>1. v \in AuditViews
      BY DEF Kept
    <2>2. v.window \o ev \in Seq(Cursors)
      BY <1>1, <1>8, ConcatProperties
    <2>3. r.to - r.from \in Nat
      BY <1>2
    <2> DEFINE wider == v.window \o ev
               size == r.to - r.from
               end == EndOf(r)
    <2>4. wider \in Seq(Cursors) /\ size \in Nat /\ end \in Cursors
      BY <1>5, <2>2, <2>3
    <2> HIDE DEF wider, size, end
    <2>5. /\ Grown(v, wider, end, size) \in AuditViews
          /\ Grown(v, wider, end, size).cursor = end /\ Grown(v, wider, end, size).window = wider
          /\ Grown(v, wider, end, size).stored = v.stored + size
          /\ Grown(v, wider, end, size).dropped = v.dropped /\ Grown(v, wider, end, size).gaps = v.gaps
      BY <2>1, <2>4, GrownIs
    <2> QED
      BY <2>5 DEF wider, size, end
  <1> HIDE DEF more
  <1> DEFINE w == v.window
             m == Len(w)
             k == r.to - r.from
             wide == w \o ev
  <1>12. m \in Nat /\ k \in Nat /\ k > 0 /\ w \in Seq(Cursors) /\ DOMAIN w = 1 .. m
    BY <1>1, <1>2
  <1>13. /\ wide \in Seq(Cursors) /\ Len(wide) = m + k
         /\ \A i \in 1 .. m + k : wide[i] = IF i <= m THEN w[i] ELSE ev[i - m]
    <2>1. /\ w \o ev \in Seq(Cursors) /\ Len(w \o ev) = Len(w) + Len(ev)
          /\ \A i \in 1 .. Len(w) + Len(ev) : (w \o ev)[i] = IF i <= Len(w) THEN w[i] ELSE ev[i - Len(w)]
      BY <1>8, <1>12, ConcatProperties
    <2>2. Len(w) = m /\ Len(ev) = k
      BY <1>8
    <2> HIDE DEF w, m, k
    <2> QED
      BY <2>1, <2>2
  <1>14. /\ m <= Retention /\ Range(w) \subseteq old
         /\ \A i, j \in 1 .. m : i < j => Behind(w[i], w[j])
         /\ \A e \in old \ Range(w), i \in 1 .. m : Behind(e, w[i])
         /\ v.stored = Cardinality(old) /\ v.stored = m + v.dropped
         /\ v.gaps > 0 <=> v.dropped > 0
    BY <1>1, <1>12 DEF IsNewestOf
  <1> HIDE DEF w, m, k, wide
  <1>15. \A i \in 1 .. m : wide[i] = w[i] /\ wide[i] \in old /\ i \in 1 .. m + k
    <2> SUFFICES ASSUME NEW i \in 1 .. m
                 PROVE  wide[i] = w[i] /\ wide[i] \in old /\ i \in 1 .. m + k
      OBVIOUS
    <2>1. i \in 1 .. m + k /\ i <= m
      BY <1>12
    <2>2. wide[i] = w[i]
      BY <1>13, <2>1
    <2>3. w[i] \in Range(w)
      BY <1>12 DEF Range
    <2> QED
      BY <1>14, <2>1, <2>2, <2>3
  <1>16. \A i \in m + 1 .. m + k :
            wide[i] = ev[i - m] /\ i - m \in 1 .. k /\ wide[i] \in Span(r) /\ i \in 1 .. m + k
    <2> SUFFICES ASSUME NEW i \in m + 1 .. m + k
                 PROVE  wide[i] = ev[i - m] /\ i - m \in 1 .. k /\ wide[i] \in Span(r) /\ i \in 1 .. m + k
      OBVIOUS
    <2>1. i \in 1 .. m + k /\ ~(i <= m) /\ i - m \in 1 .. k
      BY <1>12
    <2>2. wide[i] = ev[i - m]
      BY <1>13, <2>1
    <2>3. ev[i - m] \in Span(r)
      BY <1>8, <2>1 DEF k
    <2> QED
      BY <2>1, <2>2, <2>3
  <1>17. \A i, j \in 1 .. m + k : i < j => Behind(wide[i], wide[j])
    <2> SUFFICES ASSUME NEW i \in 1 .. m + k, NEW j \in 1 .. m + k, i < j
                 PROVE  Behind(wide[i], wide[j])
      OBVIOUS
    <2>1. CASE j <= m
      <3>1. i \in 1 .. m /\ j \in 1 .. m
        BY <1>12, <2>1
      <3> QED
        BY <1>14, <1>15, <3>1
    <2>2. CASE i <= m /\ j > m
      <3>1. i \in 1 .. m /\ j \in m + 1 .. m + k
        BY <1>12, <2>2
      <3> QED
        BY <1>4, <1>15, <1>16, <3>1
    <2>3. CASE i > m /\ j > m
      <3>1. i \in m + 1 .. m + k /\ j \in m + 1 .. m + k
        BY <1>12, <2>3
      <3>2. /\ wide[i] \in Span(r) /\ wide[i] = ev[i - m] /\ i - m \in 1 .. k
            /\ wide[j] \in Span(r) /\ wide[j] = ev[j - m] /\ j - m \in 1 .. k
        BY <1>16, <3>1
      <3>3. wide[i].byte = r.from + (i - m) /\ wide[j].byte = r.from + (j - m)
        BY <1>8, <3>2 DEF k
      <3>4. wide[i].gen = r.gen /\ wide[j].gen = r.gen
        BY <1>2, <3>2, SpanIs
      <3> QED
        BY <1>2, <1>12, <3>3, <3>4 DEF Behind
    <2> QED
      BY <1>12, <2>1, <2>2, <2>3
  <1>18. Range(wide) = Range(w) \cup Span(r)
    <2>1. DOMAIN wide = 1 .. m + k
      BY <1>13, LenProperties
    <2>2. \A i \in 1 .. m + k : wide[i] \in Range(w) \cup Span(r)
      <3> SUFFICES ASSUME NEW i \in 1 .. m + k PROVE wide[i] \in Range(w) \cup Span(r)
        OBVIOUS
      <3>1. CASE i <= m
        <4>1. i \in 1 .. m
          BY <1>12, <3>1
        <4> QED
          BY <1>12, <1>15, <4>1 DEF Range
      <3>2. CASE i > m
        <4>1. i \in m + 1 .. m + k
          BY <1>12, <3>2
        <4> QED
          BY <1>16, <4>1
      <3> QED
        BY <1>12, <3>1, <3>2
    <2>3. ASSUME NEW e \in Range(w) PROVE e \in Range(wide)
      <3>1. PICK i \in 1 .. m : e = w[i]
        BY <1>12 DEF Range
      <3> QED
        BY <1>15, <2>1, <3>1 DEF Range
    <2>4. ASSUME NEW e \in Span(r) PROVE e \in Range(wide)
      <3>1. PICK i \in 1 .. k : e = ev[i]
        BY <1>8 DEF k
      <3>2. i + m \in m + 1 .. m + k /\ (i + m) - m = i
        BY <1>12
      <3>3. wide[i + m] = e /\ i + m \in 1 .. m + k
        BY <1>16, <3>1, <3>2
      <3> QED
        BY <2>1, <3>3 DEF Range
    <2> QED
      BY <2>1, <2>2, <2>3, <2>4 DEF Range
  <1>19. ASSUME NEW e \in all \ Range(wide), NEW i \in 1 .. m + k PROVE Behind(e, wide[i])
    <2>1. e \in old \ Range(w)
      BY <1>4, <1>18, <1>19
    <2>2. CASE i <= m
      <3>1. i \in 1 .. m
        BY <1>12, <2>2
      <3> QED
        BY <1>14, <1>15, <2>1, <3>1
    <2>3. CASE i > m
      <3>1. i \in m + 1 .. m + k
        BY <1>12, <2>3
      <3> QED
        BY <1>4, <1>16, <2>1, <3>1
    <2> QED
      BY <1>12, <2>2, <2>3
  <1>20. more \in AuditViews
    BY <1>11
  <1>21. Range(wide) \subseteq all
    BY <1>4, <1>14, <1>18
  <1>22. more.stored = Cardinality(all) /\ more.stored = Len(wide) + more.dropped
    <2>1. more.stored = v.stored + k /\ Cardinality(all) = Cardinality(old) + k
      BY <1>10, <1>11 DEF k
    <2>2. Len(wide) = m + k /\ v.stored = m + v.dropped /\ v.stored = Cardinality(old)
      BY <1>13, <1>14
    <2> QED
      BY <1>1, <1>11, <1>12, <2>1, <2>2
  <1>23. more.window = wide
    BY <1>11 DEF wide, w
  <1>24. /\ Retain(more) \in AuditViews /\ Retain(more).cursor = more.cursor
         /\ IsNewestOf(Retain(more), all)
    <2>1. \A i, j \in 1 .. Len(more.window) : i < j => Behind(more.window[i], more.window[j])
      BY <1>13, <1>17, <1>23
    <2>2. Range(more.window) \subseteq all
      BY <1>21, <1>23
    <2>3. \A e \in all \ Range(more.window), i \in 1 .. Len(more.window) : Behind(e, more.window[i])
      BY <1>13, <1>19, <1>23
    <2>4. more.stored = Cardinality(all) /\ more.stored = Len(more.window) + more.dropped
      BY <1>22, <1>23
    <2>5. more.gaps > 0 <=> more.dropped > 0
      BY <1>11, <1>14
    <2> QED
      BY <1>10, <1>20, <2>1, <2>2, <2>3, <2>4, <2>5, RetainKeeps
  <1>25. Retain(more).cursor = EndOf(r) /\ EndOf(r).gen # 0
    BY <1>5, <1>11, <1>24
  <1>27. Reached(EndOf(r))
    BY <1>4, <1>5 DEF Reached
  <1>26. Within(file, Stand(EndOf(r)))
    BY <1>4, <1>25 DEF Stand
  <1> QED
    BY <1>7, <1>10, <1>24, <1>25, <1>26, <1>27 DEF Kept, all

\* applyAudit on a range the view has.
LEMMA ApplyOld ==
    ASSUME NEW v, NEW r, ~Behind(v.cursor, EndOf(r))
    PROVE  ApplyAudit(v, r) = v
  BY AfterIsBehind DEF ApplyAudit

-----------------------------------------------------------------------------
(* Lemmas about a log that grows *)

\* more is file after the edge wrote to it, or rotated it.
Longer(file, more) ==
    /\ Len(file) <= Len(more) /\ file[Len(file)] <= more[Len(file)]
    /\ \A g \in 1 .. Len(file) - 1 : more[g] = file[g]

LEMMA LongerIs ==
    ASSUME NEW file \in Seq(Nat), file # <<>>, NEW more \in Seq(Nat), Longer(file, more)
    PROVE  /\ Len(file) \in Nat /\ Len(file) >= 1 /\ Len(more) \in Nat
           /\ \A g \in 1 .. Len(file) :
                 /\ g \in 1 .. Len(more) /\ file[g] \in Nat /\ more[g] \in Nat
                 /\ file[g] <= more[g] /\ (g < Len(file) => more[g] = file[g])
  <1>1. Len(file) \in Nat /\ Len(file) >= 1 /\ Len(more) \in Nat /\ Len(file) <= Len(more)
    BY EmptySeq, LenProperties DEF Longer
  <1>2. ASSUME NEW g \in 1 .. Len(file)
        PROVE  /\ g \in 1 .. Len(more) /\ file[g] \in Nat /\ more[g] \in Nat
               /\ file[g] <= more[g] /\ (g < Len(file) => more[g] = file[g])
    <2>1. g \in 1 .. Len(more)
      BY <1>1
    <2>2. file[g] \in Nat /\ more[g] \in Nat
      BY <2>1, ElementOfSeq
    <2>3. CASE g = Len(file)
      BY <2>1, <2>2, <2>3 DEF Longer
    <2>4. CASE g # Len(file)
      <3>1. g \in 1 .. Len(file) - 1
        BY <1>1, <2>4
      <3> QED
        BY <2>1, <2>2, <3>1 DEF Longer
    <2> QED
      BY <2>3, <2>4
  <1> QED
    BY <1>1, <1>2

\* What is new in it comes after all that was there.
LEMMA LongerStream ==
    ASSUME NEW file \in Seq(Nat), file # <<>>, NEW more \in Seq(Nat), Longer(file, more)
    PROVE  /\ Stream(file) \subseteq Stream(more)
           /\ \A c : Within(file, c) =>
                 /\ Within(more, c) /\ UpTo(more, c) = UpTo(file, c)
                 /\ \A e \in Stream(more) \ Stream(file) : Behind(c, e)
  <1>1. /\ Len(file) \in Nat /\ Len(file) >= 1 /\ Len(more) \in Nat
        /\ \A g \in 1 .. Len(file) :
              /\ g \in 1 .. Len(more) /\ file[g] \in Nat /\ more[g] \in Nat
              /\ file[g] <= more[g] /\ (g < Len(file) => more[g] = file[g])
    BY LongerIs
  <1>2. ASSUME NEW e \in Stream(file) PROVE e \in Stream(more)
    <2>1. e \in Cursors /\ e.gen \in 1 .. Len(file) /\ e.byte >= 1 /\ e.byte <= file[e.gen]
      BY StreamIs
    <2>2. e.byte \in Nat
      BY <2>1 DEF Cursors
    <2>3. e.gen \in 1 .. Len(more) /\ e.byte <= more[e.gen]
      BY <1>1, <2>1, <2>2
    <2> QED
      BY <2>1, <2>3, StreamIs
  <1>3. ASSUME NEW c, Within(file, c), NEW e \in Stream(more) \ Stream(file) PROVE Behind(c, e)
    <2>1. e \in Cursors /\ e.gen \in 1 .. Len(more) /\ e.byte >= 1 /\ e.byte <= more[e.gen]
      BY StreamIs
    <2>2. e.gen \in Nat /\ e.byte \in Nat /\ c.gen \in Nat /\ c.byte \in Nat
      BY <1>3, <2>1 DEF Within, Cursors
    <2>3. c.gen \in 1 .. Len(file) /\ c.byte <= file[c.gen]
      BY <1>3 DEF Within
    <2>4. e.gen \in 1 .. Len(file) => file[e.gen] < e.byte
      <3> SUFFICES ASSUME e.gen \in 1 .. Len(file), ~(file[e.gen] < e.byte) PROVE FALSE
        OBVIOUS
      <3>1. file[e.gen] \in Nat
        BY <1>1
      <3>2. e.byte <= file[e.gen]
        BY <2>2, <3>1
      <3> QED
        BY <2>1, <3>2, StreamIs
    <2>5. CASE e.gen \in 1 .. Len(file)
      <3>1. ASSUME e.gen < Len(file) PROVE FALSE
        <4>1. more[e.gen] = file[e.gen] /\ file[e.gen] \in Nat
          BY <1>1, <2>5, <3>1
        <4> QED
          BY <2>1, <2>2, <2>4, <2>5, <4>1
      <3>2. e.gen = Len(file)
        <4>1. Len(file) \in Nat /\ e.gen <= Len(file)
          BY <1>1, <2>2, <2>5
        <4> QED
          BY <2>2, <3>1, <4>1
      <3>3. c.gen < e.gen \/ c.gen = e.gen
        BY <1>1, <2>2, <2>3, <3>2
      <3>4. c.gen = e.gen => c.byte < e.byte
        BY <1>1, <2>2, <2>3, <2>4, <2>5
      <3> QED
        BY <3>3, <3>4 DEF Behind
    <2>6. CASE e.gen \notin 1 .. Len(file)
      <3>1. c.gen < e.gen
        BY <1>1, <2>1, <2>2, <2>3, <2>6
      <3> QED
        BY <3>1 DEF Behind
    <2> QED
      BY <2>5, <2>6
  <1>4. ASSUME NEW c, Within(file, c)
        PROVE  Within(more, c) /\ UpTo(more, c) = UpTo(file, c)
    <2>1. Within(more, c)
      BY <1>1, <1>4 DEF Within, Cursors
    <2>2. \A e \in Stream(more) : ~Behind(c, e) => e \in Stream(file)
      BY <1>3, <1>4
    <2> QED
      BY <1>2, <2>1, <2>2 DEF UpTo
  <1> QED
    BY <1>2, <1>3, <1>4

LEMMA LongerFits ==
    ASSUME NEW file \in Seq(Nat), file # <<>>, NEW more \in Seq(Nat), Longer(file, more),
           NEW r, Fits(file, r)
    PROVE  Fits(more, r) /\ \A c : Within(file, c) /\ Touches(file, c, r) => Touches(more, c, r)
  <1>1. /\ Len(file) \in Nat /\ Len(file) >= 1 /\ Len(more) \in Nat
        /\ \A g \in 1 .. Len(file) :
              /\ g \in 1 .. Len(more) /\ file[g] \in Nat /\ more[g] \in Nat
              /\ file[g] <= more[g] /\ (g < Len(file) => more[g] = file[g])
    BY LongerIs
  <1>2. r \in ByteRanges /\ r.gen \in Nat /\ r.to \in Nat /\ r.gen \in 1 .. Len(file) /\ r.to <= file[r.gen]
    BY DEF Fits, ByteRanges
  <1>3. Fits(more, r)
    <2>1. r.gen \in 1 .. Len(more) /\ r.to <= more[r.gen]
      BY <1>1, <1>2
    <2> QED
      BY <2>1 DEF Fits
  <1>4. ASSUME NEW c, Within(file, c), Touches(file, c, r) PROVE Touches(more, c, r)
    <2>1. c.gen \in Nat /\ c.gen \in 1 .. Len(file)
      BY <1>4 DEF Within, Cursors
    <2>2. r.gen = c.gen + 1 => more[c.gen] = file[c.gen]
      <3> SUFFICES ASSUME r.gen = c.gen + 1 PROVE more[c.gen] = file[c.gen]
        OBVIOUS
      <3>1. c.gen < Len(file)
        BY <1>1, <1>2, <2>1
      <3> QED
        BY <1>1, <2>1, <3>1
    <2> QED
      BY <1>4, <2>2 DEF Touches
  <1> QED
    BY <1>3, <1>4

LEMMA LongerKept ==
    ASSUME NEW file \in Seq(Nat), file # <<>>, NEW more \in Seq(Nat), Longer(file, more),
           NEW v, Kept(file, v)
    PROVE  Kept(more, v) /\ UpTo(more, v.cursor) = UpTo(file, v.cursor)
  <1>1. v.cursor \in Cursors /\ (v.cursor.gen = 0 => v.cursor = Cursor(0, 0))
    BY ReachedIs DEF Kept, AuditViews
  <1>2. UpTo(file, v.cursor) = UpTo(file, Stand(v.cursor)) /\ UpTo(more, v.cursor) = UpTo(more, Stand(v.cursor))
    BY <1>1, UpToStand
  <1>3. Within(more, Stand(v.cursor)) /\ UpTo(more, Stand(v.cursor)) = UpTo(file, Stand(v.cursor))
    BY LongerStream DEF Kept
  <1> QED
    BY <1>2, <1>3 DEF Kept

\* Every rung of a ladder is within the file.
LEMMA RungsAre ==
    ASSUME NEW file \in Seq(Nat), NEW foot, NEW want, Ladder(file, foot, want),
           NEW i \in 0 .. Len(want)
    PROVE  Within(file, Rung(foot, want, i)) /\ Rung(foot, want, i) \in Cursors
  <1>1. CASE i = 0
    BY <1>1 DEF Ladder, Rung, Within
  <1>2. CASE i # 0
    <2>1. i \in 1 .. Len(want)
      BY <1>2, LenProperties DEF Ladder
    <2>2. Fits(file, want[i]) /\ want[i] \in ByteRanges
      BY <2>1 DEF Ladder, Fits
    <2>3. EndOf(want[i]) \in Cursors /\ EndOf(want[i]).gen = want[i].gen /\ EndOf(want[i]).byte = want[i].to
      BY <2>2, EndsAre
    <2>4. Within(file, EndOf(want[i]))
      BY <2>2, <2>3 DEF Fits, Within
    <2> QED
      BY <1>2, <2>3, <2>4 DEF Rung
  <1> QED
    BY <1>1, <1>2

LEMMA LongerClimbing ==
    ASSUME NEW file \in Seq(Nat), file # <<>>, NEW more \in Seq(Nat), Longer(file, more),
           NEW at, NEW want, NEW held, NEW found, Climbing(file, at, want, held, found)
    PROVE  Climbing(more, at, want, held, found)
  <1>1. PICK foot \in Cursors, a \in Nat, b \in Nat, c \in Nat :
           Ladder(file, foot, want) /\ Climbed(at, want, held, found, foot, a, b, c)
    BY DEF Climbing
  <1>2. Within(more, foot)
    BY <1>1, LongerStream DEF Ladder
  <1>3. ASSUME NEW i \in 1 .. Len(want)
        PROVE  Fits(more, want[i]) /\ Touches(more, Rung(foot, want, i - 1), want[i])
    <2>1. Fits(file, want[i]) /\ Touches(file, Rung(foot, want, i - 1), want[i])
      BY <1>1 DEF Ladder
    <2>2. i - 1 \in 0 .. Len(want)
      BY <1>1, LenProperties DEF Ladder
    <2>3. Within(file, Rung(foot, want, i - 1))
      BY <1>1, <2>2, RungsAre
    <2> QED
      BY <2>1, <2>3, LongerFits
  <1>4. Ladder(more, foot, want)
    BY <1>1, <1>2, <1>3 DEF Ladder
  <1> QED
    BY <1>1, <1>4 DEF Climbing

LEMMA LongerLogs ==
    ASSUME NEW file \in Seq(Nat), file # <<>>, NEW more \in Seq(Nat), Longer(file, more),
           NEW records, Logs(file, records), Kept(file, Replay(records))
    PROVE  Logs(more, records)
  <1>1. UpTo(more, Replay(records).cursor) = UpTo(file, Replay(records).cursor)
    BY LongerKept
  <1>2. \A i \in 1 .. Len(records) : Fits(more, records[i])
    BY LongerFits DEF Logs
  <1> QED
    BY <1>1, <1>2 DEF Logs

LEMMA LongerPosted ==
    ASSUME NEW file \in Seq(Nat), file # <<>>, NEW more \in Seq(Nat), Longer(file, more),
           NEW at, NEW want, NEW ranges, Posted(file, at, want, ranges)
    PROVE  Posted(more, at, want, ranges)
  <1>1. \A i \in 1 .. Len(ranges) : Fits(more, ranges[i])
    BY LongerFits DEF Posted
  <1> QED
    BY <1>1 DEF Posted

-----------------------------------------------------------------------------
(* Lemmas about the ladder *)

LEMMA LadderOrder ==
    ASSUME NEW file \in Seq(Nat), NEW foot, NEW want, Ladder(file, foot, want),
           NEW i \in 0 .. Len(want), NEW k \in 0 .. Len(want)
    PROVE  Behind(Rung(foot, want, i), Rung(foot, want, k)) <=> i < k
  <1>1. Rung(foot, want, i) \in Cursors /\ Rung(foot, want, k) \in Cursors
    BY RungsAre
  <1>2. /\ i < k => Behind(Rung(foot, want, i), Rung(foot, want, k))
        /\ k < i => Behind(Rung(foot, want, k), Rung(foot, want, i))
    BY DEF Ladder
  <1>3. i = k => ~Behind(Rung(foot, want, i), Rung(foot, want, k))
    BY <1>1, CursorOrder
  <1>4. k < i => ~Behind(Rung(foot, want, i), Rung(foot, want, k))
    BY <1>1, <1>2, CursorOrder
  <1>5. i < k \/ i = k \/ k < i
    BY LenProperties DEF Ladder
  <1> QED
    BY <1>2, <1>3, <1>4, <1>5

\* What begins where the edge stands: one range, or two.
LEMMA OneRung ==
    ASSUME NEW file \in Seq(Nat), NEW foot, Within(file, foot),
           NEW r, Fits(file, r), Touches(file, foot, r)
    PROVE  Ladder(file, foot, <<r>>) /\ <<r>> # <<>>
  <1> DEFINE want == <<r>>
  <1>1. r \in ByteRanges
    BY DEF Fits
  <1>2. want \in Seq(ByteRanges) /\ Len(want) = 1 /\ want[1] = r /\ want # <<>>
    BY <1>1
  <1> HIDE DEF want
  <1>3. Rung(foot, want, 0) = foot /\ Rung(foot, want, 1) = EndOf(r)
    BY <1>2 DEF Rung
  <1>4. Behind(foot, EndOf(r))
    BY UpToNext
  <1>5. \A i, k \in 0 .. Len(want) : i < k => Behind(Rung(foot, want, i), Rung(foot, want, k))
    <2> SUFFICES ASSUME NEW i \in 0 .. 1, NEW k \in 0 .. 1, i < k
                 PROVE  Behind(Rung(foot, want, i), Rung(foot, want, k))
      BY <1>2
    <2>1. i = 0 /\ k = 1
      OBVIOUS
    <2> QED
      BY <1>3, <1>4, <2>1
  <1>6. \A i \in 1 .. Len(want) : Fits(file, want[i]) /\ Touches(file, Rung(foot, want, i - 1), want[i])
    <2> SUFFICES ASSUME NEW i \in 1 .. 1
                 PROVE  Fits(file, want[i]) /\ Touches(file, Rung(foot, want, i - 1), want[i])
      BY <1>2
    <2>1. i = 1 /\ i - 1 = 0
      OBVIOUS
    <2> QED
      BY <1>2, <1>3, <2>1
  <1>7. Ladder(file, foot, want)
    BY <1>2, <1>5, <1>6 DEF Ladder
  <1> QED
    BY <1>2, <1>7 DEF want

LEMMA TwoRungs ==
    ASSUME NEW file \in Seq(Nat), NEW foot, Within(file, foot),
           NEW r, Fits(file, r), Touches(file, foot, r),
           NEW s, Fits(file, s), Touches(file, EndOf(r), s)
    PROVE  Ladder(file, foot, <<r, s>>) /\ <<r, s>> # <<>>
  <1> DEFINE want == <<r, s>>
  <1>1. r \in ByteRanges /\ s \in ByteRanges
    BY DEF Fits
  <1>2. /\ want \in Seq(ByteRanges) /\ Len(want) = 2 /\ want # <<>>
        /\ want[1] = r /\ want[2] = s
    BY <1>1
  <1> HIDE DEF want
  <1>3. /\ Rung(foot, want, 0) = foot /\ Rung(foot, want, 1) = EndOf(r)
        /\ Rung(foot, want, 2) = EndOf(s)
    BY <1>2 DEF Rung
  <1>4. Behind(foot, EndOf(r)) /\ Within(file, EndOf(r))
    BY UpToNext
  <1>5. Behind(EndOf(r), EndOf(s)) /\ Within(file, EndOf(s))
    BY <1>4, UpToNext
  <1>6. Behind(foot, EndOf(s))
    <2>1. foot \in Cursors /\ EndOf(r) \in Cursors /\ EndOf(s) \in Cursors
      BY <1>4, <1>5 DEF Within
    <2> QED
      BY <1>4, <1>5, <2>1, BehindTransitive
  <1>7. \A i, k \in 0 .. Len(want) : i < k => Behind(Rung(foot, want, i), Rung(foot, want, k))
    <2> SUFFICES ASSUME NEW i \in 0 .. 2, NEW k \in 0 .. 2, i < k
                 PROVE  Behind(Rung(foot, want, i), Rung(foot, want, k))
      BY <1>2
    <2>1. (i = 0 /\ k = 1) \/ (i = 0 /\ k = 2) \/ (i = 1 /\ k = 2)
      OBVIOUS
    <2> QED
      BY <1>3, <1>4, <1>5, <1>6, <2>1
  <1>8. \A i \in 1 .. Len(want) : Fits(file, want[i]) /\ Touches(file, Rung(foot, want, i - 1), want[i])
    <2> SUFFICES ASSUME NEW i \in 1 .. 2
                 PROVE  Fits(file, want[i]) /\ Touches(file, Rung(foot, want, i - 1), want[i])
      BY <1>2
    <2>1. (i = 1 /\ i - 1 = 0) \/ (i = 2 /\ i - 1 = 1)
      OBVIOUS
    <2> QED
      BY <1>2, <1>3, <2>1
  <1>9. Ladder(file, foot, want)
    BY <1>2, <1>7, <1>8 DEF Ladder
  <1> QED
    BY <1>2, <1>9 DEF want

LEMMA RangesAre ==
    ASSUME NEW n \in Nodes, files[n] \in Seq(Nat), NEW c, Within(files[n], c),
           NEW r \in RangesAt(n, c)
    PROVE  Fits(files[n], r) /\ Touches(files[n], c, r)
  <1> DEFINE file == files[n]
  <1>1. /\ c.gen \in Nat /\ c.byte \in Nat /\ c.gen \in 1 .. Len(file) /\ Len(file) \in Nat
        /\ \A g \in 1 .. Len(file) : file[g] \in Nat
    BY ElementOfSeq DEF Within, Cursors
  <1>2. CASE c.byte < file[c.gen]
    <2>1. PICK to \in c.byte + 1 .. file[c.gen] : r = ByteRange(c.gen, c.byte, to)
      BY <1>2 DEF RangesAt
    <2>2. to \in Nat /\ c.byte < to /\ to <= file[c.gen]
      BY <1>1, <2>1
    <2>3. r \in ByteRanges /\ r.gen = c.gen /\ r.from = c.byte /\ r.to = to
      BY <1>1, <2>1, <2>2 DEF ByteRange, ByteRanges
    <2> QED
      BY <1>1, <2>2, <2>3 DEF Fits, Touches
  <1>3. CASE ~(c.byte < file[c.gen])
    <2>1. c.gen < Len(file) /\ r \in {ByteRange(c.gen + 1, 0, to) : to \in 1 .. file[c.gen + 1]}
      BY <1>3 DEF RangesAt
    <2>2. PICK to \in 1 .. file[c.gen + 1] : r = ByteRange(c.gen + 1, 0, to)
      BY <2>1
    <2>3. c.gen + 1 \in 1 .. Len(file) /\ file[c.gen + 1] \in Nat
      <3>1. c.gen + 1 \in 1 .. Len(file)
        <4> HIDE DEF file
        <4> QED
          BY <1>1, <2>1
      <3> QED
        BY <3>1, ElementOfSeq
    <2>4. to \in Nat /\ 0 < to /\ to <= file[c.gen + 1]
      BY <2>2, <2>3
    <2>5. r \in ByteRanges /\ r.gen = c.gen + 1 /\ r.from = 0 /\ r.to = to
      BY <1>1, <2>2, <2>4 DEF ByteRange, ByteRanges
    <2>6. c.byte = file[c.gen]
      BY <1>1, <1>3 DEF Within
    <2> QED
      BY <2>3, <2>4, <2>5, <2>6 DEF Fits, Touches
  <1> QED
    BY <1>2, <1>3

LEMMA PostsAre ==
    ASSUME NEW n \in Nodes, files[n] \in Seq(Nat), NEW c, Within(files[n], c),
           NEW ranges \in PostsAt(n, c)
    PROVE  Ladder(files[n], c, ranges) /\ ranges # <<>>
  <1>1. CASE ranges \in {<<r>> : r \in RangesAt(n, c)}
    <2>1. PICK r \in RangesAt(n, c) : ranges = <<r>>
      BY <1>1
    <2>2. Fits(files[n], r) /\ Touches(files[n], c, r)
      BY RangesAre
    <2>3. Ladder(files[n], c, <<r>>) /\ <<r>> # <<>>
      BY <2>2, OneRung
    <2> QED
      BY <2>1, <2>3
  <1>2. CASE ranges \notin {<<r>> : r \in RangesAt(n, c)}
    <2> DEFINE one == {<<r>> : r \in RangesAt(n, c)}
    <2>1. PICK rs \in one : ranges \in {<<rs[1], s>> : s \in RangesAt(n, EndOf(rs[1]))}
      BY <1>2 DEF PostsAt
    <2>2. PICK r \in RangesAt(n, c) : rs = <<r>>
      BY <2>1
    <2>3. rs[1] = r
      BY <2>2
    <2>4. PICK s \in RangesAt(n, EndOf(r)) : ranges = <<r, s>>
      BY <2>1, <2>3
    <2>5. Fits(files[n], r) /\ Touches(files[n], c, r)
      BY RangesAre
    <2>6. Within(files[n], EndOf(r))
      BY <2>5, UpToNext
    <2>7. Fits(files[n], s) /\ Touches(files[n], EndOf(r), s)
      BY <2>6, RangesAre
    <2>8. Ladder(files[n], c, <<r, s>>) /\ <<r, s>> # <<>>
      BY <2>5, <2>7, TwoRungs
    <2> QED
      BY <2>4, <2>8
  <1> QED
    BY <1>1, <1>2

\* An edge that wants no answer stands where the center does.
LEMMA Sent ==
    ASSUME NEW file \in Seq(Nat), NEW at, NEW held, NEW found,
           Climbing(file, at, <<>>, held, found),
           NEW ranges, ranges # <<>>, Ladder(file, at, ranges)
    PROVE  Climbing(file, at, ranges, held, found)
  <1>1. PICK foot \in Cursors, a \in Nat, b \in Nat, c \in Nat :
           Ladder(file, foot, <<>>) /\ Climbed(at, <<>>, held, found, foot, a, b, c)
    BY DEF Climbing
  <1>2. a = 0 /\ b = 0 /\ c = 0
    <2>1. Len(<<>>) = 0
      OBVIOUS
    <2>2. a \in 0 .. 0 /\ b \in a .. 0 /\ c \in b .. 0
      BY <1>1, <2>1 DEF Climbed
    <2> QED
      BY <2>2
  <1>3. at = foot /\ Stand(held) = foot /\ Stand(found) = foot
    BY <1>1, <1>2 DEF Climbed, Rung
  <1>4. Len(ranges) \in Nat /\ Len(ranges) > 0
    <2>1. ranges \in Seq(ByteRanges)
      BY DEF Ladder
    <2> QED
      BY <2>1, EmptySeq, LenProperties
  <1>5. Climbed(at, ranges, held, found, at, 0, 0, 0)
    BY <1>3, <1>4 DEF Climbed, Rung
  <1> QED
    BY <1>1, <1>3, <1>5 DEF Climbing

LEMMA RungEnds ==
    ASSUME NEW file \in Seq(Nat), NEW foot, NEW want, Ladder(file, foot, want),
           NEW i \in 1 .. Len(want)
    PROVE  /\ Rung(foot, want, i) = EndOf(want[i]) /\ i \in 0 .. Len(want)
           /\ EndOf(want[i]) \in Cursors /\ EndOf(want[i]).gen >= 1 /\ EndOf(want[i]).byte >= 1
  <1>1. i \in 0 .. Len(want) /\ i # 0
    BY LenProperties DEF Ladder
  <1>2. Fits(file, want[i])
    BY DEF Ladder
  <1>3. /\ want[i] \in ByteRanges /\ want[i].gen >= 1 /\ want[i].from < want[i].to
        /\ want[i].from \in Nat /\ want[i].to \in Nat
    BY <1>2 DEF Fits, ByteRanges
  <1>4. /\ EndOf(want[i]) \in Cursors /\ EndOf(want[i]).gen = want[i].gen
        /\ EndOf(want[i]).byte = want[i].to
    BY <1>3, EndsAre
  <1> QED
    BY <1>1, <1>3, <1>4 DEF Rung

\* An answer moves the edge up, to where the center has been.
LEMMA Heard ==
    ASSUME NEW file \in Seq(Nat), NEW at, NEW want, NEW held, Reached(held), NEW found,
           Climbing(file, at, want, held, found),
           NEW c, Answers(at, want, held, c), Behind(at, c),
           NEW rest, rest = IF want # <<>> /\ Behind(c, EndOf(Last(want))) THEN want ELSE <<>>
    PROVE  /\ Climbing(file, c, rest, held, found)
           /\ \A d : Answers(at, want, held, d) => Answers(c, rest, held, d)
           /\ \A ranges : Posted(file, at, want, ranges) => Posted(file, c, rest, ranges)
           /\ at \in Cursors
  <1>1. PICK foot \in Cursors, a \in Nat, b \in Nat, k \in Nat :
           Ladder(file, foot, want) /\ Climbed(at, want, held, found, foot, a, b, k)
    BY DEF Climbing
  <1>2. /\ a \in 0 .. Len(want) /\ b \in a .. Len(want) /\ k \in b .. Len(want)
        /\ at = Rung(foot, want, a) /\ Stand(held) = Rung(foot, want, b)
        /\ Stand(found) = Rung(foot, want, k)
        /\ want \in Seq(ByteRanges) /\ Len(want) \in Nat
    BY <1>1 DEF Climbed, Ladder
  <1>3. PICK i \in 1 .. Len(want) : c = EndOf(want[i])
    BY DEF Answers
  <1> DEFINE N == Len(want)
  <1> HIDE DEF N
  <1>4. N \in Nat /\ a \in 0 .. N /\ b \in 0 .. N /\ k \in 0 .. N /\ i \in 0 .. N /\ i >= 1 /\ a <= b /\ b <= k
    BY <1>2, <1>3 DEF N
  <1>5. c = Rung(foot, want, i) /\ c \in Cursors /\ c.gen >= 1 /\ c.byte >= 1
    BY <1>1, <1>3, RungEnds
  <1>6. a < i
    BY <1>1, <1>2, <1>4, <1>5, LadderOrder DEF N
  <1>7. i <= b
    <2>1. ~Behind(Stand(held), c)
      BY <1>5, ReachedIs, StandOrder DEF Answers
    <2>2. ~(b < i)
      BY <1>1, <1>2, <1>4, <1>5, <2>1, LadderOrder DEF N
    <2> QED
      BY <1>4, <2>2
  <1>8. want # <<>> /\ N >= 1 /\ Last(want) = want[N] /\ EndOf(Last(want)) = Rung(foot, want, N)
        /\ N \in 0 .. N /\ N \in 1 .. N
    <2>1. N >= 1
      BY <1>4
    <2>2. want # <<>>
      BY <2>1 DEF N
    <2>3. Last(want) = want[N]
      BY DEF Last, N
    <2>4. N \in 1 .. N /\ N \in 0 .. N
      BY <1>4, <2>1
    <2>5. Rung(foot, want, N) = EndOf(want[N])
      BY <1>1, <2>4, RungEnds DEF N
    <2> QED
      BY <2>1, <2>2, <2>3, <2>4, <2>5
  <1>9. Behind(c, EndOf(Last(want))) <=> i < N
    BY <1>1, <1>4, <1>5, <1>8, LadderOrder DEF N
  <1>10. at \in Cursors
    BY <1>1, <1>2, <1>4, RungsAre DEF N
  <1>11. ASSUME NEW d \in Cursors, ~Behind(at, d) PROVE ~Behind(c, d)
    BY <1>5, <1>10, <1>11, CursorOrder, BehindTransitive
  <1>12. CASE i < N
    <2>1. rest = want
      BY <1>8, <1>9, <1>12
    <2>2. Climbed(c, want, held, found, foot, i, b, k)
      BY <1>2, <1>4, <1>5, <1>7, <1>12 DEF Climbed, N
    <2>3. Climbing(file, c, rest, held, found)
      BY <1>1, <1>4, <2>1, <2>2 DEF Climbing
    <2>4. ASSUME NEW d, Answers(at, want, held, d) PROVE Answers(c, rest, held, d)
      <3>1. d \in Cursors /\ (Behind(c, d) => Behind(at, d))
        BY <1>11, <2>4 DEF Answers
      <3> QED
        BY <2>1, <2>4, <3>1 DEF Answers
    <2>5. ASSUME NEW ranges, Posted(file, at, want, ranges) PROVE Posted(file, c, rest, ranges)
      <3>1. \A j \in 1 .. Len(ranges) : EndOf(ranges[j]) \in Cursors
        BY <2>5, EndsAre DEF Posted, Fits
      <3> QED
        BY <1>11, <2>1, <2>5, <3>1 DEF Posted
    <2> QED
      BY <1>10, <2>3, <2>4, <2>5
  <1>13. CASE ~(i < N)
    <2>1. rest = <<>> /\ i = N /\ b = N /\ k = N
      BY <1>4, <1>7, <1>8, <1>9, <1>13
    <2>2. Ladder(file, c, <<>>)
      <3>1. Within(file, c)
        BY <1>1, <1>4, <1>5, RungsAre DEF N
      <3>2. <<>> \in Seq(ByteRanges) /\ Len(<<>>) = 0
        OBVIOUS
      <3>3. \A x \in 1 .. Len(<<>>) : FALSE
        BY <3>2
      <3>4. \A x, y \in 0 .. Len(<<>>) : ~(x < y)
        BY <3>2
      <3> QED
        BY <3>1, <3>2, <3>3, <3>4 DEF Ladder
    <2>3. Climbed(c, <<>>, held, found, c, 0, 0, 0)
      <3>1. Stand(held) = c /\ Stand(found) = c
        BY <1>2, <1>5, <2>1
      <3>2. Len(<<>>) = 0
        OBVIOUS
      <3> QED
        BY <3>1, <3>2 DEF Climbed, Rung
    <2>4. Climbing(file, c, rest, held, found)
      <3>1. 0 \in Nat
        OBVIOUS
      <3> QED
        BY <1>5, <2>1, <2>2, <2>3, <3>1 DEF Climbing
    <2>5. \A j \in 1 .. Len(want) : ~Behind(c, EndOf(want[j])) /\ EndOf(want[j]) \in Cursors
      <3> SUFFICES ASSUME NEW j \in 1 .. N
                   PROVE  ~Behind(c, EndOf(want[j])) /\ EndOf(want[j]) \in Cursors
        BY DEF N
      <3>1. EndOf(want[j]) = Rung(foot, want, j) /\ j \in 0 .. N /\ EndOf(want[j]) \in Cursors
        BY <1>1, RungEnds DEF N
      <3>2. ~(i < j)
        BY <1>4, <2>1
      <3> QED
        BY <1>1, <1>4, <1>5, <3>1, <3>2, LadderOrder DEF N
    <2>6. ASSUME NEW d, Answers(at, want, held, d) PROVE Answers(c, rest, held, d)
      <3>1. d \in Cursors /\ ~Behind(held, d)
        BY <2>6 DEF Answers
      <3>2. ~Behind(c, d)
        BY <1>11, <2>5, <2>6, <3>1 DEF Answers
      <3> QED
        BY <3>1, <3>2 DEF Answers
    <2>7. ASSUME NEW ranges, Posted(file, at, want, ranges) PROVE Posted(file, c, rest, ranges)
      <3>1. \A j \in 1 .. Len(ranges) : EndOf(ranges[j]) \in Cursors
        BY <2>7, EndsAre DEF Posted, Fits
      <3>2. \A j \in 1 .. Len(ranges) : ~Behind(c, EndOf(ranges[j]))
        BY <1>11, <2>5, <2>7, <3>1 DEF Posted
      <3> QED
        BY <2>7, <3>2 DEF Posted
    <2> QED
      BY <1>10, <2>4, <2>6, <2>7
  <1> QED
    BY <1>12, <1>13

-----------------------------------------------------------------------------
(* Lemmas about the center *)

\* The center never holds more than a replay of its log finds.
LEMMA FoundHolds ==
    ASSUME NEW file \in Seq(Nat), NEW at, NEW want, NEW held, Reached(held), NEW found, Reached(found),
           Climbing(file, at, want, held, found)
    PROVE  /\ Climbing(file, at, want, found, found)
           /\ \A d : Answers(at, want, held, d) => Answers(at, want, found, d)
           /\ \A d \in Cursors : ~Behind(held, d) => ~Behind(found, d)
  <1>1. PICK foot \in Cursors, a \in Nat, b \in Nat, c \in Nat :
           Ladder(file, foot, want) /\ Climbed(at, want, held, found, foot, a, b, c)
    BY DEF Climbing
  <1> DEFINE N == Len(want)
  <1>2. N \in Nat
    BY <1>1, LenProperties DEF Ladder
  <1>3. a \in 0 .. N /\ b \in a .. N /\ c \in b .. N
    BY <1>1 DEF Climbed
  <1> HIDE DEF N
  <1>4. b \in 0 .. N /\ c \in 0 .. N /\ c \in a .. N /\ c \in c .. N /\ ~(c < b)
    BY <1>2, <1>3
  <1>5. Climbed(at, want, found, found, foot, a, c, c)
    BY <1>1, <1>4 DEF Climbed, N
  <1>6. Climbing(file, at, want, found, found)
    BY <1>1, <1>5 DEF Climbing
  <1>7. ~Behind(Stand(found), Stand(held))
    BY <1>1, <1>4, LadderOrder DEF Climbed, N
  <1>8. ~Behind(found, held)
    <2>1. /\ held \in Cursors /\ found \in Cursors /\ Cursor(0, 0) \in Cursors
          /\ Cursor(0, 0).gen = 0 /\ Cursor(0, 0).byte = 0
          /\ Cursor(1, 0).gen = 1 /\ Cursor(1, 0).byte = 0
      BY CursorsAre, ReachedIs
    <2>2. CASE held = Cursor(0, 0)
      BY <2>1, <2>2 DEF Behind, Cursors
    <2>3. CASE held # Cursor(0, 0) /\ found = Cursor(0, 0)
      <3>1. held.gen >= 1 /\ held.byte >= 1
        BY <2>3 DEF Reached
      <3>2. Stand(held) = held /\ Stand(found) = Cursor(1, 0)
        BY <2>1, <2>3, <3>1 DEF Stand, Cursors
      <3>3. Behind(Cursor(1, 0), held)
        BY <2>1, <3>1 DEF Behind, Cursors
      <3> QED
        BY <1>7, <3>2, <3>3
    <2>4. CASE held # Cursor(0, 0) /\ found # Cursor(0, 0)
      <3>1. held.gen >= 1 /\ found.gen >= 1
        BY <2>4 DEF Reached
      <3>2. Stand(held) = held /\ Stand(found) = found
        BY <2>1, <3>1 DEF Stand, Cursors
      <3> QED
        BY <1>7, <3>2
    <2> QED
      BY <2>2, <2>3, <2>4
  <1>9. ASSUME NEW d \in Cursors, ~Behind(held, d) PROVE ~Behind(found, d)
    BY <1>8, <1>9, ReachedIs, BehindTransitive
  <1> QED
    BY <1>6, <1>9 DEF Answers

\* A range that a handler has to do, and that is new, is the one after what the
\* center holds: its post is the one the edge wants an answer for.
LEMMA NextRange ==
    ASSUME NEW file \in Seq(Nat), NEW at, NEW want, NEW held, Reached(held), NEW found, Reached(found),
           Climbing(file, at, want, held, found),
           NEW ranges, Posted(file, at, want, ranges),
           NEW k \in 0 .. Len(ranges) - 1, k >= 1 => ~Behind(held, EndOf(ranges[k])),
           NEW r, r = ranges[k + 1], Behind(held, EndOf(r)),
           NEW next, next = IF Behind(found, EndOf(r)) THEN EndOf(r) ELSE found
    PROVE  /\ Fits(file, r) /\ Touches(file, Stand(held), r)
           /\ Behind(found, EndOf(r)) => Touches(file, Stand(found), r)
           /\ Climbing(file, at, want, EndOf(r), next) /\ Climbing(file, at, want, held, next)
           /\ Answers(at, want, EndOf(r), EndOf(r))
  <1>1. PICK foot \in Cursors, a \in Nat, b \in Nat, c \in Nat :
           Ladder(file, foot, want) /\ Climbed(at, want, held, found, foot, a, b, c)
    BY DEF Climbing
  <1> DEFINE N == Len(want)
  <1>2. N \in Nat /\ want \in Seq(ByteRanges)
    BY <1>1, LenProperties DEF Ladder
  <1>3. /\ a \in 0 .. N /\ b \in a .. N /\ c \in b .. N
        /\ at = Rung(foot, want, a) /\ Stand(held) = Rung(foot, want, b)
        /\ Stand(found) = Rung(foot, want, c) /\ (want # <<>> => a < N)
    BY <1>1 DEF Climbed
  <1>4. k + 1 \in 1 .. Len(ranges) /\ ranges \in Seq(ByteRanges)
    BY LenProperties DEF Posted
  <1>5. Fits(file, r)
    BY <1>4 DEF Posted
  <1>6. /\ r \in ByteRanges /\ r.gen >= 1 /\ r.from < r.to /\ r.from \in Nat /\ r.to \in Nat
        /\ EndOf(r) \in Cursors /\ EndOf(r).gen = r.gen /\ EndOf(r).byte = r.to
    BY <1>5, EndsAre DEF Fits, ByteRanges
  <1>7. EndOf(r).gen >= 1 /\ EndOf(r).byte >= 1
    BY <1>6
  <1>8. Behind(Stand(held), EndOf(r)) /\ (Behind(found, EndOf(r)) <=> Behind(Stand(found), EndOf(r)))
    BY <1>6, <1>7, ReachedIs, StandOrder
  <1> HIDE DEF N
  <1>9. /\ a \in 0 .. N /\ b \in 0 .. N /\ c \in 0 .. N /\ ~(b < a)
        /\ Stand(held) \in Cursors /\ at \in Cursors
    <2>1. a \in 0 .. N /\ b \in 0 .. N /\ c \in 0 .. N /\ ~(b < a)
      BY <1>2, <1>3
    <2> QED
      BY <1>1, <1>3, <2>1, RungsAre DEF N
  <1>10. ranges = want
    <2> SUFFICES ASSUME ~Behind(at, EndOf(r)) PROVE FALSE
      BY <1>4 DEF Posted
    <2>1. ~Behind(Stand(held), at)
      BY <1>1, <1>3, <1>9, LadderOrder DEF N
    <2>2. ~Behind(Stand(held), EndOf(r))
      BY <1>6, <1>9, <2>1, BehindTransitive
    <2> QED
      BY <1>8, <2>2
  <1>11. k + 1 \in 1 .. N /\ k \in 0 .. N /\ k + 1 \in 0 .. N /\ r = want[k + 1] /\ EndOf(r) = Rung(foot, want, k + 1)
    <2>1. k + 1 \in 1 .. N /\ r = want[k + 1]
      BY <1>4, <1>10 DEF N
    <2>2. k \in 0 .. N /\ k + 1 \in 0 .. N
      BY <1>2, <2>1
    <2> QED
      BY <1>1, <2>1, <2>2, RungEnds DEF N
  <1>12. b < k + 1
    BY <1>1, <1>3, <1>8, <1>9, <1>11, LadderOrder DEF N
  <1>13. ~(b < k)
    <2> SUFFICES ASSUME b < k PROVE FALSE
      OBVIOUS
    <2>1. k \in 1 .. N /\ k >= 1
      BY <1>2, <1>9, <1>11
    <2>2. /\ Rung(foot, want, k) = EndOf(want[k]) /\ EndOf(want[k]) \in Cursors
          /\ EndOf(want[k]).gen >= 1 /\ EndOf(want[k]).byte >= 1
      BY <1>1, <2>1, RungEnds DEF N
    <2>3. ~Behind(Stand(held), EndOf(want[k]))
      BY <1>10, <2>1, <2>2, ReachedIs, StandOrder
    <2> QED
      BY <1>1, <1>3, <1>9, <1>11, <2>2, <2>3, LadderOrder DEF N
  <1>14. b = k
    BY <1>9, <1>11, <1>12, <1>13
  <1>15. Touches(file, Rung(foot, want, k), r)
    <2>1. Touches(file, Rung(foot, want, k + 1 - 1), want[k + 1])
      BY <1>1, <1>11 DEF Ladder, N
    <2>2. k + 1 - 1 = k
      BY <1>11
    <2> QED
      BY <1>11, <2>1, <2>2
  <1>16. Touches(file, Stand(held), r)
    BY <1>3, <1>14, <1>15
  <1>17. want # <<>> /\ a < N
    <2>1. want # <<>>
      BY <1>10 DEF Posted
    <2> QED
      BY <1>3, <2>1
  <1>18. Stand(EndOf(r)) = EndOf(r)
    BY <1>7 DEF Stand
  <1>19. Answers(at, want, EndOf(r), EndOf(r))
    BY <1>6, <1>11, CursorOrder DEF Answers, N
  <1>20. CASE Behind(found, EndOf(r))
    <2>1. c < k + 1
      BY <1>1, <1>3, <1>8, <1>9, <1>11, <1>20, LadderOrder DEF N
    <2>2. c = k
      BY <1>2, <1>3, <1>9, <1>11, <1>14, <2>1
    <2>3. Touches(file, Stand(found), r)
      BY <1>3, <1>15, <2>2
    <2>4. next = EndOf(r)
      BY <1>20
    <2>5. k + 1 \in a .. N /\ k + 1 \in k + 1 .. N /\ k + 1 \in b .. N /\ k + 1 \in Nat
      BY <1>2, <1>9, <1>11, <1>14
    <2>6. Climbed(at, want, EndOf(r), next, foot, a, k + 1, k + 1)
      BY <1>3, <1>11, <1>18, <2>4, <2>5 DEF Climbed, N
    <2>7. Climbed(at, want, held, next, foot, a, b, k + 1)
      BY <1>3, <1>11, <1>18, <2>4, <2>5 DEF Climbed, N
    <2>8. Climbing(file, at, want, EndOf(r), next) /\ Climbing(file, at, want, held, next)
      BY <1>1, <2>5, <2>6, <2>7 DEF Climbing
    <2> QED
      BY <1>5, <1>16, <1>19, <2>3, <2>8
  <1>21. CASE ~Behind(found, EndOf(r))
    <2>1. ~(c < k + 1)
      BY <1>1, <1>3, <1>8, <1>9, <1>11, <1>21, LadderOrder DEF N
    <2>2. k + 1 \in a .. N /\ c \in k + 1 .. N /\ k + 1 \in Nat
      BY <1>2, <1>9, <1>11, <1>14, <2>1
    <2>3. next = found
      BY <1>21
    <2>4. Climbed(at, want, EndOf(r), next, foot, a, k + 1, c)
      BY <1>3, <1>11, <1>18, <2>2, <2>3 DEF Climbed, N
    <2>5. Climbing(file, at, want, EndOf(r), next) /\ Climbing(file, at, want, held, next)
      BY <1>1, <2>2, <2>3, <2>4 DEF Climbing
    <2> QED
      BY <1>5, <1>16, <1>19, <1>21, <2>5
  <1> QED
    BY <1>20, <1>21

\* The events of a range are up to where the range ends.
LEMMA SpanUpTo ==
    ASSUME NEW file \in Seq(Nat), NEW r, Fits(file, r),
           NEW c \in Cursors, ~Behind(c, EndOf(r)), NEW e \in Span(r)
    PROVE  e \in UpTo(file, c)
  <1>1. /\ r \in ByteRanges /\ r.gen \in 1 .. Len(file) /\ r.to <= file[r.gen]
        /\ r.from \in Nat /\ r.to \in Nat /\ r.gen \in Nat
    BY DEF Fits, ByteRanges
  <1>2. file[r.gen] \in Nat
    BY <1>1, ElementOfSeq
  <1>3. e \in Cursors /\ e.gen = r.gen /\ r.from < e.byte /\ e.byte <= r.to /\ e.byte \in Nat
    BY <1>1, SpanIs DEF Cursors
  <1>4. e.byte >= 1 /\ e.byte <= file[e.gen]
    BY <1>1, <1>2, <1>3
  <1>5. e \in Stream(file)
    BY <1>1, <1>3, <1>4, StreamIs
  <1>6. EndOf(r) \in Cursors /\ EndOf(r).gen = r.gen /\ EndOf(r).byte = r.to
    BY <1>1, EndsAre
  <1>7. ~Behind(EndOf(r), e)
    BY <1>1, <1>3, <1>6 DEF Behind
  <1>8. ~Behind(c, e)
    BY <1>3, <1>6, <1>7, BehindTransitive
  <1> QED
    BY <1>5, <1>8 DEF UpTo

\* A record in the log that begins where a replay of the log ends, or that
\* such a replay does not take.
Plus(records, r) == Append(records, r)

LEMMA LogNext ==
    ASSUME NEW file \in Seq(Nat), NEW records, Logs(file, records), Kept(file, Replay(records)),
           NEW r, Fits(file, r),
           Behind(Replay(records).cursor, EndOf(r)) => Touches(file, Stand(Replay(records).cursor), r),
           NEW more, more = Plus(records, r)
    PROVE  /\ Kept(file, Replay(more)) /\ Logs(file, more)
           /\ Replay(more).cursor = IF Behind(Replay(records).cursor, EndOf(r)) THEN EndOf(r)
                                   ELSE Replay(records).cursor
           /\ Taken(more) = IF Behind(Replay(records).cursor, EndOf(r))
                           THEN Taken(records) \cup {Len(records) + 1} ELSE Taken(records)
  <1> DEFINE old == Replay(records)
             new == Replay(more)
             N == Len(records)
  <1>1. r \in ByteRanges /\ records \in Seq(ByteRanges)
    BY DEF Fits, Logs
  <1>2. /\ N \in Nat /\ more \in Seq(ByteRanges) /\ Len(more) = N + 1
        /\ more[N + 1] = r /\ \A i \in 1 .. N : more[i] = records[i]
        /\ DOMAIN more = 1 .. N + 1 /\ DOMAIN records = 1 .. N
    <2>1. N \in Nat /\ DOMAIN records = 1 .. N
      BY <1>1, LenProperties
    <2>2. /\ more \in Seq(ByteRanges) /\ Len(more) = N + 1
          /\ more[N + 1] = r /\ \A i \in 1 .. N : more[i] = records[i]
      BY <1>1, AppendProperties DEF Plus
    <2>3. DOMAIN more = 1 .. N + 1
      BY <2>2, LenProperties
    <2> QED
      BY <2>1, <2>2, <2>3
  <1>3. new = ApplyAudit(old, r)
    BY <1>1, ReplayAppend DEF Plus
  <1>4. /\ \A i \in 1 .. N : Fits(file, records[i]) /\ ~Behind(old.cursor, EndOf(records[i]))
        /\ old.cursor = Cursor(0, 0) \/ \E i \in 1 .. N : old.cursor = EndOf(records[i])
        /\ \A e \in UpTo(file, old.cursor) : \E i \in Taken(records) : e \in Span(records[i])
        /\ \A i, k \in Taken(records) : i < k =>
              \A d \in Span(records[i]), e \in Span(records[k]) : Behind(d, e)
    BY DEF Logs
  <1>5. /\ EndOf(r) \in Cursors /\ EndOf(r).gen >= 1 /\ old.cursor \in Cursors
        /\ old.cursor.gen = 0 => old.cursor = Cursor(0, 0)
        /\ Within(file, Stand(old.cursor))
    BY <1>1, EndsAre, ReachedIs DEF Fits, Kept, AuditViews
  <1>6. \A i \in 1 .. N : EndOf(records[i]) \in Cursors
    BY <1>4, EndsAre DEF Fits
  <1> HIDE DEF old, new, N
  <1>7. \A i \in 1 .. N : i \in Taken(more) <=> i \in Taken(records)
    <2> SUFFICES ASSUME NEW i \in 1 .. N PROVE i \in Taken(more) <=> i \in Taken(records)
      OBVIOUS
    <2>1. i \in 1 .. N + 1 /\ more[i] = records[i]
      BY <1>2
    <2>2. \A k \in 1 .. i - 1 : more[k] = records[k]
      BY <1>2
    <2> QED
      BY <1>2, <2>1, <2>2 DEF Taken
  <1>8. \A i \in Taken(records) : i \in 1 .. N /\ more[i] = records[i]
    BY <1>2 DEF Taken
  <1>9. \A i \in Taken(more) : i \in 1 .. N \/ i = N + 1
    BY <1>2 DEF Taken
  <1>10. N + 1 \in Taken(more) <=> \A k \in 1 .. N : Behind(EndOf(records[k]), EndOf(r))
    <2> DEFINE last == N + 1
    <2>1. last \in DOMAIN more /\ 1 .. last - 1 = 1 .. N
      BY <1>2
    <2> HIDE DEF last
    <2>2. last \in Taken(more) <=> \A k \in 1 .. N : After(EndOf(more[last]), EndOf(more[k]))
      BY <2>1 DEF Taken
    <2> QED
      BY <1>2, <2>2, AfterIsBehind DEF last
  <1>11. CASE Behind(old.cursor, EndOf(r))
    <2>1. Touches(file, Stand(old.cursor), r)
      BY <1>11 DEF old
    <2>2. Kept(file, new) /\ new.cursor = EndOf(r)
      BY <1>3, <2>1, ApplyNext DEF old
    <2>3. N + 1 \in Taken(more)
      BY <1>4, <1>5, <1>6, <1>10, <1>11, BehindTransitive
    <2>4. Taken(more) = Taken(records) \cup {N + 1}
      BY <1>7, <1>8, <1>9, <2>3
    <2>5. /\ UpTo(file, EndOf(r)) = UpTo(file, old.cursor) \cup Span(r)
          /\ \A d \in UpTo(file, old.cursor), e \in Span(r) : Behind(d, e)
          /\ Within(file, EndOf(r))
      <3>1. UpTo(file, old.cursor) = UpTo(file, Stand(old.cursor))
        BY <1>5, UpToStand
      <3> QED
        BY <1>5, <2>1, <3>1, UpToNext
    <2>6. \A e \in UpTo(file, new.cursor) : \E i \in Taken(more) : e \in Span(more[i])
      <3> SUFFICES ASSUME NEW e \in UpTo(file, EndOf(r)) PROVE \E i \in Taken(more) : e \in Span(more[i])
        BY <2>2
      <3>1. CASE e \in Span(r)
        BY <1>2, <2>3, <3>1
      <3>2. CASE e \in UpTo(file, old.cursor)
        BY <1>4, <1>8, <2>4, <3>2
      <3> QED
        BY <2>5, <3>1, <3>2
    <2>7. ASSUME NEW i \in Taken(records), NEW d \in Span(records[i])
          PROVE  d \in UpTo(file, old.cursor)
      <3>1. i \in 1 .. N /\ Fits(file, records[i]) /\ ~Behind(old.cursor, EndOf(records[i]))
        BY <1>4, <1>8
      <3> QED
        BY <1>5, <3>1, SpanUpTo
    <2>8. \A i, k \in Taken(more) : i < k =>
              \A d \in Span(more[i]), e \in Span(more[k]) : Behind(d, e)
      <3> SUFFICES ASSUME NEW i \in Taken(more), NEW k \in Taken(more), i < k,
                          NEW d \in Span(more[i]), NEW e \in Span(more[k])
                   PROVE  Behind(d, e)
        OBVIOUS
      <3>1. i \in 1 .. N /\ i \in Taken(records)
        <4>1. i # N + 1
          BY <1>2, <1>9
        <4> QED
          BY <1>7, <1>9, <4>1
      <3>2. more[i] = records[i]
        BY <1>8, <3>1
      <3>3. CASE k = N + 1
        BY <1>2, <2>5, <2>7, <3>1, <3>2, <3>3
      <3>4. CASE k # N + 1
        BY <1>4, <1>7, <1>8, <1>9, <3>1, <3>2, <3>4
      <3> QED
        BY <3>3, <3>4
    <2>9. \A i \in 1 .. Len(more) : Fits(file, more[i]) /\ ~Behind(new.cursor, EndOf(more[i]))
      <3> SUFFICES ASSUME NEW i \in 1 .. N + 1 PROVE Fits(file, more[i]) /\ ~Behind(EndOf(r), EndOf(more[i]))
        BY <1>2, <2>2
      <3>1. CASE i \in 1 .. N
        <4>1. Fits(file, more[i]) /\ ~Behind(old.cursor, EndOf(more[i])) /\ EndOf(more[i]) \in Cursors
          BY <1>2, <1>4, <1>6, <3>1
        <4> QED
          BY <1>5, <1>11, <4>1, BehindTransitive, CursorOrder
      <3>2. CASE i = N + 1
        BY <1>2, <1>5, <3>2, CursorOrder
      <3> QED
        BY <1>2, <3>1, <3>2
    <2>10. \E i \in 1 .. Len(more) : new.cursor = EndOf(more[i])
      <3>1. N + 1 \in 1 .. Len(more) /\ new.cursor = EndOf(more[N + 1])
        BY <1>2, <2>2
      <3> QED
        BY <3>1
    <2>11. Logs(file, more)
      BY <1>2, <2>6, <2>8, <2>9, <2>10 DEF Logs, new
    <2> QED
      BY <1>11, <2>2, <2>4, <2>11 DEF old, new, N
  <1>12. CASE ~Behind(old.cursor, EndOf(r))
    <2>1. new = old
      BY <1>3, <1>12, ApplyOld
    <2>2. N + 1 \notin Taken(more)
      <3> SUFFICES ASSUME \A k \in 1 .. N : Behind(EndOf(records[k]), EndOf(r)) PROVE FALSE
        BY <1>10
      <3>1. old.cursor # Cursor(0, 0)
        <4>1. Cursor(0, 0).gen = 0
          BY CursorsAre
        <4> QED
          BY <1>5, <1>12, <4>1 DEF Behind, Cursors
      <3>2. PICK k \in 1 .. N : old.cursor = EndOf(records[k])
        BY <1>4, <3>1
      <3> QED
        BY <1>12, <3>2
    <2>3. Taken(more) = Taken(records)
      BY <1>7, <1>8, <1>9, <2>2
    <2>4. \A e \in UpTo(file, new.cursor) : \E i \in Taken(more) : e \in Span(more[i])
      BY <1>4, <1>8, <2>1, <2>3
    <2>5. \A i, k \in Taken(more) : i < k =>
              \A d \in Span(more[i]), e \in Span(more[k]) : Behind(d, e)
      BY <1>4, <1>8, <2>3
    <2>6. \A i \in 1 .. Len(more) : Fits(file, more[i]) /\ ~Behind(new.cursor, EndOf(more[i]))
      <3> SUFFICES ASSUME NEW i \in 1 .. N + 1 PROVE Fits(file, more[i]) /\ ~Behind(old.cursor, EndOf(more[i]))
        BY <1>2, <2>1
      <3>1. CASE i \in 1 .. N
        BY <1>2, <1>4, <3>1
      <3>2. CASE i = N + 1
        BY <1>2, <1>12, <3>2
      <3> QED
        BY <1>2, <3>1, <3>2
    <2>7. new.cursor = Cursor(0, 0) \/ \E i \in 1 .. Len(more) : new.cursor = EndOf(more[i])
      <3>1. CASE old.cursor = Cursor(0, 0)
        BY <2>1, <3>1
      <3>2. CASE \E i \in 1 .. N : old.cursor = EndOf(records[i])
        <4>1. PICK i \in 1 .. N : old.cursor = EndOf(records[i])
          BY <3>2
        <4>2. i \in 1 .. Len(more) /\ more[i] = records[i]
          BY <1>2, <4>1
        <4> QED
          BY <2>1, <4>1, <4>2
      <3> QED
        BY <1>4, <3>1, <3>2
    <2>8. Logs(file, more)
      BY <1>2, <2>4, <2>5, <2>6, <2>7 DEF Logs, new
    <2> QED
      BY <1>12, <2>1, <2>3, <2>8 DEF old, new, N
  <1> QED
    BY <1>11, <1>12

-----------------------------------------------------------------------------
(* Every step keeps the invariant *)

\* What holds of an answer or of a post goes on holding, and the center holds
\* no less.
Carries(n) ==
    /\ \A d : Answers(pos[n], post[n], Held(n).cursor, d)
                  => Answers(pos'[n], post'[n], Held(n)'.cursor, d)
    /\ \A ranges : Posted(files[n], pos[n], post[n], ranges)
                       => Posted(files'[n], pos'[n], post'[n], ranges)
    /\ \A d \in Cursors : ~Behind(Held(n).cursor, d) => ~Behind(Held(n)'.cursor, d)

LEMMA SameNode ==
    ASSUME NEW n \in Nodes, NodeInv(n), files'[n] = files[n], pos'[n] = pos[n], post'[n] = post[n],
           log'[n] = log[n], Held(n)' = Held(n)
    PROVE  NodeInv(n)' /\ Carries(n)
  BY DEF NodeInv, Carries

\* What a step leaves alone.
LEMMA Carried ==
    ASSUME Inv, \A n \in Nodes : Carries(n)
    PROVE  /\ \A p \in posts : Posted(files[p.node], pos[p.node], post[p.node], p.ranges)'
           /\ \A a \in acks : Answers(pos[a.node], post[a.node], Held(a.node).cursor, a.cursor)'
           /\ \A h \in Handlers : handler'[h] = handler[h] /\ up' = up /\ posts \subseteq posts'
                  => HandlerInv(h)'
  <1>1. \A p \in posts : p.node \in Nodes
    BY DEF Inv, Typed
  <1>2. \A a \in acks : a.node \in Nodes
    BY DEF Inv, Typed
  <1>3. \A p \in posts : Posted(files[p.node], pos[p.node], post[p.node], p.ranges)'
    BY <1>1 DEF Inv, PostInv, Carries
  <1>4. \A a \in acks : Answers(pos[a.node], post[a.node], Held(a.node).cursor, a.cursor)'
    BY <1>2 DEF Inv, AckInv, Carries
  <1>5. ASSUME NEW h \in Handlers, handler'[h] = handler[h], up' = up, posts \subseteq posts'
        PROVE  HandlerInv(h)'
    <2> SUFFICES ASSUME handler[h].busy PROVE HandlerInv(h)'
      BY <1>5 DEF HandlerInv
    <2>1. PICK n \in Nodes : n = handler[h].node /\ up
      BY DEF Inv, HandlerInv
    <2>2. PICK ranges \in Seq(ByteRanges), k \in Nat :
             Serves(n, ranges, k, handler[h].todo, handler[h].cursor)
      BY <2>1 DEF Inv, HandlerInv
    <2>3. Carries(n)
      BY <2>1
    <2>4. [node |-> n, ranges |-> ranges] \in posts
      BY <2>2 DEF Serves
    <2>5. k \in 0 .. Len(ranges) /\ handler[h].todo = SubSeq(ranges, k + 1, Len(ranges))
      BY <2>2 DEF Serves
    <2>6. ASSUME k >= 1
          PROVE  /\ ~Behind(Held(n)'.cursor, EndOf(ranges[k]))
                 /\ Answers(pos'[n], post'[n], Held(n)'.cursor, handler[h].cursor)
      <3>1. ~Behind(Held(n).cursor, EndOf(ranges[k])) /\ Answers(pos[n], post[n], Held(n).cursor, handler[h].cursor)
        BY <2>2, <2>6 DEF Serves
      <3>2. EndOf(ranges[k]) \in Cursors
        <4>1. k \in 1 .. Len(ranges)
          BY <2>5, <2>6
        <4>2. ranges[k] \in ByteRanges
          BY <4>1, ElementOfSeq
        <4> QED
          BY <4>2, EndsAre
      <3> QED
        BY <2>3, <3>1, <3>2 DEF Carries
    <2>7. Serves(n, ranges, k, handler[h].todo, handler[h].cursor)'
      BY <1>5, <2>4, <2>5, <2>6 DEF Serves
    <2> QED
      BY <1>5, <2>1, <2>7 DEF HandlerInv
  <1> QED
    BY <1>3, <1>4, <1>5

LEMMA FreeIs ==
    /\ Free \in Goroutines /\ ~Free.busy
    /\ EmptyView \in AuditViews /\ Reached(EmptyView.cursor)
  <1>1. <<>> \in Seq(ByteRanges) /\ <<>> \in Seq(Cursors)
    OBVIOUS
  <1>2. Cursor(0, 0) \in Cursors
    BY CursorsAre
  <1>3. Free \in Goroutines /\ ~Free.busy
    BY <1>1, <1>2 DEF Free, Goroutines
  <1>4. EmptyView \in AuditViews /\ EmptyView.cursor = Cursor(0, 0)
    BY <1>1, <1>2 DEF EmptyView, AuditViews
  <1> QED
    BY <1>2, <1>3, <1>4 DEF Reached

LEMMA InitInv == Init => Inv
  <1> SUFFICES ASSUME Init PROVE Inv
    OBVIOUS
  <1> DEFINE file == <<0>>
             start == Cursor(1, 0)
  <1>1. file \in Seq(Nat) /\ file # <<>> /\ Len(file) = 1 /\ file[1] = 0
    OBVIOUS
  <1>2. start \in Cursors /\ start.gen = 1 /\ start.byte = 0
    BY CursorsAre
  <1> HIDE DEF file, start
  <1>3. <<>> \in Seq(ByteRanges) /\ Len(<<>>) = 0
    OBVIOUS
  <1>4. Kept(file, EmptyView) /\ UpTo(file, EmptyView.cursor) = {} /\ EmptyView.cursor = Cursor(0, 0)
    <2>1. EmptyView.cursor = Cursor(0, 0)
      BY DEF EmptyView
    <2> QED
      BY <1>1, <2>1, EmptyKept
  <1>5. Climbing(file, start, <<>>, EmptyView.cursor, EmptyView.cursor)
    <2>1. Within(file, start)
      BY <1>1, <1>2 DEF Within
    <2>2. Ladder(file, start, <<>>)
      <3>1. \A x \in 1 .. Len(<<>>) : FALSE
        BY <1>3
      <3>2. \A x, y \in 0 .. Len(<<>>) : ~(x < y)
        BY <1>3
      <3> QED
        BY <1>3, <2>1, <3>1, <3>2 DEF Ladder
    <2>3. Stand(EmptyView.cursor) = start
      BY <1>4, CursorsAre DEF Stand, start
    <2>4. Climbed(start, <<>>, EmptyView.cursor, EmptyView.cursor, start, 0, 0, 0)
      BY <1>3, <2>3 DEF Climbed, Rung
    <2>5. 0 \in Nat
      OBVIOUS
    <2> QED
      BY <1>2, <2>2, <2>4, <2>5 DEF Climbing
  <1>6. Logs(file, <<>>)
    <2>1. Taken(<<>>) = {}
      <3>1. DOMAIN <<>> = {}
        OBVIOUS
      <3> QED
        BY <3>1 DEF Taken
    <2>2. \A i \in 1 .. Len(<<>>) : FALSE
      BY <1>3
    <2> QED
      BY <1>3, <1>4, <2>1, <2>2, ReplayEmpty DEF Logs
  <1>7. ASSUME NEW n \in Nodes PROVE NodeInv(n)
    <2>1. files[n] = file /\ pos[n] = start /\ post[n] = <<>> /\ log[n] = <<>> /\ Held(n) = EmptyView
      BY DEF Init, Held, file, start
    <2> QED
      BY <1>4, <1>5, <1>6, <2>1, ReplayEmpty DEF NodeInv
  <1>8. Typed
    BY <1>1, <1>2, <1>3, FreeIs DEF Init, Typed, file, start
  <1>9. \A h \in Handlers : HandlerInv(h)
    BY FreeIs DEF Init, HandlerInv
  <1> QED
    BY <1>7, <1>8, <1>9 DEF Init, Inv

\* An edge's log grows.
LEMMA LongerStep ==
    ASSUME Inv, NEW n \in Nodes, NEW more \in Seq(Nat), more # <<>>, Longer(files[n], more),
           files' = [files EXCEPT ![n] = more],
           UNCHANGED <<pos, post, network, center, crashes, syncFailures>>
    PROVE  Inv'
  <1>1. Typed'
    BY DEF Inv, Typed, network, center
  <1>2. ASSUME NEW m \in Nodes PROVE NodeInv(m)' /\ Carries(m)
    <2>1. /\ NodeInv(m) /\ files[m] \in Seq(Nat) /\ files[m] # <<>>
          /\ pos'[m] = pos[m] /\ post'[m] = post[m] /\ log'[m] = log[m] /\ Held(m)' = Held(m)
      BY DEF Inv, Typed, network, center, Held
    <2>2. CASE m # n
      <3>1. files'[m] = files[m]
        BY <2>2 DEF Inv, Typed
      <3> QED
        BY <2>1, <3>1, SameNode
    <2>3. CASE m = n
      <3>1. files'[m] = more
        BY <2>3 DEF Inv, Typed
      <3>2. /\ Climbing(more, pos[m], post[m], Held(m).cursor, Replay(log[m]).cursor)
            /\ Kept(more, Held(m)) /\ Kept(more, Replay(log[m])) /\ Logs(more, log[m])
        BY <2>1, <2>3, LongerClimbing, LongerKept, LongerLogs DEF NodeInv
      <3>3. NodeInv(m)'
        BY <2>1, <3>1, <3>2 DEF NodeInv
      <3>4. \A ranges : Posted(files[m], pos[m], post[m], ranges) => Posted(more, pos[m], post[m], ranges)
        BY <2>1, <2>3, LongerPosted
      <3>5. Carries(m)
        BY <2>1, <3>1, <3>4 DEF Carries
      <3> QED
        BY <3>3, <3>5
    <2> QED
      BY <2>2, <2>3
  <1>3. /\ \A p \in posts : PostInv(p)'
        /\ \A a \in acks : AckInv(a)'
        /\ \A h \in Handlers : HandlerInv(h)'
    BY <1>2, Carried DEF PostInv, AckInv, network, center
  <1> QED
    BY <1>1, <1>2, <1>3 DEF Inv, network

LEMMA GrowIs ==
    ASSUME Inv, NEW n \in Nodes, Grow(n)
    PROVE  \E more \in Seq(Nat) :
              more # <<>> /\ Longer(files[n], more) /\ files' = [files EXCEPT ![n] = more]
  <1> DEFINE file == files[n]
             N == Len(file)
             more == [file EXCEPT ![N] = @ + 1]
  <1>1. file \in Seq(Nat) /\ file # <<>>
    BY DEF Inv, Typed
  <1>2. N \in Nat /\ N >= 1 /\ N \in 1 .. N /\ file[N] \in Nat /\ DOMAIN file = 1 .. N
    <2> HIDE DEF file
    <2>1. N \in Nat /\ N >= 1 /\ DOMAIN file = 1 .. N
      BY <1>1, EmptySeq, LenProperties
    <2>2. N \in 1 .. N
      BY <2>1
    <2> QED
      BY <1>1, <2>1, <2>2, ElementOfSeq
  <1>3. files' = [files EXCEPT ![n] = more]
    BY DEF Grow, Inv, Typed
  <1> HIDE DEF file, N
  <1>4. more \in Seq(Nat) /\ Len(more) = N /\ more[N] = file[N] + 1 /\ \A g \in 1 .. N - 1 : more[g] = file[g]
    <2>1. more \in Seq(Nat) /\ Len(more) = Len(file)
      BY <1>1, <1>2, ExceptSeq
    <2>2. more[N] = file[N] + 1
      BY <1>2
    <2>3. \A g \in 1 .. N - 1 : more[g] = file[g]
      BY <1>2
    <2> QED
      BY <2>1, <2>2, <2>3 DEF N
  <1> HIDE DEF more
  <1>5. more # <<>> /\ Longer(file, more)
    BY <1>2, <1>4, EmptySeq DEF Longer, N
  <1> QED
    BY <1>3, <1>4, <1>5 DEF file

LEMMA GrowInv ==
    ASSUME Inv, NEW n \in Nodes, Grow(n)
    PROVE  Inv'
  BY GrowIs, LongerStep DEF Grow

LEMMA RotateIs ==
    ASSUME Inv, NEW n \in Nodes, Rotate(n)
    PROVE  \E more \in Seq(Nat) :
              more # <<>> /\ Longer(files[n], more) /\ files' = [files EXCEPT ![n] = more]
  <1> DEFINE file == files[n]
             N == Len(file)
             more == Append(file, 0)
  <1>1. file \in Seq(Nat) /\ file # <<>>
    BY DEF Inv, Typed
  <1>2. files' = [files EXCEPT ![n] = more]
    BY DEF Rotate, Inv, Typed
  <1> HIDE DEF file
  <1>3. N \in Nat /\ N >= 1 /\ N \in 1 .. N /\ file[N] \in Nat
    <2>1. N \in Nat /\ N >= 1
      BY <1>1, EmptySeq, LenProperties
    <2>2. N \in 1 .. N
      BY <2>1
    <2> QED
      BY <1>1, <2>1, <2>2, ElementOfSeq
  <1>4. more \in Seq(Nat) /\ Len(more) = N + 1 /\ \A g \in 1 .. N : more[g] = file[g]
    BY <1>1, AppendProperties
  <1> HIDE DEF more, N
  <1>5. more # <<>>
    BY <1>3, <1>4, EmptySeq
  <1>6. Longer(file, more)
    BY <1>3, <1>4 DEF Longer, N
  <1> QED
    BY <1>2, <1>4, <1>5, <1>6 DEF file

LEMMA RotateInv ==
    ASSUME Inv, NEW n \in Nodes, Rotate(n)
    PROVE  Inv'
  BY RotateIs, LongerStep DEF Rotate

LEMMA SendInv ==
    ASSUME Inv, NEW n \in Nodes, Send(n)
    PROVE  Inv'
  <1>1. PICK ranges \in PostsAt(n, pos[n]) :
           /\ post' = [post EXCEPT ![n] = ranges]
           /\ posts' = posts \cup {[node |-> n, ranges |-> ranges]}
    BY DEF Send
  <1>2. /\ post[n] = <<>> /\ files' = files /\ pos' = pos /\ acks' = acks /\ handler' = handler
        /\ view' = view /\ log' = log /\ up' = up
    BY DEF Send, center
  <1>3. files[n] \in Seq(Nat) /\ NodeInv(n)
    BY DEF Inv, Typed
  <1>4. Climbing(files[n], pos[n], <<>>, Held(n).cursor, Replay(log[n]).cursor)
    BY <1>2, <1>3 DEF NodeInv
  <1>5. Within(files[n], pos[n])
    <2>1. PICK foot \in Cursors, a \in Nat, b \in Nat, c \in Nat :
             /\ Ladder(files[n], foot, <<>>)
             /\ Climbed(pos[n], <<>>, Held(n).cursor, Replay(log[n]).cursor, foot, a, b, c)
      BY <1>4 DEF Climbing
    <2>2. a \in 0 .. Len(<<>>) /\ pos[n] = Rung(foot, <<>>, a)
      BY <2>1 DEF Climbed
    <2> QED
      BY <1>3, <2>1, <2>2, RungsAre
  <1>6. Ladder(files[n], pos[n], ranges) /\ ranges # <<>>
    BY <1>3, <1>5, PostsAre
  <1>7. ranges \in Seq(ByteRanges) /\ \A i \in 1 .. Len(ranges) : Fits(files[n], ranges[i])
    BY <1>6 DEF Ladder
  <1>8. Typed'
    <2>1. post' \in [Nodes -> Seq(ByteRanges)]
      BY <1>1, <1>7 DEF Inv, Typed
    <2>2. posts' \subseteq [node : Nodes, ranges : Seq(ByteRanges)]
      BY <1>1, <1>7 DEF Inv, Typed
    <2> QED
      BY <1>2, <2>1, <2>2 DEF Inv, Typed
  <1>9. ASSUME NEW m \in Nodes PROVE NodeInv(m)' /\ Carries(m)
    <2>1. /\ NodeInv(m) /\ files'[m] = files[m] /\ pos'[m] = pos[m] /\ log'[m] = log[m]
          /\ Held(m)' = Held(m)
      BY <1>2 DEF Inv, Held
    <2>2. CASE m # n
      <3>1. post'[m] = post[m]
        BY <1>1, <2>2 DEF Inv, Typed
      <3> QED
        BY <2>1, <3>1, SameNode
    <2>3. CASE m = n
      <3>1. post'[m] = ranges
        BY <1>1, <2>3 DEF Inv, Typed
      <3>2. Climbing(files[n], pos[n], ranges, Held(n).cursor, Replay(log[n]).cursor)
        BY <1>3, <1>4, <1>6, Sent
      <3>3. NodeInv(m)'
        BY <2>1, <2>3, <3>1, <3>2 DEF NodeInv
      <3>4. ASSUME NEW d, Answers(pos[n], post[n], Held(n).cursor, d)
            PROVE  Answers(pos[n], ranges, Held(n).cursor, d)
        <4>1. \A i \in 1 .. Len(post[n]) : FALSE
          BY <1>2
        <4> QED
          BY <3>4, <4>1 DEF Answers
      <3>5. ASSUME NEW rs, Posted(files[n], pos[n], post[n], rs) PROVE Posted(files[n], pos[n], ranges, rs)
        BY <1>2, <3>5 DEF Posted
      <3>6. Carries(m)
        BY <2>1, <2>3, <3>1, <3>4, <3>5 DEF Carries
      <3> QED
        BY <3>3, <3>6
    <2> QED
      BY <2>2, <2>3
  <1>10. /\ \A p \in posts : PostInv(p)'
         /\ \A a \in acks : AckInv(a)'
         /\ \A h \in Handlers : HandlerInv(h)'
    BY <1>1, <1>2, <1>9, Carried DEF PostInv, AckInv
  <1>11. Posted(files'[n], pos'[n], post'[n], ranges)
    <2>1. post'[n] = ranges
      BY <1>1 DEF Inv, Typed
    <2> QED
      BY <1>2, <1>6, <1>7, <2>1 DEF Posted
  <1>12. ASSUME NEW p \in posts' PROVE PostInv(p)'
    <2>1. CASE p \in posts
      BY <1>10, <2>1
    <2>2. CASE p = [node |-> n, ranges |-> ranges]
      BY <1>11, <2>2 DEF PostInv
    <2> QED
      BY <1>1, <2>1, <2>2
  <1> QED
    BY <1>2, <1>8, <1>9, <1>10, <1>12 DEF Inv

LEMMA HearAckInv ==
    ASSUME Inv, NEW a \in acks, HearAck(a)
    PROVE  Inv'
  <1> DEFINE n == a.node
             rest == IF post[n] # <<>> /\ Behind(a.cursor, EndOf(Last(post[n]))) THEN post[n] ELSE <<>>
  <1>1. n \in Nodes /\ a.cursor \in Cursors
    BY DEF Inv, Typed
  <1>2. /\ Behind(pos[n], a.cursor) /\ pos' = [pos EXCEPT ![n] = a.cursor]
        /\ post' = [post EXCEPT ![n] = rest] /\ files' = files /\ posts' = posts /\ acks' = acks
        /\ handler' = handler /\ view' = view /\ log' = log /\ up' = up
    BY DEF HearAck, network, center
  <1> HIDE DEF n
  <1>3. rest \in Seq(ByteRanges)
    BY <1>1 DEF Inv, Typed
  <1>4. files[n] \in Seq(Nat) /\ NodeInv(n) /\ Answers(pos[n], post[n], Held(n).cursor, a.cursor)
    BY <1>1 DEF Inv, Typed, AckInv, n
  <1>5. Reached(Held(n).cursor)
    BY <1>4 DEF NodeInv, Kept
  <1> DEFINE held == Held(n).cursor
             found == Replay(log[n]).cursor
             at == pos[n]
             want == post[n]
             file == files[n]
  <1>6. Climbing(file, at, want, held, found) /\ held \in Cursors /\ (held.gen = 0 => held = Cursor(0, 0))
    BY <1>4, <1>5, ReachedIs DEF NodeInv
  <1>7. /\ Climbing(file, a.cursor, rest, held, found)
        /\ \A d : Answers(at, want, held, d) => Answers(a.cursor, rest, held, d)
        /\ \A ranges : Posted(file, at, want, ranges) => Posted(file, a.cursor, rest, ranges)
    <2>1. rest = IF want # <<>> /\ Behind(a.cursor, EndOf(Last(want))) THEN want ELSE <<>>
      OBVIOUS
    <2>2. Behind(at, a.cursor) /\ Answers(at, want, held, a.cursor) /\ file \in Seq(Nat)
      BY <1>2, <1>4
    <2> HIDE DEF rest, held, found, at, want, file
    <2> QED
      BY <1>5, <1>6, <2>1, <2>2, Heard DEF held
  <1> HIDE DEF rest
  <1>8. Typed'
    BY <1>1, <1>2, <1>3 DEF Inv, Typed
  <1>9. ASSUME NEW m \in Nodes PROVE NodeInv(m)' /\ Carries(m)
    <2>1. /\ NodeInv(m) /\ files'[m] = files[m] /\ log'[m] = log[m] /\ Held(m)' = Held(m)
      BY <1>2 DEF Inv, Held
    <2>2. CASE m # n
      <3>1. post'[m] = post[m] /\ pos'[m] = pos[m]
        BY <1>2, <2>2 DEF Inv, Typed
      <3> QED
        BY <2>1, <3>1, SameNode
    <2>3. CASE m = n
      <3>1. post'[m] = rest /\ pos'[m] = a.cursor
        BY <1>1, <1>2, <2>3 DEF Inv, Typed
      <3>2. NodeInv(m)'
        BY <1>7, <2>1, <2>3, <3>1 DEF NodeInv
      <3>3. Carries(m)
        BY <1>7, <2>1, <2>3, <3>1 DEF Carries
      <3> QED
        BY <3>2, <3>3
    <2> QED
      BY <2>2, <2>3
  <1>10. /\ \A p \in posts : PostInv(p)'
         /\ \A b \in acks : AckInv(b)'
         /\ \A h \in Handlers : HandlerInv(h)'
    BY <1>2, <1>9, Carried DEF PostInv, AckInv
  <1> QED
    BY <1>2, <1>8, <1>9, <1>10 DEF Inv

\* What is left of a post after its first k ranges.
LEMMA RestOf ==
    ASSUME NEW ranges \in Seq(ByteRanges), NEW k \in 0 .. Len(ranges),
           NEW todo, todo = SubSeq(ranges, k + 1, Len(ranges))
    PROVE  /\ todo \in Seq(ByteRanges)
           /\ todo = <<>> <=> k = Len(ranges)
           /\ k < Len(ranges) =>
                 /\ Head(todo) = ranges[k + 1] /\ ranges[k + 1] \in ByteRanges
                 /\ Tail(todo) = SubSeq(ranges, k + 1 + 1, Len(ranges))
  <1> DEFINE N == Len(ranges)
  <1>1. N \in Nat
    BY LenProperties
  <1>2. \A i \in k + 1 .. N : ranges[i] \in ByteRanges
    <2>1. \A i \in k + 1 .. N : i \in 1 .. N
      BY <1>1
    <2> QED
      BY <2>1, ElementOfSeq
  <1>3. k + 1 \in Int /\ N \in Int
    BY <1>1
  <1>4. CASE k = N
    <2>1. todo = <<>>
      BY <1>1, <1>4
    <2> QED
      BY <1>1, <1>4, <2>1
  <1>5. CASE k # N
    <2> HIDE DEF N
    <2>1. k + 1 <= N /\ k < N /\ k + 1 \in k + 1 .. N /\ k \in Nat
      BY <1>1, <1>5 DEF N
    <2>2. todo = SubSeq(ranges, k + 1, N)
      BY DEF N
    <2> DEFINE from == k + 1
    <2>3. from \in Int /\ from <= N
      BY <1>3, <2>1
    <2> HIDE DEF from
    <2>4. /\ SubSeq(ranges, from, N) \in Seq(ByteRanges) /\ Len(SubSeq(ranges, from, N)) = N - from + 1
          /\ \A i \in 1 .. N - from + 1 : SubSeq(ranges, from, N)[i] = ranges[from + i - 1]
      <3>1. \A i \in from .. N : ranges[i] \in ByteRanges
        BY <1>2 DEF from
      <3> QED
        BY <1>3, <2>3, <3>1, SubSeqProperties
    <2>5. todo \in Seq(ByteRanges) /\ Len(todo) = N - k /\ \A i \in 1 .. N - k : todo[i] = ranges[k + i]
      <3>1. N - from + 1 = N - k /\ \A i \in Int : from + i - 1 = k + i
        BY <1>1, <2>1 DEF from
      <3> QED
        BY <2>2, <2>4, <3>1 DEF from
    <2>6. Len(todo) >= 1 /\ todo # <<>> /\ 1 \in 1 .. N - k
      <3>1. N - k >= 1 /\ N - k \in Nat
        BY <1>1, <2>1
      <3> QED
        BY <2>5, <3>1
    <2>7. Head(todo) = ranges[k + 1]
      BY <2>5, <2>6
    <2>8. Tail(todo) = SubSeq(ranges, k + 1 + 1, N)
      <3> DEFINE t == Tail(todo)
                 u == SubSeq(ranges, k + 1 + 1, N)
      <3>1. /\ t \in Seq(ByteRanges) /\ Len(t) = N - k - 1
            /\ \A i \in 1 .. N - k - 1 : t[i] = todo[i + 1]
        BY <2>5, <2>6, HeadTailProperties
      <3>2. CASE k + 1 = N
        <4>1. N - k - 1 = 0 /\ k + 1 + 1 > N
          BY <1>1, <2>1, <3>2
        <4>2. t = <<>>
          BY <3>1, <4>1, EmptySeq
        <4>3. u = <<>>
          BY <1>1, <2>1, <4>1
        <4> QED
          BY <4>2, <4>3
      <3>3. CASE k + 1 # N
        <4> DEFINE next == k + 1 + 1
        <4>1. next \in Int /\ next <= N /\ next \in Nat
          BY <1>1, <2>1, <3>3
        <4> HIDE DEF next
        <4>2. /\ SubSeq(ranges, next, N) \in Seq(ByteRanges) /\ Len(SubSeq(ranges, next, N)) = N - next + 1
              /\ \A i \in 1 .. N - next + 1 : SubSeq(ranges, next, N)[i] = ranges[next + i - 1]
          <5>1. \A i \in next .. N : ranges[i] \in ByteRanges
            BY <1>2, <2>1 DEF next
          <5> QED
            BY <1>3, <4>1, <5>1, SubSeqProperties
        <4>3. N - next + 1 = N - k - 1 /\ N - k - 1 \in Nat
          BY <1>1, <2>1, <3>3 DEF next
        <4>4. \A i \in 1 .. N - k - 1 : t[i] = u[i]
          <5> SUFFICES ASSUME NEW i \in 1 .. N - k - 1 PROVE t[i] = u[i]
            OBVIOUS
          <5>1. i \in Nat /\ i + 1 \in 1 .. N - k /\ next + i - 1 = k + (i + 1)
            BY <1>1, <2>1 DEF next
          <5>2. t[i] = todo[i + 1]
            BY <3>1
          <5>3. todo[i + 1] = ranges[k + (i + 1)]
            BY <2>5, <5>1
          <5>4. u[i] = ranges[next + i - 1]
            BY <4>2, <4>3 DEF next
          <5> QED
            BY <5>1, <5>2, <5>3, <5>4
        <4>5. u \in Seq(ByteRanges) /\ Len(u) = N - k - 1
          BY <4>2, <4>3 DEF next
        <4> HIDE DEF t, u
        <4>6. t = u
          BY <3>1, <4>4, <4>5, SeqEqual
        <4> QED
          BY <4>6 DEF t, u
      <3> QED
        BY <3>2, <3>3
    <2> QED
      BY <1>2, <1>5, <2>1, <2>5, <2>6, <2>7, <2>8 DEF N
  <1> QED
    BY <1>4, <1>5

\* What a handler that has something left to do is at.
AtRange(h, n, ranges, k) ==
    /\ n = handler[h].node /\ [node |-> n, ranges |-> ranges] \in posts
    /\ Posted(files[n], pos[n], post[n], ranges)
    /\ k \in 0 .. Len(ranges) - 1 /\ k + 1 \in 1 .. Len(ranges)
    /\ k >= 1 => ~Behind(Held(n).cursor, EndOf(ranges[k]))
    /\ ranges[k + 1] \in ByteRanges /\ Head(handler[h].todo) = ranges[k + 1]
    /\ Tail(handler[h].todo) = SubSeq(ranges, k + 1 + 1, Len(ranges))
    /\ Tail(handler[h].todo) \in Seq(ByteRanges)

LEMMA ServingIs ==
    ASSUME Inv, NEW h \in Handlers, Serving(h)
    PROVE  \E n \in Nodes, ranges \in Seq(ByteRanges), k \in Nat : AtRange(h, n, ranges, k)
  <1>1. PICK n \in Nodes, ranges \in Seq(ByteRanges), k \in Nat :
           n = handler[h].node /\ Serves(n, ranges, k, handler[h].todo, handler[h].cursor)
    BY DEF Inv, HandlerInv, Serving
  <1>2. k \in 0 .. Len(ranges) /\ handler[h].todo = SubSeq(ranges, k + 1, Len(ranges)) /\ handler[h].todo # <<>>
    BY <1>1 DEF Serves, Serving
  <1>3. Len(ranges) \in Nat
    BY LenProperties
  <1>4. /\ handler[h].todo \in Seq(ByteRanges) /\ k # Len(ranges)
        /\ k < Len(ranges) =>
              /\ Head(handler[h].todo) = ranges[k + 1] /\ ranges[k + 1] \in ByteRanges
              /\ Tail(handler[h].todo) = SubSeq(ranges, k + 1 + 1, Len(ranges))
    BY <1>2, RestOf
  <1>5. k < Len(ranges) /\ k \in 0 .. Len(ranges) - 1 /\ k + 1 \in 1 .. Len(ranges)
    BY <1>2, <1>3, <1>4
  <1>6. Tail(handler[h].todo) \in Seq(ByteRanges)
    BY <1>2, <1>4, HeadTailProperties
  <1>7. Posted(files[n], pos[n], post[n], ranges)
    BY <1>1 DEF Inv, PostInv, Serves
  <1>8. [node |-> n, ranges |-> ranges] \in posts /\ (k >= 1 => ~Behind(Held(n).cursor, EndOf(ranges[k])))
    BY <1>1 DEF Serves
  <1>9. AtRange(h, n, ranges, k)
    BY <1>1, <1>4, <1>5, <1>6, <1>7, <1>8 DEF AtRange
  <1> QED
    BY <1>9

\* What it means for the node that its next range is new, and goes to the log.
LEMMA NewRecord ==
    ASSUME Inv, NEW h \in Handlers, Serving(h), IsNew(h),
           NEW n \in Nodes, NEW ranges \in Seq(ByteRanges), NEW k \in Nat, AtRange(h, n, ranges, k),
           NEW r, r = ranges[k + 1], NEW more, more = Append(log[n], r)
    PROVE  /\ Fits(files[n], r) /\ Behind(view[n].cursor, EndOf(r)) /\ EndOf(r) \in Cursors
           /\ more \in Seq(ByteRanges) /\ Kept(files[n], Replay(more)) /\ Logs(files[n], more)
           /\ Kept(files[n], ApplyAudit(view[n], r)) /\ ApplyAudit(view[n], r).cursor = EndOf(r)
           /\ Climbing(files[n], pos[n], post[n], EndOf(r), Replay(more).cursor)
           /\ Climbing(files[n], pos[n], post[n], view[n].cursor, Replay(more).cursor)
           /\ Answers(pos[n], post[n], EndOf(r), EndOf(r))
           /\ Behind(Replay(log[n]).cursor, EndOf(r))
                 => Touches(files[n], Stand(Replay(log[n]).cursor), r)
  <1> DEFINE held == view[n].cursor
             found == Replay(log[n]).cursor
             next == Replay(more).cursor
             at == pos[n]
             want == post[n]
             file == files[n]
  <1>1. up /\ Held(n) = view[n] /\ file \in Seq(Nat)
    BY DEF Serving, Held, Inv, Typed
  <1>2. /\ Climbing(file, at, want, held, found) /\ Kept(file, view[n])
        /\ Kept(file, Replay(log[n])) /\ Logs(file, log[n])
    BY <1>1 DEF Inv, NodeInv
  <1>3. Reached(held) /\ Reached(found)
    BY <1>2 DEF Kept
  <1>4. Posted(file, at, want, ranges) /\ (k >= 1 => ~Behind(held, EndOf(ranges[k]))) /\ k \in 0 .. Len(ranges) - 1
    BY <1>1 DEF AtRange
  <1>5. Behind(held, EndOf(r)) /\ r \in ByteRanges
    BY AfterIsBehind DEF IsNew, AtRange
  <1>6. EndOf(r) \in Cursors
    BY <1>5, EndsAre
  <1> DEFINE then == IF Behind(found, EndOf(r)) THEN EndOf(r) ELSE found
  <1>7. /\ Fits(file, r) /\ Touches(file, Stand(held), r)
        /\ Behind(found, EndOf(r)) => Touches(file, Stand(found), r)
        /\ Climbing(file, at, want, EndOf(r), then) /\ Climbing(file, at, want, held, then)
        /\ Answers(at, want, EndOf(r), EndOf(r))
    <2> HIDE DEF held, found, at, want, file
    <2> QED
      BY <1>1, <1>2, <1>3, <1>4, <1>5, NextRange
  <1>8. Kept(file, Replay(more)) /\ Logs(file, more) /\ next = then
    <2> DEFINE records == log[n]
    <2>1. more = Plus(records, r) /\ Fits(file, r) /\ file \in Seq(Nat)
      BY <1>1, <1>7 DEF Plus
    <2>2. /\ Logs(file, records) /\ Kept(file, Replay(records))
          /\ Behind(Replay(records).cursor, EndOf(r)) => Touches(file, Stand(Replay(records).cursor), r)
      BY <1>2, <1>7
    <2> HIDE DEF file, records
    <2>3. /\ Kept(file, Replay(more)) /\ Logs(file, more)
          /\ Replay(more).cursor = IF Behind(Replay(records).cursor, EndOf(r)) THEN EndOf(r)
                                  ELSE Replay(records).cursor
      BY <2>1, <2>2, LogNext
    <2> QED
      BY <2>3 DEF records
  <1>9. Kept(file, ApplyAudit(view[n], r)) /\ ApplyAudit(view[n], r).cursor = EndOf(r)
    <2> HIDE DEF file
    <2> QED
      BY <1>1, <1>2, <1>7, ApplyNext
  <1>10. more \in Seq(ByteRanges)
    BY <1>8 DEF Logs
  <1> HIDE DEF then
  <1> QED
    BY <1>5, <1>6, <1>7, <1>8, <1>9, <1>10

LEMMA ReceiveInv ==
    ASSUME Inv, NEW h \in Handlers, NEW p \in posts, Receive(h, p)
    PROVE  Inv'
  <1> DEFINE busy == [busy |-> TRUE, node |-> p.node, todo |-> p.ranges, cursor |-> Cursor(0, 0)]
  <1>1. /\ up /\ handler' = [handler EXCEPT ![h] = busy] /\ files' = files /\ pos' = pos /\ post' = post
        /\ posts' = posts /\ acks' = acks /\ view' = view /\ log' = log /\ up' = up
    BY DEF Receive, edges, network
  <1>2. p.node \in Nodes /\ p.ranges \in Seq(ByteRanges) /\ p = [node |-> p.node, ranges |-> p.ranges]
    BY DEF Inv, Typed
  <1>3. busy \in Goroutines
    BY <1>2, CursorsAre DEF Goroutines
  <1>4. Typed'
    BY <1>1, <1>3 DEF Inv, Typed
  <1>5. ASSUME NEW n \in Nodes PROVE NodeInv(n)' /\ Carries(n)
    <2>1. NodeInv(n) /\ Held(n)' = Held(n)
      BY <1>1 DEF Inv, Held
    <2> QED
      BY <1>1, <2>1, SameNode
  <1>6. Serves(p.node, p.ranges, 0, p.ranges, Cursor(0, 0))
    <2>1. p.ranges = SubSeq(p.ranges, 0 + 1, Len(p.ranges)) /\ 0 \in 0 .. Len(p.ranges)
      <3>1. Len(p.ranges) \in Nat
        BY <1>2, LenProperties
      <3> QED
        BY <1>2, <3>1
    <2> QED
      BY <1>2, <2>1 DEF Serves
  <1>7. ASSUME NEW g \in Handlers PROVE HandlerInv(g)'
    <2>1. CASE g # h
      BY <1>1, <1>5, <2>1, Carried DEF Inv, Typed
    <2>2. CASE g = h
      <3>1. handler'[g] = busy
        BY <1>1, <2>2 DEF Inv, Typed
      <3>2. Serves(p.node, p.ranges, 0, p.ranges, Cursor(0, 0))'
        BY <1>1, <1>6 DEF Serves, Held
      <3>3. 0 \in Nat
        OBVIOUS
      <3> QED
        BY <1>1, <1>2, <3>1, <3>2, <3>3 DEF HandlerInv
    <2> QED
      BY <2>1, <2>2
  <1>8. (\A q \in posts : PostInv(q)') /\ (\A a \in acks : AckInv(a)')
    BY <1>5, Carried DEF PostInv, AckInv
  <1> QED
    BY <1>1, <1>4, <1>5, <1>7, <1>8 DEF Inv

GoesOn(goroutine, todo, cursor) == [goroutine EXCEPT !.todo = todo, !.cursor = cursor]

LEMMA GoesOnIs ==
    ASSUME NEW goroutine \in Goroutines, NEW todo \in Seq(ByteRanges), NEW cursor \in Cursors
    PROVE  /\ GoesOn(goroutine, todo, cursor) \in Goroutines
           /\ GoesOn(goroutine, todo, cursor).node = goroutine.node
           /\ GoesOn(goroutine, todo, cursor).todo = todo
           /\ GoesOn(goroutine, todo, cursor).cursor = cursor
  <1> DEFINE u == [goroutine EXCEPT !.todo = todo, !.cursor = cursor]
  <1>1. DOMAIN goroutine = {"busy", "node", "todo", "cursor"} /\ goroutine.busy \in BOOLEAN
        /\ goroutine.node \in {Free.node} \cup Nodes
    BY DEF Goroutines
  <1>2. u.todo = todo /\ u.cursor = cursor /\ u.node = goroutine.node
    BY <1>1
  <1>3. u \in Goroutines
    BY DEF Goroutines
  <1> QED
    BY <1>2, <1>3 DEF GoesOn

\* A handler goes on with its next range.
LEMMA AdvanceInv ==
    ASSUME Inv, NEW h \in Handlers, NEW n \in Nodes, NEW ranges \in Seq(ByteRanges), NEW k \in Nat,
           AtRange(h, n, ranges, k), handler[h].busy, NEW cursor \in Cursors, Advance(h, cursor),
           up, up' = up, posts' = posts,
           ~Behind(Held(n)'.cursor, EndOf(ranges[k + 1])),
           Answers(pos'[n], post'[n], Held(n)'.cursor, cursor)
    PROVE  HandlerInv(h)' /\ (\A g \in Handlers : g # h => handler'[g] = handler[g])
           /\ handler' \in [Handlers -> Goroutines]
  <1>1. handler \in [Handlers -> Goroutines] /\ handler[h] \in Goroutines
    BY DEF Inv, Typed
  <1> DEFINE new == GoesOn(handler[h], Tail(handler[h].todo), cursor)
  <1>2. new \in Goroutines /\ new.node = n /\ new.todo = Tail(handler[h].todo) /\ new.cursor = cursor
    <2>1. Tail(handler[h].todo) \in Seq(ByteRanges) /\ handler[h].node = n
      BY DEF AtRange
    <2>2. PICK todo, g : todo = Tail(handler[h].todo) /\ g = handler[h]
      OBVIOUS
    <2>3. GoesOn(g, todo, cursor) = new
      BY <2>2
    <2>4. todo \in Seq(ByteRanges) /\ g \in Goroutines /\ g.node = n
      BY <1>1, <2>1, <2>2
    <2>5. /\ GoesOn(g, todo, cursor) \in Goroutines
          /\ GoesOn(g, todo, cursor).node = g.node
          /\ GoesOn(g, todo, cursor).todo = todo
          /\ GoesOn(g, todo, cursor).cursor = cursor
      BY <2>4, GoesOnIs
    <2> HIDE DEF new
    <2> QED
      BY <2>2, <2>3, <2>4, <2>5
  <1>5. handler' = [handler EXCEPT ![h] = new]
    BY <1>1 DEF Advance, GoesOn, Goroutines
  <1> HIDE DEF new
  <1>6. /\ handler' \in [Handlers -> Goroutines] /\ handler'[h] = new
        /\ \A g \in Handlers : g # h => handler'[g] = handler[g]
    BY <1>1, <1>2, <1>5
  <1>7. k + 1 \in 0 .. Len(ranges) /\ k + 1 \in Nat
    BY LenProperties DEF AtRange
  <1>8. Serves(n, ranges, k + 1, handler[h].todo, cursor)'
    <2>1. [node |-> n, ranges |-> ranges] \in posts'
      BY DEF AtRange
    <2>2. handler'[h].todo = SubSeq(ranges, k + 1 + 1, Len(ranges))
      BY <1>2, <1>6 DEF AtRange
    <2> QED
      BY <1>7, <2>1, <2>2 DEF Serves
  <1>9. handler'[h].node = n /\ handler'[h].cursor = cursor
    BY <1>2, <1>6
  <1> QED
    BY <1>6, <1>7, <1>8, <1>9 DEF HandlerInv

\* The center answers with where it is.
LEMMA HeldAnswers ==
    ASSUME NEW file \in Seq(Nat), NEW at, NEW want, NEW held, Reached(held), NEW found,
           Climbing(file, at, want, held, found)
    PROVE  Answers(at, want, held, held)
  <1>1. PICK foot \in Cursors, a \in Nat, b \in Nat, c \in Nat :
           Ladder(file, foot, want) /\ Climbed(at, want, held, found, foot, a, b, c)
    BY DEF Climbing
  <1>2. Len(want) \in Nat
    BY <1>1, LenProperties DEF Ladder
  <1>3. /\ a \in 0 .. Len(want) /\ b \in a .. Len(want)
        /\ at = Rung(foot, want, a) /\ Stand(held) = Rung(foot, want, b)
    BY <1>1 DEF Climbed
  <1>4. b \in 0 .. Len(want)
    BY <1>2, <1>3
  <1>5. held \in Cursors /\ at \in Cursors
    BY <1>1, <1>3, RungsAre, ReachedIs
  <1>6. ASSUME Behind(at, held) PROVE \E i \in 1 .. Len(want) : held = EndOf(want[i])
    <2>1. held # Cursor(0, 0)
      BY <1>5, <1>6, CursorsAre DEF Behind, Cursors
    <2>2. Stand(held) = held
      BY <1>5, <2>1 DEF Stand, Reached, Cursors
    <2>3. a < b
      BY <1>1, <1>3, <1>4, <1>6, <2>2, LadderOrder
    <2>4. b \in 1 .. Len(want)
      BY <1>2, <1>3, <1>4, <2>3
    <2>5. Rung(foot, want, b) = EndOf(want[b])
      BY <1>1, <2>4, RungEnds
    <2>6. held = EndOf(want[b])
      BY <1>3, <2>2, <2>5
    <2> QED
      BY <2>4, <2>6
  <1> QED
    BY <1>5, <1>6, CursorOrder DEF Answers

LEMMA DuplicateInv ==
    ASSUME Inv, NEW h \in Handlers, IngestDuplicate(h)
    PROVE  Inv'
  <1>1. Serving(h) /\ ~IsNew(h)
    BY DEF IngestDuplicate
  <1>2. PICK n \in Nodes, ranges \in Seq(ByteRanges), k \in Nat : AtRange(h, n, ranges, k)
    BY <1>1, ServingIs
  <1>3. /\ Advance(h, view[n].cursor) /\ files' = files /\ pos' = pos /\ post' = post
        /\ posts' = posts /\ acks' = acks /\ view' = view /\ log' = log /\ up' = up
    BY <1>2 DEF IngestDuplicate, AtRange, edges, network
  <1>4. up /\ handler[h].busy /\ Held(n) = view[n] /\ files[n] \in Seq(Nat)
    BY <1>1 DEF Serving, Held, Inv, Typed
  <1>5. ASSUME NEW m \in Nodes PROVE NodeInv(m)' /\ Carries(m) /\ Held(m)' = Held(m)
    <2>1. NodeInv(m) /\ Held(m)' = Held(m)
      BY <1>3 DEF Inv, Held
    <2> QED
      BY <1>3, <2>1, SameNode
  <1>6. Reached(view[n].cursor) /\ view[n].cursor \in Cursors
    BY <1>4, ReachedIs DEF Inv, NodeInv, Kept
  <1>7. Answers(pos[n], post[n], view[n].cursor, view[n].cursor)
    BY <1>4, <1>6, HeldAnswers DEF Inv, NodeInv
  <1>8. ~Behind(view[n].cursor, EndOf(ranges[k + 1]))
    BY <1>1, <1>2, AfterIsBehind DEF IsNew, AtRange
  <1>9. /\ ~Behind(Held(n)'.cursor, EndOf(ranges[k + 1]))
        /\ Answers(pos'[n], post'[n], Held(n)'.cursor, view[n].cursor)
    BY <1>3, <1>4, <1>5, <1>7, <1>8
  <1>10. PICK cursor \in Cursors : cursor = view[n].cursor
    BY <1>6
  <1>11. /\ HandlerInv(h)' /\ \A g \in Handlers : g # h => handler'[g] = handler[g]
         /\ handler' \in [Handlers -> Goroutines]
    BY <1>2, <1>3, <1>4, <1>9, <1>10, AdvanceInv
  <1>12. Typed'
    BY <1>3, <1>11 DEF Inv, Typed
  <1>13. /\ \A p \in posts : PostInv(p)'
         /\ \A a \in acks : AckInv(a)'
         /\ \A g \in Handlers : g # h => HandlerInv(g)'
    BY <1>3, <1>5, <1>11, Carried DEF PostInv, AckInv
  <1> QED
    BY <1>3, <1>5, <1>11, <1>12, <1>13 DEF Inv

\* An answer that is older than the next record is older than it.
LEMMA CarriesRecord ==
    ASSUME NEW at, NEW want, NEW held \in Cursors, NEW end \in Cursors, Behind(held, end)
    PROVE  /\ \A d : Answers(at, want, held, d) => Answers(at, want, end, d)
           /\ \A d \in Cursors : ~Behind(held, d) => ~Behind(end, d)
  <1>1. ASSUME NEW d \in Cursors, ~Behind(held, d) PROVE ~Behind(end, d)
    BY <1>1, CursorOrder, BehindTransitive
  <1> QED
    BY <1>1 DEF Answers

LEMMA IngestNewInv ==
    ASSUME Inv, NEW h \in Handlers, IngestNew(h)
    PROVE  Inv'
  <1>1. Serving(h) /\ IsNew(h)
    BY DEF IngestNew
  <1>2. PICK n \in Nodes, ranges \in Seq(ByteRanges), k \in Nat : AtRange(h, n, ranges, k)
    BY <1>1, ServingIs
  <1>3. PICK r : r = ranges[k + 1]
    OBVIOUS
  <1>4. PICK more : more = Append(log[n], r)
    OBVIOUS
  <1>5. PICK v : v = ApplyAudit(view[n], r)
    OBVIOUS
  <1>6. /\ Advance(h, EndOf(r)) /\ log' = [log EXCEPT ![n] = more] /\ view' = [view EXCEPT ![n] = v]
        /\ files' = files /\ pos' = pos /\ post' = post /\ posts' = posts /\ acks' = acks /\ up' = up
    BY <1>2, <1>3, <1>4, <1>5 DEF IngestNew, AtRange, Logged, edges, network, Inv, Typed
  <1>7. up /\ handler[h].busy
    BY <1>1 DEF Serving
  <1>8. /\ Fits(files[n], r) /\ Behind(view[n].cursor, EndOf(r)) /\ EndOf(r) \in Cursors
        /\ more \in Seq(ByteRanges) /\ Kept(files[n], Replay(more)) /\ Logs(files[n], more)
        /\ Kept(files[n], v) /\ v.cursor = EndOf(r)
        /\ Climbing(files[n], pos[n], post[n], EndOf(r), Replay(more).cursor)
        /\ Answers(pos[n], post[n], EndOf(r), EndOf(r))
    BY <1>1, <1>2, <1>3, <1>4, <1>5, NewRecord
  <1>9. log'[n] = more /\ Held(n)' = v /\ \A m \in Nodes : m # n => log'[m] = log[m] /\ Held(m)' = Held(m)
    BY <1>6, <1>7 DEF Inv, Typed, Held
  <1>10. ASSUME NEW m \in Nodes PROVE NodeInv(m)' /\ Carries(m)
    <2>1. CASE m # n
      BY <1>6, <1>9, <2>1, SameNode DEF Inv
    <2>2. CASE m = n
      <3>1. NodeInv(m)'
        BY <1>6, <1>8, <1>9, <2>2 DEF NodeInv
      <3>2. Held(n) = view[n] /\ view[n].cursor \in Cursors
        BY <1>7, ReachedIs DEF Held, Inv, NodeInv, Kept
      <3>3. /\ \A d : Answers(pos[n], post[n], view[n].cursor, d) => Answers(pos[n], post[n], EndOf(r), d)
            /\ \A d \in Cursors : ~Behind(view[n].cursor, d) => ~Behind(EndOf(r), d)
        BY <1>8, <3>2, CarriesRecord
      <3>4. Carries(m)
        BY <1>6, <1>8, <1>9, <2>2, <3>2, <3>3 DEF Carries
      <3> QED
        BY <3>1, <3>4
    <2> QED
      BY <2>1, <2>2
  <1>11. PICK cursor \in Cursors : cursor = EndOf(r)
    BY <1>8
  <1>12. /\ ~Behind(Held(n)'.cursor, EndOf(ranges[k + 1]))
         /\ Answers(pos'[n], post'[n], Held(n)'.cursor, cursor)
    BY <1>3, <1>6, <1>8, <1>9, <1>11, CursorOrder
  <1>13. /\ HandlerInv(h)' /\ \A g \in Handlers : g # h => handler'[g] = handler[g]
         /\ handler' \in [Handlers -> Goroutines]
    BY <1>2, <1>6, <1>7, <1>11, <1>12, AdvanceInv
  <1>14. Typed'
    <2>1. v \in AuditViews
      BY <1>8 DEF Kept
    <2>2. view' \in [Nodes -> AuditViews] /\ log' \in [Nodes -> Seq(ByteRanges)]
      BY <1>6, <1>8, <2>1 DEF Inv, Typed
    <2> QED
      BY <1>6, <1>7, <1>13, <2>2 DEF Inv, Typed
  <1>15. /\ \A p \in posts : PostInv(p)'
         /\ \A a \in acks : AckInv(a)'
         /\ \A g \in Handlers : g # h => HandlerInv(g)'
    BY <1>6, <1>10, <1>13, Carried DEF PostInv, AckInv
  <1> QED
    BY <1>6, <1>10, <1>13, <1>14, <1>15 DEF Inv

LEMMA FreeInv ==
    ASSUME Inv, NEW h \in Handlers, Fail(h)
    PROVE  /\ HandlerInv(h)' /\ \A g \in Handlers : g # h => handler'[g] = handler[g]
           /\ handler' \in [Handlers -> Goroutines]
  <1>1. handler' = [handler EXCEPT ![h] = Free] /\ handler \in [Handlers -> Goroutines]
    BY DEF Fail, Inv, Typed
  <1>2. handler'[h] = Free
    BY <1>1
  <1> QED
    BY <1>1, <1>2, FreeIs DEF HandlerInv

LEMMA UnsyncedInv ==
    ASSUME Inv, NEW h \in Handlers, IngestUnsynced(h)
    PROVE  Inv'
  <1>1. Serving(h) /\ IsNew(h)
    BY DEF IngestUnsynced
  <1>2. PICK n \in Nodes, ranges \in Seq(ByteRanges), k \in Nat : AtRange(h, n, ranges, k)
    BY <1>1, ServingIs
  <1>3. PICK r : r = ranges[k + 1]
    OBVIOUS
  <1>4. PICK more : more = Append(log[n], r)
    OBVIOUS
  <1>5. /\ Fail(h) /\ log' = [log EXCEPT ![n] = more] /\ view' = view
        /\ files' = files /\ pos' = pos /\ post' = post /\ posts' = posts /\ acks' = acks /\ up' = up
    BY <1>2, <1>3, <1>4 DEF IngestUnsynced, AtRange, Logged, edges, network, Inv, Typed
  <1>6. up /\ Held(n) = view[n]
    BY <1>1 DEF Serving, Held
  <1>7. /\ more \in Seq(ByteRanges) /\ Kept(files[n], Replay(more)) /\ Logs(files[n], more)
        /\ Climbing(files[n], pos[n], post[n], view[n].cursor, Replay(more).cursor)
    BY <1>1, <1>2, <1>3, <1>4, NewRecord
  <1>8. /\ log'[n] = more /\ \A m \in Nodes : m # n => log'[m] = log[m]
        /\ \A m \in Nodes : Held(m)' = Held(m)
    BY <1>5, <1>6 DEF Inv, Typed, Held
  <1>9. ASSUME NEW m \in Nodes PROVE NodeInv(m)' /\ Carries(m)
    <2>1. CASE m # n
      BY <1>5, <1>8, <2>1, SameNode DEF Inv
    <2>2. CASE m = n
      <3>1. NodeInv(n)
        BY DEF Inv
      <3>2. NodeInv(m)'
        BY <1>5, <1>6, <1>7, <1>8, <2>2, <3>1 DEF NodeInv
      <3>3. Carries(m)
        BY <1>5, <1>8, <2>2 DEF Carries
      <3> QED
        BY <3>2, <3>3
    <2> QED
      BY <2>1, <2>2
  <1>10. /\ HandlerInv(h)' /\ \A g \in Handlers : g # h => handler'[g] = handler[g]
         /\ handler' \in [Handlers -> Goroutines]
    BY <1>5, FreeInv
  <1>11. Typed'
    <2>1. log' \in [Nodes -> Seq(ByteRanges)]
      BY <1>5, <1>7 DEF Inv, Typed
    <2> QED
      BY <1>5, <1>6, <1>10, <2>1 DEF Inv, Typed
  <1>12. /\ \A p \in posts : PostInv(p)'
         /\ \A a \in acks : AckInv(a)'
         /\ \A g \in Handlers : g # h => HandlerInv(g)'
    BY <1>5, <1>9, <1>10, Carried DEF PostInv, AckInv
  <1> QED
    BY <1>5, <1>9, <1>10, <1>11, <1>12 DEF Inv

\* A goroutine ends, and at most an answer is left behind.
LEMMA EndsInv ==
    ASSUME Inv, NEW h \in Handlers, Fail(h),
           files' = files, pos' = pos, post' = post, posts' = posts, view' = view, log' = log, up' = up,
           acks' \subseteq [node : Nodes, cursor : Cursors],
           \A a \in acks' \ acks : AckInv(a)
    PROVE  Inv'
  <1>1. ASSUME NEW m \in Nodes PROVE NodeInv(m)' /\ Carries(m) /\ Held(m)' = Held(m)
    <2>1. NodeInv(m) /\ Held(m)' = Held(m)
      BY DEF Inv, Held
    <2> QED
      BY <2>1, SameNode
  <1>2. /\ HandlerInv(h)' /\ \A g \in Handlers : g # h => handler'[g] = handler[g]
        /\ handler' \in [Handlers -> Goroutines]
    BY FreeInv
  <1>3. Typed'
    BY <1>2 DEF Inv, Typed
  <1>4. /\ \A p \in posts : PostInv(p)'
        /\ \A a \in acks : AckInv(a)'
        /\ \A g \in Handlers : g # h => HandlerInv(g)'
    BY <1>1, <1>2, Carried DEF PostInv, AckInv
  <1>5. ASSUME NEW a \in acks' \ acks PROVE AckInv(a)'
    <2>1. a.node \in Nodes
      OBVIOUS
    <2> QED
      BY <1>1, <2>1 DEF AckInv
  <1> QED
    BY <1>1, <1>2, <1>3, <1>4, <1>5 DEF Inv

LEMMA FailsInv ==
    ASSUME Inv, NEW h \in Handlers, IngestFails(h)
    PROVE  Inv'
  BY EndsInv DEF IngestFails, edges, network, Inv, Typed

LEMMA ReplyInv ==
    ASSUME Inv, NEW h \in Handlers, Reply(h)
    PROVE  Inv'
  <1> DEFINE a == [node |-> handler[h].node, cursor |-> handler[h].cursor]
  <1>1. /\ up /\ handler[h].busy /\ handler[h].todo = <<>> /\ acks' = acks \cup {a} /\ Fail(h)
        /\ files' = files /\ pos' = pos /\ post' = post /\ posts' = posts /\ view' = view
        /\ log' = log /\ up' = up
    BY DEF Reply, Fail, edges
  <1>2. PICK n \in Nodes, ranges \in Seq(ByteRanges), k \in Nat :
           n = handler[h].node /\ Serves(n, ranges, k, handler[h].todo, handler[h].cursor)
    BY <1>1 DEF Inv, HandlerInv
  <1>3. k \in 0 .. Len(ranges) /\ handler[h].todo = SubSeq(ranges, k + 1, Len(ranges))
    BY <1>2 DEF Serves
  <1>4. k = Len(ranges)
    BY <1>1, <1>3, RestOf
  <1>5. ranges # <<>>
    BY <1>2 DEF Inv, PostInv, Posted, Serves
  <1>6. k >= 1
    BY <1>4, <1>5, EmptySeq, LenProperties
  <1>7. Answers(pos[n], post[n], Held(n).cursor, handler[h].cursor)
    BY <1>2, <1>6 DEF Serves
  <1>8. a \in [node : Nodes, cursor : Cursors]
    BY <1>2, <1>7 DEF Answers
  <1>9. AckInv(a)
    BY <1>2, <1>7 DEF AckInv
  <1> HIDE DEF a
  <1>10. acks' \subseteq [node : Nodes, cursor : Cursors] /\ \A b \in acks' \ acks : AckInv(b)
    BY <1>1, <1>8, <1>9 DEF Inv, Typed
  <1> QED
    BY <1>1, <1>10, EndsInv

\* The process ends: what the center holds is what its log has.
LEMMA DieInv ==
    ASSUME Inv, up, ~up', files' = files, pos' = pos, post' = post, posts' = posts, acks' = acks,
           view' = [n \in Nodes |-> EmptyView], handler' = [h \in Handlers |-> Free],
           \A n \in Nodes :
              /\ log'[n] \in Seq(ByteRanges)
              /\ Kept(files[n], Replay(log'[n])) /\ Logs(files[n], log'[n])
              /\ Climbing(files[n], pos[n], post[n], view[n].cursor, Replay(log'[n]).cursor),
           DOMAIN log' = Nodes, log' = [n \in Nodes |-> log'[n]], up' \in BOOLEAN
    PROVE  Inv'
  <1>1. ASSUME NEW n \in Nodes PROVE NodeInv(n)' /\ Carries(n)
    <2>1. Held(n) = view[n] /\ Held(n)' = Replay(log'[n])
      BY DEF Held
    <2>2. files[n] \in Seq(Nat)
      BY DEF Inv, Typed
    <2>3. Reached(view[n].cursor) /\ Reached(Replay(log'[n]).cursor)
      BY <2>1 DEF Inv, NodeInv, Kept
    <2>4. PICK found : found = Replay(log'[n]).cursor
      OBVIOUS
    <2>8. Climbing(files[n], pos[n], post[n], view[n].cursor, found) /\ Reached(found)
      BY <2>3, <2>4
    <2>5. /\ Climbing(files[n], pos[n], post[n], found, found)
          /\ \A d : Answers(pos[n], post[n], view[n].cursor, d) => Answers(pos[n], post[n], found, d)
          /\ \A d \in Cursors : ~Behind(view[n].cursor, d) => ~Behind(found, d)
      BY <2>2, <2>3, <2>8, FoundHolds
    <2>6. NodeInv(n)'
      BY <2>1, <2>4, <2>5 DEF NodeInv
    <2>7. Carries(n)
      BY <2>1, <2>4, <2>5 DEF Carries
    <2> QED
      BY <2>6, <2>7
  <1>2. Typed'
    <2>1. log' \in [Nodes -> Seq(ByteRanges)]
      OBVIOUS
    <2>2. view' \in [Nodes -> AuditViews] /\ handler' \in [Handlers -> Goroutines]
      BY FreeIs
    <2> QED
      BY <2>1, <2>2 DEF Inv, Typed
  <1>3. \A h \in Handlers : HandlerInv(h)'
    BY FreeIs DEF HandlerInv
  <1>4. (\A p \in posts : PostInv(p)') /\ (\A a \in acks : AckInv(a)')
    BY <1>1, Carried DEF PostInv, AckInv
  <1> QED
    BY <1>1, <1>2, <1>3, <1>4 DEF Inv

LEMMA CrashInv == ASSUME Inv, Crash PROVE Inv'
  <1>1. /\ up /\ ~up' /\ up' \in BOOLEAN /\ log' = log
        /\ files' = files /\ pos' = pos /\ post' = post /\ posts' = posts /\ acks' = acks
        /\ view' = [n \in Nodes |-> EmptyView] /\ handler' = [h \in Handlers |-> Free]
    BY DEF Crash, Die, edges, network
  <1>2. DOMAIN log' = Nodes /\ log' = [n \in Nodes |-> log'[n]]
    BY <1>1 DEF Inv, Typed
  <1>3. ASSUME NEW n \in Nodes
        PROVE  /\ log'[n] \in Seq(ByteRanges)
               /\ Kept(files[n], Replay(log'[n])) /\ Logs(files[n], log'[n])
               /\ Climbing(files[n], pos[n], post[n], view[n].cursor, Replay(log'[n]).cursor)
    <2>1. NodeInv(n) /\ Held(n) = view[n] /\ log'[n] = log[n] /\ log[n] \in Seq(ByteRanges)
      BY <1>1 DEF Inv, Typed, Held
    <2> QED
      BY <2>1 DEF NodeInv
  <1> QED
    BY <1>1, <1>2, <1>3, DieInv

LEMMA KilledInv ==
    ASSUME Inv, NEW h \in Handlers, IngestKilled(h)
    PROVE  Inv'
  <1>1. Serving(h) /\ IsNew(h)
    BY DEF IngestKilled
  <1>2. PICK n \in Nodes, ranges \in Seq(ByteRanges), k \in Nat : AtRange(h, n, ranges, k)
    BY <1>1, ServingIs
  <1>3. PICK r : r = ranges[k + 1]
    OBVIOUS
  <1>4. PICK more : more = Append(log[n], r)
    OBVIOUS
  <1>5. /\ up /\ ~up' /\ up' \in BOOLEAN /\ log' = [log EXCEPT ![n] = more]
        /\ files' = files /\ pos' = pos /\ post' = post /\ posts' = posts /\ acks' = acks
        /\ view' = [m \in Nodes |-> EmptyView] /\ handler' = [g \in Handlers |-> Free]
    BY <1>1, <1>2, <1>3, <1>4
       DEF IngestKilled, Serving, Die, AtRange, Logged, edges, network, Inv, Typed
  <1>6. /\ more \in Seq(ByteRanges) /\ Kept(files[n], Replay(more)) /\ Logs(files[n], more)
        /\ Climbing(files[n], pos[n], post[n], view[n].cursor, Replay(more).cursor)
    BY <1>1, <1>2, <1>3, <1>4, NewRecord
  <1>7. DOMAIN log' = Nodes /\ log' = [m \in Nodes |-> log'[m]] /\ log'[n] = more
    BY <1>5 DEF Inv, Typed
  <1>8. ASSUME NEW m \in Nodes
        PROVE  /\ log'[m] \in Seq(ByteRanges)
               /\ Kept(files[m], Replay(log'[m])) /\ Logs(files[m], log'[m])
               /\ Climbing(files[m], pos[m], post[m], view[m].cursor, Replay(log'[m]).cursor)
    <2>1. CASE m = n
      BY <1>6, <1>7, <2>1
    <2>2. CASE m # n
      <3>1. NodeInv(m) /\ Held(m) = view[m] /\ log'[m] = log[m] /\ log[m] \in Seq(ByteRanges)
        BY <1>5, <2>2 DEF Inv, Typed, Held
      <3> QED
        BY <3>1 DEF NodeInv
    <2> QED
      BY <2>1, <2>2
  <1> QED
    BY <1>5, <1>7, <1>8, DieInv

LEMMA RestartInv == ASSUME Inv, Restart PROVE Inv'
  <1>1. /\ ~up /\ up' /\ up' \in BOOLEAN /\ view' = [n \in Nodes |-> Replay(log[n])] /\ log' = log
        /\ files' = files /\ pos' = pos /\ post' = post /\ posts' = posts /\ acks' = acks
        /\ handler' = handler
    BY DEF Restart, edges, network
  <1>2. ASSUME NEW n \in Nodes
        PROVE  NodeInv(n)' /\ Carries(n) /\ Replay(log[n]) \in AuditViews
    <2>1. NodeInv(n) /\ Held(n) = Replay(log[n]) /\ Held(n)' = Replay(log[n])
      BY <1>1 DEF Inv, Held
    <2> QED
      BY <1>1, <2>1, SameNode DEF NodeInv, Kept
  <1>3. Typed'
    BY <1>1, <1>2 DEF Inv, Typed
  <1>4. \A h \in Handlers : HandlerInv(h)'
    BY <1>1 DEF Inv, HandlerInv
  <1>5. (\A p \in posts : PostInv(p)') /\ (\A a \in acks : AckInv(a)')
    BY <1>2, Carried DEF PostInv, AckInv
  <1> QED
    BY <1>1, <1>2, <1>3, <1>4, <1>5 DEF Inv

LEMMA NextInv == Inv /\ [Next]_vars => Inv'
  <1> SUFFICES ASSUME Inv, [Next]_vars PROVE Inv'
    OBVIOUS
  <1>1. ASSUME NEW n \in Nodes, Grow(n) \/ Rotate(n) \/ Send(n) PROVE Inv'
    BY <1>1, GrowInv, RotateInv, SendInv
  <1>2. ASSUME NEW a \in acks, HearAck(a) PROVE Inv'
    BY <1>2, HearAckInv
  <1>3. ASSUME NEW h \in Handlers, NEW p \in posts, Receive(h, p) PROVE Inv'
    BY <1>3, ReceiveInv
  <1>4. ASSUME NEW h \in Handlers, Handle(h) PROVE Inv'
    BY <1>4, DuplicateInv, IngestNewInv, ReplyInv DEF Handle
  <1>5. ASSUME NEW h \in Handlers, IngestUnsynced(h) \/ IngestFails(h) \/ IngestKilled(h) PROVE Inv'
    BY <1>5, UnsyncedInv, FailsInv, KilledInv
  <1>6. CASE Crash
    BY <1>6, CrashInv
  <1>7. CASE Restart
    BY <1>7, RestartInv
  <1>8. CASE UNCHANGED vars
    <2>1. \A n \in Nodes : Held(n)' = Held(n)
      BY <1>8 DEF vars, center, Held
    <2>2. \A n \in Nodes : NodeInv(n)' <=> NodeInv(n)
      BY <1>8, <2>1 DEF vars, edges, center, NodeInv
    <2>3. \A n \in Nodes : Carries(n)
      BY <1>8, <2>1 DEF vars, edges, center, Carries
    <2>4. /\ \A p \in posts : PostInv(p)'
          /\ \A a \in acks : AckInv(a)'
          /\ \A h \in Handlers : HandlerInv(h)'
      BY <1>8, <2>3, Carried DEF vars, network, center, PostInv, AckInv
    <2>5. Typed'
      BY <1>8 DEF vars, edges, network, center, Inv, Typed
    <2> QED
      BY <1>8, <2>2, <2>4, <2>5 DEF vars, network, Inv
  <1> QED
    BY <1>1, <1>2, <1>3, <1>4, <1>5, <1>6, <1>7, <1>8 DEF Next

-----------------------------------------------------------------------------
(* Theorems *)

\* The edge, the center's memory and its log never pass each other on the
\* ladder of the post that is on its way, for any number of nodes, goroutines,
\* rotations, crashes and failures.
THEOREM ShipmentInvariant == Spec => []Inv
  BY InitInv, NextInv, PTL DEF Spec

LEMMA InvAck == Inv => AckIsHeld
  <1> SUFFICES ASSUME Inv PROVE AckIsHeld
    OBVIOUS
  <1>1. ASSUME NEW a \in acks
        PROVE  /\ up => ~Behind(view[a.node].cursor, a.cursor)
               /\ \A e \in UpTo(files[a.node], a.cursor) :
                     \E i \in Taken(log[a.node]) : e \in Stored(log[a.node])[i]
    <2>1. PICK n \in Nodes : n = a.node
      BY DEF Inv, Typed
    <2> DEFINE held == Held(n).cursor
               found == Replay(log[n]).cursor
    <2>2. files[n] \in Seq(Nat) /\ NodeInv(n) /\ a.cursor \in Cursors /\ ~Behind(held, a.cursor)
      BY <2>1 DEF Inv, Typed, AckInv, Answers
    <2>3. Climbing(files[n], pos[n], post[n], held, found) /\ Reached(held) /\ Reached(found)
      BY <2>2 DEF NodeInv, Kept
    <2>4. ~Behind(found, a.cursor)
      <3> HIDE DEF held, found
      <3> QED
        BY <2>2, <2>3, FoundHolds
    <2>5. up => ~Behind(view[n].cursor, a.cursor)
      BY <2>2 DEF Held
    <2>6. ASSUME NEW e \in UpTo(files[n], a.cursor) PROVE \E i \in Taken(log[n]) : e \in Stored(log[n])[i]
      <3>1. e \in Stream(files[n]) /\ ~Behind(a.cursor, e) /\ e \in Cursors
        BY <2>2, StreamIs DEF UpTo
      <3>2. ~Behind(found, e)
        BY <2>2, <2>3, <2>4, <3>1, ReachedIs, BehindTransitive
      <3>3. PICK i \in Taken(log[n]) : e \in Span(log[n][i])
        BY <2>2, <3>1, <3>2 DEF NodeInv, Logs, UpTo
      <3> QED
        BY <3>3 DEF Stored
    <2> QED
      BY <2>1, <2>5, <2>6
  <1>2. ASSUME NEW n \in Nodes, NEW k \in Taken(log[n])
        PROVE  /\ Stored(log[n])[k] \subseteq Stream(files[n])
               /\ \A i \in Taken(log[n]) : i < k =>
                     \A d \in Stored(log[n])[i], e \in Stored(log[n])[k] : Behind(d, e)
    <2>1. files[n] \in Seq(Nat) /\ Logs(files[n], log[n]) /\ log[n] \in Seq(ByteRanges)
      BY DEF Inv, Typed, NodeInv
    <2>2. \A i \in Taken(log[n]) : Stored(log[n])[i] = Span(log[n][i])
      BY DEF Stored
    <2>3. k \in 1 .. Len(log[n])
      BY <2>1, LenProperties DEF Taken
    <2>4. Fits(files[n], log[n][k]) /\ log[n][k] \in ByteRanges
      BY <2>1, <2>3 DEF Logs, Fits
    <2>5. EndOf(log[n][k]) \in Cursors /\ ~Behind(EndOf(log[n][k]), EndOf(log[n][k]))
      BY <2>4, EndsAre, CursorOrder
    <2>6. Span(log[n][k]) \subseteq Stream(files[n])
      BY <2>1, <2>4, <2>5, SpanUpTo DEF UpTo
    <2> QED
      BY <2>1, <2>2, <2>6 DEF Logs
  <1> QED
    BY <1>1, <1>2 DEF AckIsHeld

\* AckIsHeld: what the center has ever acknowledged it holds, also after it
\* died and replayed its log, each event once and in order.
THEOREM AcknowledgedIsHeld == Spec => []AckIsHeld
  BY ShipmentInvariant, InvAck, PTL

LEMMA InvWindow == Inv => WindowIsSuffix
  <1> SUFFICES ASSUME Inv, NEW n \in Nodes
               PROVE  IsNewestOf(view[n], UpTo(files[n], view[n].cursor))
    BY DEF WindowIsSuffix
  <1>1. CASE up
    BY <1>1 DEF Inv, NodeInv, Held, Kept
  <1>2. CASE ~up
    <2>1. view[n] = EmptyView /\ files[n] \in Seq(Nat) /\ files[n] # <<>>
      BY <1>2 DEF Inv, Typed
    <2> QED
      BY <2>1, EmptyKept DEF Kept
  <1> QED
    BY <1>1, <1>2

\* WindowIsSuffix: the window the console reads is the newest part of what the
\* node shipped, for every AuditRetentionEvents, and the counters add up.
THEOREM WindowHoldsNewest == Spec => []WindowIsSuffix
  BY ShipmentInvariant, InvWindow, PTL

-----------------------------------------------------------------------------
(* Shipping implements AuditDelivery                                        *)

streams == [n \in Nodes |-> Stream(files[n])]
journals == [n \in Nodes |-> Stored(log[n])]
forgets == [n \in Nodes |-> UpTo(files[n], pos[n])]

\* What a journal keeps is what a replay of the log finds.
LEMMA JournalKeeps ==
    ASSUME NEW file \in Seq(Nat), NEW records, Logs(file, records), Kept(file, Replay(records))
    PROVE  Delivery!Kept(Stored(records)) = UpTo(file, Replay(records).cursor)
  <1>1. records \in Seq(ByteRanges) /\ Replay(records).cursor \in Cursors
    BY ReachedIs DEF Logs, Kept
  <1>2. DOMAIN Stored(records) = Taken(records)
        /\ \A i \in Taken(records) : Stored(records)[i] = Span(records[i]) /\ i \in 1 .. Len(records)
    BY <1>1, LenProperties DEF Stored, Taken
  <1>3. ASSUME NEW e \in UpTo(file, Replay(records).cursor) PROVE e \in Delivery!Kept(Stored(records))
    BY <1>2 DEF Logs, Delivery!Kept
  <1>4. ASSUME NEW e \in Delivery!Kept(Stored(records)) PROVE e \in UpTo(file, Replay(records).cursor)
    <2>1. PICK i \in Taken(records) : e \in Span(records[i])
      BY <1>2 DEF Delivery!Kept
    <2>2. Fits(file, records[i]) /\ ~Behind(Replay(records).cursor, EndOf(records[i]))
      BY <1>2 DEF Logs
    <2> QED
      BY <1>1, <2>1, <2>2, SpanUpTo
  <1> QED
    BY <1>3, <1>4

\* A later position forgets, or finds, what comes next.
LEMMA NextOf ==
    ASSUME NEW file \in Seq(Nat), NEW c \in Cursors, NEW d \in Cursors, Behind(c, d)
    PROVE  /\ UpTo(file, c) \subseteq UpTo(file, d)
           /\ \A e \in UpTo(file, d) \ UpTo(file, c) :
                 /\ \A f \in UpTo(file, c) : Behind(f, e)
                 /\ \A f \in Stream(file) \ UpTo(file, d) : Behind(e, f)
  <1>1. \A e \in Stream(file) : e \in Cursors
    BY StreamIs
  <1>2. ASSUME NEW e \in UpTo(file, c) PROVE e \in UpTo(file, d)
    <2>1. e \in Stream(file) /\ e \in Cursors /\ ~Behind(c, e)
      BY <1>1 DEF UpTo
    <2>2. ~Behind(d, e)
      BY <2>1, CursorOrder, BehindTransitive
    <2> QED
      BY <2>1, <2>2 DEF UpTo
  <1>3. ASSUME NEW e \in UpTo(file, d) \ UpTo(file, c)
        PROVE  /\ \A f \in UpTo(file, c) : Behind(f, e)
               /\ \A f \in Stream(file) \ UpTo(file, d) : Behind(e, f)
    <2>1. e \in Cursors /\ ~Behind(d, e) /\ Behind(c, e)
      BY <1>1 DEF UpTo
    <2>2. ASSUME NEW f \in UpTo(file, c) PROVE Behind(f, e)
      <3>1. f \in Cursors /\ ~Behind(c, f)
        BY <1>1 DEF UpTo
      <3> QED
        BY <2>1, <3>1, BehindTransitive
    <2>3. ASSUME NEW f \in Stream(file) \ UpTo(file, d) PROVE Behind(e, f)
      <3>1. f \in Cursors /\ Behind(d, f)
        BY <1>1 DEF UpTo
      <3> QED
        BY <2>1, <3>1, BehindTransitive
    <2> QED
      BY <2>2, <2>3
  <1> QED
    BY <1>2, <1>3

\* Only what is said of n changes.
LEMMA OnlyOfIs ==
    ASSUME NEW f, DOMAIN f = Nodes, NEW g, DOMAIN g = Nodes, f = [m \in Nodes |-> f[m]],
           g = [m \in Nodes |-> g[m]], NEW n \in Nodes, g[n] # f[n],
           \A m \in Nodes : m # n => g[m] = f[m]
    PROVE  Delivery!OnlyOf(f, g, n)
  <1>1. g = [f EXCEPT ![n] = g[n]]
    OBVIOUS
  <1> QED
    BY <1>1 DEF Delivery!OnlyOf

\* The edge stands in its file.
LEMMA EdgeWithin ==
    ASSUME NEW file \in Seq(Nat), NEW at, NEW want, NEW held, NEW found,
           Climbing(file, at, want, held, found)
    PROVE  Within(file, at) /\ at \in Cursors
  <1>1. PICK foot \in Cursors, a \in Nat, b \in Nat, c \in Nat :
           Ladder(file, foot, want) /\ Climbed(at, want, held, found, foot, a, b, c)
    BY DEF Climbing
  <1>2. a \in 0 .. Len(want) /\ at = Rung(foot, want, a)
    BY <1>1 DEF Climbed
  <1> QED
    BY <1>1, <1>2, RungsAre

\* Writing to a file, or rotating it.
LEMMA WriteStep ==
    ASSUME Inv, NEW n \in Nodes, NEW more \in Seq(Nat), more # <<>>, Longer(files[n], more),
           files' = [files EXCEPT ![n] = more], pos' = pos, log' = log
    PROVE  Delivery!Write(n) \/ UNCHANGED <<streams, journals, forgets>>
  <1>1. files[n] \in Seq(Nat) /\ files[n] # <<>> /\ NodeInv(n) /\ files'[n] = more
        /\ \A m \in Nodes : m # n => files'[m] = files[m]
    BY DEF Inv, Typed
  <1>2. Within(files[n], pos[n])
    BY <1>1, EdgeWithin DEF NodeInv
  <1>3. UpTo(more, pos[n]) = UpTo(files[n], pos[n])
    BY <1>1, <1>2, LongerStream
  <1>4. journals' = journals /\ forgets' = forgets
    BY <1>1, <1>3 DEF journals, forgets
  <1>5. CASE Stream(more) = Stream(files[n])
    BY <1>1, <1>4, <1>5 DEF streams
  <1>6. CASE Stream(more) # Stream(files[n])
    <2>1. Stream(files[n]) \subseteq Stream(more)
      BY <1>1, LongerStream
    <2>2. ASSUME NEW e \in Stream(more) \ Stream(files[n]), NEW d \in Stream(files[n])
          PROVE  Behind(d, e)
      <3>1. Within(files[n], d)
        BY <1>1, StreamIs DEF Within
      <3> QED
        BY <1>1, <3>1, LongerStream
    <2>3. Delivery!Extends(Stream(files[n]), Stream(more), Stream(more))
      BY <2>1, <2>2 DEF Delivery!Extends, Delivery!Before, Behind
    <2>4. Delivery!OnlyOf(streams, streams', n)
      <3>1. /\ DOMAIN streams = Nodes /\ DOMAIN streams' = Nodes
            /\ streams = [m \in Nodes |-> streams[m]] /\ streams' = [m \in Nodes |-> streams'[m]]
            /\ streams'[n] # streams[n] /\ \A m \in Nodes : m # n => streams'[m] = streams[m]
        BY <1>1, <1>6 DEF streams
      <3> QED
        BY <3>1, OnlyOfIs
    <2>5. streams[n] = Stream(files[n]) /\ streams'[n] = Stream(more)
      BY <1>1 DEF streams
    <2> QED
      BY <1>4, <2>3, <2>4, <2>5 DEF Delivery!Write, streams, journals, forgets
  <1> QED
    BY <1>5, <1>6

\* A record goes to the log.
LEMMA StoreStep ==
    ASSUME Inv, NEW n \in Nodes, NEW r, Fits(files[n], r),
           Behind(Replay(log[n]).cursor, EndOf(r)) => Touches(files[n], Stand(Replay(log[n]).cursor), r),
           files' = files, pos' = pos, log' = [log EXCEPT ![n] = Append(@, r)]
    PROVE  Delivery!Store(n) \/ UNCHANGED <<streams, journals, forgets>>
  <1> DEFINE file == files[n]
             records == log[n]
             more == Plus(records, r)
             found == Replay(records).cursor
             N == Len(records)
  <1>1. /\ file \in Seq(Nat) /\ Logs(file, records) /\ Kept(file, Replay(records))
        /\ records \in Seq(ByteRanges) /\ r \in ByteRanges
    BY DEF Inv, Typed, NodeInv, Fits
  <1>2. log'[n] = more /\ \A m \in Nodes : m # n => log'[m] = log[m]
    BY DEF Inv, Typed, Plus
  <1>3. streams' = streams /\ forgets' = forgets
    BY DEF streams, forgets
  <1> HIDE DEF file, records, more
  <1>4. /\ Kept(file, Replay(more)) /\ Logs(file, more)
        /\ Replay(more).cursor = IF Behind(found, EndOf(r)) THEN EndOf(r) ELSE found
        /\ Taken(more) = IF Behind(found, EndOf(r)) THEN Taken(records) \cup {N + 1} ELSE Taken(records)
    <2>1. /\ Fits(file, r) /\ (Behind(Replay(records).cursor, EndOf(r))
                                => Touches(file, Stand(Replay(records).cursor), r))
          /\ more = Plus(records, r)
      BY DEF file, records, more
    <2> QED
      BY <1>1, <2>1, LogNext
  <1>5. N \in Nat /\ more[N + 1] = r /\ (\A i \in 1 .. N : more[i] = records[i]) /\ DOMAIN records = 1 .. N
    BY <1>1, AppendProperties, LenProperties DEF more, Plus
  <1>6. \A i \in Taken(records) : i \in 1 .. N /\ more[i] = records[i]
    BY <1>5 DEF Taken
  <1> HIDE DEF N, found
  <1>7. CASE ~Behind(found, EndOf(r))
    <2>1. Taken(more) = Taken(records)
      BY <1>4, <1>7
    <2>2. Stored(more) = Stored(records)
      BY <1>6, <2>1 DEF Stored
    <2>3. journals' = journals
      BY <1>2, <2>2 DEF journals, records, more
    <2> QED
      BY <1>3, <2>3
  <1>8. CASE Behind(found, EndOf(r))
    <2>1. Taken(more) = Taken(records) \cup {N + 1} /\ Replay(more).cursor = EndOf(r)
      BY <1>4, <1>8
    <2>2. N + 1 \notin Taken(records) /\ \A i \in Taken(records) : i < N + 1
      BY <1>5, <1>6
    <2>3. /\ DOMAIN Stored(more) = Taken(records) \cup {N + 1} /\ DOMAIN Stored(records) = Taken(records)
          /\ Stored(more)[N + 1] = Span(r)
          /\ \A i \in Taken(records) : Stored(more)[i] = Stored(records)[i]
      BY <1>5, <1>6, <2>1 DEF Stored
    <2>4. Delivery!Kept(Stored(records)) = UpTo(file, found) /\ Delivery!Kept(Stored(more)) = UpTo(file, EndOf(r))
      BY <1>1, <1>4, <2>1, JournalKeeps DEF found
    <2>5. found \in Cursors /\ EndOf(r) \in Cursors
      BY <1>1, ReachedIs, EndsAre DEF found, Kept
    <2>6. Span(r) \cap UpTo(file, found) = {}
      <3>1. Touches(file, Stand(found), r) /\ Fits(file, r)
        BY <1>8 DEF file, found, records
      <3>2. Within(file, Stand(found)) /\ UpTo(file, found) = UpTo(file, Stand(found))
        BY <1>1, ReachedIs, UpToStand DEF found, Kept
      <3> QED
        BY <1>1, <3>1, <3>2, UpToNext
    <2>7. Delivery!Extends(UpTo(file, found), UpTo(file, EndOf(r)), Stream(file))
      <3>1. /\ UpTo(file, found) \subseteq UpTo(file, EndOf(r))
            /\ \A e \in UpTo(file, EndOf(r)) \ UpTo(file, found) :
                  /\ \A f \in UpTo(file, found) : Behind(f, e)
                  /\ \A f \in Stream(file) \ UpTo(file, EndOf(r)) : Behind(e, f)
        BY <1>1, <1>8, <2>5, NextOf
      <3>2. UpTo(file, EndOf(r)) \subseteq Stream(file)
        BY DEF UpTo
      <3> QED
        BY <3>1, <3>2 DEF Delivery!Extends, Delivery!Before, Behind
    <2>8. journals[n] = Stored(records) /\ journals'[n] = Stored(more) /\ streams[n] = Stream(file)
      BY <1>2 DEF journals, streams, records, more, file
    <2>9. Delivery!OnlyOf(journals, journals', n)
      <3>1. /\ DOMAIN journals = Nodes /\ DOMAIN journals' = Nodes
            /\ journals = [m \in Nodes |-> journals[m]] /\ journals' = [m \in Nodes |-> journals'[m]]
            /\ \A m \in Nodes : m # n => journals'[m] = journals[m]
        BY <1>2 DEF journals
      <3>2. journals'[n] # journals[n]
        BY <2>2, <2>3, <2>8
      <3> QED
        BY <3>1, <3>2, OnlyOfIs
    <2>10. \E i \in DOMAIN journals'[n] :
              /\ DOMAIN journals[n] = DOMAIN journals'[n] \ {i}
              /\ \A k \in DOMAIN journals[n] : k < i /\ journals'[n][k] = journals[n][k]
              /\ journals'[n][i] \cap Delivery!Kept(journals[n]) = {}
              /\ Delivery!Extends(Delivery!Kept(journals[n]), Delivery!Kept(journals'[n]), streams[n])
      <3>1. N + 1 \in DOMAIN Stored(more) /\ DOMAIN Stored(records) = DOMAIN Stored(more) \ {N + 1}
        BY <2>2, <2>3
      <3>2. \A k \in DOMAIN Stored(records) : k < N + 1 /\ Stored(more)[k] = Stored(records)[k]
        BY <2>2, <2>3
      <3>3. Stored(more)[N + 1] \cap Delivery!Kept(Stored(records)) = {}
        BY <2>3, <2>4, <2>6
      <3>4. Delivery!Extends(Delivery!Kept(Stored(records)), Delivery!Kept(Stored(more)), Stream(file))
        BY <2>4, <2>7
      <3> QED
        BY <2>8, <3>1, <3>2, <3>3, <3>4
    <2> QED
      BY <1>3, <2>9, <2>10 DEF Delivery!Store, streams, journals, forgets
  <1> QED
    BY <1>7, <1>8

\* An edge hears an answer.
LEMMA ForgetStep ==
    ASSUME Inv, NEW a \in acks, HearAck(a)
    PROVE  \E n \in Nodes : Delivery!Forget(n) \/ UNCHANGED <<streams, journals, forgets>>
  <1>1. PICK n \in Nodes : n = a.node
    BY DEF Inv, Typed
  <1>2. PICK c \in Cursors : c = a.cursor
    BY DEF Inv, Typed
  <1>3. /\ Behind(pos[n], c) /\ pos' = [pos EXCEPT ![n] = c] /\ files' = files /\ log' = log
    BY <1>1, <1>2 DEF HearAck, center
  <1> DEFINE file == files[n]
             held == Held(n).cursor
             found == Replay(log[n]).cursor
  <1>4. /\ file \in Seq(Nat) /\ Climbing(file, pos[n], post[n], held, found) /\ Reached(held)
        /\ Reached(found) /\ Logs(file, log[n]) /\ Kept(file, Replay(log[n])) /\ ~Behind(held, c)
    BY <1>1, <1>2 DEF Inv, Typed, NodeInv, Kept, AckInv, Answers
  <1>5. ~Behind(found, c) /\ pos[n] \in Cursors /\ found \in Cursors
    <2> HIDE DEF file, held, found
    <2> QED
      BY <1>4, FoundHolds, EdgeWithin, ReachedIs
  <1>6. Delivery!Kept(Stored(log[n])) = UpTo(file, found)
    BY <1>4, JournalKeeps
  <1>7. streams' = streams /\ journals' = journals
    BY <1>3 DEF streams, journals
  <1>8. pos'[n] = c /\ \A m \in Nodes : m # n => pos'[m] = pos[m]
    BY <1>3 DEF Inv, Typed
  <1> HIDE DEF file, held, found
  <1>9. /\ UpTo(file, pos[n]) \subseteq UpTo(file, c)
        /\ \A e \in UpTo(file, c) \ UpTo(file, pos[n]) :
              /\ \A f \in UpTo(file, pos[n]) : Behind(f, e)
              /\ \A f \in Stream(file) \ UpTo(file, c) : Behind(e, f)
    BY <1>3, <1>4, <1>5, NextOf
  <1>10. UpTo(file, c) \subseteq UpTo(file, found) /\ UpTo(file, found) \subseteq Stream(file)
    <2>1. ASSUME NEW e \in UpTo(file, c) PROVE e \in UpTo(file, found)
      <3>1. e \in Stream(file) /\ e \in Cursors /\ ~Behind(c, e)
        BY <1>4, StreamIs DEF UpTo
      <3>2. ~Behind(found, e)
        BY <1>5, <3>1, BehindTransitive
      <3> QED
        BY <3>1, <3>2 DEF UpTo
    <2> QED
      BY <2>1 DEF UpTo
  <1>11. Delivery!Extends(UpTo(file, pos[n]), UpTo(file, c), UpTo(file, found))
    BY <1>9, <1>10 DEF Delivery!Extends, Delivery!Before, Behind
  <1>12. forgets[n] = UpTo(file, pos[n]) /\ forgets'[n] = UpTo(file, c) /\ journals[n] = Stored(log[n])
         /\ \A m \in Nodes : m # n => forgets'[m] = forgets[m]
    BY <1>3, <1>8 DEF forgets, journals, file
  <1>13. CASE UpTo(file, c) = UpTo(file, pos[n])
    <2>1. forgets' = forgets
      BY <1>12, <1>13 DEF forgets
    <2> QED
      BY <1>7, <2>1
  <1>14. CASE UpTo(file, c) # UpTo(file, pos[n])
    <2>1. Delivery!OnlyOf(forgets, forgets', n)
      <3>1. /\ DOMAIN forgets = Nodes /\ DOMAIN forgets' = Nodes
            /\ forgets = [m \in Nodes |-> forgets[m]] /\ forgets' = [m \in Nodes |-> forgets'[m]]
        BY DEF forgets
      <3> QED
        BY <1>12, <1>14, <3>1, OnlyOfIs
    <2>2. Delivery!Extends(forgets[n], forgets'[n], Delivery!Kept(journals[n]))
      BY <1>6, <1>11, <1>12
    <2>3. Delivery!Forget(n)
      BY <1>7, <2>1, <2>2 DEF Delivery!Forget, streams, journals, forgets
    <2> QED
      BY <2>3
  <1> QED
    BY <1>13, <1>14

LEMMA DeliveryInit == Init => Delivery!Init
  <1> SUFFICES ASSUME Init PROVE Delivery!Init
    OBVIOUS
  <1> DEFINE file == <<0>>
  <1>1. file \in Seq(Nat) /\ Len(file) = 1 /\ file[1] = 0
    OBVIOUS
  <1> HIDE DEF file
  <1>2. Stream(file) = {}
    <2> SUFFICES ASSUME NEW e \in Stream(file) PROVE FALSE
      OBVIOUS
    <2>1. e \in Cursors /\ e.gen \in 1 .. 1 /\ e.byte >= 1 /\ e.byte <= file[e.gen]
      BY <1>1, StreamIs
    <2>2. e.gen = 1
      BY <2>1
    <2> QED
      BY <1>1, <2>1, <2>2 DEF Cursors
  <1>3. Stored(<<>>) = <<>>
    <2>1. Taken(<<>>) = {}
      <3>1. DOMAIN <<>> = {}
        OBVIOUS
      <3> QED
        BY <3>1 DEF Taken
    <2> QED
      BY <2>1 DEF Stored
  <1>4. \A c : UpTo(file, c) = {}
    BY <1>2 DEF UpTo
  <1>5. \A n \in Nodes : files[n] = file /\ log[n] = <<>>
    BY DEF Init, file
  <1> QED
    BY <1>2, <1>3, <1>4, <1>5 DEF Delivery!Init

LEMMA DeliveryStep == Inv /\ [Next]_vars => [Delivery!Next]_(Delivery!vars)
  <1> SUFFICES ASSUME Inv, [Next]_vars
               PROVE  (\E n \in Nodes : Delivery!Write(n) \/ Delivery!Store(n) \/ Delivery!Forget(n))
                      \/ UNCHANGED <<streams, journals, forgets>>
    BY DEF Delivery!Next, Delivery!vars, streams, journals, forgets
  <1>1. ASSUME files' = files, pos' = pos, log' = log
        PROVE  UNCHANGED <<streams, journals, forgets>>
    BY <1>1 DEF streams, journals, forgets
  <1>2. ASSUME NEW n \in Nodes, Grow(n)
        PROVE  Delivery!Write(n) \/ UNCHANGED <<streams, journals, forgets>>
    <2>1. PICK more \in Seq(Nat) :
             more # <<>> /\ Longer(files[n], more) /\ files' = [files EXCEPT ![n] = more]
      BY <1>2, GrowIs
    <2> QED
      BY <1>2, <2>1, WriteStep DEF Grow, center
  <1>3. ASSUME NEW n \in Nodes, Rotate(n)
        PROVE  Delivery!Write(n) \/ UNCHANGED <<streams, journals, forgets>>
    <2>1. PICK more \in Seq(Nat) :
             more # <<>> /\ Longer(files[n], more) /\ files' = [files EXCEPT ![n] = more]
      BY <1>3, RotateIs
    <2> QED
      BY <1>3, <2>1, WriteStep DEF Rotate, center
  <1>4. ASSUME NEW h \in Handlers, Serving(h), IsNew(h), files' = files, pos' = pos,
               log' = Logged(handler[h].node, Head(handler[h].todo))
        PROVE  \E n \in Nodes : Delivery!Store(n) \/ UNCHANGED <<streams, journals, forgets>>
    <2>1. PICK n \in Nodes, ranges \in Seq(ByteRanges), k \in Nat : AtRange(h, n, ranges, k)
      BY <1>4, ServingIs
    <2>2. PICK r : r = ranges[k + 1]
      OBVIOUS
    <2>3. PICK more : more = Append(log[n], r)
      OBVIOUS
    <2>4. log' = [log EXCEPT ![n] = Append(@, r)]
      BY <1>4, <2>1, <2>2 DEF AtRange, Logged
    <2>5. Fits(files[n], r) /\ (Behind(Replay(log[n]).cursor, EndOf(r))
                               => Touches(files[n], Stand(Replay(log[n]).cursor), r))
      BY <1>4, <2>1, <2>2, <2>3, NewRecord
    <2>6. Delivery!Store(n) \/ UNCHANGED <<streams, journals, forgets>>
      BY <1>4, <2>4, <2>5, StoreStep
    <2> QED
      BY <2>6
  <1>5. ASSUME NEW a \in acks, HearAck(a)
        PROVE  \E n \in Nodes : Delivery!Forget(n) \/ UNCHANGED <<streams, journals, forgets>>
    BY <1>5, ForgetStep
  <1>6. ASSUME NEW h \in Handlers, IngestNew(h) \/ IngestUnsynced(h) \/ IngestKilled(h)
        PROVE  /\ Serving(h) /\ IsNew(h) /\ files' = files /\ pos' = pos
               /\ log' = Logged(handler[h].node, Head(handler[h].todo))
    BY <1>6 DEF IngestNew, IngestUnsynced, IngestKilled, edges
  <1>7. ASSUME NEW n \in Nodes, Send(n) PROVE files' = files /\ pos' = pos /\ log' = log
    BY <1>7 DEF Send, center
  <1>8. ASSUME NEW h \in Handlers, NEW p \in posts, Receive(h, p)
        PROVE  files' = files /\ pos' = pos /\ log' = log
    BY <1>8 DEF Receive, edges
  <1>9. ASSUME NEW h \in Handlers, IngestDuplicate(h) \/ Reply(h) \/ IngestFails(h)
        PROVE  files' = files /\ pos' = pos /\ log' = log
    BY <1>9 DEF IngestDuplicate, Reply, IngestFails, edges
  <1>10. CASE Crash \/ Restart
    BY <1>1, <1>10 DEF Crash, Restart, edges
  <1>11. CASE UNCHANGED vars
    BY <1>1, <1>11 DEF vars, edges, center
  <1>12. ASSUME NEW h \in Handlers, NEW p \in posts, Receive(h, p)
         PROVE  UNCHANGED <<streams, journals, forgets>>
    BY <1>1, <1>8, <1>12
  <1>13. ASSUME NEW n \in Nodes, Send(n) PROVE UNCHANGED <<streams, journals, forgets>>
    BY <1>1, <1>7, <1>13
  <1>14. ASSUME NEW h \in Handlers, IngestDuplicate(h) \/ Reply(h) \/ IngestFails(h)
         PROVE  UNCHANGED <<streams, journals, forgets>>
    BY <1>1, <1>9, <1>14
  <1>15. ASSUME NEW h \in Handlers, IngestNew(h) \/ IngestUnsynced(h) \/ IngestKilled(h)
         PROVE  \E n \in Nodes : Delivery!Store(n) \/ UNCHANGED <<streams, journals, forgets>>
    BY <1>4, <1>6, <1>15
  <1> QED
    BY <1>2, <1>3, <1>5, <1>10, <1>11, <1>12, <1>13, <1>14, <1>15 DEF Next, Handle

\* ImplementsDelivery: an edge only moves past what the log holds, and the log
\* holds it in order and once, for any number of nodes and goroutines.
THEOREM ShippingDelivers == Spec => ImplementsDelivery
  BY DeliveryInit, DeliveryStep, ShipmentInvariant, PTL DEF Spec, ImplementsDelivery, Delivery!Spec

=============================================================================
