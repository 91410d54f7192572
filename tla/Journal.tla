------------------------------ MODULE Journal ------------------------------
(***************************************************************************)
(* The append-only log center.jsonl of internal/store/memory.go: what      *)
(* persist writes, what a failed write, a failed fsync, a killed process   *)
(* or a lost page cache leaves behind, and what replay makes of it when    *)
(* the center opens the store again.                                       *)
(*                                                                         *)
(* The file is a sequence of pieces.  A piece is what one call of persist  *)
(* got into the file: the record, whether all of its JSON is there, and    *)
(* whether the newline is.  bufio.Scanner splits the file at newlines, so  *)
(* a piece without one shares its line with the piece after it.  The log   *)
(* is opened with O_APPEND and nothing is written at open.                 *)
(***************************************************************************)
EXTENDS Naturals, Sequences, FiniteSets

CONSTANTS
    Records,      \* the records the handlers persist, each at most once
    Oversize,     \* those whose line is longer than the Scanner's 8 MiB limit
    TornWrites,   \* TRUE: a write may stop in the middle of a line
    MaxFailures,  \* bound on failed writes and failed fsyncs
    MaxCrashes    \* bound on process and host crashes

ASSUME JournalAssumption ==
    /\ IsFiniteSet(Records)
    /\ Oversize \subseteq Records
    /\ TornWrites \in BOOLEAN
    /\ MaxFailures \in Nat
    /\ MaxCrashes \in Nat

VARIABLES
    file,      \* the pieces in the log, as a reader of the file sees them
    synced,    \* how many of them the last successful fsync covers
    up,        \* the store is open
    broken,    \* bufio.Writer holds a write error: it refuses every later write
    mem,       \* the records applied to the in-memory index, in order
    acked,     \* history: the records whose caller was told they are stored
    failures, crashes

vars == <<file, synced, up, broken, mem, acked, failures, crashes>>

-----------------------------------------------------------------------------
(* The file and its lines *)

Piece(r, whole, nl) == [rec |-> r, whole |-> whole, nl |-> nl]

\* The lines a write of r can leave without its newline.  A record longer
\* than bufio's buffer goes to the file before its newline does.
TornPieces(r) == {Piece(r, FALSE, FALSE), Piece(r, TRUE, FALSE)}

\* Piece i is a line of its own, and JSON that Unmarshal accepts.
Readable(f, i) ==
    /\ f[i].whole
    /\ i > 1 => f[i - 1].nl
    /\ i < Len(f) => f[i].nl

\* A mutant of ReadableLines: a malformed line ends the scan.
ReadableLines_Abort(f) ==
    {i \in DOMAIN f : \A k \in 1 .. i : Readable(f, k)}
ReadableLines(f) == {i \in DOMAIN f : Readable(f, i)}

\* replay: line by line, the records of the lines that parse.
Replayed(f) ==
    LET upTo[i \in 0 .. Len(f)] ==
            IF i = 0 THEN <<>>
            ELSE IF i \in ReadableLines(f) THEN Append(upTo[i - 1], f[i].rec) ELSE upTo[i - 1]
    IN  upTo
Replay(f) == Replayed(f)[Len(f)]

\* Scanner.Err is nil: no line exceeds the buffer, so Open succeeds.
Scannable(f) == \A i \in DOMAIN f : f[i].whole => f[i].rec \notin Oversize

Tried == {file[i].rec : i \in DOMAIN file} \cup {acked[i] : i \in DOMAIN acked}

-----------------------------------------------------------------------------
Init ==
    /\ file = <<>> /\ synced = 0
    /\ up = TRUE /\ broken = FALSE
    /\ mem = <<>> /\ acked = <<>>
    /\ failures = 0 /\ crashes = 0

\* What fsync leaves known to be on disk: everything written so far.
SyncedTo_NoSync(f) == synced   \* a mutant: persist returns after Flush
SyncedTo(f) == Len(f)

\* persist returns nil: the record and its newline are written, flushed and
\* fsynced; only then does the caller apply the record and answer.
Persist(r) ==
    /\ up /\ ~broken /\ r \notin Tried
    /\ file' = Append(file, Piece(r, TRUE, TRUE))
    /\ synced' = SyncedTo(file')
    /\ mem' = Append(mem, r)
    /\ acked' = Append(acked, r)
    /\ UNCHANGED <<up, broken, failures, crashes>>

\* Write or Flush fails: nothing, or a torn line, is in the file.  bufio keeps
\* the error, so persist fails until the store is opened again.
WriteFails(r) ==
    /\ up /\ ~broken /\ r \notin Tried
    /\ failures < MaxFailures
    /\ \/ UNCHANGED file
       \/ TornWrites /\ \E p \in TornPieces(r) : file' = Append(file, p)
    /\ broken' = TRUE
    /\ failures' = failures + 1
    /\ UNCHANGED <<synced, up, mem, acked, crashes>>

\* Sync fails: the line is in the file, but persist reports an error, so the
\* caller neither applies nor acknowledges the record.
SyncFails(r) ==
    /\ up /\ ~broken /\ r \notin Tried
    /\ failures < MaxFailures
    /\ file' = Append(file, Piece(r, TRUE, TRUE))
    /\ failures' = failures + 1
    /\ UNCHANGED <<synced, up, broken, mem, acked, crashes>>

\* Everything in memory is gone; the file stays.
Die == up' = FALSE /\ broken' = FALSE /\ mem' = <<>>

\* The process is killed while persist works on r: any part of the line may
\* have reached the file, and nobody was answered.
KilledInPersist(r) ==
    /\ up /\ ~broken /\ r \notin Tried
    /\ crashes < MaxCrashes
    /\ \/ file' = Append(file, Piece(r, TRUE, TRUE))
       \/ TornWrites /\ \E p \in TornPieces(r) : file' = Append(file, p)
    /\ Die
    /\ crashes' = crashes + 1
    /\ UNCHANGED <<synced, acked, failures>>

\* Close, or a kill between two calls of persist.
Stop ==
    /\ up
    /\ crashes < MaxCrashes
    /\ Die
    /\ crashes' = crashes + 1
    /\ UNCHANGED <<file, synced, acked, failures>>

\* The host loses power: what no fsync covered may be gone, from any point on.
HostCrash ==
    /\ crashes < MaxCrashes
    /\ \E n \in synced .. Len(file) :
          \/ file' = SubSeq(file, 1, n)
          \/ /\ TornWrites /\ n < Len(file)
             /\ \E p \in TornPieces(file[n + 1].rec) :
                   file' = Append(SubSeq(file, 1, n), p)
    /\ Die
    /\ crashes' = crashes + 1
    /\ UNCHANGED <<synced, acked, failures>>

\* OpenWithOptions: replay the log, then open it for appending.
Open ==
    /\ ~up
    /\ Scannable(file)
    /\ up' = TRUE
    /\ mem' = Replay(file)
    /\ UNCHANGED <<file, synced, broken, acked, failures, crashes>>

Next ==
    \/ \E r \in Records :
          Persist(r) \/ WriteFails(r) \/ SyncFails(r) \/ KilledInPersist(r)
    \/ Stop
    \/ HostCrash
    \/ Open

Spec == Init /\ [][Next]_vars

-----------------------------------------------------------------------------
(* Properties *)

IsAcked(r) == \E i \in DOMAIN acked : acked[i] = r

\* Every record of few is in all, once, and they are in the same order.
InOrder(few, all) ==
    /\ \A i \in DOMAIN few : \E a \in DOMAIN all : all[a] = few[i]
    /\ \A i, k \in DOMAIN few, a, b \in DOMAIN all :
          all[a] = few[i] /\ all[b] = few[k] => (i < k <=> a < b)

\* Every acknowledged record comes back from a replay of the log, in the order
\* the records were acknowledged: persist fsyncs a record before its caller
\* answers.
AckedSurvive == InOrder(acked, Replay(file))

\* No line but the last is torn.
Unglued == \A i \in 1 .. Len(file) - 1 : file[i].nl

\* As long as nothing was written behind a torn line, acknowledged records
\* survive every failed write, failed fsync, kill and power loss, and a center
\* that is open serves every one of them, also those that an earlier process
\* acknowledged, in order.
UngluedSurvive ==
    Unglued => AckedSurvive /\ (up => InOrder(acked, mem))

\* The acknowledged records that a replay does not find.
Lost == {r \in Records : IsAcked(r) /\ \A i \in ReadableLines(file) : file[i].rec # r}

\* One torn line costs at most one acknowledged record: the one appended
\* behind it after the restart.  Skipping a malformed line and going on with
\* the next one (replay) is what keeps the loss this small.
BoundedLoss == Cardinality(Lost) <= Cardinality({i \in DOMAIN file : ~file[i].nl})

\* The center can always be started again on the log it has written itself.
LogReopens == Scannable(file)
=============================================================================
