------------------------------- MODULE EventLog -------------------------------
(***************************************************************************)
(* The Event Log of one published Room (internal/store/jsonl.go): records  *)
(* are appended to events.jsonl and synced before they are acknowledged; a *)
(* write or sync that fails closes the store; opening it scans the file,   *)
(* cuts a torn last line off or completes its newline, and builds the      *)
(* index of offsets.                                                       *)
(*                                                                         *)
(* The file is a sequence of cells: a whole record, a newline, or the torn *)
(* first part of a record.  `file` is what reads see (the page cache);     *)
(* `platter` is what a power failure is sure to leave.  Assumed: a sync    *)
(* that succeeds makes the whole file durable, and unsynced appends reach  *)
(* the platter in order.                                                   *)
(*                                                                         *)
(* Left out: metadata.json, records of a foreign Room, what records say.   *)
(***************************************************************************)
EXTENDS Naturals, Sequences

CONSTANT MaxAppends   \* bound: records ever handed to Append

ASSUME EventLogAssumption == MaxAppends \in Nat

VARIABLES
  file,      \* events.jsonl as reads see it
  platter,   \* events.jsonl as the device holds it
  store,     \* the open JSONLStore
  pending,   \* Append wrote its record and has not synced it yet
  tried,     \* records handed to Append so far
  acked      \* <<sequence, record>> pairs that Append acknowledged
logVars == <<file, platter, store, pending, tried, acked>>

-------------------------------------------------------------------------------
(* The file *)

Record(seq, id) == [cell |-> "record", seq |-> seq, id |-> id]
Newline == [cell |-> "newline", seq |-> 0, id |-> 0]
Torn == [cell |-> "torn", seq |-> 0, id |-> 0]
Cell == {Newline, Torn} \cup [cell : {"record"}, seq : Nat, id : Nat]

Newlines(f) == {i \in DOMAIN f : f[i] = Newline}

\* The length of the file up to its last newline, and what follows.
lastGood(f) ==
  IF Newlines(f) = {} THEN 0 ELSE CHOOSE i \in Newlines(f) : \A j \in Newlines(f) : j <= i
LastLine(f) == SubSeq(f, lastGood(f) + 1, Len(f))

\* A line decodes when it is exactly one record.
Decodes(line) == Len(line) = 1 /\ line[1].cell = "record"
LinesDecode(f) ==
  \A i \in Newlines(f) :
    i > 1 /\ f[i - 1].cell = "record" /\ (i > 2 => f[i - 2] = Newline)

\* The records a replay of the file yields: its lines, and a last line that is
\* whole although its newline is missing.
Events(f) ==
  [n \in 1..(lastGood(f) \div 2) |-> f[2 * n - 1]]
    \o (IF Decodes(LastLine(f)) THEN LastLine(f) ELSE <<>>)

\* checkSequence and checkRoomIdentity: contiguous from the Room's first event.
Loads(f) ==
  /\ LinesDecode(f) /\ Events(f) # <<>>
  /\ \A n \in DOMAIN Events(f) : Events(f)[n].seq = n

\* repairEventLog: complete a whole last line, cut a torn one.
Repaired(f) ==
  IF Decodes(LastLine(f)) THEN Append(f, Newline) ELSE SubSeq(f, 1, lastGood(f))

\* What the repair scan returns: the offset of every record, and the length.
Scanned_BeforeNewline(f) ==
  [open |-> TRUE, lastSeq |-> Len(Events(f)),
   offsets |-> [n \in DOMAIN Events(f) |-> 2 * (n - 1)],
   size |-> IF Decodes(LastLine(f)) THEN Len(f) ELSE lastGood(f)]
Scanned(f) ==
  [open |-> TRUE, lastSeq |-> Len(Events(f)),
   offsets |-> [n \in DOMAIN Events(f) |-> 2 * (n - 1)],
   size |-> Len(Repaired(f))]

Closed == [open |-> FALSE, lastSeq |-> 0, offsets |-> <<>>, size |-> 0]
Store == [open : BOOLEAN, lastSeq : Nat, offsets : Seq(Nat), size : Nat]

-------------------------------------------------------------------------------
(* Append *)

\* failWriteLocked: the file's end is unknown, so the store is closed.
FailedWrite_StaysOpen(s) == s
FailedWrite(s) == Closed

Candidate == Record(store.lastSeq + 1, tried + 1)

\* The write reaches the file whole.
Write ==
  /\ store.open /\ ~pending /\ tried < MaxAppends
  /\ file' = file \o <<Candidate, Newline>>
  /\ pending' = TRUE /\ tried' = tried + 1
  /\ UNCHANGED <<platter, store, acked>>

\* The write fails, or the process dies in it, with any part written.
WriteFails ==
  /\ store.open /\ ~pending /\ tried < MaxAppends
  /\ \E part \in {<<>>, <<Torn>>, <<Candidate>>, <<Candidate, Newline>>} : file' = file \o part
  /\ store' = FailedWrite(store) /\ tried' = tried + 1
  /\ UNCHANGED <<platter, pending, acked>>

\* Only a synced record is acknowledged and indexed.
Acknowledged_Unindexed(s) == [s EXCEPT !.lastSeq = @ + 1, !.size = Len(file)]
Acknowledged(s) ==
  [s EXCEPT !.lastSeq = @ + 1, !.offsets = Append(@, s.size), !.size = Len(file)]

Flushed_NotYet(f) == platter
Flushed(f) == f

Sync ==
  /\ store.open /\ pending
  /\ platter' = Flushed(file)
  /\ store' = Acknowledged(store) /\ pending' = FALSE
  /\ acked' = acked \cup {<<store.lastSeq + 1, tried>>}
  /\ UNCHANGED <<file, tried>>

SyncFails ==
  /\ store.open /\ pending
  /\ store' = FailedWrite(store) /\ pending' = FALSE
  /\ UNCHANGED <<file, platter, tried, acked>>

-------------------------------------------------------------------------------
(* Open, close and failures *)

\* OpenExistingForRoom.  A file that needs no repair is opened as it is; a
\* repair is synced, and if that fails, or the process dies, stays unsynced.
OpenExisting ==
  /\ ~store.open /\ Loads(file)
  /\ \/ LastLine(file) = <<>> /\ store' = Scanned(file) /\ UNCHANGED <<file, platter>>
     \/ LastLine(file) # <<>> /\ file' = Repaired(file)
        /\ \/ platter' = Repaired(file) /\ store' = Scanned(file)
           \/ UNCHANGED <<platter, store>>
  /\ UNCHANGED <<pending, tried, acked>>

\* Close, or the death of the process: between two operations, or after a
\* record was written and before it was synced.
Close ==
  /\ store.open /\ store' = Closed /\ pending' = FALSE
  /\ UNCHANGED <<file, platter, tried, acked>>

\* The ends an unsynced file may be left with: cut anywhere after the part it
\* shares with the platter, perhaps within a record.
Shared == {n \in 0..Len(file) : n <= Len(platter) /\ \A i \in 1..n : file[i] = platter[i]}
CutsAt(n) ==
  {SubSeq(file, 1, n)} \cup
  (IF n < Len(file) /\ file[n + 1].cell = "record" THEN {Append(SubSeq(file, 1, n), Torn)} ELSE {})

PowerLoss ==
  /\ LET common == CHOOSE n \in Shared : \A m \in Shared : m <= n
     IN file' \in {platter} \cup UNION {CutsAt(n) : n \in common..Len(file)}
  /\ platter' = file'
  /\ store' = Closed /\ pending' = FALSE
  /\ UNCHANGED <<tried, acked>>

-------------------------------------------------------------------------------
\* The Room was published with its room.created event (the events provisioning
\* writes after it are records like any other).
LogInit ==
  /\ file = <<Record(1, 0), Newline>> /\ platter = file
  /\ store = Closed /\ pending = FALSE
  /\ tried = 0 /\ acked = {<<1, 0>>}

LogNext ==
  Write \/ WriteFails \/ Sync \/ SyncFails \/ OpenExisting \/ Close \/ PowerLoss

LogSpec == LogInit /\ [][LogNext]_logVars

-------------------------------------------------------------------------------
(* Properties *)

\* Every variable keeps its type, and an open store indexes every record it
\* acknowledges: ReadEvent refuses no sequence number that Append returned.  No
\* failed write, failed sync, unsynced repair or power failure leaves a file that
\* the next Open refuses, now or after the power fails.
LogTypeOK ==
  /\ file \in Seq(Cell) /\ platter \in Seq(Cell)
  /\ store \in Store /\ pending \in BOOLEAN
  /\ tried \in 0..MaxAppends /\ acked \subseteq Nat \X Nat
  /\ store.open => Len(store.offsets) = store.lastSeq
  /\ Loads(file) /\ Loads(platter)

\* What ReadEvent reads between two offsets of the index is that record's line,
\* also when repairs completed or cut lines before it and an append runs beside.
IndexFinds ==
  \A seq \in DOMAIN store.offsets :
    LET limit == IF seq < Len(store.offsets) THEN store.offsets[seq + 1] ELSE store.size
        line == SubSeq(file, store.offsets[seq] + 1, limit)
    IN Len(line) = 2 /\ line[1] = Events(file)[seq] /\ line[2] = Newline

\* The file with its failures implements the log that its users rely on.
LastAcknowledged ==
  CHOOSE n \in {a[1] : a \in acked} : \A a \in acked : a[1] <= n
Contract == INSTANCE DurableLog
  WITH log <- SubSeq(Events(file), 2, Len(Events(file))),
       acknowledged <- LastAcknowledged - 1
KeepsLog == Contract!Spec
=============================================================================
