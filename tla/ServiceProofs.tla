--------------------------- MODULE ServiceProofs ---------------------------
(***************************************************************************)
(* Two parts of the Service, neither of which knows of the other: the      *)
(* RuntimeManager, which decides what runtime a Room has (RoomRuntimes),   *)
(* and after it the reply journal of a binding (PublicationClient).        *)
(***************************************************************************)
EXTENDS RoomRuntimes, PublicationClient, FiniteSetTheorems, SequenceTheorems, TLAPS

(***************************************************************************)
(* Safety of the RuntimeManager for every set of Rooms, host modes and     *)
(* limits.  All but the queue is said Room by Room: an entry counts as     *)
(* occupying exactly while a runtime may own the Room's Event Log (RoomOK),*)
(* and what an operation on the Room has reached fixes what its entry can  *)
(* be (OpOK).  Every step but the shutdown's touches one Room.             *)
(***************************************************************************)

Phases == {"suspended", "queued", "starting", "active", "stopping", "failed"}
Lifecycles == {"active", "archived", "gone"}
Insts == {"none", "open", "draining", "sealed", "stuck"}
Points == {"none", "drain", "suspend", "closing", "undrain", "commit", "append", "release",
           "removing", "forget", "abort"}
Ops == [kind : {"none", "suspend", "archive", "rename", "restore", "remove"}, step : Points,
        ok : BOOLEAN, retried : BOOLEAN]

Types ==
  /\ native \in HostModes /\ limit \in Limits
  /\ reg \in [Rooms -> Lifecycles] /\ phase \in [Rooms -> Phases] /\ inst \in [Rooms -> Insts]
  /\ live \in [Rooms -> Nat] /\ op \in [Rooms -> Ops]
  /\ busy \subseteq Rooms /\ gate \subseteq Rooms /\ requested \subseteq Rooms /\ tried \subseteq Rooms
  /\ drainRequested \subseteq Rooms /\ fatalStop \subseteq Rooms /\ cleanupRetry \subseteq Rooms
  /\ deleting \subseteq Rooms /\ lifecycle \subseteq Rooms
  /\ lock \in {"free", "dispatch"} /\ shut \in {"no", "draining", "done"}

\* A Room's entry: its runtime as its phase says, and who drains it.
RoomOK(r) ==
  /\ live[r] = IF Occupies(r) THEN 1 ELSE 0
  /\ phase[r] \in {"suspended", "queued", "starting"} => inst[r] = "none"
  /\ phase[r] = "active" => inst[r] = "open"
  /\ phase[r] = "stopping" => inst[r] # "none"
  /\ phase[r] = "failed" => inst[r] # "draining" /\ (inst[r] = "open" => r \in fatalStop)
  /\ Occupies(r) => reg[r] = "active"
  /\ r \in gate => inst[r] # "none"
  /\ r \in gate \cup drainRequested => closed \/ Blocked(r)
  /\ closed => /\ inst[r] \in {"open", "draining"} => r \in gate
               /\ phase[r] = "starting" => r \in drainRequested
  /\ shut = "done" => /\ phase[r] \notin {"starting", "active"}
                      /\ phase[r] = "stopping" /\ inst[r] \in {"open", "draining"} => r \in fatalStop

\* The operation on a Room: its barrier, and what the step it is at relies on.
OpOK(r) ==
  LET k == op[r].kind
      at == op[r].step IN
  /\ r \in lifecycle <=> k \in {"archive", "rename"}
  /\ r \in deleting <=> k = "remove"
  /\ k = "none" => at = "none"
  /\ k = "suspend" => at \in {"suspend", "closing"}
  /\ k \in {"archive", "rename"} => at \in {"drain", "suspend", "closing", "undrain", "commit", "append", "release"}
  /\ k = "restore" => at \in {"commit", "append", "release"}
  /\ k = "remove" => at \in {"suspend", "closing", "removing", "forget", "abort"} /\ reg[r] # "active"
  /\ at = "append" => ~Occupies(r)
  /\ k = "restore" /\ at \in {"commit", "append"} => reg[r] # "active"
  /\ k \in {"archive", "rename"} /\ at \in {"commit", "append", "release"} =>
       closed \/ r \notin gate \cup drainRequested

Places == 1..Len(queue)
QueueOK ==
  /\ queue \in Seq(Rooms)
  /\ \A i, j \in Places : queue[i] = queue[j] => i = j
  /\ \A r \in Rooms : phase[r] = "queued" <=> \E i \in Places : queue[i] = r

IInv == Types /\ QueueOK /\ \A r \in Rooms : RoomOK(r) /\ OpOK(r)

-----------------------------------------------------------------------------
(* The queue *)

\* SelectInSeq finds a place that passes, or 0 when there is none.
LEMMA LeastPlace ==
  ASSUME NEW I \in SUBSET Nat, I # {}
  PROVE  Min(I) \in I
<1>1. \E x \in I : \A y \in I : x <= y
  <2> DEFINE below(n) == {x \in I : x <= n}
             T == {below(n) : n \in I}
  <2>1. ASSUME NEW n \in I
        PROVE  below(n) \in FiniteSubsetsOf(Nat)
    <3>1. below(n) \in SUBSET Nat /\ n \in Nat /\ \A x \in below(n) : x <= n
      OBVIOUS
    <3> HIDE DEF below
    <3>2. IsFiniteSet(below(n))
      BY <3>1, FS_BoundedSetOfNaturals
    <3> QED
      BY <3>1, <3>2 DEF FiniteSubsetsOf
  <2> HIDE DEF below
  <2>2. T \subseteq FiniteSubsetsOf(Nat) /\ T # {}
    BY <2>1
  <2> HIDE DEF T
  <2>3. PICK B \in T : \A C \in T : <<C, B>> \notin StrictSubsetOrdering(Nat)
    <3>1. IsWellFoundedOn(StrictSubsetOrdering(Nat), FiniteSubsetsOf(Nat))
      BY FS_StrictSubsetOrderingWellFounded
    <3> QED
      BY <2>2, <3>1, WFMin
  <2>4. PICK n \in I : B = below(n)
    BY DEF T
  <2>5. ASSUME NEW y \in I, y < n
        PROVE  FALSE
    <3>1. n \in Nat /\ y \in Nat
      OBVIOUS
    <3>2. \A x \in Nat : x <= y => x <= n
      BY <2>5, <3>1
    <3>3. n <= n /\ ~(n <= y)
      BY <2>5, <3>1
    <3>4. below(y) \subseteq below(n) /\ n \in below(n) /\ n \notin below(y)
      BY <3>1, <3>2, <3>3 DEF below
    <3>5. below(y) \in SUBSET Nat /\ below(n) \in SUBSET Nat
      BY DEF below
    <3>6. <<below(y), below(n)>> \in StrictSubsetOrdering(Nat)
      BY <3>4, <3>5 DEF StrictSubsetOrdering
    <3> QED
      BY <2>3, <2>4, <3>6 DEF T
  <2>6. \A y \in I : n <= y
    BY <2>5
  <2> QED
    BY <2>6
<1> QED
  BY <1>1 DEF Min

\* A Room is taken out of its one place in a queue.
Cut(s, i, t) ==
  /\ t \in Seq(Rooms) /\ Len(t) = Len(s) - 1
  /\ \A j \in 1..Len(t) : t[j] = IF j < i THEN s[j] ELSE s[j + 1]

LEMMA RemoveAtParts ==
  ASSUME NEW s \in Seq(Rooms), NEW i \in 1..Len(s)
  PROVE  Cut(s, i, RemoveAt(s, i))
<1> DEFINE a == SubSeq(s, 1, i - 1)
           b == SubSeq(s, i + 1, Len(s))
           n == Len(s)
<1>1. n \in Nat /\ i \in 1..n /\ \A j \in 1..n : s[j] \in Rooms
  OBVIOUS
<1>2. i - 1 \in Int /\ i + 1 \in Int /\ n \in Int
  BY <1>1
<1>3. /\ a \in Seq(Rooms) /\ Len(a) = i - 1
      /\ \A j \in 1..(i - 1) : a[j] = s[j]
  <2>1. \A j \in 1..(i - 1) : s[j] \in Rooms
    BY <1>1
  <2>2. /\ a \in Seq(Rooms) /\ Len(a) = IF 1 <= i - 1 THEN (i - 1) - 1 + 1 ELSE 0
        /\ \A j \in 1..((i - 1) - 1 + 1) : a[j] = s[1 + j - 1]
    BY <1>2, <2>1, SubSeqProperties
  <2> QED
    BY <1>1, <2>2
<1>4. /\ b \in Seq(Rooms) /\ Len(b) = n - i
      /\ \A j \in 1..(n - i) : b[j] = s[i + j]
  <2>1. \A j \in (i + 1)..n : s[j] \in Rooms
    BY <1>1
  <2>2. /\ b \in Seq(Rooms) /\ Len(b) = IF i + 1 <= n THEN n - (i + 1) + 1 ELSE 0
        /\ \A j \in 1..(n - (i + 1) + 1) : b[j] = s[(i + 1) + j - 1]
    BY <1>2, <2>1, SubSeqProperties
  <2> QED
    BY <1>1, <2>2
<1> HIDE DEF a, b
<1>5. /\ a \o b \in Seq(Rooms) /\ Len(a \o b) = Len(a) + Len(b)
      /\ \A j \in 1..(Len(a) + Len(b)) : (a \o b)[j] = IF j <= Len(a) THEN a[j] ELSE b[j - Len(a)]
  BY <1>3, <1>4, ConcatProperties
<1>6. RemoveAt(s, i) = a \o b
  BY DEF RemoveAt, a, b
<1>7. Len(a \o b) = n - 1
  BY <1>1, <1>3, <1>4, <1>5
<1>8. ASSUME NEW j \in 1..(n - 1)
      PROVE  (a \o b)[j] = IF j < i THEN s[j] ELSE s[j + 1]
  <2>1. (a \o b)[j] = IF j <= i - 1 THEN a[j] ELSE b[j - (i - 1)]
    BY <1>1, <1>3, <1>4, <1>5
  <2>2. CASE j < i
    <3>1. j \in 1..(i - 1) /\ j <= i - 1
      BY <1>1, <2>2
    <3> QED
      BY <1>3, <2>1, <2>2, <3>1
  <2>3. CASE ~(j < i)
    <3>1. j - (i - 1) \in 1..(n - i) /\ ~(j <= i - 1) /\ i + (j - (i - 1)) = j + 1
      BY <1>1, <2>3
    <3> QED
      BY <1>4, <2>1, <2>3, <3>1
  <2> QED
    BY <2>2, <2>3
<1> QED
  BY <1>5, <1>6, <1>7, <1>8 DEF Cut

\* The queue without its Room at place i, whose phase is another from then on.
LEMMA QueueCut ==
  ASSUME QueueOK, phase \in [Rooms -> Phases], NEW i \in Places, queue' = RemoveAt(queue, i),
         NEW p, p # "queued", phase' = [phase EXCEPT ![queue[i]] = p]
  PROVE  QueueOK'
<1> DEFINE r == queue[i]
           n == Len(queue)
<1>1. queue \in Seq(Rooms) /\ n \in Nat /\ i \in 1..n /\ r \in Rooms
  BY DEF QueueOK, Places
<1>2. /\ queue' \in Seq(Rooms) /\ Len(queue') = n - 1
      /\ \A j \in 1..(n - 1) : queue'[j] = IF j < i THEN queue[j] ELSE queue[j + 1]
  BY <1>1, RemoveAtParts DEF Cut
<1> DEFINE from(j) == IF j < i THEN j ELSE j + 1
<1>3. \A j \in 1..(n - 1) : queue'[j] = queue[from(j)] /\ from(j) \in 1..n /\ from(j) # i
  BY <1>1, <1>2
<1>4. \A j, k \in 1..(n - 1) : from(j) = from(k) => j = k
  BY <1>1
<1>5. \A k \in 1..n : k # i => \E j \in 1..(n - 1) : from(j) = k
  <2> SUFFICES ASSUME NEW k \in 1..n, k # i
               PROVE  \E j \in 1..(n - 1) : from(j) = k
    OBVIOUS
  <2>1. CASE k < i
    <3>1. k \in 1..(n - 1) /\ from(k) = k
      BY <1>1, <2>1
    <3> QED
      BY <3>1
  <2>2. CASE i < k
    <3>1. k - 1 \in 1..(n - 1) /\ from(k - 1) = k
      BY <1>1, <2>2
    <3> QED
      BY <3>1
  <2> QED
    BY <1>1, <2>1, <2>2
<1> HIDE DEF from
<1>6. \A j, k \in 1..n : queue[j] = queue[k] => j = k
  BY DEF QueueOK, Places
<1>7. \A j, k \in 1..(n - 1) : queue'[j] = queue'[k] => j = k
  BY <1>3, <1>4, <1>6
<1>8. ASSUME NEW q \in Rooms
      PROVE  phase'[q] = "queued" <=> \E j \in 1..(n - 1) : queue'[j] = q
  <2>1. phase[q] = "queued" <=> \E k \in 1..n : queue[k] = q
    BY DEF QueueOK, Places
  <2>2. phase'[q] = IF q = r THEN p ELSE phase[q]
    BY <1>1
  <2>3. ASSUME NEW j \in 1..(n - 1), queue'[j] = q
        PROVE  q # r /\ \E k \in 1..n : queue[k] = q
    BY <1>1, <1>3, <1>6, <2>3
  <2>4. ASSUME NEW k \in 1..n, queue[k] = q, q # r
        PROVE  \E j \in 1..(n - 1) : queue'[j] = q
    <3>1. PICK j \in 1..(n - 1) : from(j) = k
      BY <1>5, <2>4
    <3> QED
      BY <1>3, <2>4, <3>1
  <2> QED
    BY <2>1, <2>2, <2>3, <2>4
<1>9. Places' = 1..(n - 1)
  BY <1>2 DEF Places
<1> QED
  BY <1>2, <1>7, <1>8, <1>9 DEF QueueOK

LEMMA InQueue ==
  ASSUME QueueOK, NEW r \in Rooms
  PROVE  /\ (\E i \in 1..Len(queue) : queue[i] = r) <=> phase[r] = "queued"
         /\ r \in Range(queue) <=> phase[r] = "queued"
<1>1. queue \in Seq(Rooms) /\ DOMAIN queue = 1..Len(queue)
  BY DEF QueueOK
<1>2. (\E i \in 1..Len(queue) : queue[i] = r) <=> phase[r] = "queued"
  BY DEF QueueOK, Places
<1> QED
  BY <1>1, <1>2 DEF Range

\* removeQueuedLocked.
LEMMA Unqueues ==
  ASSUME QueueOK, phase \in [Rooms -> Phases], NEW r \in Rooms, queue' = Unqueued(r),
         NEW p, p # "queued", phase' = [phase EXCEPT ![r] = p]
  PROVE  QueueOK'
<1>1. queue \in Seq(Rooms) /\ Len(queue) \in Nat
  BY DEF QueueOK
<1>2. CASE phase[r] # "queued"
  <2>1. queue' = queue
    BY <1>2, InQueue DEF Unqueued, RemoveFirst
  <2>2. Places' = Places /\ \A q \in Rooms : phase'[q] = "queued" <=> phase[q] = "queued"
    BY <1>2, <2>1 DEF Places
  <2> QED
    BY <2>1, <2>2 DEF QueueOK
<1>3. CASE phase[r] = "queued"
  <2> DEFINE I == {j \in 1..Len(queue) : queue[j] = r}
  <2>1. I # {} /\ I \in SUBSET Nat
    BY <1>1, <1>3, InQueue
  <2>2. queue' = RemoveAt(queue, Min(I))
    BY <1>3, <2>1, InQueue DEF Unqueued, RemoveFirst, SelectInSeq
  <2>3. Min(I) \in I
    BY <2>1, LeastPlace
  <2> DEFINE i == Min(I)
  <2>4. i \in Places /\ queue[i] = r /\ queue' = RemoveAt(queue, i)
    BY <2>2, <2>3 DEF Places
  <2> HIDE DEF i
  <2>5. phase' = [phase EXCEPT ![queue[i]] = p]
    BY <2>4
  <2> QED
    BY <2>4, <2>5, QueueCut
<1> QED
  BY <1>2, <1>3

\* appendUnique.
LEMMA QueueGrows ==
  ASSUME QueueOK, phase \in [Rooms -> Phases], NEW r \in Rooms, queue' = Enqueued(r),
         phase[r] # "queued", phase' = [phase EXCEPT ![r] = "queued"]
  PROVE  QueueOK'
<1> DEFINE n == Len(queue)
<1>1. queue \in Seq(Rooms) /\ n \in Nat /\ queue' = Append(queue, r)
  BY InQueue DEF QueueOK, Enqueued
<1>2. /\ queue' \in Seq(Rooms) /\ Len(queue') = n + 1 /\ queue'[n + 1] = r
      /\ \A j \in 1..n : queue'[j] = queue[j]
  BY <1>1, AppendProperties
<1>3. \A j \in 1..n : queue[j] # r
  BY InQueue
<1>4. \A j \in 1..(n + 1) : j \in 1..n \/ j = n + 1
  BY <1>1
<1>5. \A j, k \in 1..(n + 1) : queue'[j] = queue'[k] => j = k
  BY <1>2, <1>3, <1>4 DEF QueueOK, Places
<1>6. ASSUME NEW q \in Rooms
      PROVE  phase'[q] = "queued" <=> \E j \in 1..(n + 1) : queue'[j] = q
  <2>1. phase'[q] = IF q = r THEN "queued" ELSE phase[q]
    OBVIOUS
  <2>2. 1..n \subseteq 1..(n + 1) /\ n + 1 \in 1..(n + 1)
    BY <1>1
  <2> QED
    BY <1>2, <1>3, <1>4, <2>1, <2>2, InQueue
<1>7. Places' = 1..(n + 1)
  BY <1>2 DEF Places
<1> QED
  BY <1>2, <1>5, <1>6, <1>7 DEF QueueOK

LEMMA QueueStays ==
  ASSUME QueueOK, queue' = queue, \A q \in Rooms : phase'[q] = "queued" <=> phase[q] = "queued"
  PROVE  QueueOK'
BY DEF QueueOK, Places

-----------------------------------------------------------------------------
(* Steps *)

\* The other Rooms keep their entries.
Elsewhere(r) ==
  /\ shut' = shut
  /\ \A q \in Rooms \ {r} :
       /\ phase'[q] = phase[q] /\ inst'[q] = inst[q] /\ live'[q] = live[q]
       /\ reg'[q] = reg[q] /\ op'[q] = op[q]
       /\ q \in gate' <=> q \in gate
       /\ q \in drainRequested' <=> q \in drainRequested
       /\ q \in fatalStop' <=> q \in fatalStop
       /\ q \in deleting' <=> q \in deleting
       /\ q \in lifecycle' <=> q \in lifecycle

LEMMA RoomSteps ==
  ASSUME IInv, NEW r \in Rooms, Types', QueueOK', Elsewhere(r), RoomOK(r)', OpOK(r)'
  PROVE  IInv'
<1>1. ASSUME NEW q \in Rooms, q # r
      PROVE  RoomOK(q)' /\ OpOK(q)'
  <2>1. RoomOK(q) /\ OpOK(q)
    BY DEF IInv
  <2>2. /\ Occupies(q)' <=> Occupies(q)
        /\ Blocked(q)' <=> Blocked(q)
        /\ closed' <=> closed
    BY <1>1 DEF Elsewhere, Occupies, Blocked, closed
  <2>3. RoomOK(q)'
    BY <1>1, <2>1, <2>2 DEF Elsewhere, RoomOK
  <2>4. OpOK(q)'
    BY <1>1, <2>1, <2>2 DEF Elsewhere, OpOK
  <2> QED
    BY <2>3, <2>4
<1> QED
  BY <1>1 DEF IInv

LEMMA Still ==
  ASSUME IInv, Types', UNCHANGED <<reg, phase, inst, live, gate, drainRequested, fatalStop, barriers, op, queue, shut>>
  PROVE  IInv'
<1>1. QueueOK'
  BY QueueStays DEF IInv
<1>2. ASSUME NEW q \in Rooms
      PROVE  RoomOK(q)' /\ OpOK(q)'
  <2>1. RoomOK(q) /\ OpOK(q)
    BY DEF IInv
  <2> QED
    BY <2>1 DEF RoomOK, OpOK, Occupies, Blocked, closed, barriers
<1> QED
  BY <1>1, <1>2 DEF IInv

LEMMA QuietSteps ==
  ASSUME IInv, UNCHANGED native,
         DispatchReturns \/ Tick \/ (\E n \in Limits : SetLimit(n)) \/ \E r \in Rooms : Work(r) \/ WorkEnds(r)
  PROVE  IInv'
<1>1. Types'
  BY DEF IInv, Types, DispatchReturns, Tick, SetLimit, Work, WorkEnds, runtime, flags, barriers, ThenDispatch
<1>2. UNCHANGED <<reg, phase, inst, live, gate, drainRequested, fatalStop, barriers, op, queue, shut>>
  BY DEF DispatchReturns, Tick, SetLimit, Work, WorkEnds, runtime, flags, barriers
<1> QED
  BY <1>1, <1>2, Still

LEMMA CloseDrainsKeeps ==
  ASSUME IInv, NEW r \in Rooms, CloseDrains(r), UNCHANGED native
  PROVE  IInv'
<1>1. Types'
  BY DEF IInv, Types, CloseDrains, flags, barriers, Insts
<1>2. Elsewhere(r) /\ QueueOK'
  BY QueueStays DEF IInv, Types, CloseDrains, flags, barriers, Elsewhere
<1>3. RoomOK(r) /\ OpOK(r)
  BY DEF IInv
<1>4. RoomOK(r)'
  BY <1>3 DEF IInv, Types, CloseDrains, flags, barriers, RoomOK, Occupies, Blocked, closed
<1>5. OpOK(r)'
  BY <1>3 DEF IInv, Types, CloseDrains, flags, barriers, OpOK, Occupies, closed
<1> QED
  BY <1>1, <1>2, <1>4, <1>5, RoomSteps

LEMMA CloseSealsKeeps ==
  ASSUME IInv, NEW r \in Rooms, CloseSeals(r), UNCHANGED native
  PROVE  IInv'
<1>1. Types'
  BY DEF IInv, Types, CloseSeals, flags, barriers, Insts
<1>2. Elsewhere(r) /\ QueueOK'
  BY QueueStays DEF IInv, Types, CloseSeals, flags, barriers, Elsewhere
<1>3. RoomOK(r) /\ OpOK(r)
  BY DEF IInv
<1>4. RoomOK(r)'
  BY <1>3 DEF IInv, Types, CloseSeals, flags, barriers, RoomOK, Occupies, Blocked, closed
<1>5. OpOK(r)'
  BY <1>3 DEF IInv, Types, CloseSeals, flags, barriers, OpOK, Occupies, closed
<1> QED
  BY <1>1, <1>2, <1>4, <1>5, RoomSteps

\* What the queue gives out next: one place of its own.
LEMMA NextInQueue ==
  ASSUME IInv, NextIndex # 0
  PROVE  NextIndex \in Places /\ Dispatchable(queue[NextIndex]) /\ queue[NextIndex] \in Rooms
         /\ phase[queue[NextIndex]] = "queued"
<1> DEFINE I == {i \in 1..Len(queue) : Dispatchable(queue[i])}
<1>1. queue \in Seq(Rooms) /\ Len(queue) \in Nat
  BY DEF IInv, QueueOK
<1>2. I # {} /\ NextIndex = Min(I)
  BY DEF NextIndex, SelectInSeq
<1>3. I \in SUBSET Nat
  BY <1>1
<1>4. NextIndex \in I
  BY <1>2, <1>3, LeastPlace
<1>5. NextIndex \in Places /\ queue[NextIndex] \in Rooms
  BY <1>1, <1>4 DEF Places
<1>6. phase[queue[NextIndex]] = "queued"
  BY <1>5 DEF IInv, QueueOK
<1> QED
  BY <1>4, <1>5, <1>6

LEMMA DispatchNextKeeps ==
  ASSUME IInv, DispatchNext, UNCHANGED native
  PROVE  IInv'
<1>1. PICK i \in Places, r \in Rooms : i = NextIndex /\ r = queue[i]
  BY NextInQueue DEF DispatchNext
<1>2. phase[r] = "queued" /\ queue' = RemoveAt(queue, i) /\ ~closed
  BY <1>1, NextInQueue DEF DispatchNext
<1>3. /\ UNCHANGED <<reg, inst, gate, drainRequested, fatalStop, barriers, op, shut>>
      /\ \/ /\ Blocked(r) /\ phase' = [phase EXCEPT ![r] = "suspended"] /\ live' = live
         \/ /\ ~Blocked(r) /\ reg[r] # "active" /\ phase' = [phase EXCEPT ![r] = "failed"] /\ live' = live
         \/ /\ ~Blocked(r) /\ reg[r] = "active" /\ phase' = [phase EXCEPT ![r] = "starting"]
            /\ live' = [live EXCEPT ![r] = @ + 1]
  BY <1>1, <1>2 DEF DispatchNext, Set
<1>4. Types'
  <2>1. UNCHANGED <<reg, inst, busy, gate, drainRequested, fatalStop, cleanupRetry, barriers, limit, lock, op, shut, tried>>
        /\ requested' \subseteq Rooms
    BY DEF DispatchNext, IInv, Types
  <2>2. phase' \in [Rooms -> Phases] /\ live' \in [Rooms -> Nat]
    BY <1>3 DEF IInv, Types, Phases
  <2> QED
    BY <2>1, <2>2 DEF IInv, Types, barriers
<1>5. QueueOK'
  <2> DEFINE p == phase'[r]
  <2>1. p # "queued" /\ phase' = [phase EXCEPT ![queue[i]] = p] /\ phase \in [Rooms -> Phases]
    BY <1>1, <1>3 DEF IInv, Types
  <2> HIDE DEF p
  <2> QED
    BY <1>2, <2>1, QueueCut DEF IInv
<1>6. RoomOK(r) /\ OpOK(r)
  BY DEF IInv
<1>7. Elsewhere(r)
  BY <1>3 DEF IInv, Types, Elsewhere, barriers
<1>8. RoomOK(r)'
  BY <1>2, <1>3, <1>6 DEF IInv, Types, RoomOK, Occupies, Blocked, closed, barriers
<1>9. OpOK(r)'
  <2>1. op[r].step = "append" => Blocked(r) \/ reg[r] # "active"
    <3>1. op[r].kind \in {"none", "suspend", "archive", "rename", "restore", "remove"}
      BY DEF IInv, Types, Ops
    <3> QED
      BY <1>6, <3>1 DEF OpOK, Blocked
  <2>2. /\ UNCHANGED <<reg, gate, drainRequested, deleting, lifecycle, op, shut>>
        /\ Occupies(r)' => ~Blocked(r) /\ reg[r] = "active"
    BY <1>2, <1>3 DEF Occupies, barriers, IInv, Types, RoomOK
  <2> QED
    BY <1>6, <2>1, <2>2 DEF OpOK, closed
<1> QED
  BY <1>4, <1>5, <1>7, <1>8, <1>9, RoomSteps

LEMMA DispatchEvictsKeeps ==
  ASSUME IInv, DispatchEvicts, UNCHANGED native
  PROVE  IInv'
<1>1. PICK r \in Victims : Stopping(r) /\ requested' = requested \ {r}
  BY DEF DispatchEvicts
<1>2. r \in Rooms /\ phase[r] = "active" /\ RoomOK(r) /\ OpOK(r)
  BY DEF Victims, IInv
<1>3. Types'
  BY <1>1 DEF IInv, Types, DispatchEvicts, runtime, barriers, Stopping, Set, Phases
<1>4. Elsewhere(r) /\ QueueOK'
  BY <1>1, <1>2, QueueStays DEF IInv, Types, DispatchEvicts, runtime, barriers, Elsewhere, Stopping, Set
<1>5. RoomOK(r)'
  BY <1>1, <1>2 DEF IInv, Types, DispatchEvicts, runtime, barriers, Stopping, Set, RoomOK, Occupies, Blocked, closed
<1>6. OpOK(r)'
  BY <1>1, <1>2 DEF IInv, Types, DispatchEvicts, runtime, barriers, Stopping, Set, OpOK, Occupies, Blocked, closed
<1> QED
  BY <1>2, <1>3, <1>4, <1>5, <1>6, RoomSteps

LEMMA RequestActivationKeeps ==
  ASSUME IInv, NEW r \in Rooms, RequestActivation(r), UNCHANGED native
  PROVE  IInv'
<1> USE DEF ThenDispatch, runtime, barriers
<1>1. RoomOK(r) /\ OpOK(r)
  BY DEF IInv
<1>2. CASE phase[r] = "suspended" \/ (phase[r] = "failed" /\ inst[r] = "none")
  <2>1. Queue(r)
    BY <1>2 DEF RequestActivation
  <2>2. Types'
    <3>1. phase' \in [Rooms -> Phases]
      BY <2>1 DEF IInv, Types, Queue, Set, Phases
    <3> QED
      BY <2>1, <3>1 DEF IInv, Types, Queue, RequestActivation
  <2>3. QueueOK'
    <3>1. phase[r] # "queued" /\ queue' = Enqueued(r) /\ phase' = [phase EXCEPT ![r] = "queued"]
      BY <1>2, <2>1 DEF Queue, Set
    <3> QED
      BY <3>1, QueueGrows DEF IInv, Types
  <2>4. Elsewhere(r)
    BY <2>1 DEF IInv, Types, RequestActivation, Queue, Set, Elsewhere
  <2>5. RoomOK(r)'
    BY <1>1, <1>2, <2>1 DEF IInv, Types, RequestActivation, Queue, Set, RoomOK, Occupies, Blocked, closed
  <2>6. OpOK(r)'
    BY <1>1, <1>2, <2>1 DEF IInv, Types, RequestActivation, Queue, Set, OpOK, Occupies, Blocked, closed
  <2> QED
    BY <2>2, <2>3, <2>4, <2>5, <2>6, RoomSteps
<1>3. CASE phase[r] = "failed" /\ inst[r] # "none"
  <2>1. requested' = requested \cup {r} /\ Stopping(r) /\ UNCHANGED <<drainRequested, queue>>
    BY <1>3 DEF RequestActivation
  <2>2. Types'
    <3>1. phase' \in [Rooms -> Phases]
      BY <2>1 DEF IInv, Types, Stopping, Set, Phases
    <3> QED
      BY <2>1, <3>1 DEF IInv, Types, RequestActivation
  <2>3. Elsewhere(r) /\ QueueOK'
    BY <1>3, <2>1, QueueStays DEF IInv, Types, RequestActivation, Stopping, Set, Elsewhere
  <2>4. RoomOK(r)'
    BY <1>1, <1>3, <2>1 DEF IInv, Types, RequestActivation, Stopping, Set, RoomOK, Occupies, Blocked, closed
  <2>5. OpOK(r)'
    BY <1>1, <1>3, <2>1 DEF IInv, Types, RequestActivation, Stopping, Set, OpOK, Occupies, Blocked, closed
  <2> QED
    BY <2>2, <2>3, <2>4, <2>5, RoomSteps
<1>4. CASE phase[r] \notin {"suspended", "failed"}
  <2>1. /\ requested' \subseteq requested \cup {r} /\ UNCHANGED <<phase, drainRequested, queue>>
    BY <1>4 DEF RequestActivation
  <2>2. Types'
    BY <2>1 DEF IInv, Types, RequestActivation
  <2> QED
    BY <2>1, <2>2, Still DEF RequestActivation
<1> QED
  BY <1>2, <1>3, <1>4

\* A runtime is told to stop: its entry was Active, or Failed with a runtime left.
LEMMA StoppingKeeps ==
  ASSUME IInv, NEW r \in Rooms, Types', Stopping(r),
         phase[r] = "active" \/ (phase[r] = "failed" /\ inst[r] # "none"),
         shut = "done" => phase[r] = "failed",
         inst' = inst \/ (phase[r] = "active" /\ ~closed /\ inst' = [inst EXCEPT ![r] = "draining"]),
         fatalStop' = fatalStop \/ fatalStop' = fatalStop \cup {r},
         UNCHANGED <<reg, live, gate, drainRequested, queue, barriers, shut>>,
         op' = op \/ (op[r].step = "suspend" /\ op' = [op EXCEPT ![r].step = "closing"])
  PROVE  IInv'
<1> USE DEF barriers
<1>1. RoomOK(r) /\ OpOK(r)
  BY DEF IInv
<1>2. phase' = [phase EXCEPT ![r] = "stopping"] /\ phase'[r] = "stopping"
  BY DEF Stopping, Set, IInv, Types
<1>3. Elsewhere(r) /\ QueueOK'
  BY <1>2, QueueStays DEF IInv, Types, Elsewhere
<1>4. RoomOK(r)'
  BY <1>1, <1>2 DEF IInv, Types, RoomOK, Occupies, Blocked, closed
<1>5. OpOK(r)'
  BY <1>1, <1>2 DEF IInv, Types, OpOK, Occupies, Blocked, closed, Ops
<1> QED
  BY <1>3, <1>4, <1>5, RoomSteps

LEMMA OpMoves ==
  ASSUME NEW p \in Ops, NEW s \in Points, NEW q, q = [p EXCEPT !.step = s]
  PROVE  q \in Ops /\ q.kind = p.kind /\ q.step = s /\ q.ok = p.ok
<1>1. q = [kind |-> p.kind, step |-> s, ok |-> p.ok, retried |-> p.retried]
  BY DEF Ops
<1> QED
  BY <1>1 DEF Ops

\* An operation takes its next step.
LEMMA StepParts ==
  ASSUME IInv, NEW r \in Rooms, NEW s \in Points, Step(r, s)
  PROVE  /\ op' \in [Rooms -> Ops] /\ \A q \in Rooms \ {r} : op'[q] = op[q]
         /\ op'[r].kind = op[r].kind /\ op'[r].step = s
<1> DEFINE p == op[r]
           o == [p EXCEPT !.step = s]
<1>1. op \in [Rooms -> Ops] /\ p \in Ops
  BY DEF IInv, Types
<1>2. op' = [op EXCEPT ![r] = o]
  BY DEF Step
<1>3. o \in Ops /\ o.kind = p.kind /\ o.step = s
  <2> HIDE DEF p
  <2> QED
    BY <1>1, OpMoves
<1> HIDE DEF o
<1> QED
  BY <1>1, <1>2, <1>3

LEMMA StopSteps ==
  ASSUME IInv, NEW r \in Rooms, UNCHANGED native,
         Reconcile(r) \/ SuspendCloses(r) \/ ShutdownStops(r)
  PROVE  IInv'
<1> USE DEF runtime, barriers
<1>1. RoomOK(r) /\ Stopping(r)
  BY DEF IInv, Reconcile, TickRetries, TickStopsFatal, TickStopsIdle, SuspendCloses, ShutdownStops
<1>2. /\ phase[r] = "active" \/ (phase[r] = "failed" /\ inst[r] # "none")
      /\ shut = "done" => phase[r] = "failed"
      /\ inst' = inst \/ (phase[r] = "active" /\ ~closed /\ inst' = [inst EXCEPT ![r] = "draining"])
      /\ fatalStop' = fatalStop \/ fatalStop' = fatalStop \cup {r}
      /\ UNCHANGED <<reg, live, gate, drainRequested, queue, barriers, shut>>
      /\ op' = op \/ (op[r].step = "suspend" /\ Step(r, "closing"))
  BY <1>1 DEF RoomOK, Reconcile, TickRetries, TickStopsFatal, TickStopsIdle, SuspendCloses, ShutdownStops,
     Unfinished, AtStep, closed
<1>3. Types'
  <2>1. /\ requested' \subseteq Rooms /\ cleanupRetry' = cleanupRetry /\ tried' \subseteq Rooms
        /\ busy' = busy /\ limit' = limit /\ lock' \in {"free", "dispatch"}
    BY DEF IInv, Types, Reconcile, TickRetries, TickStopsFatal, TickStopsIdle, SuspendCloses, ShutdownStops,
       ThenDispatch
  <2>2. phase' \in [Rooms -> Phases] /\ inst' \in [Rooms -> Insts]
    BY <1>1, <1>2 DEF IInv, Types, Stopping, Set, Phases, Insts
  <2>3. op' \in [Rooms -> Ops]
    BY <1>2, StepParts DEF IInv, Types, Points
  <2> QED
    BY <1>2, <2>1, <2>2, <2>3 DEF IInv, Types
<1> QED
  BY <1>1, <1>2, <1>3, StoppingKeeps DEF Step

LEMMA FinishStartKeeps ==
  ASSUME IInv, NEW r \in Rooms, FinishStart(r), UNCHANGED native
  PROVE  IInv'
<1> USE DEF runtime, barriers
<1>1. RoomOK(r) /\ OpOK(r) /\ phase[r] = "starting" /\ inst[r] = "none" /\ live[r] = 1 /\ reg[r] = "active"
  BY DEF IInv, FinishStart, RoomOK, Occupies
<1>2. \/ /\ phase' = [phase EXCEPT ![r] = "active"] /\ inst' = [inst EXCEPT ![r] = "open"]
         /\ gate' = IF r \in drainRequested THEN gate \cup {r} ELSE gate \ {r}
         /\ live' = live
      \/ /\ phase' = [phase EXCEPT ![r] = "failed"] /\ inst' = inst /\ gate' = gate
         /\ live' = [live EXCEPT ![r] = live[r] - 1]
      \/ /\ phase' = [phase EXCEPT ![r] = "failed"] /\ live' = live /\ gate' = gate
         /\ \E i \in {"sealed", "stuck"} : inst' = [inst EXCEPT ![r] = i]
  BY DEF FinishStart, Started, NotStarted, HalfStarted, Set
<1>3. UNCHANGED <<reg, busy, drainRequested, fatalStop, queue, barriers, limit, op, shut, tried>>
  BY DEF FinishStart
<1>4. Types'
  <2>1. phase' \in [Rooms -> Phases] /\ inst' \in [Rooms -> Insts] /\ gate' \subseteq Rooms
    BY <1>2 DEF IInv, Types, Phases, Insts
  <2>2. live' \in [Rooms -> Nat]
    <3>1. live[r] - 1 \in Nat
      BY <1>1
    <3> QED
      BY <1>2, <3>1 DEF IInv, Types
  <2>3. requested' \subseteq Rooms /\ cleanupRetry' \subseteq Rooms /\ lock' \in {"free", "dispatch"}
    BY DEF IInv, Types, FinishStart, Started, NotStarted, HalfStarted, ThenDispatch
  <2> QED
    BY <1>3, <2>1, <2>2, <2>3 DEF IInv, Types
<1>5. Elsewhere(r) /\ QueueOK'
  BY <1>1, <1>2, <1>3, QueueStays DEF IInv, Types, Elsewhere
<1>6. RoomOK(r)'
  BY <1>1, <1>2, <1>3 DEF IInv, Types, RoomOK, Occupies, Blocked, closed
<1>7. OpOK(r)'
  <2>1. op[r].step # "append"
    BY <1>1 DEF OpOK, Occupies
  <2>2. r \in gate' => r \in gate \cup drainRequested
    BY <1>2
  <2> QED
    BY <1>1, <1>3, <2>1, <2>2 DEF OpOK, closed
<1> QED
  BY <1>4, <1>5, <1>6, <1>7, RoomSteps

\* What a stop or a suspension makes of the operation that asked for it.
LEMMA ResultParts ==
  ASSUME IInv, NEW r \in Rooms, op[r].step \in {"suspend", "closing"}, NEW o
  PROVE  /\ Result(r, o) \in Ops
         /\ Result(r, o) = NoOp \/ (Result(r, o).kind = op[r].kind /\ op[r].kind # "suspend")
         /\ Result(r, o) = NoOp => op[r].kind = "suspend"
         /\ op[r].kind = "remove" => Result(r, o).step \in {"removing", "abort"}
         /\ op[r].kind \in {"archive", "rename"} => Result(r, o).step \in {"suspend", "undrain"}
         /\ op[r].kind \in {"suspend", "remove", "archive", "rename"}
<1> DEFINE p == op[r]
           again == p.kind \in {"archive", "rename"} /\ (o = "aborted" \/ (o = "pending" /\ ~p.retried))
           x == Result(r, o)
<1>1. p \in Ops /\ p.kind \in {"suspend", "remove", "archive", "rename"}
  <2>1. p \in Ops /\ p.step \in {"suspend", "closing"} /\ OpOK(r)
    BY DEF IInv, Types
  <2> QED
    BY <2>1 DEF Ops, OpOK
<1>2. /\ again => x = [p EXCEPT !.step = "suspend", !.retried = p.retried \/ o = "pending"]
      /\ ~again /\ p.kind = "suspend" => x = NoOp
      /\ ~again /\ p.kind = "remove" => x = [p EXCEPT !.step = IF o = "closed" THEN "removing" ELSE "abort"]
      /\ ~again /\ p.kind \notin {"suspend", "remove"} => x = [p EXCEPT !.step = "undrain", !.ok = (o = "closed")]
  BY DEF Result
<1> HIDE DEF p, x
<1>3. CASE again
  <2> DEFINE b == p.retried \/ o = "pending"
  <2>1. b \in BOOLEAN /\ p.kind \in {"archive", "rename"}
    BY <1>3
  <2>2. x = [p EXCEPT !.step = "suspend", !.retried = b]
    BY <1>2, <1>3
  <2> HIDE DEF b
  <2>3. x = [kind |-> p.kind, step |-> "suspend", ok |-> p.ok, retried |-> b]
    BY <1>1, <2>2 DEF Ops
  <2>4. x \in Ops /\ x.kind = p.kind /\ x.step = "suspend"
    BY <1>1, <2>1, <2>3 DEF Ops, Points
  <2> QED
    BY <2>1, <2>4 DEF p, x, NoOp
<1>4. CASE ~again /\ p.kind = "suspend"
  <2>1. x = NoOp /\ NoOp \in Ops
    BY <1>2, <1>4 DEF NoOp, Ops, Points
  <2> QED
    BY <1>4, <2>1 DEF p, x
<1>5. CASE ~again /\ p.kind = "remove"
  <2>1. \E s \in {"removing", "abort"} : x = [p EXCEPT !.step = s]
    BY <1>2, <1>5
  <2>2. x \in Ops /\ x.kind = p.kind /\ x.step \in {"removing", "abort"}
    BY <1>1, <2>1, OpMoves DEF Points
  <2> QED
    BY <1>5, <2>2 DEF p, x, NoOp
<1>6. CASE ~again /\ p.kind \notin {"suspend", "remove"}
  <2> DEFINE b == o = "closed"
  <2>1. x = [p EXCEPT !.step = "undrain", !.ok = b]
    BY <1>2, <1>6
  <2>2. b \in BOOLEAN
    OBVIOUS
  <2> HIDE DEF b
  <2>3. x = [kind |-> p.kind, step |-> "undrain", ok |-> b, retried |-> p.retried]
    BY <1>1, <2>1 DEF Ops
  <2>4. x \in Ops /\ x.kind = p.kind /\ x.step = "undrain"
    BY <1>1, <2>2, <2>3 DEF Ops, Points
  <2> QED
    BY <1>1, <1>6, <2>4 DEF p, x, NoOp
<1> QED
  BY <1>3, <1>4, <1>5, <1>6

LEMMA Settles ==
  ASSUME IInv, NEW r \in Rooms, op[r].step \in {"suspend", "closing"}, NEW o, Settle(r, o),
         UNCHANGED <<reg, barriers>>
  PROVE  OpOK(r)' /\ op' \in [Rooms -> Ops] /\ \A q \in Rooms \ {r} : op'[q] = op[q]
<1>1. op \in [Rooms -> Ops] /\ OpOK(r)
  BY DEF IInv, Types
<1>2. op' = [op EXCEPT ![r] = Result(r, o)] /\ Result(r, o) \in Ops
  BY ResultParts DEF Settle
<1>3. op' \in [Rooms -> Ops] /\ op'[r] = Result(r, o) /\ \A q \in Rooms \ {r} : op'[q] = op[q]
  BY <1>1, <1>2
<1>4. /\ Result(r, o) = NoOp \/ (Result(r, o).kind = op[r].kind /\ op[r].kind # "suspend")
      /\ Result(r, o) = NoOp => op[r].kind = "suspend"
      /\ op[r].kind = "remove" => Result(r, o).step \in {"removing", "abort"}
      /\ op[r].kind \in {"archive", "rename"} => Result(r, o).step \in {"suspend", "undrain"}
      /\ op[r].kind \in {"suspend", "remove", "archive", "rename"}
  BY ResultParts
<1>5. NoOp.kind = "none" /\ NoOp.step = "none"
  BY DEF NoOp
<1>6. OpOK(r)'
  BY <1>1, <1>3, <1>4, <1>5 DEF OpOK, barriers
<1> QED
  BY <1>3, <1>6

LEMMA FinishStopKeeps ==
  ASSUME IInv, NEW r \in Rooms, NEW o, FinishStop(r, o), UNCHANGED native
  PROVE  IInv'
<1>1. RoomOK(r) /\ OpOK(r) /\ phase[r] = "stopping" /\ inst[r] # "none" /\ live[r] = 1 /\ reg[r] = "active"
  BY DEF IInv, FinishStop, RoomOK, Occupies
<1>2. UNCHANGED <<reg, busy, barriers, limit, shut, tried, native>> /\ lock' = "dispatch"
  BY DEF FinishStop, ThenDispatch
<1>3. /\ OpOK(r) /\ op[r].step # "append"
      /\ \/ op' = op
         \/ op[r].step = "closing" /\ Settle(r, o)
  BY <1>1 DEF FinishStop, OpOK, Occupies, AtStep
<1>4. op' \in [Rooms -> Ops] /\ \A q \in Rooms \ {r} : op'[q] = op[q]
  BY <1>2, <1>3, Settles DEF IInv, Types
<1>5. o \in Outcomes(r) /\ inst' = [inst EXCEPT ![r] = After(o)]
  BY DEF FinishStop
<1>6. inst[r] \in {"draining", "sealed", "stuck"} /\ o \in {"closed", "aborted", "pending", "uncertain"}
      /\ (o = "aborted" <=> inst[r] = "draining")
  BY <1>5 DEF Outcomes
<1>7. inst'[r] = (CASE o = "closed" -> "none" [] o = "aborted" -> "open"
                    [] o = "pending" -> "sealed" [] o = "uncertain" -> "stuck")
      /\ inst' \in [Rooms -> Insts] /\ \A q \in Rooms \ {r} : inst'[q] = inst[q]
  BY <1>5, <1>6 DEF IInv, Types, After, Insts
<1>8. ASSUME gate' \subseteq gate, drainRequested' \subseteq drainRequested
      PROVE  OpOK(r)'
  <2>1. CASE op' = op
    BY <1>1, <1>2, <1>3, <1>8, <2>1 DEF OpOK, barriers, closed
  <2>2. CASE op[r].step = "closing" /\ Settle(r, o)
    BY <1>2, <2>2, Settles
  <2> QED
    BY <1>3, <2>1, <2>2
<1>9. CASE o = "closed"
  <2>1. /\ live' = [live EXCEPT ![r] = live[r] - 1] /\ gate' = gate \ {r}
        /\ drainRequested' = drainRequested \ {r} /\ fatalStop' = fatalStop \ {r}
        /\ cleanupRetry' = cleanupRetry \ {r} /\ requested' \subseteq requested
        /\ \/ Wanted(r) /\ phase' = [phase EXCEPT ![r] = "queued"] /\ queue' = Enqueued(r)
           \/ phase' = [phase EXCEPT ![r] = "suspended"] /\ queue' = queue
    BY <1>9 DEF FinishStop, Stopped, Set
  <2>2. live[r] - 1 = 0
    BY <1>1
  <2>3. Types'
    BY <1>2, <1>4, <1>7, <2>1, <2>2 DEF IInv, Types, Phases, barriers
  <2>4. QueueOK'
    <3>1. CASE Wanted(r) /\ phase' = [phase EXCEPT ![r] = "queued"] /\ queue' = Enqueued(r)
      BY <1>1, <3>1, QueueGrows DEF IInv, Types
    <3>2. CASE phase' = [phase EXCEPT ![r] = "suspended"] /\ queue' = queue
      BY <1>1, <3>2, QueueStays DEF IInv, Types
    <3> QED
      BY <2>1, <3>1, <3>2
  <2>5. Elsewhere(r)
    BY <1>2, <1>4, <1>7, <2>1 DEF IInv, Types, Elsewhere, barriers
  <2>6. RoomOK(r)'
    BY <1>1, <1>2, <1>7, <1>9, <2>1, <2>2 DEF IInv, Types, RoomOK, Occupies, Blocked, closed, barriers, Wanted
  <2> QED
    BY <1>8, <2>1, <2>3, <2>4, <2>5, <2>6, RoomSteps
<1>10. CASE o # "closed"
  <2>1. /\ UNCHANGED <<live, gate, drainRequested, fatalStop, queue>>
        /\ requested' \subseteq requested /\ cleanupRetry' \subseteq Rooms
        /\ \/ o = "aborted" /\ phase' = [phase EXCEPT ![r] = IF r \in fatalStop THEN "failed" ELSE "active"]
           \/ o # "aborted" /\ phase' = [phase EXCEPT ![r] = "failed"]
    BY <1>10 DEF FinishStop, StopAborted, StopFailed, Set, IInv, Types
  <2>2. Types'
    BY <1>2, <1>4, <1>7, <2>1 DEF IInv, Types, Phases, barriers
  <2>3. Elsewhere(r) /\ QueueOK'
    BY <1>1, <1>2, <1>4, <1>7, <2>1, QueueStays DEF IInv, Types, Elsewhere, barriers
  <2>4. RoomOK(r)'
    <3>1. inst'[r] # "none" /\ inst'[r] # "draining" /\ (inst'[r] = "open" <=> o = "aborted")
      BY <1>6, <1>7, <1>10
    <3>2. phase'[r] = IF o = "aborted" /\ r \notin fatalStop THEN "active" ELSE "failed"
      BY <2>1 DEF IInv, Types
    <3> QED
      BY <1>1, <1>2, <1>6, <2>1, <3>1, <3>2 DEF RoomOK, Occupies, Blocked, closed, barriers
  <2> QED
    BY <1>8, <2>1, <2>2, <2>3, <2>4, RoomSteps
<1> QED
  BY <1>9, <1>10

LEMMA SuspendKeeps ==
  ASSUME IInv, NEW r \in Rooms, UNCHANGED native, SuspendNow(r) \/ SuspendRefused(r) \/ SuspendWaits(r)
  PROVE  IInv'
<1> USE DEF runtime
<1>1. RoomOK(r) /\ OpOK(r) /\ op[r].step = "suspend"
  BY DEF IInv, SuspendNow, SuspendRefused, SuspendWaits, AtStep
<1>2. /\ UNCHANGED <<reg, runtime, drainRequested, fatalStop, cleanupRetry, barriers, limit, lock, shut, tried, native>>
      /\ requested' \subseteq Rooms
      /\ op' = op \/ \E o : Settle(r, o)
  BY DEF SuspendNow, SuspendRefused, SuspendWaits, IInv, Types
<1>3. op' \in [Rooms -> Ops] /\ \A q \in Rooms \ {r} : op'[q] = op[q]
  BY <1>1, <1>2, Settles DEF IInv, Types
<1>4. OpOK(r)'
  <2>1. CASE op' = op
    BY <1>1, <1>2, <2>1 DEF OpOK, barriers, closed
  <2>2. CASE \E o : Settle(r, o)
    BY <1>1, <1>2, <2>2, Settles
  <2> QED
    BY <1>2, <2>1, <2>2
<1>5. CASE SuspendNow(r)
  <2>1. /\ phase[r] \in {"suspended", "queued"} \/ (phase[r] = "failed" /\ inst[r] = "none")
        /\ phase' = [phase EXCEPT ![r] = "suspended"] /\ queue' = Unqueued(r)
    BY <1>5 DEF SuspendNow, Set
  <2>2. Types'
    BY <1>2, <1>3, <2>1 DEF IInv, Types, Phases, barriers
  <2>3. QueueOK'
    BY <2>1, Unqueues DEF IInv, Types
  <2>4. Elsewhere(r)
    BY <1>2, <1>3, <2>1 DEF IInv, Types, Elsewhere, barriers
  <2>5. RoomOK(r)'
    BY <1>1, <1>2, <2>1 DEF IInv, Types, RoomOK, Occupies, Blocked, closed, barriers
  <2> QED
    BY <1>4, <2>2, <2>3, <2>4, <2>5, RoomSteps
<1>6. CASE SuspendRefused(r) \/ SuspendWaits(r)
  <2>1. UNCHANGED <<phase, queue>>
    BY <1>6 DEF SuspendRefused, SuspendWaits
  <2>2. Types'
    BY <1>2, <1>3, <2>1 DEF IInv, Types, barriers
  <2>3. QueueOK' /\ Elsewhere(r)
    BY <1>2, <1>3, <2>1, QueueStays DEF IInv, Elsewhere, barriers
  <2>4. RoomOK(r)'
    BY <1>1, <1>2, <2>1 DEF RoomOK, Occupies, Blocked, closed, barriers
  <2> QED
    BY <1>4, <2>2, <2>3, <2>4, RoomSteps
<1> QED
  BY <1>5, <1>6

\* An operation begins or ends.
LEMMA BeginParts ==
  ASSUME IInv, NEW r \in Rooms, NEW p \in Ops, op' = [op EXCEPT ![r] = p]
  PROVE  op' \in [Rooms -> Ops] /\ op'[r] = p /\ \A q \in Rooms \ {r} : op'[q] = op[q]
BY DEF IInv, Types

Kinds == {"none", "suspend", "archive", "rename", "restore", "remove"}

LEMMA Begins ==
  ASSUME IInv, NEW r \in Rooms, NEW k \in Kinds, NEW s \in Points, Begin(r, k, s)
  PROVE  /\ op' \in [Rooms -> Ops] /\ \A q \in Rooms \ {r} : op'[q] = op[q]
         /\ op'[r].kind = k /\ op'[r].step = s
<1> DEFINE p == [NoOp EXCEPT !.kind = k, !.step = s]
<1>1. NoOp \in Ops
  BY DEF NoOp, Ops, Points
<1>2. p \in Ops /\ p.kind = k /\ p.step = s
  <2>1. ASSUME NEW o \in Ops
        PROVE  [o EXCEPT !.kind = k, !.step = s] \in Ops
    BY DEF Ops, Kinds
  <2>2. ASSUME NEW o \in Ops
        PROVE  [o EXCEPT !.kind = k, !.step = s].kind = k
    BY DEF Ops
  <2>3. ASSUME NEW o \in Ops
        PROVE  [o EXCEPT !.kind = k, !.step = s].step = s
    BY DEF Ops
  <2> QED
    BY <1>1, <2>1, <2>2, <2>3
<1> HIDE DEF p
<1>3. op' = [op EXCEPT ![r] = p]
  BY DEF Begin, p
<1> QED
  BY <1>2, <1>3, BeginParts

LEMMA EndsParts ==
  ASSUME IInv, NEW r \in Rooms, Ends(r)
  PROVE  /\ op' \in [Rooms -> Ops] /\ \A q \in Rooms \ {r} : op'[q] = op[q]
         /\ op'[r].kind = "none" /\ op'[r].step = "none"
<1>1. NoOp \in Ops /\ NoOp.kind = "none" /\ NoOp.step = "none"
  BY DEF NoOp, Ops, Points
<1> QED
  BY <1>1, BeginParts DEF Ends

\* Nothing of an entry changes but who drains it.
LEMMA OpSteps ==
  ASSUME IInv, NEW r \in Rooms, UNCHANGED <<native, phase, inst, live, queue, busy, fatalStop, cleanupRetry, limit, shut, tried>>,
         op' \in [Rooms -> Ops], \A q \in Rooms \ {r} : op'[q] = op[q],
         reg' \in [Rooms -> Lifecycles], \A q \in Rooms \ {r} : reg'[q] = reg[q],
         requested' \subseteq requested, lock' \in {"free", "dispatch"},
         deleting' \in {deleting, deleting \cup {r}, deleting \ {r}},
         lifecycle' \in {lifecycle, lifecycle \cup {r}, lifecycle \ {r}},
         drainRequested' \in {drainRequested, drainRequested \cup {r}, drainRequested \ {r}},
         gate' \in {gate, gate \cup {r}, gate \ {r}},
         OpOK(r)',
         Occupies(r) => reg'[r] = "active",
         r \in gate' => inst[r] # "none",
         r \in gate' \cup drainRequested' => closed \/ r \in deleting' \cup lifecycle',
         closed => /\ inst[r] \in {"open", "draining"} => r \in gate'
                   /\ phase[r] = "starting" => r \in drainRequested'
  PROVE  IInv'
<1>1. RoomOK(r)
  BY DEF IInv
<1>2. Types'
  BY DEF IInv, Types
<1>3. QueueOK' /\ Elsewhere(r)
  BY QueueStays DEF IInv, Elsewhere
<1>4. RoomOK(r)'
  BY <1>1 DEF RoomOK, Occupies, Blocked, closed
<1> QED
  BY <1>2, <1>3, <1>4, RoomSteps

LEMMA BeginSteps ==
  ASSUME IInv, NEW r \in Rooms, UNCHANGED native,
         BeginSuspend(r) \/ BeginRestore(r) \/ \E k \in {"archive", "rename"} : BeginLifecycle(r, k)
  PROVE  IInv'
<1> USE DEF runtime, flags, barriers
<1>1. RoomOK(r) /\ OpOK(r) /\ op[r] = NoOp /\ op[r].kind = "none"
  BY DEF IInv, BeginSuspend, BeginRestore, BeginLifecycle, NoOp
<1>2. PICK k \in Kinds \ {"none", "remove"}, s \in Points : Begin(r, k, s)
        /\ s = (CASE k = "suspend" -> "suspend" [] k = "restore" -> "commit" [] OTHER -> "drain")
        /\ (k = "restore" => reg[r] # "active")
        /\ lifecycle' = (IF k \in {"archive", "rename"} THEN lifecycle \cup {r} ELSE lifecycle)
  BY DEF BeginSuspend, BeginRestore, BeginLifecycle, Kinds, Points
<1>3. /\ op' \in [Rooms -> Ops] /\ \A q \in Rooms \ {r} : op'[q] = op[q]
      /\ op'[r].kind = k /\ op'[r].step = s
  BY <1>2, Begins
<1>4. /\ UNCHANGED <<native, reg, phase, inst, live, queue, busy, gate, drainRequested, fatalStop, cleanupRetry,
                     deleting, limit, lock, shut, tried>>
      /\ requested' \subseteq requested
  BY DEF BeginSuspend, BeginRestore, BeginLifecycle
<1>5. OpOK(r)'
  BY <1>1, <1>2, <1>3, <1>4 DEF OpOK, Kinds
<1> QED
  BY <1>1, <1>2, <1>3, <1>4, <1>5, OpSteps DEF RoomOK, Blocked, IInv, Types

LEMMA SetDrainKeeps ==
  ASSUME IInv, NEW r \in Rooms, UNCHANGED native, SetDrain(r)
  PROVE  IInv'
<1> USE DEF barriers
<1>1. RoomOK(r) /\ OpOK(r) /\ op[r].step = "drain"
  BY DEF IInv, SetDrain, AtStep
<1>2. op[r].kind \in {"archive", "rename"} /\ r \in lifecycle
  <2>1. op[r].kind \in Kinds
    BY DEF IInv, Types, Ops, Kinds
  <2> QED
    BY <1>1, <2>1 DEF OpOK, Kinds
<1>3. /\ op' \in [Rooms -> Ops] /\ \A q \in Rooms \ {r} : op'[q] = op[q]
      /\ op'[r].kind = op[r].kind /\ op'[r].step = "suspend"
  BY StepParts DEF SetDrain, Points
<1>4. /\ UNCHANGED <<native, reg, phase, inst, live, queue, busy, requested, fatalStop, cleanupRetry,
                     deleting, lifecycle, limit, lock, shut, tried>>
      /\ drainRequested' = drainRequested \cup {r}
      /\ gate' = IF inst[r] # "none" THEN gate \cup {r} ELSE gate
  BY DEF SetDrain
<1>5. OpOK(r)'
  BY <1>1, <1>2, <1>3, <1>4 DEF OpOK
<1> QED
  BY <1>1, <1>2, <1>3, <1>4, <1>5, OpSteps DEF RoomOK, IInv, Types

LEMMA UndrainKeeps ==
  ASSUME IInv, NEW r \in Rooms, UNCHANGED native, Undrain(r)
  PROVE  IInv'
<1> USE DEF barriers
<1>1. RoomOK(r) /\ OpOK(r) /\ op[r].step = "undrain"
  BY DEF IInv, Undrain, AtStep
<1>2. op[r].kind \in {"archive", "rename"} /\ r \in lifecycle
  <2>1. op[r].kind \in Kinds
    BY DEF IInv, Types, Ops, Kinds
  <2> QED
    BY <1>1, <2>1 DEF OpOK, Kinds
<1>3. /\ op' \in [Rooms -> Ops] /\ \A q \in Rooms \ {r} : op'[q] = op[q]
      /\ op'[r].kind = op[r].kind /\ op'[r].step \in {"commit", "release"}
  BY StepParts DEF Undrain, Points
<1>4. /\ UNCHANGED <<native, reg, phase, inst, live, queue, busy, requested, fatalStop, cleanupRetry,
                     deleting, lifecycle, limit, lock, shut, tried>>
      /\ IF closed THEN drainRequested' = drainRequested /\ gate' = gate
         ELSE drainRequested' = drainRequested \ {r} /\ gate' = gate \ {r}
  BY DEF Undrain, KeepsDrain
<1>5. OpOK(r)'
  BY <1>1, <1>2, <1>3, <1>4 DEF OpOK, closed
<1> QED
  BY <1>1, <1>2, <1>3, <1>4, <1>5, OpSteps DEF RoomOK, IInv, Types

LEMMA CommitKeeps ==
  ASSUME IInv, NEW r \in Rooms, UNCHANGED native, Commit(r)
  PROVE  IInv'
<1> USE DEF runtime, flags, barriers
<1>1. RoomOK(r) /\ OpOK(r) /\ op[r].step = "commit"
  BY DEF IInv, Commit, AtStep
<1>2. /\ op' \in [Rooms -> Ops] /\ \A q \in Rooms \ {r} : op'[q] = op[q]
      /\ op'[r].kind = op[r].kind /\ op'[r].step = IF OwnsLog(r) THEN "release" ELSE "append"
  BY StepParts DEF Commit, Points
<1>3. UNCHANGED <<native, reg, phase, inst, live, queue, busy, gate, requested, drainRequested, fatalStop,
                  cleanupRetry, deleting, lifecycle, limit, lock, shut, tried>>
  BY DEF Commit
<1>4. ~OwnsLog(r) => ~Occupies(r)
  BY <1>1 DEF OwnsLog, Occupies
<1>5. OpOK(r)'
  BY <1>1, <1>2, <1>3, <1>4 DEF OpOK, closed, Occupies
<1> QED
  BY <1>1, <1>2, <1>3, <1>5, OpSteps DEF RoomOK, Blocked, IInv, Types

LEMMA AppendFactKeeps ==
  ASSUME IInv, NEW r \in Rooms, UNCHANGED native, AppendFact(r)
  PROVE  IInv'
<1> USE DEF runtime, flags, barriers
<1>1. RoomOK(r) /\ OpOK(r) /\ op[r].step = "append" /\ ~Occupies(r)
  BY DEF IInv, AppendFact, AtStep, OpOK
<1>2. /\ op' \in [Rooms -> Ops] /\ \A q \in Rooms \ {r} : op'[q] = op[q]
      /\ op'[r].kind = op[r].kind /\ op'[r].step = "release"
  BY StepParts DEF AppendFact, Points
<1>3. /\ UNCHANGED <<native, phase, inst, live, queue, busy, gate, requested, drainRequested, fatalStop,
                     cleanupRetry, deleting, lifecycle, limit, lock, shut, tried>>
      /\ reg' \in [Rooms -> Lifecycles] /\ \A q \in Rooms \ {r} : reg'[q] = reg[q]
  <2>1. \E lc \in Lifecycles : reg' = [reg EXCEPT ![r] = lc]
    BY DEF AppendFact, Appended, Lifecycles, IInv, Types
  <2> QED
    BY <2>1 DEF AppendFact, IInv, Types
<1>4. OpOK(r)'
  BY <1>1, <1>2, <1>3 DEF OpOK, closed, Occupies
<1> QED
  BY <1>1, <1>2, <1>3, <1>4, OpSteps DEF RoomOK, Blocked, IInv, Types

LEMMA ReleaseKeeps ==
  ASSUME IInv, NEW r \in Rooms, UNCHANGED native, Release(r)
  PROVE  IInv'
<1> USE DEF runtime, flags
<1>1. RoomOK(r) /\ OpOK(r) /\ op[r].step = "release"
  BY DEF IInv, Release, AtStep
<1>2. /\ op' \in [Rooms -> Ops] /\ \A q \in Rooms \ {r} : op'[q] = op[q]
      /\ op'[r].kind = "none" /\ op'[r].step = "none"
  BY EndsParts DEF Release
<1>3. /\ UNCHANGED <<native, reg, phase, inst, live, queue, busy, gate, requested, drainRequested, fatalStop,
                     cleanupRetry, deleting, limit, shut, tried>>
      /\ lifecycle' = lifecycle \ {r} /\ lock' \in {"free", "dispatch"}
  BY DEF Release, ThenDispatch, IInv, Types
<1>4. r \notin deleting /\ (r \in lifecycle => closed \/ r \notin gate \cup drainRequested)
  BY <1>1 DEF OpOK
<1>5. OpOK(r)'
  BY <1>1, <1>2, <1>3, <1>4 DEF OpOK
<1>6. r \in gate \cup drainRequested => closed
  BY <1>1, <1>4 DEF RoomOK, Blocked
<1> QED
  BY <1>1, <1>2, <1>3, <1>5, <1>6, OpSteps DEF RoomOK, IInv, Types

LEMMA BeginRemoveKeeps ==
  ASSUME IInv, NEW r \in Rooms, UNCHANGED native, BeginRemove(r)
  PROVE  IInv'
<1>1. RoomOK(r) /\ OpOK(r) /\ op[r].kind = "none" /\ reg[r] = "archived"
  BY DEF IInv, BeginRemove, NoOp
<1>2. /\ op' \in [Rooms -> Ops] /\ \A q \in Rooms \ {r} : op'[q] = op[q]
      /\ op'[r].kind = "remove" /\ op'[r].step = "suspend"
  BY Begins DEF BeginRemove, Kinds, Points
<1>3. /\ UNCHANGED <<native, reg, phase, inst, live, queue, busy, fatalStop, cleanupRetry, lifecycle, limit, lock,
                     shut, tried>>
      /\ requested' \subseteq requested /\ deleting' = deleting \cup {r} /\ drainRequested' = drainRequested \cup {r}
      /\ gate' = IF inst[r] # "none" THEN gate \cup {r} ELSE gate
  BY DEF BeginRemove
<1>4. OpOK(r)'
  BY <1>1, <1>2, <1>3 DEF OpOK
<1> QED
  BY <1>1, <1>2, <1>3, <1>4, OpSteps DEF RoomOK, IInv, Types

LEMMA RemoveRoomKeeps ==
  ASSUME IInv, NEW r \in Rooms, UNCHANGED native, RemoveRoom(r)
  PROVE  IInv'
<1> USE DEF runtime, flags, barriers
<1>1. RoomOK(r) /\ OpOK(r) /\ op[r].step = "removing"
  BY DEF IInv, RemoveRoom, AtStep
<1>2. op[r].kind = "remove" /\ reg[r] # "active" /\ ~Occupies(r)
  <2>1. op[r].kind \in Kinds
    BY DEF IInv, Types, Ops, Kinds
  <2> QED
    BY <1>1, <2>1 DEF OpOK, RoomOK, Kinds
<1>3. /\ op' \in [Rooms -> Ops] /\ \A q \in Rooms \ {r} : op'[q] = op[q]
      /\ op'[r].kind = op[r].kind /\ op'[r].step \in {"forget", "abort"}
  BY StepParts DEF RemoveRoom, Points
<1>4. /\ UNCHANGED <<native, phase, inst, live, queue, busy, gate, requested, drainRequested, fatalStop,
                     cleanupRetry, deleting, lifecycle, limit, lock, shut, tried>>
      /\ reg' \in [Rooms -> Lifecycles] /\ reg'[r] # "active" /\ \A q \in Rooms \ {r} : reg'[q] = reg[q]
  BY <1>2 DEF RemoveRoom, IInv, Types, Lifecycles
<1>5. OpOK(r)'
  BY <1>1, <1>2, <1>3, <1>4 DEF OpOK
<1> QED
  BY <1>1, <1>2, <1>3, <1>4, <1>5, OpSteps DEF RoomOK, Blocked, IInv, Types

LEMMA AbortRoomDeletionKeeps ==
  ASSUME IInv, NEW r \in Rooms, UNCHANGED native, AbortRoomDeletion(r)
  PROVE  IInv'
<1>1. RoomOK(r) /\ OpOK(r) /\ op[r].step = "abort"
  BY DEF IInv, AbortRoomDeletion, AtStep
<1>2. op[r].kind = "remove" /\ reg[r] # "active" /\ ~Occupies(r)
  <2>1. op[r].kind \in Kinds
    BY DEF IInv, Types, Ops, Kinds
  <2> QED
    BY <1>1, <2>1 DEF OpOK, RoomOK, Kinds
<1>3. /\ op' \in [Rooms -> Ops] /\ \A q \in Rooms \ {r} : op'[q] = op[q]
      /\ op'[r].kind = "none" /\ op'[r].step = "none"
  BY EndsParts DEF AbortRoomDeletion
<1>4. /\ UNCHANGED <<native, reg, phase, inst, live, queue, busy, requested, fatalStop, cleanupRetry, lifecycle,
                     limit, shut, tried>>
      /\ deleting' = deleting \ {r} /\ drainRequested' = drainRequested \ {r} /\ gate' = gate \ {r}
      /\ lock' \in {"free", "dispatch"}
  BY DEF AbortRoomDeletion, ThenDispatch
<1>5. OpOK(r)'
  BY <1>1, <1>2, <1>3, <1>4 DEF OpOK
<1>6. inst[r] = "none" /\ phase[r] # "starting"
  BY <1>1, <1>2 DEF RoomOK, Occupies, IInv, Types, Phases
<1> QED
  BY <1>1, <1>2, <1>3, <1>4, <1>5, <1>6, OpSteps DEF RoomOK, IInv, Types

LEMMA CommitRoomDeletionKeeps ==
  ASSUME IInv, NEW r \in Rooms, UNCHANGED native, CommitRoomDeletion(r)
  PROVE  IInv'
<1>1. RoomOK(r) /\ OpOK(r) /\ op[r].step = "forget"
  BY DEF IInv, CommitRoomDeletion, AtStep
<1>2. op[r].kind = "remove" /\ reg[r] # "active" /\ ~Occupies(r)
  <2>1. op[r].kind \in Kinds
    BY DEF IInv, Types, Ops, Kinds
  <2> QED
    BY <1>1, <2>1 DEF OpOK, RoomOK, Kinds
<1>3. /\ op' \in [Rooms -> Ops] /\ \A q \in Rooms \ {r} : op'[q] = op[q]
      /\ op'[r].kind = "none" /\ op'[r].step = "none"
  BY EndsParts DEF CommitRoomDeletion
<1>4. /\ UNCHANGED <<native, reg, inst, live, busy, gate, fatalStop, cleanupRetry, lifecycle, limit, shut, tried>>
      /\ deleting' = deleting \ {r} /\ drainRequested' = drainRequested \ {r} /\ requested' \subseteq requested
      /\ lock' \in {"free", "dispatch"} /\ queue' = Unqueued(r) /\ phase' = [phase EXCEPT ![r] = "suspended"]
  BY DEF CommitRoomDeletion, ThenDispatch, Set, runtime
<1>5. inst[r] = "none"
  BY <1>1, <1>2 DEF RoomOK, Occupies, IInv, Types, Phases
<1>6. Types'
  BY <1>3, <1>4 DEF IInv, Types, Phases
<1>7. QueueOK'
  BY <1>4, Unqueues DEF IInv, Types
<1>8. Elsewhere(r)
  BY <1>3, <1>4 DEF IInv, Types, Elsewhere
<1>9. RoomOK(r)'
  BY <1>1, <1>2, <1>4, <1>5 DEF IInv, Types, RoomOK, Occupies, Blocked, closed
<1>10. OpOK(r)'
  BY <1>1, <1>2, <1>3, <1>4 DEF OpOK
<1> QED
  BY <1>6, <1>7, <1>8, <1>9, <1>10, RoomSteps

-----------------------------------------------------------------------------
(* The shutdown *)

LEMMA BeginShutdownKeeps ==
  ASSUME IInv, BeginShutdown, UNCHANGED native
  PROVE  IInv'
<1>1. /\ UNCHANGED <<native, reg, inst, live, busy, fatalStop, cleanupRetry, deleting, lifecycle, limit, lock, op, tried>>
      /\ queue' = <<>> /\ requested' = {} /\ shut' = "draining" /\ drainRequested' = Rooms
      /\ gate' = {r \in Rooms : inst[r] # "none"}
      /\ phase' = [r \in Rooms |-> IF phase[r] = "queued" THEN "suspended" ELSE phase[r]]
  BY DEF BeginShutdown, barriers
<1>2. phase' \in [Rooms -> Phases]
  BY <1>1 DEF IInv, Types, Phases
<1>3. Types'
  BY <1>1, <1>2 DEF IInv, Types
<1>4. QueueOK'
  <2>1. Len(queue') = 0 /\ queue' \in Seq(Rooms)
    BY <1>1
  <2>2. \A i \in 1..0 : FALSE
    OBVIOUS
  <2>3. \A r \in Rooms : phase'[r] # "queued"
    BY <1>1
  <2> QED
    BY <2>1, <2>2, <2>3 DEF QueueOK, Places
<1>5. ASSUME NEW r \in Rooms
      PROVE  RoomOK(r)' /\ OpOK(r)'
  <2>1. RoomOK(r) /\ OpOK(r)
    BY DEF IInv
  <2>2. /\ phase'[r] = IF phase[r] = "queued" THEN "suspended" ELSE phase[r]
        /\ Occupies(r)' <=> Occupies(r)
    BY <1>1 DEF Occupies
  <2>3. RoomOK(r)'
    BY <1>1, <2>1, <2>2 DEF RoomOK, closed
  <2>4. OpOK(r)'
    BY <1>1, <2>1, <2>2 DEF OpOK, closed
  <2> QED
    BY <2>3, <2>4
<1> QED
  BY <1>3, <1>4, <1>5 DEF IInv

LEMMA ShutdownReturnsKeeps ==
  ASSUME IInv, ShutdownReturns, UNCHANGED native
  PROVE  IInv'
<1>1. /\ UNCHANGED <<native, reg, phase, inst, live, busy, gate, requested, drainRequested, fatalStop, cleanupRetry,
                     queue, deleting, lifecycle, limit, lock, op, tried>>
      /\ shut = "draining" /\ shut' = "done"
      /\ \A r \in Rooms : phase[r] \notin {"starting", "stopping", "active"}
  BY DEF ShutdownReturns, Pending, runtime, flags, barriers
<1>2. Types' /\ QueueOK'
  BY <1>1, QueueStays DEF IInv, Types
<1>3. ASSUME NEW r \in Rooms
      PROVE  RoomOK(r)' /\ OpOK(r)'
  <2>1. RoomOK(r) /\ OpOK(r)
    BY DEF IInv
  <2> QED
    BY <1>1, <2>1 DEF RoomOK, OpOK, closed, Occupies, Blocked
<1> QED
  BY <1>2, <1>3 DEF IInv

-----------------------------------------------------------------------------
(* The inductive invariant *)

LEMMA Initially ==
  ASSUME Init
  PROVE  IInv
<1>1. Types
  <2>1. NoOp \in Ops
    BY DEF NoOp, Ops, Points
  <2> QED
    BY <2>1 DEF Init, Types, Lifecycles, Phases, Insts
<1>2. QueueOK
  <2>1. Len(queue) = 0 /\ queue \in Seq(Rooms)
    BY DEF Init
  <2>2. \A i \in 1..0 : FALSE
    OBVIOUS
  <2>3. \A r \in Rooms : phase[r] # "queued"
    BY DEF Init
  <2> QED
    BY <2>1, <2>2, <2>3 DEF QueueOK, Places
<1>3. ASSUME NEW r \in Rooms
      PROVE  RoomOK(r) /\ OpOK(r)
  <2>1. op[r].kind = "none" /\ op[r].step = "none"
    BY DEF Init, NoOp
  <2>2. RoomOK(r)
    BY DEF Init, RoomOK, Occupies, Blocked, closed
  <2>3. OpOK(r)
    BY <2>1 DEF Init, OpOK
  <2> QED
    BY <2>2, <2>3
<1> QED
  BY <1>1, <1>2, <1>3 DEF IInv

LEMMA ManagementKeeps ==
  ASSUME IInv, NEW r \in Rooms, Management(r), UNCHANGED native
  PROVE  IInv'
BY BeginSteps, SetDrainKeeps, SuspendKeeps, StopSteps, UndrainKeeps, CommitKeeps, AppendFactKeeps, ReleaseKeeps,
   BeginRemoveKeeps, RemoveRoomKeeps, CommitRoomDeletionKeeps, AbortRoomDeletionKeeps
   DEF Management, Suspend

LEMMA NextKeeps ==
  ASSUME IInv, [Next]_vars
  PROVE  IInv'
<1>1. CASE Next
  <2>0. UNCHANGED native /\ Steps
    BY <1>1 DEF Next
  <2>1. CASE Dispatch \/ Tick \/ \E n \in Limits : SetLimit(n)
    BY <2>0, <2>1, DispatchNextKeeps, DispatchEvictsKeeps, QuietSteps DEF Dispatch
  <2>2. CASE Shutdown
    BY <2>0, <2>2, BeginShutdownKeeps, StopSteps, ShutdownReturnsKeeps DEF Shutdown
  <2>3. ASSUME NEW r \in Rooms,
               \/ RequestActivation(r) \/ FinishStart(r) \/ Close(r) \/ Reconcile(r)
               \/ Management(r) \/ Work(r) \/ WorkEnds(r)
        PROVE  IInv'
    <3>1. CASE RequestActivation(r) \/ FinishStart(r)
      BY <2>0, <3>1, RequestActivationKeeps, FinishStartKeeps
    <3>2. CASE Close(r)
      BY <2>0, <3>2, CloseDrainsKeeps, CloseSealsKeeps, FinishStopKeeps DEF Close
    <3>3. CASE Reconcile(r)
      BY <2>0, <3>3, StopSteps
    <3>4. CASE Management(r)
      BY <2>0, <3>4, ManagementKeeps
    <3>5. CASE Work(r) \/ WorkEnds(r)
      BY <2>0, <3>5, QuietSteps
    <3> QED
      BY <2>3, <3>1, <3>2, <3>3, <3>4, <3>5
  <2> QED
    BY <2>0, <2>1, <2>2, <2>3 DEF Steps
<1>2. CASE UNCHANGED vars
  <2>1. Types' /\ UNCHANGED <<reg, phase, inst, live, gate, drainRequested, fatalStop, barriers, op, queue, shut>>
    BY <1>2 DEF IInv, Types, vars, barriers
  <2> QED
    BY <2>1, Still
<1> QED
  BY <1>1, <1>2

\* The inductive invariant holds of every state.
THEOREM Invariance == Spec => []IInv
<1>1. Init => IInv
  BY Initially
<1>2. IInv /\ [Next]_vars => IInv'
  BY NextKeeps
<1> QED
  BY <1>1, <1>2, PTL DEF Spec

-----------------------------------------------------------------------------
(* What the properties say *)

\* A queue that names no Room twice has as many Rooms as places.
LEMMA QueueCounts ==
  ASSUME QueueOK
  PROVE  Cardinality(Range(queue)) = Len(queue)
<1> DEFINE n == Len(queue)
           R == Range(queue)
<1>1. queue \in Seq(Rooms) /\ n \in Nat /\ DOMAIN queue = 1..n /\ queue \in [1..n -> Rooms]
  BY DEF QueueOK
<1>2. R = {queue[i] : i \in 1..n}
  BY <1>1 DEF Range
<1>3. queue \in [1..n -> R]
  BY <1>1, <1>2
<1>4. queue \in Injection(1..n, R)
  BY <1>1, <1>3 DEF QueueOK, Places, Injection, IsInjective
<1>5. queue \in Surjection(1..n, R)
  BY <1>2, <1>3 DEF Surjection
<1>6. ExistsBijection(1..n, R)
  BY <1>4, <1>5 DEF ExistsBijection, Bijection
<1> HIDE DEF n, R
<1>7. Cardinality(R) = n
  BY <1>1, <1>6, FS_CountingElements
<1> QED
  BY <1>7 DEF n, R

\* Every variable keeps its type, the queue and the phases agree, a runtime
\* drains for a reason, and a shutdown keeps every runtime draining.
THEOREM TypeCorrect == Spec => []TypeOK
<1>1. IInv => TypeOK
  <2> SUFFICES ASSUME IInv PROVE TypeOK
    OBVIOUS
  <2>1. \A r \in Rooms : phase[r] = "queued" <=> r \in Range(queue)
    BY InQueue DEF IInv
  <2>2. Cardinality(Range(queue)) = Len(queue)
    BY QueueCounts DEF IInv
  <2>3. \A r \in gate : closed \/ Blocked(r)
    BY DEF IInv, Types, RoomOK
  <2>4. closed => \A r \in Rooms : inst[r] = "open" => r \in gate
    BY DEF IInv, RoomOK
  <2>5. queue \in Seq(Rooms)
    BY DEF IInv, QueueOK
  <2> QED
    BY <2>1, <2>2, <2>3, <2>4, <2>5 DEF IInv, Types, TypeOK, Phases, Lifecycles, Insts
<1> QED
  BY <1>1, Invariance, PTL

\* A Room's Event Log has one writer at a time, none once the Room is archived
\* or removed, and Shutdown leaves only those it could not close.
THEOREM OneWriterHolds == Spec => []OneWriter
<1>1. IInv => OneWriter
  <2> SUFFICES ASSUME IInv, NEW r \in Rooms
               PROVE  /\ live[r] <= 1
                      /\ op[r].step \in {"append", "removing"} => live[r] = 0
                      /\ live[r] > 0 => /\ reg[r] = "active"
                                        /\ shut = "done" => phase[r] \in {"failed", "stopping"}
    BY DEF OneWriter
  <2>1. RoomOK(r) /\ OpOK(r) /\ op[r].kind \in Kinds
    BY DEF IInv, Types, Ops, Kinds
  <2>2. live[r] = (IF Occupies(r) THEN 1 ELSE 0) /\ (Occupies(r) => reg[r] = "active")
    BY <2>1 DEF RoomOK
  <2>3. op[r].step \in {"append", "removing"} => ~Occupies(r)
    BY <2>1, <2>2 DEF OpOK, Kinds
  <2>4. shut = "done" /\ Occupies(r) => phase[r] \in {"failed", "stopping"}
    BY <2>1 DEF RoomOK, Occupies
  <2> QED
    BY <2>2, <2>3, <2>4
<1> QED
  BY <1>1, Invariance, PTL

\* Only dispatchLocked starts a runtime.
LEMMA LiveFalls ==
  ASSUME IInv, Steps, ~DispatchNext, NEW r \in Rooms
  PROVE  ~(live'[r] > live[r])
<1>1. UNCHANGED live \/ \E q \in Rooms : live' = [live EXCEPT ![q] = @ - 1]
  <2>1. CASE Dispatch \/ Tick \/ Shutdown \/ \E n \in Limits : SetLimit(n)
    BY <2>1 DEF Dispatch, DispatchEvicts, DispatchReturns, Tick, Shutdown, BeginShutdown, ShutdownStops,
       ShutdownReturns, SetLimit, runtime
  <2>2. ASSUME NEW q \in Rooms, RequestActivation(q) \/ FinishStart(q) \/ Reconcile(q) \/ Work(q) \/ WorkEnds(q)
        PROVE  UNCHANGED live \/ live' = [live EXCEPT ![q] = @ - 1]
    BY <2>2 DEF RequestActivation, FinishStart, Started, NotStarted, HalfStarted, Reconcile, TickRetries,
       TickStopsFatal, TickStopsIdle, Work, WorkEnds, runtime
  <2>3. ASSUME NEW q \in Rooms, Close(q)
        PROVE  UNCHANGED live \/ live' = [live EXCEPT ![q] = @ - 1]
    BY <2>3 DEF Close, CloseDrains, CloseSeals, FinishStop, Stopped, StopAborted, StopFailed
  <2>4. ASSUME NEW q \in Rooms, Suspend(q)
        PROVE  UNCHANGED live
    BY <2>4 DEF Suspend, SuspendNow, SuspendRefused, SuspendCloses, SuspendWaits, runtime
  <2>5. ASSUME NEW q \in Rooms, Management(q), ~Suspend(q)
        PROVE  UNCHANGED live
    BY <2>5 DEF Management, BeginSuspend, BeginLifecycle, SetDrain, Undrain, BeginRestore, Commit, AppendFact,
       Release, BeginRemove, RemoveRoom, CommitRoomDeletion, AbortRoomDeletion, runtime
  <2> QED
    BY <2>1, <2>2, <2>3, <2>4, <2>5 DEF Steps
<1>2. live \in [Rooms -> Nat]
  BY DEF IInv, Types
<1>3. CASE UNCHANGED live
  BY <1>2, <1>3
<1>4. ASSUME NEW q \in Rooms, live' = [live EXCEPT ![q] = @ - 1]
      PROVE  ~(live'[r] > live[r])
  <2>1. live'[r] = (IF r = q THEN live[r] - 1 ELSE live[r]) /\ live[r] \in Nat
    BY <1>2, <1>4
  <2> QED
    BY <2>1
<1> QED
  BY <1>1, <1>3, <1>4

\* An embedded runtime is started only when fewer than `limit` of them, counting
\* those whose close is unproven, may still be running.
THEOREM LimitHolds == Spec => StartsWithinLimit
<1> DEFINE Running == {s \in Rooms \ native : live[s] > 0}
           Within == \A r \in Rooms \ native : live'[r] > live[r] => Cardinality(Running) < limit
<1>1. ASSUME IInv, [Next]_vars
      PROVE  [Within]_vars
  <2> SUFFICES ASSUME Next, NEW r \in Rooms \ native, live'[r] > live[r]
               PROVE  Cardinality(Running) < limit
    BY <1>1
  <2>1. Steps /\ DispatchNext
    BY <1>1, LiveFalls DEF Next
  <2>2. live \in [Rooms -> Nat] /\ limit \in Nat
    BY <1>1, RuntimesAssumption DEF IInv, Types
  <2>3. PICK q \in Rooms : /\ q = queue[NextIndex] /\ phase[q] = "queued" /\ ~Blocked(q)
                           /\ live' = [live EXCEPT ![q] = @ + 1] /\ Dispatchable(q)
    <3>1. PICK q \in Rooms : q = queue[NextIndex] /\ phase[q] = "queued" /\ Dispatchable(q)
      BY <1>1, <2>1, NextInQueue DEF DispatchNext
    <3>2. live' = live \/ (~Blocked(q) /\ live' = [live EXCEPT ![q] = @ + 1])
      BY <2>1, <3>1 DEF DispatchNext
    <3>3. live' # live
      BY <2>2
    <3> QED
      BY <3>1, <3>2, <3>3
  <2>4. r = q
    BY <2>2, <2>3
  <2>5. ~AtCapacity
    BY <2>3, <2>4 DEF Dispatchable
  <2> DEFINE Counted == {s \in Rooms \ native : Occupies(s)}
  <2>6. Running = Counted
    <3>1. \A s \in Rooms : live[s] > 0 <=> Occupies(s)
      BY <1>1 DEF IInv, RoomOK
    <3> QED
      BY <3>1
  <2>7. Counted \in SUBSET Rooms
    OBVIOUS
  <2> HIDE DEF Counted, Running
  <2>8. IsFiniteSet(Rooms)
    BY RuntimesAssumption
  <2>9. IsFiniteSet(Counted)
    BY <2>7, <2>8, FS_Subset
  <2>10. Cardinality(Counted) \in Nat
    BY <2>9, FS_CardinalityType
  <2>11. ~(Cardinality(Counted) >= limit)
    BY <2>5 DEF AtCapacity, Counted
  <2> QED
    BY <2>2, <2>6, <2>10, <2>11
<1>2. IInv /\ [Next]_vars => [Within]_vars
  BY <1>1
<1> QED
  BY <1>2, Invariance, PTL DEF Spec, StartsWithinLimit

-----------------------------------------------------------------------------
(***************************************************************************)
(* Safety of the reply journal for every backlog size and number of        *)
(* replies.  What was ever sent is a set of pairs, a sequence number and   *)
(* the reply it carried (Sent).  Fits says of one state, the file or the   *)
(* copy of a process, that its backlog continues what was sent; Agree says *)
(* that what was sent keeps one order; Running speaks of the process.  All *)
(* take their subject as a parameter, so that they can be followed through *)
(* the intermediate values of a step.                                      *)
(***************************************************************************)

\* <<seq, reply>> of every request that reached, or may still reach, the Service.
Sent(F, b) == {<<q.seq, q.reply>> : q \in F} \cup {<<b[i].seq, b[i].reply>> : i \in DOMAIN b}

\* One number after the other, in the order the replies were spoken.
Line(s) ==
  LET n == Len(s.backlog) IN
  /\ n <= maxPublicationBacklog /\ n <= s.last
  /\ \A i \in 1..n : s.backlog[i].seq = s.last - n + i
  /\ \A i \in 2..n : ~s.backlog[i].unknown
  /\ \A i, j \in 1..n : i < j => s.backlog[i].reply < s.backlog[j].reply

\* Nothing was sent from behind the head, nor a head of a changed scope; and what
\* was sent before an entry was spoken before it.
AfterBacklog(e, p, first) ==
  /\ p[1] <= e.seq
  /\ ~first \/ e.outcome = "context_changed" => p[1] < e.seq
  /\ p[1] < e.seq => p[2] < e.reply
  /\ p[1] = e.seq => p[2] = e.reply
Behind(s, P) ==
  \A p \in P : /\ p[1] <= s.last
               /\ \A i \in 1..Len(s.backlog) : AfterBacklog(s.backlog[i], p, i = 1)
Fits(s, P) == s \in State /\ Line(s) /\ Behind(s, P)

\* All replies of a state are at most n.
Upto(s, n) == \A i \in 1..Len(s.backlog) : s.backlog[i].reply <= n

\* A reply n later than all that were saved in s or sent.
New(s, n, P) == n \in Reply /\ Upto(s, n - 1) /\ \A x \in P : x[2] < n

Receipt == [seq : Nat, reply : Reply, outcome : {"none", "peer_changed"}]
Sorted(b) == \A i, j \in 1..Len(b) : i < j => b[i].seq < b[j].seq

\* One reply has one number, and a later reply a later one.
Agree(P) ==
  \A x, y \in P : /\ x[1] = y[1] => x[2] = y[2]
                  /\ x[1] < y[1] => x[2] < y[2]

Spoken(P, n) == \A x \in P : x[2] <= n

\* A running process p, when n replies were spoken, and its copy of the state:
\* its unsent number was never sent, and a reply it still has to save is new.
ToReserve(p) == p.pc \in {"reserve", "fallback"} \/ p.then = "reserve"
Runs(p, n, P) ==
  /\ p.pc # "down" /\ Fits(p.mem, P)
  /\ p.mem.last <= n /\ Upto(p.mem, n)
  /\ p.unsent # 0 => /\ p.mem.backlog # <<>> /\ p.unsent = p.mem.backlog[1].seq
                     /\ \A x \in P : x[1] # p.unsent
  /\ ToReserve(p) => /\ p.reply = n /\ New(p.mem, n, P)
                     /\ p.mem.last < n /\ p.mem.last = p.lastSeq
  /\ p.then = "check" => Retained(p)

\* The file of a process whose last save failed: its own copy, before or after
\* that save.
Has(s, r) == \E i \in 1..Len(s.backlog) : s.backlog[i].reply = r
NearCopy(p, d) ==
  /\ d.last \in {p.mem.last, p.mem.last + 1}
  /\ \A i \in 1..Len(d.backlog) :
       d.backlog[i].reply = p.reply \/ Has(p.mem, d.backlog[i].reply)

Running(p, d, n, P) ==
  /\ Runs(p, n, P)
  /\ p.pc = "report" => p.mem.backlog # <<>> /\ Sendable(p.mem.backlog[1])
  /\ p.pc = "reserve" => p.mem.backlog = <<>>
  /\ IF p.pc = "fallback" THEN NearCopy(p, d) ELSE d = p.mem

\* The file d and the process p together.
FileFits(d, n, P) == Fits(d, P) /\ d.last <= n /\ Upto(d, n)
Good(p, d, n, P) ==
  /\ p \in Process /\ FileFits(d, n, P)
  /\ IF p.pc = "down" THEN p = Idle ELSE Running(p, d, n, P)

\* NothingLost, of the replies K.
Safe(K, d, b) == \A r \in K : Has(d, r) \/ \E i \in 1..Len(b) : b[i].reply = r

Past == Sent(flight, book)

ClientTypes ==
  /\ peerMoved \in BOOLEAN /\ said \in 0..MaxReplies
  /\ flight \subseteq [seq : Nat, reply : Reply] /\ book \in Seq(Receipt)
  /\ kept \subseteq Reply /\ discarded \subseteq Reply

ClientIInv ==
  /\ ClientTypes
  /\ Sorted(book) /\ Agree(Past)
  /\ Spoken(Past, said)
  /\ Good(proc, disk, said, Past)
  /\ Safe(kept \ discarded, disk, book)

-----------------------------------------------------------------------------
(* The saved state *)

\* What is on its way: pairs of numbers.
Pairs == Nat \X Reply

\* What was sent are pairs of numbers.
LEMMA SentType ==
  ASSUME NEW F, F \subseteq [seq : Nat, reply : Reply], NEW b \in Seq(Receipt)
  PROVE  Sent(F, b) \subseteq Pairs
<1>1. \A i \in DOMAIN b : b[i] \in Receipt
  BY ElementOfSeq, LenProperties
<1> QED
  BY <1>1 DEF Sent, Pairs, Receipt

\* t is s with the reply r behind its backlog.
Extended(t, s, r) ==
  LET n == Len(s.backlog) IN
  /\ t.last = s.last + 1 /\ t.backlog # <<>> /\ Len(t.backlog) = n + 1
  /\ t.backlog[n + 1].seq = s.last + 1 /\ t.backlog[n + 1].reply = r
  /\ \A i \in 1..n : t.backlog[i] = s.backlog[i]

\* A new reply goes behind everything.
LEMMA ReserveFits ==
  ASSUME NEW P \in SUBSET Pairs, NEW s, Fits(s, P), ~BacklogFull(s),
         NEW r, New(s, r, P), NEW t, t = Reserved(s, r)
  PROVE  Fits(t, P) /\ Upto(t, r) /\ Extended(t, s, r)
<1> DEFINE n == Len(s.backlog)
           e == [seq |-> s.last + 1, reply |-> r, unknown |-> FALSE,
                 outcome |-> IF s.scopeChanged THEN "context_changed" ELSE "none"]
<1>0. r \in Reply /\ Upto(s, r - 1) /\ \A x \in P : x[2] < r
  BY DEF New
<1>1. s \in State /\ Line(s) /\ Behind(s, P)
  BY DEF Fits
<1>2. s.last \in Nat /\ s.backlog \in Seq(PendingReply) /\ n \in Nat /\ e \in PendingReply
  BY <1>0, <1>1 DEF State, PendingReply, Reply
<1>3. t = [s EXCEPT !.last = s.last + 1, !.backlog = Append(s.backlog, e)]
  BY DEF Reserved
<1>4. t.last = s.last + 1 /\ t.backlog = Append(s.backlog, e) /\ t.scopeChanged = s.scopeChanged
  BY <1>1, <1>3 DEF State
<1> HIDE DEF e
<1>5. /\ t.backlog \in Seq(PendingReply) /\ Len(t.backlog) = n + 1 /\ t.backlog[n + 1] = e
      /\ \A i \in 1..n : t.backlog[i] = s.backlog[i]
  BY <1>2, <1>4, AppendProperties
<1>6. t \in State /\ t.backlog # <<>>
  <2>1. t = [last |-> s.last + 1, backlog |-> Append(s.backlog, e), scopeChanged |-> s.scopeChanged]
    BY <1>1, <1>3 DEF State, e
  <2>2. t \in State
    BY <1>1, <1>2, <1>4, <1>5, <2>1 DEF State
  <2> QED
    BY <1>2, <1>5, <2>2, EmptySeq
<1>7. n < maxPublicationBacklog
  BY <1>2, EmptySeq, PublicationAssumption DEF BacklogFull
<1>8. \A i \in 1..n : s.backlog[i] \in PendingReply /\ s.backlog[i].reply \in Nat /\ s.backlog[i].reply < r
  <2> TAKE i \in 1..n
  <2>1. s.backlog[i] \in PendingReply
    BY <1>2, ElementOfSeq
  <2>2. s.backlog[i].reply \in Nat /\ s.backlog[i].reply <= r - 1
    BY <1>0, <2>1 DEF Upto, PendingReply, Reply
  <2> QED
    BY <1>0, <2>1, <2>2 DEF Reply
<1>9. e.seq = s.last + 1 /\ e.reply = r /\ ~e.unknown
  BY DEF e
<1>13. /\ n <= s.last
       /\ \A i \in 1..n : s.backlog[i].seq = s.last - n + i
       /\ \A i \in 2..n : ~s.backlog[i].unknown
       /\ \A i, j \in 1..n : i < j => s.backlog[i].reply < s.backlog[j].reply
  BY <1>1 DEF Line
<1>10. Line(t)
  <2>1. \A i \in 1..(n + 1) : t.backlog[i].seq = t.last - (n + 1) + i
    <3> TAKE i \in 1..(n + 1)
    <3>1. CASE i \in 1..n
      BY <1>2, <1>4, <1>5, <1>13, <3>1
    <3>2. CASE i = n + 1
      BY <1>2, <1>4, <1>5, <1>9, <3>2
    <3> QED
      BY <1>2, <3>1, <3>2
  <2>2. \A i \in 2..(n + 1) : ~t.backlog[i].unknown
    <3> TAKE i \in 2..(n + 1)
    <3>1. CASE i \in 2..n
      <4>1. i \in 1..n /\ ~s.backlog[i].unknown
        BY <1>2, <1>13, <3>1
      <4> QED
        BY <1>5, <4>1
    <3>2. CASE i = n + 1
      BY <1>5, <1>9, <3>2
    <3> QED
      BY <1>2, <3>1, <3>2
  <2>3. \A i, j \in 1..(n + 1) : i < j => t.backlog[i].reply < t.backlog[j].reply
    <3> SUFFICES ASSUME NEW i \in 1..(n + 1), NEW j \in 1..(n + 1), i < j
                 PROVE  t.backlog[i].reply < t.backlog[j].reply
      OBVIOUS
    <3>1. CASE j \in 1..n
      <4>1. i \in 1..n
        BY <1>2, <3>1
      <4> QED
        BY <1>5, <1>13, <3>1, <4>1
    <3>2. CASE j = n + 1
      <4>1. i \in 1..n
        BY <1>2, <3>2
      <4> QED
        BY <1>5, <1>8, <1>9, <3>2, <4>1
    <3> QED
      BY <1>2, <3>1, <3>2
  <2>4. n + 1 <= t.last
    BY <1>1, <1>2, <1>4 DEF Line
  <2> QED
    BY <1>2, <1>5, <1>7, <2>1, <2>2, <2>3, <2>4, PublicationAssumption DEF Line
<1>11. Behind(t, P)
  <2> SUFFICES ASSUME NEW p \in P
               PROVE  p[1] <= t.last /\ \A i \in 1..(n + 1) : AfterBacklog(t.backlog[i], p, i = 1)
    BY <1>5 DEF Behind
  <2>1. p[1] \in Nat /\ p[2] \in Nat /\ p[1] <= s.last /\ p[2] < r
    BY <1>0, <1>1 DEF Behind, Pairs, Reply
  <2>2. ASSUME NEW i \in 1..(n + 1)
        PROVE  AfterBacklog(t.backlog[i], p, i = 1)
    <3>1. CASE i \in 1..n
      BY <1>1, <1>5, <3>1 DEF Behind
    <3>2. CASE i = n + 1
      <4>1. t.backlog[i] = e
        BY <1>5, <3>2
      <4>2. p[1] < e.seq /\ p[1] # e.seq /\ p[1] <= e.seq /\ p[2] < e.reply
        BY <1>2, <1>9, <2>1
      <4>3. AfterBacklog(e, p, i = 1)
        BY <4>2 DEF AfterBacklog
      <4> QED
        BY <4>1, <4>3
    <3> QED
      BY <1>2, <3>1, <3>2
  <2> QED
    BY <1>2, <1>4, <2>1, <2>2
<1>12. Upto(t, r)
  <2> SUFFICES ASSUME NEW i \in 1..(n + 1)
               PROVE  t.backlog[i].reply <= r
    BY <1>5 DEF Upto
  <2>1. CASE i \in 1..n
    BY <1>0, <1>5, <1>8, <2>1 DEF Reply
  <2>2. CASE i = n + 1
    BY <1>0, <1>5, <1>9, <2>2 DEF Reply
  <2> QED
    BY <1>2, <2>1, <2>2
<1> QED
  BY <1>4, <1>5, <1>6, <1>9, <1>10, <1>11, <1>12 DEF Fits, Extended

\* The head is settled.
LEMMA AdvanceFits ==
  ASSUME NEW P \in SUBSET Pairs, NEW s, Fits(s, P)
  PROVE  /\ Fits(advance(s), P) /\ advance(s).last = s.last
         /\ s.backlog # <<>> => Len(advance(s).backlog) = Len(s.backlog) - 1
         /\ \A i \in 1..Len(advance(s).backlog) :
              /\ i + 1 \in 1..Len(s.backlog)
              /\ advance(s).backlog[i] = s.backlog[i + 1]
<1> DEFINE t == advance(s)
           n == Len(s.backlog)
<1>1. s \in State /\ Line(s) /\ Behind(s, P)
  BY DEF Fits
<1>2. s.last \in Nat /\ s.backlog \in Seq(PendingReply) /\ n \in Nat
  BY <1>1 DEF State
<1>3. CASE s.backlog = <<>>
  <2>1. t = s
    BY <1>1, <1>3 DEF advance, State
  <2> QED
    BY <1>1, <1>3, <2>1 DEF Fits
<1>4. CASE s.backlog # <<>>
  <2>1. t \in State /\ t.last = s.last /\ t.backlog = Tail(s.backlog)
    BY <1>1, <1>2, <1>4, HeadTailProperties DEF advance, State
  <2>2. Len(t.backlog) = n - 1 /\ \A i \in 1..(n - 1) : t.backlog[i] = s.backlog[i + 1]
    BY <1>2, <1>4, <2>1, HeadTailProperties
  <2>3. n > 0
    BY <1>2, <1>4, EmptySeq
  <2>4. Line(t)
    BY <1>1, <1>2, <2>1, <2>2, <2>3, PublicationAssumption DEF Line
  <2>5. Behind(t, P)
    <3> SUFFICES ASSUME NEW p \in P, NEW i \in 1..(n - 1)
                 PROVE  p[1] <= t.last /\ AfterBacklog(t.backlog[i], p, i = 1)
      BY <1>1, <2>1, <2>2 DEF Behind
    <3>1. AfterBacklog(s.backlog[i + 1], p, FALSE) /\ p[1] <= s.last
      <4>1. i + 1 \in 1..n /\ (i + 1 = 1) = FALSE
        BY <1>2, <2>3
      <4>2. AfterBacklog(s.backlog[i + 1], p, i + 1 = 1)
        BY <1>1, <4>1 DEF Behind
      <4> QED
        BY <1>1, <4>1, <4>2 DEF Behind
    <3>2. t.backlog[i] = s.backlog[i + 1] /\ t.last = s.last
      BY <2>1, <2>2
    <3> HIDE DEF t
    <3> QED
      BY <3>1, <3>2 DEF AfterBacklog
  <2> QED
    BY <1>2, <2>1, <2>2, <2>3, <2>4, <2>5 DEF Fits
<1> QED
  BY <1>3, <1>4

\* Only the head's doubt or outcome changes, and not to context_changed.
SameBut(t, s) ==
  /\ t \in State /\ t.last = s.last /\ Len(t.backlog) = Len(s.backlog)
  /\ \A i \in 1..Len(s.backlog) :
       /\ t.backlog[i].seq = s.backlog[i].seq /\ t.backlog[i].reply = s.backlog[i].reply
       /\ i > 1 => t.backlog[i] = s.backlog[i]
       /\ t.backlog[i].outcome = "context_changed" => s.backlog[i].outcome = "context_changed"

\* A head in doubt and a head of a moved peer.
LEMMA HeadChanges ==
  ASSUME NEW s \in State, s.backlog # <<>>
  PROVE  /\ SameBut(Doubted(s), s) /\ SameBut(PeerChanged(s), s)
         /\ Doubted(s).backlog # <<>> /\ PeerChanged(s).backlog # <<>>
<1>1. s.backlog \in Seq(PendingReply) /\ s.last \in Nat
  BY DEF State
<1>2. 1 \in 1..Len(s.backlog) /\ s.backlog[1] \in PendingReply
  BY <1>1, EmptySeq, ElementOfSeq
<1> DEFINE a == [s.backlog[1] EXCEPT !.unknown = TRUE]
           b == [s.backlog[1] EXCEPT !.outcome = "peer_changed", !.unknown = FALSE]
<1>3. a \in PendingReply /\ b \in PendingReply
  BY <1>2 DEF PendingReply
<1>4. Doubted(s) = [s EXCEPT !.backlog = [s.backlog EXCEPT ![1] = a]]
  BY DEF Doubted
<1>5. PeerChanged(s) = [s EXCEPT !.backlog = [s.backlog EXCEPT ![1] = b]]
  <2>1. [s EXCEPT !.backlog = [s.backlog EXCEPT ![1] = [s.backlog[1] EXCEPT !.outcome = "peer_changed"]]]
          = [s EXCEPT !.backlog[1].outcome = "peer_changed"]
    OBVIOUS
  <2> QED
    BY <1>1, <1>2 DEF PeerChanged, State, PendingReply
<1>6. ASSUME NEW c \in PendingReply, c.seq = s.backlog[1].seq, c.reply = s.backlog[1].reply,
             c.outcome = "context_changed" => s.backlog[1].outcome = "context_changed"
      PROVE  LET t == [s EXCEPT !.backlog = [s.backlog EXCEPT ![1] = c]]
             IN SameBut(t, s) /\ t.backlog # <<>>
  <2> DEFINE q == [s.backlog EXCEPT ![1] = c]
             t == [s EXCEPT !.backlog = q]
  <2>1. /\ q \in Seq(PendingReply) /\ Len(q) = Len(s.backlog)
        /\ \A i \in 1..Len(s.backlog) : q[i] = IF i = 1 THEN c ELSE s.backlog[i]
    BY <1>1, <1>2, <1>6, ExceptSeq
  <2>2. t \in State /\ t.last = s.last /\ t.backlog = q
    BY <2>1 DEF State
  <2>3. q # <<>>
    BY <1>2, <2>1, EmptySeq
  <2> QED
    BY <1>6, <2>1, <2>2, <2>3 DEF SameBut
<1>7. /\ a.seq = s.backlog[1].seq /\ a.reply = s.backlog[1].reply /\ a.outcome = s.backlog[1].outcome
      /\ b.seq = s.backlog[1].seq /\ b.reply = s.backlog[1].reply /\ b.outcome = "peer_changed"
  BY <1>2 DEF PendingReply
<1> QED
  BY <1>3, <1>4, <1>5, <1>6, <1>7

\* A state with another mark on its head fits as before.
LEMMA SameButFits ==
  ASSUME NEW P, NEW s, Fits(s, P), NEW t, SameBut(t, s)
  PROVE  Fits(t, P)
<1>1. Line(t)
  BY DEF Line, SameBut, Fits
<1>2. Behind(t, P)
  BY DEF Behind, AfterBacklog, SameBut, Fits
<1> QED
  BY <1>1, <1>2 DEF Fits, SameBut

\* Sending the head adds nothing that does not fit.
LEMMA SendFits ==
  ASSUME NEW P \in SUBSET Pairs, NEW s, Fits(s, P), s.backlog # <<>>, Sendable(s.backlog[1])
  PROVE  LET x == <<s.backlog[1].seq, s.backlog[1].reply>>
         IN x \in Pairs /\ Fits(s, P \cup {x})
<1> DEFINE n == Len(s.backlog)
           x == <<s.backlog[1].seq, s.backlog[1].reply>>
<1>1. s \in State /\ Line(s) /\ Behind(s, P)
  BY DEF Fits
<1>2. n \in Nat /\ n > 0 /\ s.last \in Nat /\ \A i \in 1..n : s.backlog[i] \in PendingReply
  BY <1>1, EmptySeq DEF State
<1>3. \A i \in 1..n : /\ s.backlog[i].seq = s.last - n + i
                      /\ i > 1 => s.backlog[1].reply < s.backlog[i].reply
  BY <1>1, <1>2 DEF Line
<1>4. x[1] <= s.last /\ \A i \in 1..n : AfterBacklog(s.backlog[i], x, i = 1)
  BY <1>2, <1>3 DEF AfterBacklog, Sendable
<1> QED
  BY <1>1, <1>2, <1>4 DEF Fits, Behind, Pairs, PendingReply

\* What holds of all that was sent holds of fewer requests.
LEMMA FewerFit ==
  ASSUME NEW P, NEW Q \in SUBSET P
  PROVE  /\ \A s : Fits(s, P) => Fits(s, Q)
         /\ \A p, d, n : Good(p, d, n, P) => Good(p, d, n, Q)
         /\ Agree(P) => Agree(Q)
BY DEF Fits, Behind, Good, FileFits, Running, Runs, New, Agree

\* What fits is what validBacklog asks for.
LEMMA FitsIsValid ==
  ASSUME NEW P, NEW s, Fits(s, P)
  PROVE  validBacklog(s)
<1> DEFINE n == Len(s.backlog)
<1>1. s.last \in Nat /\ n \in Nat /\ Line(s)
  BY DEF Fits, State
<1> SUFFICES ASSUME n > 1
             PROVE  /\ n <= maxPublicationBacklog
                    /\ s.backlog[n].seq = s.last
                    /\ \A i \in 2..n : /\ s.backlog[i].seq = s.backlog[1].seq + i - 1
                                      /\ ~s.backlog[i].unknown
  BY DEF validBacklog
<1>2. /\ n <= maxPublicationBacklog
      /\ s.backlog[1].seq = s.last - n + 1 /\ s.backlog[n].seq = s.last
  BY <1>1 DEF Line
<1>3. ASSUME NEW i \in 2..n
      PROVE  s.backlog[i].seq = s.last - n + i /\ ~s.backlog[i].unknown
  <2>1. i \in 1..n
    BY <1>1
  <2> QED
    BY <1>1, <2>1 DEF Line
<1>4. ASSUME NEW i \in 2..n
      PROVE  s.backlog[i].seq = s.backlog[1].seq + i - 1
  <2>1. s.backlog[i].seq = s.last - n + i /\ s.backlog[1].seq = s.last - n + 1
    BY <1>2, <1>3
  <2>2. s.last \in Nat /\ n \in Nat /\ i \in Nat
    BY <1>1
  <2> HIDE DEF n
  <2> QED
    BY <2>1, <2>2
<1> QED
  BY <1>2, <1>3, <1>4

-----------------------------------------------------------------------------
(* Which replies a state holds *)

\* The parts of a saved state.
LEMMA StateType ==
  ASSUME NEW s \in State
  PROVE  /\ s.last \in Nat /\ s.backlog \in Seq(PendingReply) /\ Len(s.backlog) \in Nat
         /\ s.backlog # <<>> => Len(s.backlog) > 0
         /\ \A i \in 1..Len(s.backlog) :
              s.backlog[i] \in PendingReply /\ s.backlog[i].seq \in Nat /\ s.backlog[i].reply \in Nat
<1>1. s.last \in Nat /\ s.backlog \in Seq(PendingReply)
  BY DEF State
<1>2. \A i \in 1..Len(s.backlog) : s.backlog[i] \in PendingReply
  BY <1>1, ElementOfSeq
<1> QED
  BY <1>1, <1>2, EmptySeq DEF PendingReply, Reply

\* A reservation adds its reply and no other.
Adds(t, s, r) ==
  /\ Has(t, r)
  /\ \A q : Has(s, q) => Has(t, q)
  /\ \A i \in 1..Len(t.backlog) : t.backlog[i].reply = r \/ Has(s, t.backlog[i].reply)

\* A reserved reply is held.
LEMMA HasReserved ==
  ASSUME NEW P \in SUBSET Pairs, NEW s, Fits(s, P), ~BacklogFull(s),
         NEW r, New(s, r, P), NEW t, t = Reserved(s, r)
  PROVE  Adds(t, s, r)
<1> DEFINE n == Len(s.backlog)
<1>0. Extended(t, s, r)
  BY ReserveFits
<1>1. /\ Len(t.backlog) = n + 1 /\ t.backlog[n + 1].reply = r
      /\ \A i \in 1..n : t.backlog[i] = s.backlog[i]
  BY <1>0 DEF Extended
<1>2. n \in Nat
  BY StateType DEF Fits
<1>3. Has(t, r)
  BY <1>1, <1>2 DEF Has
<1>4. \A q : Has(s, q) => Has(t, q)
  BY <1>1, <1>2 DEF Has
<1>5. ASSUME NEW i \in 1..(n + 1)
      PROVE  t.backlog[i].reply = r \/ Has(s, t.backlog[i].reply)
  <2>1. CASE i \in 1..n
    BY <1>1, <2>1 DEF Has
  <2>2. CASE i = n + 1
    BY <1>1, <2>2
  <2> QED
    BY <1>2, <2>1, <2>2
<1> QED
  BY <1>1, <1>3, <1>4, <1>5 DEF Adds

\* Settling the head removes its reply and no other.
LEMMA HasAdvance ==
  ASSUME NEW P \in SUBSET Pairs, NEW s, Fits(s, P), s.backlog # <<>>
  PROVE  /\ \A q : Has(advance(s), q) => Has(s, q)
         /\ \A q : Has(s, q) => Has(advance(s), q) \/ q = s.backlog[1].reply
<1> DEFINE t == advance(s)
           n == Len(s.backlog)
<1>1. /\ Len(t.backlog) = n - 1
      /\ \A i \in 1..(n - 1) : t.backlog[i] = s.backlog[i + 1]
  BY AdvanceFits
<1>2. n \in Nat /\ n > 0
  BY StateType DEF Fits
<1> HIDE DEF t
<1>3. ASSUME NEW q, Has(t, q) PROVE Has(s, q)
  <2>1. PICK i \in 1..(n - 1) : t.backlog[i].reply = q
    BY <1>1, <1>3 DEF Has
  <2>2. i + 1 \in 1..n
    BY <1>2
  <2> QED
    BY <1>1, <2>1, <2>2 DEF Has
<1>4. ASSUME NEW q, Has(s, q), q # s.backlog[1].reply PROVE Has(t, q)
  <2>1. PICK i \in 1..n : s.backlog[i].reply = q
    BY <1>4 DEF Has
  <2>2. i - 1 \in 1..(n - 1) /\ (i - 1) + 1 = i
    BY <1>2, <1>4, <2>1
  <2>3. t.backlog[i - 1] = s.backlog[i]
    BY <1>1, <2>2
  <2> QED
    BY <1>1, <2>1, <2>2, <2>3 DEF Has
<1> QED
  BY <1>3, <1>4 DEF t

\* Marking the head removes no reply.
LEMMA HasSame ==
  ASSUME NEW s, NEW t, SameBut(t, s)
  PROVE  \A q : Has(t, q) <=> Has(s, q)
BY DEF SameBut, Has

\* Fewer replies have no higher bound.
LEMMA UptoFewer ==
  ASSUME NEW s \in State, NEW t \in State, NEW n, Upto(s, n),
         \A q : Has(t, q) => Has(s, q)
  PROVE  Upto(t, n)
<1> SUFFICES ASSUME NEW i \in 1..Len(t.backlog)
             PROVE  t.backlog[i].reply <= n
  BY DEF Upto
<1>1. Has(s, t.backlog[i].reply)
  BY DEF Has
<1> QED
  BY <1>1 DEF Has, Upto

-----------------------------------------------------------------------------
(* What returns from Reconcile *)

\* No process is good with any file that fits.
LEMMA IdleIsGood ==
  ASSUME NEW P, NEW n, NEW d, FileFits(d, n, P)
  PROVE  Good(Idle, d, n, P)
<1>1. <<>> \in Seq(PendingReply)
  BY EmptySeq
<1>2. Idle \in Process /\ Idle.pc = "down"
  BY <1>1 DEF Idle, Process, State
<1> QED
  BY <1>2 DEF Good

\* Runs looks at a few fields of the process.
LEMMA RunsSame ==
  ASSUME NEW P, NEW n, NEW p, NEW q, Runs(p, n, P), q.pc # "down",
         q.mem = p.mem, q.unsent \in {0, p.unsent}, q.reply = p.reply,
         q.lastSeq = p.lastSeq, q.then = p.then, ToReserve(q) => ToReserve(p)
  PROVE  Runs(q, n, P)
BY DEF Runs, Retained

\* The head was marked, the process keeps running.
LEMMA RunsMarked ==
  ASSUME NEW P, NEW n \in Nat, NEW p \in Process, Runs(p, n, P),
         NEW t, SameBut(t, p.mem), t.backlog # <<>>, p.mem.backlog # <<>>
  PROVE  Runs(WithMemory(p, t), n, P) /\ WithMemory(p, t) \in Process
<1> DEFINE q == WithMemory(p, t)
<1>1. t \in State /\ p.mem \in State
  BY DEF SameBut, Process
<1>2. q \in Process
  BY <1>1 DEF WithMemory, Process
<1>3. /\ q.pc = p.pc /\ q.mem = t /\ q.unsent = p.unsent /\ q.reply = p.reply
      /\ q.lastSeq = p.lastSeq /\ q.then = p.then
  BY DEF WithMemory, Process
<1>4. \A r : Has(t, r) <=> Has(p.mem, r)
  BY HasSame
<1>5. \A m : Upto(p.mem, m) => Upto(t, m)
  BY <1>1, <1>4, UptoFewer
<1>6. Fits(t, P)
  BY SameButFits DEF Runs
<1>7. t.last = p.mem.last
  BY DEF SameBut
<1>8. t.backlog[1].seq = p.mem.backlog[1].seq
  BY <1>1, StateType DEF SameBut
<1> HIDE DEF q
<1> QED
  BY <1>2, <1>3, <1>5, <1>6, <1>7, <1>8 DEF Runs, New, ToReserve, Retained, q

\* Reconcile returns to a process that is good with the file it leaves.
LEMMA ReturnedIsGood ==
  ASSUME NEW P, NEW n, NEW p \in Process, NEW d, NEW ok \in BOOLEAN,
         Runs(p, n, P), p.pc \in {"reconcile", "report"}, FileFits(d, n, P),
         NearCopy(p, d), ok => d = p.mem /\ p.mem.backlog = <<>>
  PROVE  Good(Returned(p, ok), d, n, P)
<1>1. CASE p.then = "reserve"
  <2> DEFINE q == [p EXCEPT !.pc = IF ok THEN "reserve" ELSE "fallback"]
  <2>1. Returned(p, ok) = q
    BY <1>1 DEF Returned
  <2>2. /\ q \in Process /\ q.pc = IF ok THEN "reserve" ELSE "fallback"
        /\ q.mem = p.mem /\ q.unsent = p.unsent /\ q.reply = p.reply
        /\ q.lastSeq = p.lastSeq /\ q.then = p.then
    BY DEF Process
  <2> HIDE DEF q
  <2>3. Runs(q, n, P)
    BY <1>1, <2>2, RunsSame DEF ToReserve
  <2>4. NearCopy(q, d)
    BY <2>2 DEF NearCopy
  <2> QED
    BY <2>1, <2>2, <2>3, <2>4 DEF Good, Running
<1>2. CASE p.then = "check" /\ ~ok /\ ~Retained(p)
  BY <1>2 DEF Runs
<1>3. CASE p.then # "reserve" /\ ~(p.then = "check" /\ ~ok /\ ~Retained(p))
  <2>1. Returned(p, ok) = Idle
    BY <1>3 DEF Returned
  <2> QED
    BY <2>1, IdleIsGood
<1> QED
  BY <1>1, <1>2, <1>3

\* A copy that still is the file, or whose save only removed or marked replies.
LEMMA NearFewer ==
  ASSUME NEW p, NEW d, d.last = p.mem.last, \A r : Has(d, r) => Has(p.mem, r)
  PROVE  NearCopy(p, d)
BY DEF NearCopy, Has

-----------------------------------------------------------------------------
(* Answers to a query or a report *)

\* A process in Reconcile with a head and its file, which is its own copy.
Settling(p, d, n, P) ==
  /\ p \in Process /\ n \in Nat /\ P \in SUBSET Pairs
  /\ Runs(p, n, P) /\ p.pc \in {"reconcile", "report"} /\ p.mem.backlog # <<>>
  /\ d = p.mem

\* The head was marked in the copy, and perhaps in the file.
LEMMA MarkedIsGood ==
  ASSUME NEW P, NEW n, NEW p, NEW d, Settling(p, d, n, P),
         NEW t, SameBut(t, p.mem), t.backlog # <<>>
  PROVE  /\ Good(Returned(WithMemory(p, t), FALSE), t, n, P)
         /\ Good(Returned(p, FALSE), p.mem, n, P)
         /\ Good(Returned(p, FALSE), t, n, P)
<1> DEFINE q == WithMemory(p, t)
<1>1. /\ p \in Process /\ n \in Nat /\ p.mem.backlog # <<>>
      /\ Runs(p, n, P) /\ p.pc \in {"reconcile", "report"}
  BY DEF Settling
<1>2. Runs(q, n, P) /\ q \in Process
  BY <1>1, RunsMarked
<1>3. q.mem = t /\ q.pc = p.pc
  BY <1>1 DEF WithMemory, Process
<1>4. FileFits(t, n, P)
  BY <1>2, <1>3 DEF Runs, FileFits
<1>5. FileFits(p.mem, n, P)
  BY <1>1 DEF Runs, FileFits
<1>6. t.last = p.mem.last /\ \A r : Has(t, r) <=> Has(p.mem, r)
  BY HasSame DEF SameBut
<1> HIDE DEF q
<1>7. NearCopy(q, t) /\ NearCopy(p, t) /\ NearCopy(p, p.mem)
  BY <1>3, <1>6, NearFewer
<1>8. Good(Returned(q, FALSE), t, n, P)
  BY <1>1, <1>2, <1>3, <1>4, <1>7, ReturnedIsGood
<1>9. Good(Returned(p, FALSE), t, n, P) /\ Good(Returned(p, FALSE), p.mem, n, P)
  BY <1>1, <1>4, <1>5, <1>7, ReturnedIsGood
<1> QED
  BY <1>8, <1>9 DEF q

\* The head stays, in doubt.
LEMMA UnknownIsGood ==
  ASSUME NEW P, NEW n, NEW p, Settling(p, disk, n, P), markUnknown(p)
  PROVE  /\ Good(proc', disk', n, P)
         /\ \A r : Has(disk, r) => Has(disk', r)
<1> DEFINE t == Doubted(p.mem)
<1>1. disk = p.mem /\ p.mem \in State /\ p.mem.backlog # <<>>
  BY DEF Settling, Process
<1>2. SameBut(t, p.mem) /\ t.backlog # <<>>
  BY <1>1, HeadChanges
<1>3. \/ disk' = t /\ proc' = Returned(WithMemory(p, t), FALSE)
      \/ disk' \in {p.mem, t} /\ proc' = Returned(p, FALSE)
  BY <1>1 DEF markUnknown, SaveFails
<1> HIDE DEF t
<1>4. Good(proc', disk', n, P)
  BY <1>2, <1>3, MarkedIsGood
<1>5. \A r : Has(p.mem, r) => Has(t, r)
  BY <1>2, HasSame
<1> QED
  BY <1>1, <1>3, <1>4, <1>5

\* The head is settled and the next held reply was never sent.
LEMMA PromotedIsGood ==
  ASSUME NEW P, NEW n, NEW p, NEW d, Settling(p, d, n, P), p.unsent = 0
  PROVE  /\ Good(Promoted(p), advance(p.mem), n, P)
         /\ Good(Returned(p, FALSE), p.mem, n, P)
         /\ Good(Returned(p, FALSE), advance(p.mem), n, P)
<1> DEFINE t == advance(p.mem)
           q == Promoted(p)
<1>1. /\ p \in Process /\ n \in Nat /\ P \in SUBSET Pairs /\ p.mem.backlog # <<>>
      /\ Runs(p, n, P) /\ p.pc \in {"reconcile", "report"} /\ p.mem \in State
  BY DEF Settling, Process
<1>2. Fits(p.mem, P) /\ p.mem.last <= n /\ Upto(p.mem, n)
  BY <1>1 DEF Runs
<1>3. /\ Fits(t, P) /\ t.last = p.mem.last /\ Len(t.backlog) = Len(p.mem.backlog) - 1
      /\ \A i \in 1..Len(t.backlog) : /\ i + 1 \in 1..Len(p.mem.backlog)
                                     /\ t.backlog[i] = p.mem.backlog[i + 1]
  BY <1>1, <1>2, AdvanceFits
<1>4. \A r : Has(t, r) => Has(p.mem, r)
  BY <1>1, <1>2, HasAdvance
<1>5. t \in State /\ \A m : Upto(p.mem, m) => Upto(t, m)
  BY <1>1, <1>3, <1>4, UptoFewer DEF Fits
<1>6. /\ q.pc = "reconcile" /\ q.mem = t /\ q.reply = p.reply /\ q.lastSeq = p.lastSeq
      /\ q.then = p.then
      /\ q.unsent = IF Len(p.mem.backlog) > 1 THEN p.mem.backlog[2].seq ELSE 0
  BY <1>1 DEF Promoted, Process
<1>7. q \in Process
  <2>1. Len(p.mem.backlog) > 1 => p.mem.backlog[2].seq \in Nat
    BY <1>1, StateType
  <2> QED
    BY <1>1, <1>5, <2>1 DEF Promoted, Process
<1> HIDE DEF t, q
<1>8. q.unsent # 0 => /\ t.backlog # <<>> /\ q.unsent = t.backlog[1].seq
                      /\ \A x \in P : x[1] # q.unsent
  <2> SUFFICES ASSUME Len(p.mem.backlog) > 1
               PROVE  /\ t.backlog # <<>> /\ p.mem.backlog[2] = t.backlog[1]
                      /\ \A x \in P : x[1] # p.mem.backlog[2].seq
    BY <1>6
  <2>1. Len(p.mem.backlog) \in Nat /\ p.mem.backlog[2].seq \in Nat
    BY <1>1, StateType
  <2>2. 1 \in 1..Len(t.backlog)
    BY <1>3, <2>1
  <2>3. t.backlog # <<>> /\ t.backlog[1] = p.mem.backlog[2]
    BY <1>3, <2>2, EmptySeq
  <2>4. \A x \in P : x[1] \in Nat /\ AfterBacklog(p.mem.backlog[2], x, FALSE)
    <3>1. 2 \in 1..Len(p.mem.backlog) /\ (2 = 1) = FALSE
      BY <2>1
    <3> QED
      BY <1>1, <1>2, <3>1 DEF Fits, Behind, Pairs
  <2> QED
    BY <2>1, <2>3, <2>4 DEF AfterBacklog
<1>9. Runs(q, n, P)
  BY <1>1, <1>2, <1>3, <1>5, <1>6, <1>8 DEF Runs, New, ToReserve, Retained
<1>10. FileFits(t, n, P) /\ FileFits(p.mem, n, P)
  BY <1>2, <1>3, <1>5 DEF FileFits
<1>11. Good(q, t, n, P)
  BY <1>6, <1>7, <1>9, <1>10 DEF Good, Running
<1>12. NearCopy(p, t) /\ NearCopy(p, p.mem)
  BY <1>3, <1>4, NearFewer
<1>13. Good(Returned(p, FALSE), t, n, P) /\ Good(Returned(p, FALSE), p.mem, n, P)
  BY <1>1, <1>10, <1>12, ReturnedIsGood
<1> QED
  BY <1>11, <1>13 DEF t, q

\* A receipt settles the head, or stops the backlog at it.
LEMMA ReceivedIsGood ==
  ASSUME NEW P, NEW n, NEW p, Settling(p, disk, n, P), p.unsent = 0,
         NEW receipt, Receive(p, receipt)
  PROVE  /\ Good(proc', disk', n, P)
         /\ \A r : Has(disk, r) => Has(disk', r) \/ r = p.mem.backlog[1].reply
<1>1. /\ disk = p.mem /\ p.mem \in State /\ p.mem.backlog # <<>>
      /\ P \in SUBSET Pairs /\ Fits(p.mem, P)
  BY DEF Settling, Process, Runs
<1>2. CASE receipt.outcome = "peer_changed"
  <2> DEFINE t == PeerChanged(p.mem)
  <2>1. SameBut(t, p.mem) /\ t.backlog # <<>>
    BY <1>1, HeadChanges
  <2>2. \/ disk' = t /\ proc' = Returned(WithMemory(p, t), FALSE)
        \/ disk' \in {p.mem, t} /\ proc' = Returned(p, FALSE)
    BY <1>1, <1>2 DEF Receive, SaveFails
  <2> HIDE DEF t
  <2>3. Good(proc', disk', n, P)
    BY <2>1, <2>2, MarkedIsGood
  <2>4. \A r : Has(p.mem, r) => Has(t, r)
    BY <2>1, HasSame
  <2> QED
    BY <1>1, <2>2, <2>3, <2>4
<1>3. CASE receipt.outcome # "peer_changed"
  <2>1. \/ disk' = advance(p.mem) /\ proc' = Promoted(p)
        \/ disk' \in {p.mem, advance(p.mem)} /\ proc' = Returned(p, FALSE)
    BY <1>1, <1>3 DEF Receive, SaveFails
  <2>2. Good(proc', disk', n, P)
    BY <2>1, PromotedIsGood
  <2>3. \A r : Has(p.mem, r) => Has(advance(p.mem), r) \/ r = p.mem.backlog[1].reply
    BY <1>1, HasAdvance
  <2> QED
    BY <1>1, <2>1, <2>2, <2>3
<1> QED
  BY <1>2, <1>3

-----------------------------------------------------------------------------
(* The steps that neither send nor deliver *)

\* A step that neither sends nor delivers keeps IInv if it keeps its last two parts.
LEMMA Quiet ==
  ASSUME ClientIInv, UNCHANGED <<flight, book>>, peerMoved' \in BOOLEAN,
         said' \in {said, said + 1}, said' <= MaxReplies,
         kept' \subseteq Reply, discarded' \subseteq Reply,
         Good(proc', disk', said', Past), Safe(kept' \ discarded', disk', book)
  PROVE  ClientIInv'
<1>1. Past' = Past /\ book' = book
  BY DEF Past, Sent
<1>2. ClientTypes'
  BY PublicationAssumption DEF ClientIInv, ClientTypes
<1>3. Spoken(Past, said')
  <2> SUFFICES ASSUME NEW x \in Past PROVE x[2] <= said'
    BY DEF Spoken
  <2>1. x[2] \in Nat /\ x[2] <= said
    BY SentType DEF ClientIInv, ClientTypes, Past, Pairs, Reply, Spoken
  <2> QED
    BY <2>1 DEF ClientIInv, ClientTypes
<1> QED
  BY <1>1, <1>2, <1>3 DEF ClientIInv

\* What IInv says of the process that may load: there is none.
LEMMA Facts ==
  ASSUME ClientIInv
  PROVE  /\ said \in Nat /\ said <= MaxReplies /\ Past \in SUBSET Pairs
         /\ peerMoved \in BOOLEAN /\ kept \subseteq Reply /\ discarded \subseteq Reply
         /\ proc \in Process /\ FileFits(disk, said, Past)
         /\ disk \in State /\ Fits(disk, Past) /\ disk.last <= said /\ Upto(disk, said)
         /\ proc.pc = "down" => proc = Idle
         /\ proc.pc # "down" => Running(proc, disk, said, Past)
         /\ Safe(kept \ discarded, disk, book)
<1>1. Past \subseteq Pairs
  BY SentType DEF ClientIInv, ClientTypes, Past
<1> QED
  BY <1>1, PublicationAssumption DEF ClientIInv, ClientTypes, Good, FileFits, Fits

\* A process that just loaded the file.
LEMMA LoadedRuns ==
  ASSUME ClientIInv, NEW offline \in BOOLEAN, NEW force \in BOOLEAN
  PROVE  Good([Loaded(offline) EXCEPT !.force = force], disk, said, Past)
<1> DEFINE p == [Loaded(offline) EXCEPT !.force = force]
<1>1. /\ disk \in State /\ FileFits(disk, said, Past)
      /\ Fits(disk, Past) /\ disk.last <= said /\ Upto(disk, said)
  BY Facts
<1>2. /\ p \in Process /\ p.pc = "reconcile" /\ p.mem = disk /\ p.unsent = 0
      /\ p.then = "end"
  BY <1>1 DEF Loaded, Idle, UnsentAtLoad, Process, State
<1> HIDE DEF p
<1>3. Runs(p, said, Past)
  BY <1>1, <1>2 DEF Runs, ToReserve
<1> QED
  BY <1>1, <1>2, <1>3 DEF Good, Running, p

\* A command only loads the file.
LEMMA CommandKeeps ==
  ASSUME ClientIInv, NEW offline \in BOOLEAN, NEW resend \in BOOLEAN, Command(offline, resend)
  PROVE  ClientIInv'
<1>1. Good(proc', disk', said', Past)
  BY LoadedRuns DEF Command
<1> QED
  BY <1>1, Facts, Quiet DEF Command

\* A discarded head leaves a backlog that fits.
LEMMA DiscardPendingKeeps ==
  ASSUME ClientIInv, DiscardPending
  PROVE  ClientIInv'
<1>1. /\ proc = Idle /\ Past \in SUBSET Pairs /\ disk.backlog # <<>> /\ disk \in State
      /\ Fits(disk, Past) /\ disk.last <= said /\ Upto(disk, said)
  BY Facts DEF DiscardPending, MayLoad
<1> DEFINE t == advance(disk)
<1>2. Fits(t, Past) /\ t.last = disk.last
  BY <1>1, AdvanceFits
<1>3. /\ \A q : Has(t, q) => Has(disk, q)
      /\ \A q : Has(disk, q) => Has(t, q) \/ q = disk.backlog[1].reply
  BY <1>1, HasAdvance
<1>4. t \in State /\ Upto(t, said)
  BY <1>1, <1>2, <1>3, UptoFewer DEF Fits
<1>5. disk' \in {disk, t} /\ discarded' = discarded \cup {disk.backlog[1].reply}
  BY DEF DiscardPending, SaveFails
<1> HIDE DEF t
<1>6. FileFits(disk', said, Past)
  BY <1>1, <1>2, <1>4, <1>5 DEF FileFits
<1>7. Good(proc', disk', said', Past)
  BY <1>1, <1>6, IdleIsGood DEF DiscardPending
<1>8. disk.backlog[1].reply \in Reply
  BY <1>1, StateType DEF PendingReply
<1>9. Safe(kept' \ discarded', disk', book)
  BY <1>3, <1>5, Facts DEF DiscardPending, Safe
<1> QED
  BY <1>5, <1>7, <1>8, <1>9, Facts, Quiet DEF DiscardPending

\* A hook saves its reply behind all others, or still has to.
LEMMA StopHookKeeps ==
  ASSUME ClientIInv, NEW offline \in BOOLEAN, StopHook(offline)
  PROVE  ClientIInv'
<1> DEFINE n == said + 1
           p == [Loaded(offline) EXCEPT !.reply = n]
           t == Reserved(disk, n)
           q == WithReserved(p, n)
           u == [p EXCEPT !.then = "reserve"]
<1>1. /\ proc = Idle /\ Past \in SUBSET Pairs /\ disk \in State /\ said \in Nat
      /\ Fits(disk, Past) /\ disk.last <= said /\ Upto(disk, said)
      /\ disk.last \in Nat /\ Safe(kept \ discarded, disk, book)
      /\ kept \subseteq Reply /\ discarded \subseteq Reply /\ peerMoved \in BOOLEAN
  BY Facts DEF StopHook, MayLoad, State
<1>2. n \in Reply /\ n - 1 = said /\ n \in Nat /\ n <= MaxReplies
  BY <1>1, PublicationAssumption DEF StopHook, Reply
<1>3. New(disk, n, Past)
  <2>1. \A x \in Past : x[2] < n
    <3> SUFFICES ASSUME NEW x \in Past PROVE x[2] < n
      OBVIOUS
    <3>1. x[2] \in Nat /\ x[2] <= said
      BY <1>1 DEF ClientIInv, Pairs, Reply, Spoken
    <3> QED
      BY <1>1, <3>1
  <2> QED
    BY <1>1, <1>2, <2>1 DEF New
<1>4. FileFits(disk, n, Past)
  <2>1. \A i \in 1..Len(disk.backlog) : disk.backlog[i].reply \in Nat
    BY <1>1, StateType
  <2> QED
    BY <1>1, <2>1 DEF FileFits, Upto
<1>5. /\ p \in Process /\ p.pc = "reconcile" /\ p.mem = disk /\ p.unsent = 0
      /\ p.then = "end" /\ p.reply = n /\ p.lastSeq = disk.last
  BY <1>1, <1>2 DEF Loaded, Idle, UnsentAtLoad, Process, State
<1>6. /\ UNCHANGED <<flight, book, peerMoved, discarded>> /\ said' = n
      /\ \/ ~BacklogFull(disk) /\ disk' = t /\ kept' = kept \cup {n} /\ proc' = q
         \/ BacklogFull(disk) /\ proc' = u /\ UNCHANGED <<disk, kept>>
         \/ /\ disk' = disk \/ (~BacklogFull(disk) /\ disk' = t)
            /\ UNCHANGED <<proc, kept>>
  <2> DEFINE w == IF BacklogFull(disk) THEN disk ELSE t
  <2>1. /\ UNCHANGED <<flight, book, peerMoved, discarded>> /\ said' = n
        /\ \/ ~BacklogFull(disk) /\ disk' = w /\ kept' = kept \cup {n} /\ proc' = q
           \/ BacklogFull(disk) /\ proc' = u /\ UNCHANGED <<disk, kept>>
           \/ SaveFails(w) /\ UNCHANGED <<proc, kept>>
    BY Zenon DEF StopHook
  <2>2. (BacklogFull(disk) => w = disk) /\ (~BacklogFull(disk) => w = t)
    OBVIOUS
  <2> HIDE DEF w, t, p, q, n, u
  <2>3. SaveFails(w) => disk' = disk \/ disk' = w
    BY DEF SaveFails
  <2>4. CASE ~BacklogFull(disk) /\ disk' = w /\ kept' = kept \cup {n} /\ proc' = q
    BY <2>1, <2>2, <2>4
  <2>5. CASE BacklogFull(disk) /\ proc' = u /\ UNCHANGED <<disk, kept>>
    BY <2>1, <2>5
  <2>6. CASE SaveFails(w) /\ UNCHANGED <<proc, kept>>
    <3>1. disk' = disk \/ disk' = w
      BY <2>3, <2>6
    <3>2. disk' = disk \/ (~BacklogFull(disk) /\ disk' = t)
      BY <2>2, <3>1
    <3> QED
      BY <2>1, <2>6, <3>2
  <2> QED
    BY <2>1, <2>4, <2>5, <2>6
<1>7. ASSUME ~BacklogFull(disk)
      PROVE  FileFits(t, n, Past) /\ Extended(t, disk, n) /\ Adds(t, disk, n)
  <2>1. Fits(t, Past) /\ Upto(t, n) /\ Extended(t, disk, n)
    BY <1>1, <1>3, <1>7, ReserveFits
  <2>2. Adds(t, disk, n)
    BY <1>1, <1>3, <1>7, HasReserved
  <2> QED
    BY <1>1, <1>2, <2>1, <2>2 DEF FileFits, Extended
<1> HIDE DEF n, p, t
<1>8. CASE ~BacklogFull(disk) /\ disk' = t /\ kept' = kept \cup {n} /\ proc' = q
  <2>1. /\ q = [p EXCEPT !.mem = t, !.unsent = IF t.backlog[1].seq = t.last THEN t.last ELSE 0]
    BY <1>5 DEF WithReserved, t
  <2>2. t \in State /\ t.last \in Nat
    BY <1>7, <1>8 DEF FileFits, Fits, State
  <2> HIDE DEF q
  <2>3. /\ q \in Process /\ q.pc = "reconcile" /\ q.mem = t /\ q.then = "end"
        /\ q.unsent = IF t.backlog[1].seq = t.last THEN t.last ELSE 0
    BY <1>5, <2>1, <2>2 DEF Process
  <2>4. t.backlog # <<>> /\ t.last = disk.last + 1
    BY <1>7, <1>8 DEF Extended
  <2>5. \A x \in Past : x[1] \in Nat /\ x[1] <= disk.last
    BY <1>1 DEF Fits, Behind, Pairs
  <2>6. Runs(q, n, Past)
    BY <1>1, <1>7, <1>8, <2>3, <2>4, <2>5 DEF Runs, ToReserve, FileFits
  <2>7. Good(q, t, n, Past)
    BY <1>7, <1>8, <2>3, <2>6 DEF Good, Running
  <2>8. Safe(kept' \ discarded', t, book)
    BY <1>1, <1>6, <1>7, <1>8 DEF Safe, Adds
  <2> QED
    BY <1>1, <1>2, <1>6, <1>8, <2>7, <2>8, Quiet DEF n
<1>9. CASE BacklogFull(disk) /\ proc' = u /\ UNCHANGED <<disk, kept>>
  <2>1. /\ u \in Process /\ u.pc = "reconcile" /\ u.mem = disk /\ u.unsent = 0
        /\ u.then = "reserve" /\ u.reply = n /\ u.lastSeq = disk.last
    BY <1>5 DEF Process
  <2> HIDE DEF u
  <2>2. disk.last < n
    BY <1>1 DEF n
  <2>3. Runs(u, n, Past)
    BY <1>1, <1>3, <1>4, <2>1, <2>2 DEF Runs, FileFits
  <2>4. Good(u, disk, n, Past)
    BY <1>4, <2>1, <2>3 DEF Good, Running
  <2> QED
    BY <1>1, <1>2, <1>6, <1>9, <2>4, Quiet DEF n
<1>10. CASE /\ disk' = disk \/ (~BacklogFull(disk) /\ disk' = t)
            /\ UNCHANGED <<proc, kept>>
  <2>1. FileFits(disk', n, Past)
    BY <1>4, <1>7, <1>10
  <2>2. Good(Idle, disk', n, Past)
    BY <2>1, IdleIsGood
  <2>3. Safe(kept' \ discarded', disk', book)
    BY <1>1, <1>6, <1>7, <1>10 DEF Safe, Adds
  <2> QED
    BY <1>1, <1>2, <1>6, <1>10, <2>2, <2>3, Quiet DEF n
<1> QED
  BY <1>6, <1>8, <1>9, <1>10

\* A rebound peer changes nothing here.
LEMMA PeerMovesKeeps ==
  ASSUME ClientIInv, PeerMoves
  PROVE  ClientIInv'
<1>1. Good(proc', disk', said', Past)
  BY DEF ClientIInv, PeerMoves
<1> QED
  BY <1>1, Facts, Quiet DEF PeerMoves

\* A crash leaves the file.
LEMMA CrashKeeps ==
  ASSUME ClientIInv, Crash
  PROVE  ClientIInv'
<1>1. Good(proc', disk', said', Past)
  BY Facts, IdleIsGood DEF Crash
<1> QED
  BY <1>1, Facts, Quiet DEF Crash

\* Reconcile returns without a request.
LEMMA SettledKeeps ==
  ASSUME ClientIInv, Settled
  PROVE  ClientIInv'
<1>1. /\ proc \in Process /\ proc.pc = "reconcile" /\ Runs(proc, said, Past)
      /\ FileFits(disk, said, Past) /\ disk = proc.mem
  BY Facts DEF Settled, Running
<1>2. NearCopy(proc, disk)
  BY <1>1, NearFewer
<1>3. CASE Backlog = <<>> /\ proc' = Returned(proc, TRUE)
  <2>1. Good(Returned(proc, TRUE), disk, said, Past)
    BY <1>1, <1>2, <1>3, ReturnedIsGood DEF Backlog
  <2> QED
    BY <1>3, <2>1, Facts, Quiet DEF Settled
<1>4. CASE proc' = Returned(proc, FALSE)
  <2>1. Good(Returned(proc, FALSE), disk, said, Past)
    BY <1>1, <1>2, ReturnedIsGood
  <2> QED
    BY <1>4, <2>1, Facts, Quiet DEF Settled
<1> QED
  BY <1>3, <1>4 DEF Settled

\* A process that may still reserve its reply over its own copy.
LEMMA Reserves ==
  ASSUME ClientIInv, proc.pc \in {"reserve", "fallback"}, ~BacklogFull(proc.mem),
         NEW t, t = Reserved(proc.mem, proc.reply)
  PROVE  /\ FileFits(t, said, Past) /\ Extended(t, proc.mem, proc.reply)
         /\ Adds(t, proc.mem, proc.reply) /\ proc.reply \in Reply
         /\ proc.mem.last \in Nat /\ proc.mem.last = proc.lastSeq
<1>1. /\ Runs(proc, said, Past) /\ ToReserve(proc) /\ Past \in SUBSET Pairs
      /\ proc.mem \in State /\ said \in Nat
  BY Facts DEF Running, ToReserve, Process
<1>2. /\ Fits(proc.mem, Past) /\ New(proc.mem, said, Past) /\ proc.reply = said
      /\ proc.mem.last < said /\ proc.mem.last = proc.lastSeq /\ proc.mem.last \in Nat
  BY <1>1 DEF Runs, State
<1>3. Fits(t, Past) /\ Upto(t, said) /\ Extended(t, proc.mem, said)
  BY <1>1, <1>2, ReserveFits
<1>4. Adds(t, proc.mem, said)
  BY <1>1, <1>2, HasReserved
<1>5. t.last <= said
  BY <1>1, <1>2, <1>3 DEF Extended
<1>6. proc.reply \in Reply
  BY <1>2 DEF New
<1> QED
  BY <1>2, <1>3, <1>4, <1>5, <1>6 DEF FileFits

\* The reservation in publish, saved, or saved in doubt.
LEMMA ReserveInPublishKeeps ==
  ASSUME ClientIInv, ReserveInPublish
  PROVE  ClientIInv'
<1> DEFINE r == proc.reply
           t == Reserved(proc.mem, r)
           q == [WithReserved(proc, r) EXCEPT !.pc = "reconcile", !.then = "check"]
           u == [proc EXCEPT !.pc = "fallback"]
<1>1. /\ proc \in Process /\ proc.pc = "reserve" /\ Runs(proc, said, Past)
      /\ proc.mem \in State /\ disk = proc.mem /\ proc.mem.backlog = <<>>
      /\ FileFits(disk, said, Past) /\ Past \in SUBSET Pairs
      /\ Safe(kept \ discarded, disk, book) /\ kept \subseteq Reply
  BY Facts DEF ReserveInPublish, Running, Process
<1>2. /\ FileFits(t, said, Past) /\ Extended(t, proc.mem, r) /\ Adds(t, proc.mem, r)
      /\ r \in Reply /\ proc.mem.last \in Nat /\ proc.mem.last = proc.lastSeq
  BY <1>1, Reserves DEF BacklogFull
<1>3. /\ UNCHANGED <<flight, book, peerMoved, said, discarded>>
      /\ \/ disk' = t /\ kept' = kept \cup {r} /\ proc' = q
         \/ disk' \in {disk, t} /\ proc' = u /\ UNCHANGED kept
  BY DEF ReserveInPublish, SaveFails
<1>4. /\ t.last = proc.mem.last + 1 /\ t.backlog # <<>> /\ t.backlog[1].seq = t.last
      /\ t \in State
  BY <1>1, <1>2, EmptySeq DEF Extended, FileFits, Fits
<1> HIDE DEF t
<1>5. CASE disk' = t /\ kept' = kept \cup {r} /\ proc' = q
  <2>1. q = [proc EXCEPT !.mem = t, !.unsent = t.last, !.pc = "reconcile", !.then = "check"]
    BY <1>1, <1>4 DEF WithReserved, Process, t
  <2>2. /\ q \in Process /\ q.pc = "reconcile" /\ q.mem = t /\ q.then = "check"
        /\ q.unsent = t.last /\ q.lastSeq = proc.lastSeq
    BY <1>1, <1>4, <2>1 DEF Process, State
  <2> HIDE DEF q
  <2>3. \A x \in Past : x[1] \in Nat /\ x[1] <= proc.mem.last
    BY <1>1 DEF FileFits, Fits, Behind, Pairs
  <2>4. Retained(q)
    BY <1>2, <1>4, <2>2 DEF Retained
  <2>5. Runs(q, said, Past)
    BY <1>2, <1>4, <2>2, <2>3, <2>4 DEF Runs, ToReserve, FileFits
  <2>6. Good(q, t, said, Past)
    BY <1>2, <2>2, <2>5 DEF Good, Running
  <2>7. Safe(kept' \ discarded', t, book)
    BY <1>1, <1>2, <1>3, <1>5 DEF Safe, Adds
  <2> QED
    BY <1>2, <1>3, <1>5, <2>6, <2>7, Facts, Quiet
<1>6. CASE disk' \in {disk, t} /\ proc' = u /\ UNCHANGED kept
  <2>1. /\ u \in Process /\ u.pc = "fallback" /\ u.mem = proc.mem /\ u.unsent = proc.unsent
        /\ u.then = proc.then /\ u.reply = r /\ u.lastSeq = proc.lastSeq
    BY <1>1 DEF Process
  <2> HIDE DEF u
  <2>2. Runs(u, said, Past)
    BY <1>1, <2>1, RunsSame DEF ToReserve
  <2>3. NearCopy(u, disk) /\ NearCopy(u, t)
    BY <1>1, <1>2, <1>4, <2>1 DEF NearCopy, Adds, Has
  <2>4. Good(u, disk', said, Past)
    BY <1>1, <1>2, <1>6, <2>1, <2>2, <2>3 DEF Good, Running
  <2>5. Safe(kept' \ discarded', disk', book)
    BY <1>1, <1>2, <1>3, <1>6 DEF Safe, Adds
  <2> QED
    BY <1>2, <1>3, <1>6, <2>4, <2>5, Facts, Quiet
<1> QED
  BY <1>3, <1>5, <1>6

\* The fallback reserves over the copy, which may be older than the file.
LEMMA ReserveFallbackKeeps ==
  ASSUME ClientIInv, ReserveFallback
  PROVE  ClientIInv'
<1> DEFINE r == proc.reply
           t == Reserved(proc.mem, r)
<1>1. /\ proc.pc = "fallback" /\ NearCopy(proc, disk) /\ FileFits(disk, said, Past)
      /\ Safe(kept \ discarded, disk, book) /\ kept \subseteq Reply
  BY Facts DEF ReserveFallback, Running
<1>2. ASSUME ~BacklogFull(proc.mem)
      PROVE  /\ FileFits(t, said, Past) /\ Adds(t, proc.mem, r) /\ r \in Reply
             /\ \A x : Has(disk, x) => Has(t, x)
  <2>1. FileFits(t, said, Past) /\ Adds(t, proc.mem, r) /\ r \in Reply
    BY <1>1, <1>2, Reserves
  <2> HIDE DEF t
  <2>2. \A x : Has(disk, x) => Has(t, x)
    BY <1>1, <2>1 DEF NearCopy, Has, Adds
  <2> QED
    BY <2>1, <2>2
<1>3. /\ UNCHANGED <<flight, book, peerMoved, said, discarded>> /\ proc' = Idle
      /\ \/ ~BacklogFull(proc.mem) /\ disk' = t /\ kept' = kept \cup {r}
         \/ disk' = disk /\ UNCHANGED kept
         \/ ~BacklogFull(proc.mem) /\ disk' = t /\ UNCHANGED kept
  BY DEF ReserveFallback, SaveFails
<1> HIDE DEF t
<1>4. FileFits(disk', said, Past)
  BY <1>1, <1>2, <1>3
<1>5. Good(proc', disk', said', Past)
  BY <1>3, <1>4, IdleIsGood
<1>6. Safe(kept' \ discarded', disk', book)
  BY <1>1, <1>2, <1>3 DEF Safe, Adds
<1>7. kept' \subseteq Reply
  BY <1>1, <1>2, <1>3
<1> QED
  BY <1>3, <1>5, <1>6, <1>7, Facts, Quiet

-----------------------------------------------------------------------------
(* The Service's receipts *)

\* c is b, possibly with a receipt of q behind it.
Grown(c, b, q) ==
  /\ c \in Seq(Receipt) /\ Sorted(c)
  /\ \A i \in 1..Len(b) : i \in 1..Len(c) /\ c[i] = b[i]
  /\ \A i \in 1..Len(c) :
       \/ i \in 1..Len(b) /\ c[i] = b[i]
       \/ c[i].seq = q.seq /\ c[i].reply = q.reply

\* A report that is accepted has a number behind all receipts.
LEMMA AcceptsNewest ==
  ASSUME NEW q, book \in Seq(Receipt), Sorted(book), q.seq \in Nat, Accepts(q)
  PROVE  \A i \in 1..Len(book) : book[i].seq \in Nat /\ book[i].seq < q.seq
<1> TAKE i \in 1..Len(book)
<1>1. Len(book) \in Nat
  OBVIOUS
<1>2. book # <<>> /\ Len(book) \in 1..Len(book)
  BY <1>1, EmptySeq
<1>3. book[Len(book)].seq < q.seq
  BY <1>2 DEF Accepts, LastReport
<1>4. book[i] \in Receipt /\ book[Len(book)] \in Receipt
  BY <1>2, ElementOfSeq
<1>5. i < Len(book) => book[i].seq < book[Len(book)].seq
  BY <1>1, <1>2 DEF Sorted
<1> QED
  BY <1>1, <1>3, <1>4, <1>5 DEF Receipt

\* A handled request adds at most a receipt of its own, behind all others.
LEMMA HandledGrows ==
  ASSUME book \in Seq(Receipt), Sorted(book), NEW q \in [seq : Nat, reply : Reply], Handled(q)
  PROVE  Grown(book', book, q)
<1>1. CASE ~Accepts(q)
  <2>1. book' = book
    BY <1>1 DEF Handled
  <2> QED
    BY <2>1 DEF Grown
<1>2. CASE Accepts(q)
  <2>1. PICK o \in {"none", "peer_changed"} :
          book' = Append(book, [seq |-> q.seq, reply |-> q.reply, outcome |-> o])
    BY <1>2 DEF Handled
  <2> DEFINE e == [seq |-> q.seq, reply |-> q.reply, outcome |-> o]
             n == Len(book)
  <2>2. e \in Receipt /\ e.seq = q.seq /\ e.reply = q.reply /\ n \in Nat /\ q.seq \in Nat
    BY DEF Receipt
  <2> HIDE DEF e
  <2>3. /\ Append(book, e) \in Seq(Receipt) /\ Len(Append(book, e)) = n + 1
        /\ \A i \in 1..n : Append(book, e)[i] = book[i]
        /\ Append(book, e)[n + 1] = e
    BY <2>2, AppendProperties
  <2>4. book' = Append(book, e)
    BY <2>1 DEF e
  <2>5. \A i \in 1..n : book[i].seq \in Nat /\ book[i].seq < q.seq
    BY <1>2, <2>2, AcceptsNewest
  <2>6. Sorted(book')
    <3> SUFFICES ASSUME NEW i \in 1..(n + 1), NEW j \in 1..(n + 1), i < j
                 PROVE  book'[i].seq < book'[j].seq
      BY <2>3, <2>4 DEF Sorted
    <3>1. i \in 1..n
      BY <2>2
    <3>2. CASE j \in 1..n
      BY <2>3, <2>4, <3>1, <3>2 DEF Sorted
    <3>3. CASE j = n + 1
      BY <2>2, <2>3, <2>4, <2>5, <3>1, <3>3
    <3> QED
      BY <2>2, <3>2, <3>3
  <2>7. \A i \in 1..(n + 1) :
          \/ i \in 1..n /\ book'[i] = book[i]
          \/ book'[i].seq = q.seq /\ book'[i].reply = q.reply
    <3> TAKE i \in 1..(n + 1)
    <3>1. i \in 1..n \/ i = n + 1
      BY <2>2
    <3> QED
      BY <2>2, <2>3, <2>4, <3>1
  <2>8. \A i \in 1..n : i \in 1..(n + 1) /\ book'[i] = book[i]
    BY <2>2, <2>3, <2>4
  <2> QED
    BY <2>3, <2>4, <2>6, <2>7, <2>8 DEF Grown
<1> QED
  BY <1>1, <1>2

\* What was sent, when the book grew by a receipt of q.
LEMMA SentGrows ==
  ASSUME NEW b \in Seq(Receipt), NEW c \in Seq(Receipt), NEW q, Grown(c, b, q), NEW F, NEW G,
         G \subseteq F \cup {q}
  PROVE  Sent(G, c) \subseteq Sent(F, b) \cup {<<q.seq, q.reply>>}
<1>1. DOMAIN b = 1..Len(b) /\ DOMAIN c = 1..Len(c)
  BY LenProperties
<1> QED
  BY <1>1 DEF Sent, Grown

\* What the book holds was sent, and stays in the book.
LEMMA BookIsSent ==
  ASSUME NEW b \in Seq(Receipt), NEW F
  PROVE  \A i \in 1..Len(b) : <<b[i].seq, b[i].reply>> \in Sent(F, b)
<1>1. DOMAIN b = 1..Len(b)
  BY LenProperties
<1> QED
  BY <1>1 DEF Sent

\* A reply that left the file for the book is not lost.
LEMMA GrownSafe ==
  ASSUME NEW b, NEW c, NEW q, Grown(c, b, q), NEW K, NEW d, NEW e, Safe(K, d, b),
         \A r : Has(d, r) => Has(e, r) \/ \E i \in 1..Len(c) : c[i].reply = r
  PROVE  Safe(K, e, c)
BY DEF Safe, Grown

\* A receipt under the head's number is of the head's reply.
LEMMA ReceiptOfHead ==
  ASSUME NEW b \in Seq(Receipt), NEW F, NEW P, Sent(F, b) \subseteq P,
         NEW s, Fits(s, P), s.backlog # <<>>,
         NEW r \in Receipts(b, s.backlog[1].seq)
  PROVE  \E i \in 1..Len(b) : b[i].reply = s.backlog[1].reply
<1>1. PICK i \in 1..Len(b) : b[i] = r /\ b[i].seq = s.backlog[1].seq
  BY LenProperties DEF Receipts
<1>2. <<b[i].seq, b[i].reply>> \in P
  BY BookIsSent
<1>3. 1 \in 1..Len(s.backlog)
  BY StateType DEF Fits
<1>4. AfterBacklog(s.backlog[1], <<b[i].seq, b[i].reply>>, 1 = 1)
  BY <1>2, <1>3 DEF Fits, Behind
<1> QED
  BY <1>1, <1>4 DEF AfterBacklog

-----------------------------------------------------------------------------
(* The steps that send and deliver *)

\* A query of the head, answered or not, keeps IInv.
LEMMA QueryKeeps ==
  ASSUME ClientIInv, Query
  PROVE  ClientIInv'
<1> DEFINE e == proc.mem.backlog[1]
<1>1. /\ proc \in Process /\ proc.pc = "reconcile" /\ Runs(proc, said, Past)
      /\ FileFits(disk, said, Past) /\ disk = proc.mem /\ proc.mem.backlog # <<>>
      /\ said \in Nat /\ Past \in SUBSET Pairs /\ Sendable(e)
      /\ book \in Seq(Receipt) /\ Safe(kept \ discarded, disk, book)
  BY Facts DEF Query, Running, Backlog, HeadPending, ClientIInv, ClientTypes
<1>2. Settling(proc, disk, said, Past)
  BY <1>1 DEF Settling
<1>3. UNCHANGED <<flight, book, peerMoved, said, kept, discarded>>
  BY DEF Query
<1>4. CASE proc' = Reporting(proc) /\ UNCHANGED disk
  <2> DEFINE q == Reporting(proc)
  <2>1. /\ q \in Process /\ q.pc = "report" /\ q.mem = proc.mem /\ q.unsent = proc.unsent
        /\ q.then = proc.then /\ q.reply = proc.reply /\ q.lastSeq = proc.lastSeq
    BY <1>1 DEF Reporting, Process
  <2> HIDE DEF q
  <2>2. Runs(q, said, Past)
    BY <1>1, <2>1, RunsSame DEF ToReserve
  <2>3. Good(q, disk, said, Past)
    BY <1>1, <2>1, <2>2 DEF Good, Running
  <2> QED
    BY <1>1, <1>3, <1>4, <2>3, Facts, Quiet DEF q
<1>5. ASSUME e.seq # proc.unsent, NEW r \in Receipts(book, e.seq), Receive(proc, r)
      PROVE  ClientIInv'
  <2>1. proc.unsent = 0
    BY <1>1, <1>5 DEF Runs
  <2>2. /\ Good(proc', disk', said, Past)
        /\ \A x : Has(disk, x) => Has(disk', x) \/ x = e.reply
    BY <1>2, <1>5, <2>1, ReceivedIsGood
  <2>3. \E i \in 1..Len(book) : book[i].reply = e.reply
    BY <1>1, <1>5, ReceiptOfHead DEF Runs, Past
  <2>4. Safe(kept' \ discarded', disk', book)
    BY <1>1, <1>3, <2>2, <2>3 DEF Safe
  <2> QED
    BY <1>3, <2>2, <2>4, Facts, Quiet
<1>6. CASE markUnknown(proc)
  <2>1. Good(proc', disk', said, Past) /\ \A x : Has(disk, x) => Has(disk', x)
    BY <1>2, <1>6, UnknownIsGood
  <2>2. Safe(kept' \ discarded', disk', book)
    BY <1>1, <1>3, <2>1 DEF Safe
  <2> QED
    BY <1>3, <2>1, <2>2, Facts, Quiet
<1> QED
  BY <1>4, <1>5, <1>6 DEF Query, HeadPending, Backlog

\* The head joins what was sent.
LEMMA HeadIsSent ==
  ASSUME NEW P, NEW n, NEW p, NEW d, Settling(p, d, n, P), p.unsent = 0,
         Sendable(p.mem.backlog[1]), Agree(P), Spoken(P, n),
         NEW Q, Q = P \cup {<<p.mem.backlog[1].seq, p.mem.backlog[1].reply>>}
  PROVE  Settling(p, d, n, Q) /\ Agree(Q) /\ Spoken(Q, n)
<1> DEFINE e == p.mem.backlog[1]
           h == <<e.seq, e.reply>>
<1>1. /\ p \in Process /\ p.mem \in State /\ p.mem.backlog # <<>> /\ P \in SUBSET Pairs
      /\ Runs(p, n, P) /\ n \in Nat /\ Fits(p.mem, P) /\ Upto(p.mem, n)
  BY DEF Settling, Process, Runs
<1>2. 1 \in 1..Len(p.mem.backlog) /\ e.seq \in Nat /\ e.reply \in Nat
  BY <1>1, StateType
<1>3. h \in Pairs /\ Fits(p.mem, Q)
  BY <1>1, SendFits
<1>4. \A x \in P : x[1] \in Nat /\ x[2] \in Nat /\ AfterBacklog(e, x, 1 = 1)
  BY <1>1, <1>2 DEF Fits, Behind, Pairs, Reply
<1>5. h[1] = e.seq /\ h[2] = e.reply /\ e.reply <= n
  BY <1>1, <1>2 DEF Upto
<1> HIDE DEF e, h
<1>6. \A x \in P : x[1] <= e.seq /\ (x[1] < e.seq => x[2] < e.reply) /\ (x[1] = e.seq => x[2] = e.reply)
  BY <1>4 DEF AfterBacklog
<1>7. Q = P \cup {h}
  BY DEF h, e
<1>8. Agree(Q)
  <2> SUFFICES ASSUME NEW x \in Q, NEW y \in Q
               PROVE  (x[1] = y[1] => x[2] = y[2]) /\ (x[1] < y[1] => x[2] < y[2])
    BY DEF Agree
  <2>1. CASE x \in P /\ y \in P
    BY <2>1 DEF Agree
  <2>2. CASE x \in P /\ y = h
    BY <1>5, <1>6, <2>2
  <2>3. CASE x = h /\ y \in P
    BY <1>2, <1>4, <1>5, <1>6, <2>3
  <2>4. CASE x = h /\ y = h
    BY <1>2, <1>5, <2>4
  <2> QED
    BY <1>7, <2>1, <2>2, <2>3, <2>4
<1>9. Spoken(Q, n)
  BY <1>5, <1>7 DEF Spoken
<1>10. ToReserve(p) => New(p.mem, n, Q)
  <2> SUFFICES ASSUME ToReserve(p) PROVE New(p.mem, n, Q)
    OBVIOUS
  <2>1. New(p.mem, n, P)
    BY <1>1 DEF Runs
  <2>2. e.reply <= n - 1
    BY <1>2, <2>1 DEF New, Upto, e
  <2>3. h[2] < n
    BY <1>1, <1>2, <1>5, <2>2
  <2> QED
    BY <1>7, <2>1, <2>3 DEF New
<1>11. Runs(p, n, Q)
  BY <1>1, <1>3, <1>10 DEF Runs
<1>12. Q \in SUBSET Pairs
  BY <1>1, <1>3, <1>7
<1> QED
  BY <1>8, <1>9, <1>11, <1>12 DEF Settling

\* A step that sends q or has it handled, over the replies Q sent by its end.
LEMMA Sending ==
  ASSUME ClientIInv, NEW q \in [seq : Nat, reply : Reply], NEW Q,
         Past \cup {<<q.seq, q.reply>>} \subseteq Q, Agree(Q), Spoken(Q, said),
         Grown(book', book, q), flight' \subseteq flight \cup {q},
         UNCHANGED <<peerMoved, said, kept, discarded>>,
         Good(proc', disk', said, Q), Safe(kept \ discarded, disk', book')
  PROVE  ClientIInv'
<1>1. ClientTypes'
  BY DEF ClientIInv, ClientTypes, Grown
<1>2. Past' \subseteq Q
  <2>1. book \in Seq(Receipt) /\ book' \in Seq(Receipt)
    BY DEF ClientIInv, ClientTypes, Grown
  <2>2. Sent(flight', book') \subseteq Sent(flight, book) \cup {<<q.seq, q.reply>>}
    BY <2>1, SentGrows
  <2> QED
    BY <2>2 DEF Past
<1>3. Good(proc', disk', said, Past') /\ Agree(Past')
  BY <1>2, FewerFit
<1>4. Spoken(Past', said)
  BY <1>2 DEF Spoken
<1>5. Sorted(book')
  BY DEF Grown
<1> QED
  BY <1>1, <1>3, <1>4, <1>5 DEF ClientIInv

\* What a report sends, the process that sent it, and what was sent by then.
HeadRequest == [seq |-> proc.mem.backlog[1].seq, reply |-> proc.mem.backlog[1].reply]
Sender == [proc EXCEPT !.unsent = 0]
PastAndHead == Past \cup {<<proc.mem.backlog[1].seq, proc.mem.backlog[1].reply>>}

\* A report of the head leaves what was sent in one order.
LEMMA ReportFacts ==
  ASSUME ClientIInv, Report
  PROVE  /\ Settling(Sender, disk, said, PastAndHead)
         /\ Agree(PastAndHead) /\ Spoken(PastAndHead, said)
         /\ HeadRequest \in [seq : Nat, reply : Reply]
         /\ PastAndHead = Past \cup {<<HeadRequest.seq, HeadRequest.reply>>}
         /\ Sender.unsent = 0 /\ Sender.mem = proc.mem
         /\ UNCHANGED <<peerMoved, said, kept, discarded>>
         /\ \/ UNCHANGED <<book, flight>> /\ markUnknown(Sender)
            \/ UNCHANGED book /\ flight' = flight \cup {HeadRequest} /\ markUnknown(Sender)
            \/ Handled(HeadRequest) /\ UNCHANGED flight /\ markUnknown(Sender)
            \/ /\ Handled(HeadRequest) /\ UNCHANGED flight
               /\ \E r \in Receipts(book', HeadRequest.seq) : Receive(Sender, r)
<1> DEFINE e == proc.mem.backlog[1]
           q == HeadRequest
           p == Sender
<1>1. /\ proc \in Process /\ proc.pc = "report" /\ Runs(proc, said, Past)
      /\ disk = proc.mem /\ proc.mem.backlog # <<>> /\ proc.mem \in State
      /\ said \in Nat /\ Past \in SUBSET Pairs /\ Sendable(e)
      /\ Agree(Past) /\ Spoken(Past, said)
  BY Facts DEF Report, Running, ClientIInv, Process
<1>2. q \in [seq : Nat, reply : Reply] /\ q.seq = e.seq /\ q.reply = e.reply
  <2>1. 1 \in 1..Len(proc.mem.backlog) /\ e \in PendingReply
    BY <1>1, StateType
  <2> QED
    BY <2>1 DEF PendingReply, HeadRequest
<1>3. /\ p \in Process /\ p.pc = "report" /\ p.mem = proc.mem /\ p.unsent = 0
      /\ p.then = proc.then /\ p.reply = proc.reply /\ p.lastSeq = proc.lastSeq
  BY <1>1 DEF Process, Sender
<1>4. Runs(p, said, Past)
  BY <1>1, <1>3, RunsSame DEF ToReserve
<1>5. Settling(p, disk, said, Past)
  BY <1>1, <1>3, <1>4 DEF Settling
<1>6. /\ PastAndHead = Past \cup {<<p.mem.backlog[1].seq, p.mem.backlog[1].reply>>}
      /\ Sendable(p.mem.backlog[1])
  BY <1>1, <1>3 DEF PastAndHead
<1>7. Settling(p, disk, said, PastAndHead) /\ Agree(PastAndHead) /\ Spoken(PastAndHead, said)
  BY <1>1, <1>3, <1>5, <1>6, HeadIsSent
<1>8. PastAndHead = Past \cup {<<q.seq, q.reply>>}
  BY <1>2 DEF PastAndHead
<1>9. UNCHANGED <<peerMoved, said, kept, discarded>>
  BY DEF Report
<1>10. \/ UNCHANGED <<book, flight>> /\ markUnknown(p)
       \/ UNCHANGED book /\ flight' = flight \cup {q} /\ markUnknown(p)
       \/ Handled(q) /\ UNCHANGED flight /\ markUnknown(p)
       \/ Handled(q) /\ UNCHANGED flight /\ \E r \in Receipts(book', q.seq) : Receive(p, r)
  BY <1>1 DEF Report, HeadPending, Backlog, HeadRequest, Sender
<1> QED
  BY <1>2, <1>3, <1>7, <1>8, <1>9, <1>10

\* A report, lost, handled late, refused or answered, keeps IInv.
LEMMA ReportKeeps ==
  ASSUME ClientIInv, Report
  PROVE  ClientIInv'
<1> DEFINE e == proc.mem.backlog[1]
           q == HeadRequest
           p == Sender
           Q == PastAndHead
<1>1. /\ Settling(p, disk, said, Q) /\ Agree(Q) /\ Spoken(Q, said)
      /\ q \in [seq : Nat, reply : Reply] /\ Q = Past \cup {<<q.seq, q.reply>>}
      /\ q.seq = e.seq /\ p.unsent = 0 /\ p.mem = proc.mem
      /\ UNCHANGED <<peerMoved, said, kept, discarded>>
  BY ReportFacts DEF HeadRequest
<1>2. \/ UNCHANGED <<book, flight>> /\ markUnknown(p)
      \/ UNCHANGED book /\ flight' = flight \cup {q} /\ markUnknown(p)
      \/ Handled(q) /\ UNCHANGED flight /\ markUnknown(p)
      \/ Handled(q) /\ UNCHANGED flight /\ \E r \in Receipts(book', q.seq) : Receive(p, r)
  BY ReportFacts
<1>3. book \in Seq(Receipt) /\ Sorted(book) /\ Safe(kept \ discarded, disk, book)
  BY DEF ClientIInv, ClientTypes
<1>4. Grown(book', book, q) /\ flight' \subseteq flight \cup {q}
  <2>1. UNCHANGED book => Grown(book', book, q)
    BY <1>3 DEF Grown
  <2>2. Handled(q) => Grown(book', book, q)
    BY <1>1, <1>3, HandledGrows
  <2> QED
    BY <1>2, <2>1, <2>2
<1>5. /\ Good(proc', disk', said, Q)
      /\ \A x : Has(disk, x) => Has(disk', x) \/ \E i \in 1..Len(book') : book'[i].reply = x
  <2>1. CASE markUnknown(p)
    BY <1>1, <2>1, UnknownIsGood
  <2>2. ASSUME NEW r \in Receipts(book', q.seq), Receive(p, r)
        PROVE  /\ Good(proc', disk', said, Q)
               /\ \A x : Has(disk, x) => Has(disk', x) \/ \E i \in 1..Len(book') : book'[i].reply = x
    <3>1. /\ Good(proc', disk', said, Q)
          /\ \A x : Has(disk, x) => Has(disk', x) \/ x = e.reply
      BY <1>1, <2>2, ReceivedIsGood
    <3>2. book' \in Seq(Receipt) /\ Sent(flight', book') \subseteq Q
      <4>1. book' \in Seq(Receipt)
        BY <1>4 DEF Grown
      <4>2. Sent(flight', book') \subseteq Sent(flight, book) \cup {<<q.seq, q.reply>>}
        BY <1>3, <1>4, <4>1, SentGrows
      <4> QED
        BY <1>1, <4>1, <4>2 DEF Past
    <3>3. Fits(proc.mem, Q) /\ proc.mem.backlog # <<>>
      BY <1>1 DEF Settling, Runs
    <3>4. r \in Receipts(book', e.seq)
      BY <1>1, <2>2
    <3>5. \E i \in 1..Len(book') : book'[i].reply = e.reply
      BY <3>2, <3>3, <3>4, ReceiptOfHead
    <3> QED
      BY <3>1, <3>5
  <2> QED
    BY <1>2, <2>1, <2>2
<1>6. Safe(kept \ discarded, disk', book')
  BY <1>3, <1>4, <1>5, GrownSafe
<1> QED
  BY <1>1, <1>4, <1>5, <1>6, Sending

\* A request handled late keeps IInv.
LEMMA LateKeeps ==
  ASSUME ClientIInv, Late
  PROVE  ClientIInv'
<1>1. PICK q \in flight : Handled(q) /\ flight' = flight \ {q}
  BY DEF Late
<1>2. UNCHANGED <<disk, proc, peerMoved, said, kept, discarded>>
  BY DEF Late
<1>3. q \in [seq : Nat, reply : Reply] /\ <<q.seq, q.reply>> \in Past
  BY DEF ClientIInv, ClientTypes, Past, Sent
<1>4. Grown(book', book, q)
  BY <1>1, <1>3, HandledGrows DEF ClientIInv, ClientTypes
<1>5. Safe(kept \ discarded, disk, book')
  BY <1>4, GrownSafe DEF ClientIInv
<1> QED
  BY <1>1, <1>2, <1>3, <1>4, <1>5, Sending DEF ClientIInv

-----------------------------------------------------------------------------
(* The theorems *)

\* IInv holds at the start.
LEMMA InitIsGood ==
  ASSUME ClientInit
  PROVE  ClientIInv
<1>1. /\ disk \in State /\ disk.last = 0 /\ disk.backlog = <<>> /\ Len(disk.backlog) = 0
      /\ book \in Seq(Receipt) /\ Len(book) = 0 /\ DOMAIN book = {}
      /\ proc = Idle /\ flight = {} /\ said = 0 /\ kept = {} /\ discarded = {}
      /\ peerMoved = FALSE
  <2>1. PICK c \in BOOLEAN : disk = [last |-> 0, backlog |-> <<>>, scopeChanged |-> c]
    BY DEF ClientInit
  <2>2. <<>> \in Seq(PendingReply) /\ <<>> \in Seq(Receipt) /\ Len(<<>>) = 0 /\ DOMAIN <<>> = {}
    BY EmptySeq
  <2>3. disk \in State /\ disk.last = 0 /\ disk.backlog = <<>>
    BY <2>1, <2>2 DEF State
  <2> QED
    BY <2>2, <2>3 DEF ClientInit
<1>2. Past = {}
  BY <1>1 DEF Past, Sent
<1>3. FileFits(disk, said, Past)
  BY <1>1, <1>2, PublicationAssumption DEF FileFits, Fits, Line, Behind, Upto
<1>4. Good(proc, disk, said, Past)
  BY <1>1, <1>3, IdleIsGood
<1> QED
  <2>1. ClientTypes
    <3>1. said \in 0..MaxReplies
      BY <1>1, PublicationAssumption
    <3>2. /\ flight \subseteq [seq : Nat, reply : Reply] /\ kept \subseteq Reply
          /\ discarded \subseteq Reply /\ peerMoved \in BOOLEAN
      BY <1>1
    <3> QED
      BY <1>1, <3>1, <3>2 DEF ClientTypes
  <2>2. Sorted(book)
    BY <1>1 DEF Sorted
  <2>4. Agree(Past) /\ Spoken(Past, said)
    BY <1>2 DEF Agree, Spoken
  <2>3. Safe(kept \ discarded, disk, book)
    BY <1>1 DEF Safe
  <2> QED
    BY <1>4, <2>1, <2>2, <2>3, <2>4 DEF ClientIInv

\* Every step keeps IInv.
LEMMA ClientNextKeeps ==
  ASSUME ClientIInv, [ClientNext]_clientVars
  PROVE  ClientIInv'
<1>1. CASE UNCHANGED clientVars
  BY <1>1 DEF clientVars, ClientIInv, ClientTypes, Past, Sent, Sorted, Safe
<1>2. ASSUME NEW offline \in BOOLEAN, StopHook(offline)
      PROVE  ClientIInv'
  BY <1>2, StopHookKeeps
<1>3. ASSUME NEW offline \in BOOLEAN, NEW resend \in BOOLEAN, Command(offline, resend)
      PROVE  ClientIInv'
  BY <1>3, CommandKeeps
<1> QED
  BY <1>1, <1>2, <1>3, DiscardPendingKeeps, SettledKeeps, QueryKeeps, ReportKeeps,
     ReserveInPublishKeeps, ReserveFallbackKeeps, CrashKeeps, LateKeeps, PeerMovesKeeps
  DEF ClientNext

\* The inductive invariant: file, process, requests and receipts agree in every
\* reachable state, for every number of replies and every size of the backlog.
THEOREM Inductive == ClientSpec => []ClientIInv
BY InitIsGood, ClientNextKeeps, PTL DEF ClientSpec

\* The file passes validBacklog after every sequence of hooks, failed saves,
\* discards and crashes, and a process is at most one reservation behind it.
THEOREM ClientTypeCorrect == ClientSpec => []ClientTypeOK
<1>1. ASSUME ClientIInv PROVE ClientTypeOK
  <2>1. validBacklog(disk)
    BY <1>1, Facts, FitsIsValid
  <2>2. disk \in State /\ proc \in Process /\ disk.last <= said
    BY <1>1, Facts
  <2>3. proc.pc # "down" => proc.mem.last \in {disk.last, disk.last - 1}
    <3>1. disk.last \in Nat /\ proc.mem.last \in Nat
      BY <2>2 DEF State, Process
    <3>2. proc.pc # "down" => disk.last \in {proc.mem.last, proc.mem.last + 1}
      <4>1. Running(proc, disk, said, Past) => \/ NearCopy(proc, disk)
                                              \/ disk = proc.mem
        BY DEF Running
      <4>2. proc.pc # "down" => Running(proc, disk, said, Past)
        BY <1>1, Facts
      <4> QED
        BY <4>1, <4>2 DEF NearCopy
    <3> QED
      BY <3>1, <3>2
  <2> QED
    BY <1>1, <2>1, <2>2, <2>3 DEF ClientTypeOK, ClientIInv, ClientTypes, Receipt
<1> QED
  BY <1>1, Inductive, PTL

\* No confirmed reply disappears from both the journal and the Service, unless
\* the operator discarded it.
THEOREM NothingIsLost == ClientSpec => []NothingLost
<1>1. ASSUME ClientIInv PROVE NothingLost
  <2>1. DOMAIN disk.backlog = 1..Len(disk.backlog) /\ DOMAIN book = 1..Len(book)
    BY <1>1, Facts, StateType, LenProperties DEF ClientIInv, ClientTypes
  <2> QED
    BY <1>1, <2>1 DEF NothingLost, ClientIInv, Safe, Has
<1> QED
  BY <1>1, Inductive, PTL

\* No held reply, reply of a changed scope, or number a process takes for unsent
\* was ever sent.
THEOREM NothingIsSentEarly == ClientSpec => []NothingSentEarly
<1>1. ASSUME ClientIInv PROVE NothingSentEarly
  <2>1. \A s : (\A x \in Past : x[1] # s) => NeverSent(s)
    <3> SUFFICES ASSUME NEW s, \A x \in Past : x[1] # s
                 PROVE  NeverSent(s)
      OBVIOUS
    <3>1. \A q \in flight : q.seq # s
      <4> TAKE q \in flight
      <4>1. <<q.seq, q.reply>> \in Past
        BY DEF Past, Sent
      <4> QED
        BY <4>1
    <3>2. \A i \in DOMAIN book : book[i].seq # s
      <4> TAKE i \in DOMAIN book
      <4>1. <<book[i].seq, book[i].reply>> \in Past
        BY DEF Past, Sent
      <4> QED
        BY <4>1
    <3> QED
      BY <3>1, <3>2 DEF NeverSent, Receipts
  <2>2. proc.unsent # 0 => \A x \in Past : x[1] # proc.unsent
    BY <1>1, Facts DEF Running, Runs, Idle
  <2>3. DOMAIN disk.backlog = 1..Len(disk.backlog)
    BY <1>1, Facts, StateType, LenProperties
  <2>4. ASSUME NEW i \in DOMAIN disk.backlog, NEW x \in Past,
               i > 1 \/ disk.backlog[i].outcome = "context_changed"
        PROVE  x[1] # disk.backlog[i].seq
    <3>1. AfterBacklog(disk.backlog[i], x, i = 1)
      BY <1>1, <2>3, Facts DEF Fits, Behind
    <3>2. x[1] \in Nat /\ disk.backlog[i].seq \in Nat /\ i \in Nat
      BY <1>1, <2>3, Facts, StateType DEF Pairs
    <3> QED
      BY <2>4, <3>1, <3>2 DEF AfterBacklog
  <2> QED
    BY <2>1, <2>2, <2>4 DEF NothingSentEarly
<1> QED
  BY <1>1, Inductive, PTL

-----------------------------------------------------------------------------
(* The refinement *)

TakenIn(b) == [i \in DOMAIN b |-> b[i].reply]

\* The replies of a book that grew.
LEMMA TakenAppends ==
  ASSUME NEW b \in Seq(Receipt), NEW e \in Receipt
  PROVE  TakenIn(Append(b, e)) = Append(TakenIn(b), e.reply)
<1> DEFINE n == Len(b)
           c == Append(b, e)
           u == TakenIn(b)
<1>1. n \in Nat /\ DOMAIN b = 1..n /\ e.reply \in Reply
  BY LenProperties DEF Receipt
<1>2. /\ c \in Seq(Receipt) /\ Len(c) = n + 1 /\ c[n + 1] = e
      /\ \A i \in 1..n : c[i] = b[i]
  BY AppendProperties
<1>3. DOMAIN c = 1..(n + 1)
  BY <1>2, LenProperties
<1>4. \A i \in 1..n : b[i].reply \in Reply
  <2> TAKE i \in 1..n
  <2>1. b[i] \in Receipt
    BY ElementOfSeq
  <2> QED
    BY <2>1 DEF Receipt
<1>5. u \in Seq(Reply) /\ Len(u) = n /\ \A i \in 1..n : u[i] = b[i].reply
  BY <1>1, <1>4 DEF TakenIn
<1>6. /\ Append(u, e.reply) \in Seq(Reply) /\ Len(Append(u, e.reply)) = n + 1
      /\ Append(u, e.reply)[n + 1] = e.reply
      /\ \A i \in 1..n : Append(u, e.reply)[i] = u[i]
  BY <1>1, <1>5, AppendProperties
<1>7. \A i \in 1..(n + 1) : i \in 1..n \/ i = n + 1
  BY <1>1
<1> HIDE DEF c
<1>8. \A i \in 1..(n + 1) : c[i].reply \in Reply
  BY <1>1, <1>2, <1>4, <1>7
<1>9. /\ TakenIn(c) \in Seq(Reply) /\ Len(TakenIn(c)) = n + 1
      /\ \A i \in 1..(n + 1) : TakenIn(c)[i] = c[i].reply
  BY <1>1, <1>3, <1>8 DEF TakenIn
<1>10. \A i \in 1..(n + 1) : TakenIn(c)[i] = Append(u, e.reply)[i]
  BY <1>2, <1>5, <1>6, <1>7, <1>9
<1> HIDE DEF u
<1>11. TakenIn(c) = Append(u, e.reply)
  BY <1>6, <1>9, <1>10, SeqEqual
<1> QED
  BY <1>11 DEF c, u

\* A report that is handled takes its reply in behind all others, or changes nothing.
LEMMA TakesIn ==
  ASSUME ClientIInv, NEW q \in [seq : Nat, reply : Reply], NEW Q, Agree(Q), Spoken(Q, said),
         Past \cup {<<q.seq, q.reply>>} \subseteq Q, Handled(q), UNCHANGED said
  PROVE  [Ordered!Next]_(Ordered!publication)
<1>1. book \in Seq(Receipt) /\ Sorted(book) /\ said \in Nat
  BY Facts DEF ClientIInv, ClientTypes
<1>2. CASE ~Accepts(q)
  BY <1>2 DEF Handled, Ordered!publication
<1>3. CASE Accepts(q)
  <2>1. PICK o \in {"none", "peer_changed"} :
          book' = Append(book, [seq |-> q.seq, reply |-> q.reply, outcome |-> o])
    BY <1>3 DEF Handled
  <2> DEFINE e == [seq |-> q.seq, reply |-> q.reply, outcome |-> o]
  <2>2. e \in Receipt /\ e.reply = q.reply /\ q.reply \in Nat /\ q.reply > 0
    BY DEF Receipt, Reply
  <2> HIDE DEF e
  <2>3. TakenIn(book') = Append(TakenIn(book), q.reply)
    BY <1>1, <2>1, <2>2, TakenAppends DEF e
  <2>4. q.reply \in 1..said
    <3>1. <<q.seq, q.reply>> \in Q /\ <<q.seq, q.reply>>[2] = q.reply
      OBVIOUS
    <3>2. q.reply <= said
      BY <3>1 DEF Spoken
    <3> QED
      BY <1>1, <2>2, <3>2
  <2>5. \A i \in DOMAIN TakenIn(book) : TakenIn(book)[i] < q.reply
    <3>1. DOMAIN TakenIn(book) = DOMAIN book /\ DOMAIN book = 1..Len(book)
      BY <1>1, LenProperties DEF TakenIn
    <3> TAKE i \in DOMAIN TakenIn(book)
    <3>2. TakenIn(book)[i] = book[i].reply
      BY <3>1 DEF TakenIn
    <3> DEFINE x == <<book[i].seq, book[i].reply>>
               y == <<q.seq, q.reply>>
    <3>3. x \in Q /\ y \in Q
      BY <1>1, <3>1, BookIsSent DEF Past
    <3>4. x[1] < y[1]
      BY <1>1, <1>3, <3>1, AcceptsNewest
    <3>5. x[2] < y[2]
      BY <3>3, <3>4 DEF Agree
    <3> QED
      BY <3>2, <3>5
  <2>6. Ordered!TakeIn(q.reply)
    BY <2>3, <2>5 DEF Ordered!TakeIn, TakenIn
  <2> QED
    BY <2>4, <2>6 DEF Ordered!Next
<1> QED
  BY <1>2, <1>3

\* Every step speaks, takes one reply in, or stutters.
LEMMA StepIsOrdered ==
  ASSUME ClientIInv, [ClientNext]_clientVars
  PROVE  [Ordered!Next]_(Ordered!publication)
<1>1. CASE UNCHANGED <<said, book>>
  BY <1>1 DEF Ordered!publication
<1>2. ASSUME NEW offline \in BOOLEAN, StopHook(offline)
      PROVE  [Ordered!Next]_(Ordered!publication)
  BY <1>2 DEF StopHook, Ordered!Next, Ordered!Speak
<1>3. CASE Late
  <2>1. PICK q \in flight : Handled(q) /\ UNCHANGED said
    BY <1>3 DEF Late
  <2>2. q \in [seq : Nat, reply : Reply] /\ <<q.seq, q.reply>> \in Past
    BY DEF ClientIInv, ClientTypes, Past, Sent
  <2> QED
    BY <2>1, <2>2, TakesIn DEF ClientIInv
<1>4. CASE Report
  <2>1. UNCHANGED said /\ (UNCHANGED book \/ Handled(HeadRequest))
    BY <1>4, ReportFacts
  <2>2. Handled(HeadRequest) => [Ordered!Next]_(Ordered!publication)
    BY <1>4, <2>1, ReportFacts, TakesIn
  <2> QED
    BY <1>1, <2>1, <2>2
<1> QED
  BY <1>1, <1>2, <1>3, <1>4
  DEF ClientNext, clientVars, Command, DiscardPending, Settled, Query, ReserveInPublish,
      ReserveFallback, Crash, PeerMoves

\* The journal implements OrderedPublication: the Room takes replies in in the
\* order they were spoken, each at most once, over every loss, delay and crash.
THEOREM PublishedInOrder == ClientSpec => PublishesInOrder
<1>1. ClientInit => Ordered!Init
  <2>1. \A b : b = <<>> => [i \in DOMAIN b |-> b[i].reply] = <<>>
    OBVIOUS
  <2> QED
    BY <2>1 DEF ClientInit, Ordered!Init
<1>2. ClientIInv /\ [ClientNext]_clientVars => [Ordered!Next]_(Ordered!publication)
  BY StepIsOrdered
<1> QED
  BY <1>1, <1>2, Inductive, PTL DEF ClientSpec, PublishesInOrder, Ordered!Spec
=============================================================================
