--------------------------- MODULE NativeWakeProofs ---------------------------
(***************************************************************************)
(* Safety of waking for every set of slots and every bound.  What a worker *)
(* has reached fixes what may be true of its message: not reserved before  *)
(* ReserveWake, counted by the waker, never nudged for, and a Codex queue  *)
(* that was probed is still empty (WorksOn).  The budget holds of what the *)
(* waker counts while the Room runs, and of what the log holds always.     *)
(***************************************************************************)
EXTENDS NativeWake, FiniteSetTheorems, TLAPS

States == {"absent", "queued", "delivering", "unknown", "lapsed", "settled"}
Message == [to : Slots, st : States]
Nudge == [m : Ids \cup {Nobody}, failed : BOOLEAN, handedOff : BOOLEAN]
Worker == [pc : InWorker \cup {"idle"}, m : Ids \cup {Nobody}, failed : BOOLEAN]
Whys == {"none", "rate", "nudge_pending", "queue_pending", "capability_unavailable"}
Deferral == [m : Ids \cup {Nobody}, due : Nat, why : Whys]

InboxTypes ==
  /\ msgs \in [Ids -> Message]
  /\ active \subseteq Slots /\ waiting \subseteq Slots /\ policy \in [Slots -> Policies \cup {"none"}]
  /\ claimedSince \subseteq Ids
EngineTypes ==
  /\ enabled \in BOOLEAN /\ fatal \in BOOLEAN /\ reserved \subseteq Ids /\ turnOver \subseteq Slots
  /\ age \in [Ids -> 0..Old] /\ nudge \in [Slots -> Nudge] /\ progress \in [Slots -> Progress]
  /\ phase \in {"running", "closing", "idling", "stopped"}
WakerTypes ==
  /\ scheduled \subseteq Ids /\ attempts \subseteq Ids
  /\ worker \in [Slots -> Worker] /\ deferred \in [Slots -> Deferral]
VendorTypes ==
  /\ capable \subseteq Slots /\ prompts \in [Slots -> Nat] /\ woken \in [Ids -> Nat]
  /\ changes \in 0..MaxChanges
Types == InboxTypes /\ EngineTypes /\ WakerTypes /\ VendorTypes

\* Before its reservation, and between the probe and the command.
Before == {"grace", "probe", "ready", "leased", "budgeted"}
Probed == {"ready", "leased", "budgeted", "authorized"}

Sent(i) == msgs[i].st # "absent"

\* A worker w of slot s.
WorksOn(s, w) ==
  IF w.pc = "idle" THEN w = Resting
  ELSE /\ w.m \in Ids /\ Sent(w.m) /\ msgs[w.m].to = s
       /\ w.pc \in Before => w.m \notin reserved
       /\ w.pc = "budgeted" => w.m \in attempts
       /\ w.pc = "authorized" => w.m \in reserved /\ woken[w.m] = 0
       /\ w.pc \in Probed /\ policy[s] = "turnend" => prompts[s] = 0

Workers == \A s \in Slots : WorksOn(s, worker[s])
Known == \A i \in reserved \cup attempts \cup scheduled : Sent(i)
Rest == \A s \in Slots : /\ phase = "stopped" => Pc(s) = "idle"
                         /\ phase = "idling" => Pc(s) \notin InAttempt

\* Reservations of ages a to messages M: those of the hour, and their budget.
Within(S, a) == {i \in S : a[i] < Hour}
Apart(S, a, M) ==
  \A i, j \in S : (i # j /\ M[i].to = M[j].to) => a[i] - a[j] >= MinInterval \/ a[j] - a[i] >= MinInterval
Fits(S, a, M) == Cardinality(S) <= HourlyLimit /\ Apart(S, a, M)

Budgets ==
  /\ Fits(Within(reserved, age), age, msgs)
  /\ Available => Within(reserved, age) \subseteq attempts /\ Fits(Within(attempts, age), age, msgs)

IInv == Types /\ Workers /\ Known /\ Rest /\ Budgets /\ NoRepeatedNudge
-----------------------------------------------------------------------------
(* The operators *)

\* A set of numbers with a bound has a greatest one.
LEMMA Greatest ==
  ASSUME NEW N \in Nat, NEW S \in SUBSET (0..N), S # {}
  PROVE  \E x \in S : \A y \in S : y <= x
<1> DEFINE above(n) == {x \in S : x >= n}
           T == {above(n) : n \in S}
<1>1. S \in SUBSET Nat /\ IsFiniteSet(S)
  <2> DEFINE R == 0..N
  <2>1. IsFiniteSet(R) /\ S \in SUBSET R /\ R \in SUBSET Nat
    BY FS_Interval
  <2> HIDE DEF R
  <2> QED
    BY <2>1, FS_Subset
<1>2. ASSUME NEW n \in S
      PROVE  above(n) \in FiniteSubsetsOf(Nat)
  <2>1. above(n) \in SUBSET S
    OBVIOUS
  <2> HIDE DEF above
  <2>2. IsFiniteSet(above(n)) /\ above(n) \in SUBSET Nat
    BY <1>1, <2>1, FS_Subset
  <2> QED
    BY <2>2 DEF FiniteSubsetsOf
<1> HIDE DEF above
<1>3. T \subseteq FiniteSubsetsOf(Nat) /\ T # {}
  BY <1>2
<1> HIDE DEF T
<1>4. PICK B \in T : \A C \in T : <<C, B>> \notin StrictSubsetOrdering(Nat)
  <2>1. IsWellFoundedOn(StrictSubsetOrdering(Nat), FiniteSubsetsOf(Nat))
    BY FS_StrictSubsetOrderingWellFounded
  <2> QED
    BY <1>3, <2>1, WFMin
<1>5. PICK n \in S : B = above(n)
  BY DEF T
<1>6. ASSUME NEW y \in S, y > n
      PROVE  FALSE
  <2>1. n \in Nat /\ y \in Nat
    BY <1>1
  <2>2. \A x \in Nat : x >= y => x >= n
    BY <1>6, <2>1
  <2>3. n >= n /\ ~(n >= y)
    BY <1>6, <2>1
  <2>4. above(y) \subseteq above(n) /\ n \in above(n) /\ n \notin above(y)
    BY <1>1, <2>1, <2>2, <2>3 DEF above
  <2>5. above(y) \in SUBSET Nat /\ above(n) \in SUBSET Nat
    BY <1>1 DEF above
  <2>6. <<above(y), above(n)>> \in StrictSubsetOrdering(Nat)
    BY <2>4, <2>5 DEF StrictSubsetOrdering
  <2> QED
    BY <1>4, <1>5, <2>6 DEF T
<1>7. \A y \in S : y <= n
  BY <1>1, <1>6
<1> QED
  BY <1>7


LEMMA Smallest ==
  ASSUME NEW S \in SUBSET Nat, S # {}
  PROVE  \E x \in S : \A y \in S : x <= y
<1>1. PICK n \in S : TRUE
  OBVIOUS
<1> DEFINE D == {k \in 0..n : \A y \in S : k <= y}
<1>2. n \in Nat /\ D \in SUBSET (0..n) /\ 0 \in D
  OBVIOUS
<1>3. PICK x \in D : \A y \in D : y <= x
  <2> HIDE DEF D
  <2> QED
    BY <1>2, Greatest
<1>4. x \in Nat /\ \A y \in S : y \in Nat /\ x <= y
  OBVIOUS
<1>5. ASSUME x \notin S
      PROVE  FALSE
  <2>1. \A y \in S : x + 1 <= y
    BY <1>4, <1>5
  <2>2. x + 1 \in D
    BY <1>2, <1>4, <2>1
  <2> QED
    BY <1>3, <1>4, <2>2
<1> QED
  BY <1>4, <1>5

LEMMA Constants ==
  /\ Old \in Nat /\ Hour \in Nat \ {0} /\ Hour <= Old /\ HourlyLimit \in Nat \ {0} /\ MinInterval \in Nat
  /\ RenewAfter \in Nat /\ Recheck \in Nat /\ MaxChanges \in Nat /\ MaxMessages \in Nat
  /\ Ids \in SUBSET Nat /\ Nobody \notin Ids /\ IsFiniteSet(Ids)
<1>1. IsFiniteSet(1..MaxMessages)
  BY WakeConstants, FS_Interval
<1> QED
  BY <1>1, WakeConstants DEF Old, Ids, Nobody

LEMMA FirstIs ==
  ASSUME NEW S \in SUBSET Ids
  PROVE  IF S = {} THEN First(S) = Nobody ELSE First(S) \in S
<1>1. S \in SUBSET Nat
  BY Constants
<1> QED
  BY <1>1, Smallest DEF First

LEMMA LastIs ==
  ASSUME NEW S \in SUBSET Ids
  PROVE  IF S = {} THEN Last(S) = Nobody ELSE Last(S) \in S /\ \A j \in S : j <= Last(S)
<1>1. S # {} => \E x \in S : \A y \in S : y <= x
  <2>1. S \in SUBSET (0..MaxMessages) /\ MaxMessages \in Nat
    BY Constants DEF Ids
  <2> QED
    BY <2>1, Greatest
<1> QED
  BY <1>1 DEF Last

\* wakeOwnerLocked names a message that was never attempted.
LEMMA OwnerIs ==
  ASSUME NEW s
  PROVE  Owner(s) # Nobody => Owner(s) \in Queue(s) /\ Owner(s) \notin reserved
<1> DEFINE Q == Queue(s)
           T == {i \in Q : i > Attempted(s)}
<1>1. Q \in SUBSET Ids
  BY DEF Queue
<1>2. Q \cap reserved # {} => \A j \in Q \cap reserved : j <= Attempted(s)
  <2>1. Q \cap reserved \in SUBSET Ids
    BY <1>1
  <2> QED
    BY <2>1, LastIs DEF Attempted
<1>3. Attempted(s) \in Nat
  <2> DEFINE R == Q \cap reserved
  <2>1. R \in SUBSET Ids /\ Attempted(s) = Last(R)
    BY <1>1 DEF Attempted
  <2> HIDE DEF R
  <2>2. Last(R) = Nobody \/ Last(R) \in Ids
    BY <2>1, LastIs
  <2>3. Nobody \in Nat /\ Ids \in SUBSET Nat
    BY Constants DEF Nobody
  <2> QED
    BY <2>1, <2>2, <2>3
<1>4. T \in SUBSET Ids
  BY <1>1
<1>5. Owner(s) = First(T)
  BY DEF Owner
<1>6. Owner(s) # Nobody => Owner(s) \in T
  <2> HIDE DEF T
  <2> QED
    BY <1>4, <1>5, FirstIs
<1>7. ASSUME Owner(s) \in T, Owner(s) \in reserved
      PROVE  FALSE
  <2>1. Owner(s) \in Nat /\ Owner(s) \in Q \cap reserved /\ Owner(s) > Attempted(s)
    BY <1>1, <1>7, Constants
  <2>2. Owner(s) <= Attempted(s)
    BY <1>2, <2>1
  <2> QED
    BY <1>3, <2>1, <2>2
<1> QED
  BY <1>6, <1>7

LEMMA HeadIs ==
  ASSUME NEW s
  PROVE  Head(s) # Nobody => Head(s) \in Queue(s)
<1>1. Queue(s) \cap reserved \in SUBSET Ids
  BY DEF Queue
<1>2. Attempted(s) # Nobody => Attempted(s) \in Queue(s)
  BY <1>1, LastIs DEF Attempted
<1> QED
  BY <1>2, OwnerIs DEF Head

-----------------------------------------------------------------------------
(* The budget *)

\* Time passes, and reservations leave the hour.
LEMMA FitsLess ==
  ASSUME NEW S \in SUBSET Ids, NEW T \in SUBSET S, NEW a \in [Ids -> Nat], NEW b, NEW M, NEW N, NEW d \in Nat,
         Fits(S, a, M), \A i \in T : b[i] = a[i] + d /\ N[i].to = M[i].to
  PROVE  Fits(T, b, N)
<1>1. IsFiniteSet(S) /\ IsFiniteSet(T)
  BY Constants, FS_Subset
<1>2. Cardinality(T) <= Cardinality(S) /\ Cardinality(T) \in Nat /\ Cardinality(S) \in Nat
  BY <1>1, FS_Subset, FS_CardinalityType
<1>3. Cardinality(T) <= HourlyLimit
  BY <1>2, Constants DEF Fits
<1>4. ASSUME NEW i \in T, NEW j \in T, i # j, N[i].to = N[j].to
      PROVE  b[i] - b[j] >= MinInterval \/ b[j] - b[i] >= MinInterval
  <2>1. i \in S /\ j \in S /\ M[i].to = M[j].to
    BY <1>4
  <2>2. a[i] - a[j] >= MinInterval \/ a[j] - a[i] >= MinInterval
    BY <1>4, <2>1 DEF Fits, Apart
  <2>3. a[i] \in Nat /\ a[j] \in Nat /\ b[i] = a[i] + d /\ b[j] = a[j] + d
    OBVIOUS
  <2>4. b[i] - b[j] = a[i] - a[j] /\ b[j] - b[i] = a[j] - a[i]
    BY <2>3
  <2> QED
    BY <2>2, <2>4
<1> QED
  BY <1>3, <1>4 DEF Fits, Apart

LEMMA RecentIs ==
  ASSUME Types
  PROVE  Recent \in SUBSET Ids /\ \A i \in Recent : age[i] \in Nat /\ age[i] < Hour
<1>1. attempts \subseteq Ids /\ age \in [Ids -> Nat]
  BY Constants DEF Types, WakerTypes, EngineTypes
<1> QED
  BY <1>1 DEF Recent

LEMMA FitsPart ==
  ASSUME NEW S \in SUBSET Ids, NEW T \in SUBSET S, NEW a \in [Ids -> Nat], NEW b, NEW M, NEW N,
         Fits(S, a, M), \A i \in T : b[i] = a[i] /\ N[i].to = M[i].to
  PROVE  Fits(T, b, N)
<1>1. PICK d \in Nat : d = 0
  OBVIOUS
<1>2. \A i \in T : a[i] \in Nat
  OBVIOUS
<1>3. \A i \in T : b[i] = a[i] + d /\ N[i].to = M[i].to
  BY <1>1, <1>2
<1> QED
  BY <1>3, FitsLess

\* rateWindowLocked waits while the hour is full.
LEMMA HourIsFull ==
  ASSUME Types
  PROVE  HourLeft \in Nat /\ (HourLeft = 0 => Cardinality(Recent) < HourlyLimit)
<1> DEFINE S == {a \in 0..Hour : Cardinality({i \in Recent : age[i] <= a}) >= HourlyLimit}
<1>1. CASE Cardinality(Recent) < HourlyLimit
  BY <1>1 DEF HourLeft
<1>2. CASE ~(Cardinality(Recent) < HourlyLimit)
  <2>1. Recent \in SUBSET Ids /\ \A i \in Recent : age[i] \in Nat /\ age[i] < Hour
    BY RecentIs
  <2>2. Cardinality(Recent) \in Nat
    BY <2>1, Constants, FS_Subset, FS_CardinalityType
  <2>3. Hour - 1 \in 0..Hour /\ Hour - 1 < Hour /\ \A i \in Recent : age[i] <= Hour - 1
    BY <2>1, Constants
  <2>4. {i \in Recent : age[i] <= Hour - 1} = Recent
    BY <2>3
  <2>5. Hour - 1 \in S
    BY <1>2, <2>2, <2>3, <2>4, Constants
  <2>6. S \in SUBSET Nat /\ S \in SUBSET (0..Hour)
    BY Constants
  <2>7. HourLeft = Hour - Least(S)
    BY <1>2 DEF HourLeft
  <2> HIDE DEF S
  <2>8. Least(S) \in S /\ \A b \in S : Least(S) <= b
    BY <2>5, <2>6, Smallest DEF Least
  <2>9. Least(S) \in 0..Hour /\ Least(S) <= Hour - 1
    BY <2>5, <2>6, <2>8
  <2> QED
    BY <2>7, <2>9, Constants
<1> QED
  BY <1>1, <1>2

\* And while its newest nudge of the target is too young.
LEMMA IntervalIsKept ==
  ASSUME Types, NEW s
  PROVE  IntervalLeft(s) \in Nat /\ (IntervalLeft(s) = 0 => \A i \in Recent : msgs[i].to = s => age[i] >= MinInterval)
<1> DEFINE mine == {i \in Recent : msgs[i].to = s}
           A == {age[i] : i \in mine}
<1>1. \A i \in mine : age[i] \in Nat
  BY RecentIs
<1>2. CASE mine = {}
  BY <1>2 DEF IntervalLeft
<1>3. CASE mine # {}
  <2>1. A \in SUBSET Nat /\ A # {}
    BY <1>1, <1>3
  <2>2. PICK x \in A : \A y \in A : x <= y
    <3> HIDE DEF A
    <3> QED
      BY <2>1, Smallest
  <2>3. x \in A /\ \A i \in mine : x <= age[i]
    BY <2>2
  <2>4. YoungestAge(mine) \in A /\ \A i \in mine : YoungestAge(mine) <= age[i]
    BY <2>3 DEF YoungestAge
  <2> DEFINE y == YoungestAge(mine)
  <2>5. IntervalLeft(s) = IF y >= MinInterval THEN 0 ELSE MinInterval - y
    BY <1>3 DEF IntervalLeft
  <2> HIDE DEF y
  <2>6. y \in Nat /\ \A i \in mine : age[i] \in Nat /\ y <= age[i]
    BY <1>1, <2>1, <2>4 DEF y
  <2>7. IntervalLeft(s) \in Nat /\ (IntervalLeft(s) = 0 => y >= MinInterval)
    BY <2>5, <2>6, Constants
  <2>8. y >= MinInterval => \A i \in mine : age[i] >= MinInterval
    BY <2>6, Constants
  <2> QED
    BY <2>7, <2>8
<1> QED
  BY <1>2, <1>3

-----------------------------------------------------------------------------
(* Steps that touch no worker *)

\* Every message that was sent stays, and stays where it was sent.
Addressed == \A i \in Ids : Sent(i) => msgs'[i].st # "absent" /\ msgs'[i].to = msgs[i].to

LEMMA BudgetsStay ==
  ASSUME Types, Known, Budgets, Addressed, UNCHANGED <<reserved, age, attempts>>, Available' => Available
  PROVE  Budgets'
<1>1. age \in [Ids -> Nat] /\ reserved \subseteq Ids /\ attempts \subseteq Ids
  BY Constants DEF Types, WakerTypes, EngineTypes
<1>2. ASSUME NEW S \in SUBSET (reserved \cup attempts), Fits(Within(S, age), age, msgs)
      PROVE  Fits(Within(S, age), age, msgs')
  <2>1. \A i \in Within(S, age) : age[i] = age[i] /\ msgs'[i].to = msgs[i].to
    BY <1>1 DEF Within, Known, Addressed
  <2>2. Within(S, age) \in SUBSET Ids
    BY <1>1 DEF Within
  <2> QED
    BY <1>1, <1>2, <2>1, <2>2, FitsPart
<1>3. Fits(Within(reserved, age), age, msgs')
  BY <1>2 DEF Budgets
<1>4. Available' => Within(reserved, age) \subseteq attempts /\ Fits(Within(attempts, age), age, msgs')
  BY <1>2 DEF Budgets
<1> QED
  BY <1>3, <1>4 DEF Budgets

LEMMA WorkersStay ==
  ASSUME Types, Workers, Addressed, UNCHANGED <<reserved, attempts, worker, policy, prompts, woken>>
  PROVE  Workers'
<1>1. SUFFICES ASSUME NEW s \in Slots
               PROVE  WorksOn(s, worker[s])'
  BY DEF Workers
<1>2. WorksOn(s, worker[s])
  BY DEF Workers
<1> QED
  BY <1>2 DEF WorksOn, Addressed, Sent

LEMMA NothingElse ==
  ASSUME IInv, Types', Addressed, \A i \in scheduled' : msgs'[i].st # "absent",
         UNCHANGED <<reserved, age, attempts, worker, phase, fatal, policy, prompts, woken>>
  PROVE  IInv'
<1>1. Budgets' /\ Workers'
  BY BudgetsStay, WorkersStay DEF IInv, Available
<1>2. Known'
  BY DEF IInv, Known, Addressed, Sent, Types, EngineTypes, WakerTypes
<1>3. Rest' /\ NoRepeatedNudge'
  BY DEF IInv, Rest, Pc, NoRepeatedNudge
<1> QED
  BY <1>1, <1>2, <1>3 DEF IInv

\* One message moves on.
LEMMA Marked ==
  ASSUME Types, NEW i \in Ids, NEW st \in States \ {"absent"}, NEW M, M = [msgs EXCEPT ![i].st = st]
  PROVE  /\ M \in [Ids -> Message]
         /\ \A j \in Ids : M[j].to = msgs[j].to /\ (msgs[j].st # "absent" => M[j].st # "absent")
BY DEF Types, InboxTypes, Message

LEMMA InboxMoves ==
  ASSUME IInv, NEW i \in Ids, NEW st \in States \ {"absent"}, Inbox([msgs EXCEPT ![i].st = st])
  PROVE  /\ msgs' \in [Ids -> Message] /\ Addressed
         /\ scheduled' \subseteq Ids /\ \A j \in scheduled' : msgs'[j].st # "absent"
<1> DEFINE M == [msgs EXCEPT ![i].st = st]
<1>1. M \in [Ids -> Message] /\ \A j \in Ids : M[j].to = msgs[j].to /\ (msgs[j].st # "absent" => M[j].st # "absent")
  BY Marked DEF IInv
<1>2. msgs' = M /\ scheduled' = {j \in scheduled : M[j].st = "queued"}
  BY DEF Inbox
<1> HIDE DEF M
<1>3. scheduled \subseteq Ids
  BY DEF IInv, Types, WakerTypes
<1> QED
  BY <1>1, <1>2, <1>3 DEF Addressed, Sent

LEMMA ProgressTyped ==
  ASSUME Types, NEW s \in Slots, NEW p \in Progress, Activity(s) \/ TurnEnds(s, p)
  PROVE  turnOver' \subseteq Slots /\ progress' \in [Slots -> Progress]
<1>1. turnOver \subseteq Slots /\ progress \in [Slots -> Progress]
  BY DEF Types, EngineTypes
<1>2. \A q \in Progress : Seen(s, Called(q)) \in Progress /\ Seen(s, TurnEnded(q)) \in Progress
  BY DEF Seen, Called, TurnEnded, Progress
<1>3. progress[s] \in Progress
  BY <1>1
<1>4. CASE Activity(s)
  BY <1>1, <1>2, <1>3, <1>4 DEF Activity
<1>5. CASE TurnEnds(s, p)
  BY <1>1, <1>2, <1>5 DEF TurnEnds
<1> QED
  BY <1>4, <1>5

LEMMA CalledTyped ==
  ASSUME NEW p \in Progress
  PROVE  Called(p) \in Progress
BY DEF Called, Progress

LEMMA PublishKeeps ==
  ASSUME IInv, NEW s \in Slots, Publish(s)
  PROVE  IInv'
<1>1. PICK i \in Ids : NewId(i) /\ msgs' = [msgs EXCEPT ![i] = [to |-> s, st |-> "queued"]] /\ scheduled' = scheduled \cup {i}
  BY DEF Publish
<1>2. msgs \in [Ids -> Message] /\ scheduled \subseteq Ids /\ [to |-> s, st |-> "queued"] \in Message /\ ~Sent(i)
  BY <1>1 DEF IInv, Types, InboxTypes, WakerTypes, Message, States, NewId, Sent
<1>3. msgs' \in [Ids -> Message] /\ scheduled' \subseteq Ids /\ msgs'[i].st = "queued" /\ \A j \in Ids \ {i} : msgs'[j] = msgs[j]
  BY <1>1, <1>2
<1>4. Addressed /\ \A j \in scheduled' : msgs'[j].st # "absent"
  BY <1>1, <1>2, <1>3 DEF Addressed, Sent, IInv, Known
<1>5. /\ UNCHANGED <<active, policy, waiting, claimedSince, enabled, reserved, age, nudge, turnOver, progress, phase, fatal>>
      /\ UNCHANGED <<worker, attempts, deferred, capable, prompts, woken, changes>>
  BY DEF Publish, engine, vendor
<1>6. Types'
  BY <1>3, <1>5 DEF IInv, Types, InboxTypes, EngineTypes, WakerTypes, VendorTypes
<1> QED
  BY <1>4, <1>5, <1>6, NothingElse

LEMMA CallKeeps ==
  ASSUME IInv, NEW s \in Slots, NEW endsTurn \in BOOLEAN, Call(s, endsTurn)
  PROVE  IInv'
<1>1. progress[s] \in Progress /\ Called(progress[s]) \in Progress
  BY CalledTyped DEF IInv, Types, EngineTypes
<1>2. turnOver' \subseteq Slots /\ progress' \in [Slots -> Progress]
  BY <1>1, ProgressTyped DEF Call, IInv
<1>3. /\ UNCHANGED <<msgs, active, policy, waiting, claimedSince, enabled, reserved, age, nudge, phase, fatal>>
      /\ UNCHANGED <<scheduled, worker, attempts, deferred, capable, prompts, woken, changes>>
  BY DEF Call, inbox, waker, vendor
<1>4. Types'
  BY <1>2, <1>3 DEF IInv, Types, InboxTypes, EngineTypes, WakerTypes, VendorTypes
<1>5. Addressed /\ \A j \in scheduled' : msgs'[j].st # "absent"
  BY <1>3 DEF Addressed, Sent, IInv, Known
<1> QED
  BY <1>3, <1>4, <1>5, NothingElse

LEMMA ClaimKeeps ==
  ASSUME IInv, NEW s \in Slots, Claim(s)
  PROVE  IInv'
<1> DEFINE i == First(Queue(s))
<1>1. i \in Ids
  <2>1. Queue(s) \in SUBSET Ids /\ Queue(s) # {}
    BY DEF Claim, Queue
  <2> QED
    BY <2>1, FirstIs
<1>2. Inbox([msgs EXCEPT ![i].st = "delivering"]) /\ "delivering" \in States \ {"absent"}
  BY DEF Claim, States
<1>3. claimedSince' \subseteq claimedSince \cup {i}
  BY DEF Claim
<1>4. waiting' \subseteq waiting /\ Activity(s)
  BY DEF Claim
<1>5. /\ UNCHANGED <<active, policy, enabled, reserved, age, nudge, phase, fatal>>
      /\ UNCHANGED <<worker, attempts, deferred, capable, prompts, woken, changes>>
  BY DEF Claim, vendor
<1> HIDE DEF i
<1>6. /\ msgs' \in [Ids -> Message] /\ Addressed
      /\ scheduled' \subseteq Ids /\ \A j \in scheduled' : msgs'[j].st # "absent"
  BY <1>1, <1>2, InboxMoves
<1>7. turnOver' \subseteq Slots /\ progress' \in [Slots -> Progress]
  BY <1>4, ProgressTyped DEF IInv, Progress
<1>8. Types'
  BY <1>1, <1>3, <1>4, <1>5, <1>6, <1>7 DEF IInv, Types, InboxTypes, EngineTypes, WakerTypes, VendorTypes
<1> QED
  BY <1>5, <1>6, <1>8, NothingElse

LEMMA WaitKeeps ==
  ASSUME IInv, NEW s \in Slots, Wait(s) \/ \E park \in BOOLEAN : WaitEnds(s, park)
  PROVE  IInv'
<1>1. progress[s] \in Progress
  BY DEF IInv, Types, EngineTypes
<1>2. turnOver' \subseteq Slots /\ progress' \in [Slots -> Progress]
  <2>1. CASE Activity(s) \/ TurnEnds(s, progress[s])
    BY <1>1, <2>1, ProgressTyped DEF IInv
  <2>2. CASE UNCHANGED <<turnOver, progress>>
    BY <2>2 DEF IInv, Types, EngineTypes
  <2> QED
    BY <2>1, <2>2 DEF Wait, WaitEnds
<1>3. waiting' \subseteq waiting \cup {s}
  BY DEF Wait, WaitEnds
<1>4. /\ UNCHANGED <<msgs, active, policy, claimedSince, enabled, reserved, age, nudge, phase, fatal>>
      /\ UNCHANGED <<scheduled, worker, attempts, deferred, capable, prompts, woken, changes>>
  BY DEF Wait, WaitEnds, waker, vendor
<1>5. Types'
  BY <1>2, <1>3, <1>4 DEF IInv, Types, InboxTypes, EngineTypes, WakerTypes, VendorTypes
<1>6. Addressed /\ \A j \in scheduled' : msgs'[j].st # "absent"
  BY <1>4 DEF Addressed, Sent, IInv, Known
<1> QED
  BY <1>4, <1>5, <1>6, NothingElse

LEMMA AckKeeps ==
  ASSUME IInv, NEW i \in Ids, Ack(i)
  PROVE  IInv'
<1> DEFINE s == msgs[i].to
<1>1. s \in Slots
  BY DEF IInv, Types, InboxTypes, Message
<1>2. Inbox([msgs EXCEPT ![i].st = "settled"]) /\ "settled" \in States \ {"absent"} /\ Activity(s)
  BY DEF Ack, States
<1>3. nudge' \in [Slots -> Nudge]
  BY <1>1 DEF Ack, IInv, Types, EngineTypes, Nudge
<1>4. /\ claimedSince' \subseteq claimedSince
      /\ UNCHANGED <<active, policy, waiting, enabled, reserved, age, phase, fatal>>
      /\ UNCHANGED <<worker, attempts, deferred, capable, prompts, woken, changes>>
  BY DEF Ack, vendor
<1> HIDE DEF s
<1>5. /\ msgs' \in [Ids -> Message] /\ Addressed
      /\ scheduled' \subseteq Ids /\ \A j \in scheduled' : msgs'[j].st # "absent"
  BY <1>2, InboxMoves
<1>6. turnOver' \subseteq Slots /\ progress' \in [Slots -> Progress]
  BY <1>1, <1>2, ProgressTyped DEF IInv, Progress
<1>7. Types'
  BY <1>3, <1>4, <1>5, <1>6 DEF IInv, Types, InboxTypes, EngineTypes, WakerTypes, VendorTypes
<1> QED
  BY <1>4, <1>5, <1>7, NothingElse

LEMMA LeavesKeeps ==
  ASSUME IInv, NEW i \in Ids, Expires(i) \/ Cancel(i)
  PROVE  IInv'
<1>1. \E st \in States \ {"absent"} : Inbox([msgs EXCEPT ![i].st = st])
  BY DEF Expires, Cancel, States
<1>2. /\ msgs' \in [Ids -> Message] /\ Addressed
      /\ scheduled' \subseteq Ids /\ \A j \in scheduled' : msgs'[j].st # "absent"
  BY <1>1, InboxMoves
<1>3. /\ UNCHANGED <<active, policy, waiting, claimedSince, enabled, reserved, age, nudge, turnOver, progress, phase, fatal>>
      /\ UNCHANGED <<worker, attempts, deferred, capable, prompts, woken, changes>>
  BY DEF Expires, Cancel, engine, vendor
<1>4. Types'
  BY <1>2, <1>3 DEF IInv, Types, InboxTypes, EngineTypes, WakerTypes, VendorTypes
<1> QED
  BY <1>2, <1>3, <1>4, NothingElse

LEMMA SettingKeeps ==
  ASSUME IInv, (\E value \in BOOLEAN : SetWakeEnabled(value)) \/ (\E s \in Slots : CapabilityChanges(s))
  PROVE  IInv'
<1>1. enabled' \in BOOLEAN /\ capable' \subseteq Slots
  BY DEF SetWakeEnabled, CapabilityChanges, engine, IInv, Types, EngineTypes, VendorTypes
<1>2. changes' \in 0..MaxChanges
  <2>1. Changed /\ changes \in 0..MaxChanges /\ MaxChanges \in Nat
    BY Constants DEF SetWakeEnabled, CapabilityChanges, IInv, Types, VendorTypes
  <2> QED
    BY <2>1 DEF Changed
<1>3. /\ UNCHANGED <<msgs, active, policy, waiting, claimedSince, reserved, age, nudge, turnOver, progress, phase, fatal>>
      /\ UNCHANGED <<scheduled, worker, attempts, deferred, prompts, woken>>
  BY DEF SetWakeEnabled, CapabilityChanges, inbox, engine, waker
<1>4. Types'
  BY <1>1, <1>2, <1>3 DEF IInv, Types, InboxTypes, EngineTypes, WakerTypes, VendorTypes
<1>5. Addressed /\ \A j \in scheduled' : msgs'[j].st # "absent"
  BY <1>3 DEF Addressed, Sent, IInv, Known
<1> QED
  BY <1>3, <1>4, <1>5, NothingElse

LEMMA ReconcileKeeps ==
  ASSUME IInv, NEW s \in Slots, Reconcile(s)
  PROVE  IInv'
<1> DEFINE i == Head(s)
           next == Unsettled(s)
<1>1. deferred \in [Slots -> Deferral] /\ NotDeferred \in Deferral
  BY DEF IInv, Types, WakerTypes, NotDeferred, Deferral, Whys
<1>2. next \in Deferral
  BY <1>1 DEF Unsettled
<1>3. i # Nobody => i \in Ids /\ Sent(i) /\ [m |-> i, due |-> 0, why |-> "nudge_pending"] \in Deferral
  <2>1. i # Nobody => i \in Queue(s)
    BY HeadIs
  <2> HIDE DEF i
  <2>2. i # Nobody => i \in Ids /\ Sent(i)
    BY <2>1 DEF Queue, Sent
  <2> QED
    BY <2>2 DEF Deferral, Whys
<1>4. /\ \E d \in {NotDeferred, next, [m |-> i, due |-> 0, why |-> "nudge_pending"]} :
           /\ deferred' = [deferred EXCEPT ![s] = d]
           /\ d = [m |-> i, due |-> 0, why |-> "nudge_pending"] => i # Nobody
      /\ scheduled' = scheduled \/ (scheduled' = scheduled \cup {i} /\ i # Nobody)
  <2>1. CASE i = Nobody \/ ~Healthy
    <3>1. NotDeferred # [m |-> i, due |-> 0, why |-> "nudge_pending"]
      BY DEF NotDeferred
    <3> QED
      BY <2>1, <3>1 DEF Reconcile
  <2>2. CASE ~(i = Nobody \/ ~Healthy)
    <3>1. scheduled' = scheduled \/ scheduled' = scheduled \cup {i}
      BY <2>2 DEF Reconcile
    <3>2. \/ deferred' = [deferred EXCEPT ![s] = next]
          \/ deferred' = [deferred EXCEPT ![s] = [m |-> i, due |-> 0, why |-> "nudge_pending"]]
      BY <2>2 DEF Reconcile
    <3> QED
      BY <2>2, <3>1, <3>2
  <2> QED
    BY <2>1, <2>2
<1> HIDE DEF i, next
<1>5. deferred' \in [Slots -> Deferral]
  BY <1>1, <1>2, <1>3, <1>4
<1>6. /\ UNCHANGED <<msgs, active, policy, waiting, claimedSince, enabled, reserved, age, nudge, turnOver, progress, phase, fatal>>
      /\ UNCHANGED <<worker, attempts, capable, prompts, woken, changes>>
  BY DEF Reconcile, inbox, engine, vendor
<1>7. scheduled' \subseteq Ids /\ \A j \in scheduled' : msgs'[j].st # "absent"
  BY <1>3, <1>4, <1>6 DEF IInv, Known, Sent, Types, WakerTypes
<1>8. Types'
  BY <1>5, <1>6, <1>7 DEF IInv, Types, InboxTypes, EngineTypes, WakerTypes, VendorTypes
<1>9. Addressed
  BY <1>6 DEF Addressed, Sent
<1> QED
  BY <1>6, <1>7, <1>8, <1>9, NothingElse

\* Codex queues only get shorter, or their session is another.
LEMMA PromptsShrink ==
  ASSUME IInv, Types', Addressed, \A i \in scheduled' : msgs'[i].st # "absent",
         \A s \in Slots : prompts'[s] = 0 \/ (policy'[s] = policy[s] /\ prompts'[s] <= prompts[s]),
         UNCHANGED <<reserved, age, attempts, worker, phase, fatal, woken>>
  PROVE  IInv'
<1>1. Budgets'
  BY BudgetsStay DEF IInv, Available
<1>2. Known'
  BY DEF IInv, Known, Addressed, Sent, Types, EngineTypes, WakerTypes
<1>3. Rest'
  BY DEF IInv, Rest, Pc
<1>4. \A s \in Slots : prompts[s] \in Nat /\ prompts'[s] \in Nat
  BY DEF IInv, Types, VendorTypes
<1>5. NoRepeatedNudge'
  <2>1. \A i \in Ids : woken'[i] <= 1 /\ (woken'[i] = 1 => i \in reserved')
    BY DEF IInv, NoRepeatedNudge
  <2>2. ASSUME NEW s \in Slots, policy'[s] = "turnend" PROVE prompts'[s] <= 1
    <3>1. CASE prompts'[s] = 0
      BY <3>1
    <3>2. CASE policy'[s] = policy[s] /\ prompts'[s] <= prompts[s]
      <4>1. prompts[s] <= 1
        BY <2>2, <3>2 DEF IInv, NoRepeatedNudge
      <4> QED
        BY <1>4, <3>2, <4>1
    <3> QED
      BY <3>1, <3>2
  <2> QED
    BY <2>1, <2>2 DEF NoRepeatedNudge
<1>6. Workers'
  <2>1. SUFFICES ASSUME NEW s \in Slots
                 PROVE  WorksOn(s, worker[s])'
    BY DEF Workers
  <2>2. WorksOn(s, worker[s])
    BY DEF IInv, Workers
  <2>3. policy'[s] = "turnend" /\ worker[s].pc \in Probed => prompts'[s] = 0
    <3>1. CASE prompts'[s] = 0
      BY <3>1
    <3>2. CASE policy'[s] = policy[s] /\ prompts'[s] <= prompts[s]
      <4>1. policy[s] = "turnend" /\ worker[s].pc \in Probed => prompts[s] = 0
        BY <2>2 DEF WorksOn, Probed
      <4> QED
        BY <1>4, <3>2, <4>1
    <3> QED
      BY <3>1, <3>2
  <2> QED
    BY <2>2, <2>3 DEF WorksOn, Addressed, Sent
<1> QED
  BY <1>1, <1>2, <1>3, <1>5, <1>6 DEF IInv

LEMMA ShownKeeps ==
  ASSUME IInv, NEW s \in Slots, PromptShown(s)
  PROVE  IInv'
<1>1. prompts \in [Slots -> Nat] /\ prompts[s] > 0
  BY DEF IInv, Types, VendorTypes, PromptShown
<1>2. prompts' = [prompts EXCEPT ![s] = prompts[s] - 1]
  BY DEF PromptShown
<1>3. prompts[s] - 1 \in Nat /\ prompts[s] - 1 <= prompts[s]
  BY <1>1
<1>4. prompts' \in [Slots -> Nat] /\ \A t \in Slots : prompts'[t] <= prompts[t]
  BY <1>1, <1>2, <1>3
<1>5. /\ UNCHANGED <<msgs, active, policy, waiting, claimedSince, enabled, reserved, age, nudge, turnOver, progress, phase, fatal>>
      /\ UNCHANGED <<scheduled, worker, attempts, deferred, capable, woken, changes>>
  BY DEF PromptShown, inbox, engine, waker
<1>6. Types'
  BY <1>4, <1>5 DEF IInv, Types, InboxTypes, EngineTypes, WakerTypes, VendorTypes
<1>7. Addressed /\ \A j \in scheduled' : msgs'[j].st # "absent"
  BY <1>5 DEF Addressed, Sent, IInv, Known
<1> QED
  BY <1>4, <1>5, <1>6, <1>7, PromptsShrink

LEMMA BindingKeeps ==
  ASSUME IInv, NEW s \in Slots, NEW bound \in BOOLEAN, BindingChanges(s, bound)
  PROVE  IInv'
<1> DEFINE M == [i \in Ids |->
       IF msgs[i].to # s THEN msgs[i]
       ELSE CASE msgs[i].st = "queued" /\ s \in active -> [msgs[i] EXCEPT !.st = "settled"]
              [] msgs[i].st \in {"delivering", "unknown"} -> [msgs[i] EXCEPT !.st = "lapsed"]
              [] OTHER -> msgs[i]]
<1>1. Inbox(M)
  BY DEF BindingChanges
<1>2. msgs \in [Ids -> Message] /\ scheduled \subseteq Ids
  BY DEF IInv, Types, InboxTypes, WakerTypes
<1>3. ASSUME NEW i \in Ids
      PROVE  M[i] \in Message /\ (msgs[i].st # "absent" => M[i].st # "absent" /\ M[i].to = msgs[i].to)
  <2>1. msgs[i] \in Message
    BY <1>2
  <2>2. \A x \in Message : \A st \in {"settled", "lapsed"} :
          [x EXCEPT !.st = st] \in Message /\ [x EXCEPT !.st = st].st = st /\ [x EXCEPT !.st = st].to = x.to
    BY DEF Message, States
  <2>3. \/ M[i] = msgs[i] \/ M[i] = [msgs[i] EXCEPT !.st = "settled"] \/ M[i] = [msgs[i] EXCEPT !.st = "lapsed"]
    OBVIOUS
  <2> HIDE DEF M
  <2> QED
    BY <2>1, <2>2, <2>3
<1>4. M \in [Ids -> Message]
  BY <1>3
<1> HIDE DEF M
<1>5. msgs' = M /\ scheduled' = {i \in scheduled : M[i].st = "queued"}
  BY <1>1 DEF Inbox
<1>6. msgs' \in [Ids -> Message] /\ Addressed /\ scheduled' \subseteq Ids /\ \A j \in scheduled' : msgs'[j].st # "absent"
  BY <1>2, <1>3, <1>4, <1>5 DEF Addressed, Sent
<1>7. active' \subseteq Slots /\ waiting' \subseteq Slots /\ turnOver' \subseteq Slots /\ claimedSince' \subseteq Ids
  BY DEF BindingChanges, IInv, Types, InboxTypes, EngineTypes
<1>8. policy' \in [Slots -> Policies \cup {"none"}] /\ nudge' \in [Slots -> Nudge] /\ progress' \in [Slots -> Progress]
  BY DEF BindingChanges, IInv, Types, InboxTypes, EngineTypes, NoNudge, Nudge, Progress
<1>9. /\ prompts' \in [Slots -> Nat]
      /\ \A t \in Slots : prompts'[t] = 0 \/ (policy'[t] = policy[t] /\ prompts'[t] <= prompts[t])
  <2>1. prompts \in [Slots -> Nat] /\ policy \in [Slots -> Policies \cup {"none"}] /\ prompts' = [prompts EXCEPT ![s] = 0]
    BY DEF BindingChanges, IInv, Types, VendorTypes, InboxTypes
  <2>2. \A t \in Slots \ {s} : policy'[t] = policy[t]
    BY <2>1 DEF BindingChanges
  <2>3. \A t \in Slots \ {s} : prompts'[t] = prompts[t] /\ prompts[t] <= prompts[t]
    BY <2>1
  <2> QED
    BY <2>1, <2>2, <2>3
<1>10. changes' \in 0..MaxChanges
  <2>1. Changed /\ changes \in 0..MaxChanges /\ MaxChanges \in Nat
    BY Constants DEF BindingChanges, IInv, Types, VendorTypes
  <2> QED
    BY <2>1 DEF Changed
<1>11. UNCHANGED <<enabled, reserved, age, phase, fatal, worker, attempts, deferred, capable, woken>>
  BY DEF BindingChanges
<1>12. Types'
  BY <1>6, <1>7, <1>8, <1>9, <1>10, <1>11 DEF IInv, Types, InboxTypes, EngineTypes, WakerTypes, VendorTypes
<1> QED
  BY <1>6, <1>9, <1>11, <1>12, PromptsShrink

-----------------------------------------------------------------------------
(* The worker *)

\* One worker moves, and what the others rely on stays.
LEMMA OneMoves ==
  ASSUME IInv, Types', NEW s \in Slots, NEW w, worker' = [worker EXCEPT ![s] = w], WorksOn(s, w)',
         scheduled' \subseteq scheduled, Budgets', NoRepeatedNudge',
         phase = "stopped" => w.pc = "idle", phase = "idling" => w.pc \notin InAttempt,
         UNCHANGED <<msgs, phase, policy>>,
         \A t \in Slots \ {s} : prompts'[t] = prompts[t],
         \A i \in Ids : Sent(i) /\ msgs[i].to # s =>
           /\ (i \in reserved <=> i \in reserved') /\ (i \in attempts => i \in attempts') /\ woken'[i] = woken[i],
         \A i \in (reserved' \cup attempts') \ (reserved \cup attempts) : Sent(i)
  PROVE  IInv'
<1>1. Workers'
  <2>1. SUFFICES ASSUME NEW t \in Slots
                 PROVE  WorksOn(t, worker[t])'
    BY DEF Workers
  <2>2. worker \in [Slots -> Worker]
    BY DEF IInv, Types, WakerTypes
  <2>3. CASE t = s
    BY <2>2, <2>3
  <2>4. CASE t # s
    <3>1. WorksOn(t, worker[t]) /\ worker'[t] = worker[t]
      BY <2>2, <2>4 DEF IInv, Workers
    <3> QED
      BY <2>4, <3>1 DEF WorksOn, Sent
  <2> QED
    BY <2>3, <2>4
<1>2. Known'
  BY DEF IInv, Known, Sent
<1>3. Rest'
  BY DEF IInv, Rest, Pc, Types, WakerTypes
<1> QED
  BY <1>1, <1>2, <1>3 DEF IInv

\* Before its reservation, or at its end, it moves alone.
LEMMA MovesAlone ==
  ASSUME IInv, NEW s \in Slots, NEW w \in Worker, worker' = [worker EXCEPT ![s] = w], WorksOn(s, w),
         scheduled' \subseteq scheduled, deferred' \in [Slots -> Deferral],
         phase = "stopped" => w.pc = "idle", phase = "idling" => w.pc \notin InAttempt,
         UNCHANGED <<inbox, engine, attempts, vendor>>
  PROVE  IInv'
<1>1. /\ UNCHANGED <<msgs, active, policy, waiting, claimedSince, enabled, reserved, age, nudge, turnOver, progress, phase, fatal>>
      /\ UNCHANGED <<attempts, capable, prompts, woken, changes>>
  BY DEF inbox, engine, vendor
<1>2. Types'
  BY <1>1 DEF IInv, Types, InboxTypes, EngineTypes, WakerTypes, VendorTypes
<1>3. WorksOn(s, w)' /\ Budgets' /\ NoRepeatedNudge'
  BY <1>1 DEF WorksOn, Sent, IInv, Budgets, Available, NoRepeatedNudge
<1> QED
  BY <1>1, <1>2, <1>3, OneMoves

LEMMA DeferTyped ==
  ASSUME Types, NEW s \in Slots, NEW i \in Ids, NEW due \in Nat, NEW why \in Whys,
         Deferred(s, i, due, why) \/ (due = 0 /\ Suppress(s, i, why)) \/ UNCHANGED deferred
  PROVE  deferred' \in [Slots -> Deferral]
<1>1. deferred \in [Slots -> Deferral] /\ [m |-> i, due |-> due, why |-> why] \in Deferral
  BY DEF Types, WakerTypes, Deferral
<1>2. Deferred(s, i, due, why) \/ UNCHANGED deferred
  BY DEF Suppress
<1> QED
  BY <1>1, <1>2 DEF Deferred

LEMMA MoveTo ==
  ASSUME Types, NEW s \in Slots, NEW pc \in InWorker, Moves(s, pc)
  PROVE  \E w \in Worker : /\ worker' = [worker EXCEPT ![s] = w] /\ w.pc = pc /\ w.m = worker[s].m
                           /\ w.failed = worker[s].failed
<1>1. worker \in [Slots -> Worker] /\ worker[s] \in Worker
  BY DEF Types, WakerTypes
<1> DEFINE w == [worker[s] EXCEPT !.pc = pc]
<1>2. w \in Worker /\ w.pc = pc /\ w.m = worker[s].m /\ w.failed = worker[s].failed
  BY <1>1 DEF Worker
<1>3. worker' = [worker EXCEPT ![s] = w]
  BY DEF Moves
<1> QED
  BY <1>2, <1>3

LEMMA Rested ==
  ASSUME NEW s
  PROVE  Resting \in Worker /\ Resting.pc = "idle" /\ WorksOn(s, Resting)
BY DEF Resting, Worker, WorksOn

\* What there is to know of a worker that is not idle.
LEMMA AtWork ==
  ASSUME IInv, NEW s \in Slots, Pc(s) # "idle"
  PROVE  /\ WorksOn(s, worker[s]) /\ worker[s] \in Worker /\ worker[s].m \in Ids /\ phase # "stopped"
         /\ Sent(worker[s].m) /\ msgs[worker[s].m].to = s /\ Types
BY DEF IInv, Workers, WorksOn, Pc, Rest, Types, WakerTypes

LEMMA RestsAlone ==
  ASSUME IInv, NEW s \in Slots, Rests(s), scheduled' \subseteq scheduled, deferred' \in [Slots -> Deferral],
         UNCHANGED <<inbox, engine, attempts, vendor>>
  PROVE  IInv'
<1>1. Resting \in Worker /\ Resting.pc = "idle" /\ Resting.pc \notin InAttempt /\ WorksOn(s, Resting)
  BY Rested DEF InAttempt
<1>2. worker' = [worker EXCEPT ![s] = Resting]
  BY DEF Rests
<1> QED
  BY <1>1, <1>2, MovesAlone

LEMMA BeginKeeps ==
  ASSUME IInv, NEW i \in Ids, Begin(i)
  PROVE  IInv'
<1> DEFINE s == msgs[i].to
           w == [pc |-> "grace", m |-> i, failed |-> FALSE]
<1>1. s \in Slots /\ Types /\ worker \in [Slots -> Worker] /\ worker[s] \in Worker /\ Sent(i) /\ deferred \in [Slots -> Deferral]
  BY DEF Begin, IInv, Known, Types, InboxTypes, WakerTypes, Message
<1>2. scheduled' \subseteq scheduled /\ UNCHANGED <<inbox, engine, attempts, vendor>>
  BY DEF Begin
<1>3. CASE UNCHANGED worker
  <2>1. deferred' \in [Slots -> Deferral]
    <3>1. Suppression(s) \in {"disabled", "waiter_active", "unbound", "unsupported", "nudge_pending", "none"}
      BY DEF Suppression
    <3>2. UNCHANGED deferred \/ Suppress(s, i, Suppression(s))
      BY DEF Begin
    <3>3. UNCHANGED deferred \/ (Suppression(s) = "nudge_pending" /\ Suppress(s, i, "nudge_pending"))
      BY <3>1, <3>2 DEF Suppress
    <3>4. "nudge_pending" \in Whys
      BY DEF Whys
    <3> HIDE DEF s
    <3> QED
      BY <1>1, <3>3, <3>4, DeferTyped
  <2>2. worker' = [worker EXCEPT ![s] = worker[s]] /\ WorksOn(s, worker[s])
    BY <1>1, <1>3 DEF IInv, Workers
  <2>3. phase = "stopped" => worker[s].pc = "idle"
    BY <1>1 DEF IInv, Rest, Pc
  <2>4. phase = "idling" => worker[s].pc \notin InAttempt
    BY <1>1 DEF IInv, Rest, Pc
  <2> HIDE DEF s
  <2> QED
    BY <1>1, <1>2, <2>1, <2>2, <2>3, <2>4, MovesAlone
<1>4. CASE worker' = [worker EXCEPT ![s] = w] /\ Candidate(i) /\ QueueStart(i) /\ UNCHANGED deferred
  <2>1. i \notin reserved
    BY <1>4, OwnerIs, Constants DEF QueueStart
  <2>2. w \in Worker
    BY DEF Worker, InWorker
  <2>3. WorksOn(s, w)
    BY <1>1, <2>1 DEF WorksOn, Before, Probed
  <2>4. phase = "running"
    BY <1>4 DEF Candidate, Healthy
  <2> HIDE DEF s, w
  <2> QED
    BY <1>1, <1>2, <1>4, <2>2, <2>3, <2>4, MovesAlone
<1> QED
  BY <1>3, <1>4 DEF Begin

LEMMA CancelledKeeps ==
  ASSUME IInv, NEW s \in Slots, Cancelled(s)
  PROVE  IInv'
<1>1. deferred' \in [Slots -> Deferral]
  BY DEF Cancelled, IInv, Types, WakerTypes
<1> QED
  BY <1>1, RestsAlone DEF Cancelled

LEMMA LookAgainKeeps ==
  ASSUME IInv, NEW s \in Slots, LookAgain(s)
  PROVE  IInv'
<1> DEFINE i == worker[s].m
<1>1. /\ WorksOn(s, worker[s]) /\ worker[s] \in Worker /\ i \in Ids /\ phase # "stopped"
      /\ Sent(i) /\ msgs[i].to = s /\ Types /\ worker[s].pc = "grace"
  BY AtWork DEF LookAgain, Pc
<1>2. scheduled' \subseteq scheduled /\ UNCHANGED <<inbox, engine, attempts, vendor>>
  BY DEF LookAgain
<1>3. CASE Moves(s, "probe") /\ UNCHANGED deferred
  <2>1. PICK w \in Worker : worker' = [worker EXCEPT ![s] = w] /\ w.pc = "probe" /\ w.m = i
    BY <1>1, <1>3, MoveTo DEF InWorker
  <2>2. WorksOn(s, w)
    BY <1>1, <2>1 DEF WorksOn, Before, Probed
  <2>3. w.pc \notin InAttempt
    BY <2>1 DEF InAttempt
  <2>4. deferred' \in [Slots -> Deferral]
    BY <1>3 DEF IInv, Types, WakerTypes
  <2> QED
    BY <1>1, <1>2, <2>1, <2>2, <2>3, <2>4, MovesAlone
<1>4. CASE Rests(s)
  <2>1. deferred' \in [Slots -> Deferral]
    <3>1. UNCHANGED deferred \/ Suppress(s, i, Suppression(s))
      BY <1>4 DEF LookAgain, Moves, Rests
    <3>2. UNCHANGED deferred \/ Suppress(s, i, "nudge_pending")
      BY <3>1 DEF Suppress
    <3>3. "nudge_pending" \in Whys
      BY DEF Whys
    <3> HIDE DEF i
    <3> QED
      BY <1>1, <3>2, <3>3, DeferTyped
  <2> QED
    BY <1>2, <1>4, <2>1, RestsAlone
<1> QED
  BY <1>3, <1>4 DEF LookAgain

LEMMA ProbeKeeps ==
  ASSUME IInv, NEW s \in Slots, Probe(s)
  PROVE  IInv'
<1> DEFINE i == worker[s].m
           why == IF s \notin capable THEN "capability_unavailable"
                  ELSE IF QueueHolds(s) THEN "queue_pending" ELSE "none"
<1>1. /\ WorksOn(s, worker[s]) /\ worker[s] \in Worker /\ i \in Ids /\ phase # "stopped"
      /\ Sent(i) /\ msgs[i].to = s /\ Types /\ worker[s].pc = "probe"
  BY AtWork DEF Probe, Pc
<1>2. scheduled' \subseteq scheduled /\ UNCHANGED <<inbox, engine, attempts, vendor>>
  BY DEF Probe
<1>3. CASE why = "none"
  <2>1. PICK w \in Worker : worker' = [worker EXCEPT ![s] = w] /\ w.pc = "ready" /\ w.m = i
    <3>1. Moves(s, "ready")
      BY <1>3 DEF Probe
    <3> QED
      BY <1>1, <3>1, MoveTo DEF InWorker
  <2>2. policy[s] = "turnend" => prompts[s] = 0
    <3>1. prompts[s] \in Nat
      BY <1>1 DEF Types, VendorTypes
    <3> QED
      BY <1>3, <3>1 DEF QueueHolds
  <2>3. WorksOn(s, w)
    BY <1>1, <2>1, <2>2 DEF WorksOn, Before, Probed
  <2>4. w.pc \notin InAttempt
    BY <2>1 DEF InAttempt
  <2>5. deferred' \in [Slots -> Deferral]
    BY <1>3 DEF Probe, IInv, Types, WakerTypes
  <2> QED
    BY <1>1, <1>2, <2>1, <2>3, <2>4, <2>5, MovesAlone
<1>4. CASE why # "none"
  <2>1. Rests(s) /\ Deferred(s, i, Recheck, why)
    BY <1>4 DEF Probe
  <2>2. why \in Whys /\ Recheck \in Nat
    BY Constants DEF Whys
  <2> HIDE DEF i, why
  <2>3. deferred' \in [Slots -> Deferral]
    BY <1>1, <2>1, <2>2, DeferTyped
  <2> QED
    BY <1>2, <2>1, <2>3, RestsAlone
<1> QED
  BY <1>3, <1>4

LEMMA AttemptKeeps ==
  ASSUME IInv, NEW s \in Slots, BeginAttempt(s)
  PROVE  IInv'
<1>1. /\ WorksOn(s, worker[s]) /\ worker[s] \in Worker /\ worker[s].m \in Ids /\ phase # "stopped"
      /\ Sent(worker[s].m) /\ msgs[worker[s].m].to = s /\ Types /\ worker[s].pc = "ready"
  BY AtWork DEF BeginAttempt, Pc
<1>2. scheduled' \subseteq scheduled /\ UNCHANGED <<inbox, engine, attempts, vendor>> /\ phase # "idling"
  BY DEF BeginAttempt, Closing
<1>3. PICK w \in Worker : worker' = [worker EXCEPT ![s] = w] /\ w.pc = "leased" /\ w.m = worker[s].m
  BY <1>1, MoveTo DEF InWorker, BeginAttempt
<1>4. WorksOn(s, w)
  BY <1>1, <1>3 DEF WorksOn, Before, Probed
<1>5. deferred' \in [Slots -> Deferral]
  BY DEF BeginAttempt, IInv, Types, WakerTypes
<1> QED
  BY <1>1, <1>2, <1>3, <1>4, <1>5, MovesAlone

\* The age of a message that has no reservation.
LEMMA UnreservedAge ==
  ASSUME Types, NEW i \in Ids \ reserved, NEW a, \A j \in Ids \ {i} : a[j] = age[j],
         Fits(Within(reserved, age), age, msgs)
  PROVE  Within(reserved, a) = Within(reserved, age) /\ Fits(Within(reserved, a), a, msgs)
<1>1. age \in [Ids -> Nat] /\ reserved \subseteq Ids
  BY Constants DEF Types, EngineTypes
<1>3. \A j \in reserved : a[j] = age[j]
  BY <1>1
<1>4. Within(reserved, a) = Within(reserved, age)
  BY <1>3 DEF Within
<1>5. \A j \in Within(reserved, age) : a[j] = age[j] /\ msgs[j].to = msgs[j].to
  BY <1>1, <1>3 DEF Within
<1>6. Within(reserved, age) \in SUBSET Ids
  BY <1>1 DEF Within
<1>7. Fits(Within(reserved, age), a, msgs)
  BY <1>1, <1>5, <1>6, FitsPart
<1> QED
  BY <1>4, <1>7

\* A reservation that reserveRate admits.
LEMMA OneMoreFits ==
  ASSUME Types, NEW s, NEW i \in Ids, msgs[i].to = s, HourLeft = 0, IntervalLeft(s) = 0,
         NEW a, a = [age EXCEPT ![i] = 0], Fits(Recent, age, msgs)
  PROVE  Fits(Within(attempts \cup {i}, a), a, msgs)
<1> DEFINE R == Recent \ {i}
           T == Within(attempts \cup {i}, a)
<1>1. Recent \in SUBSET Ids /\ (\A j \in Recent : age[j] \in Nat) /\ age \in [Ids -> Nat] /\ attempts \subseteq Ids
  BY RecentIs, Constants DEF Types, EngineTypes, WakerTypes
<1>2. a[i] = 0 /\ \A j \in Ids \ {i} : a[j] = age[j]
  BY <1>1
<1>3. T = R \cup {i}
  BY <1>1, <1>2, Constants DEF Within, Recent
<1>4. IsFiniteSet(Recent) /\ IsFiniteSet(R)
  BY <1>1, Constants, FS_Subset
<1>5. Cardinality(Recent) \in Nat /\ Cardinality(R) \in Nat /\ Cardinality(R) <= Cardinality(Recent)
  BY <1>4, FS_CardinalityType, FS_Subset
<1>6. Cardinality(T) = Cardinality(R) + 1
  BY <1>3, <1>4, FS_AddElement
<1>7. Cardinality(Recent) < HourlyLimit
  BY HourIsFull
<1>8. Cardinality(T) <= HourlyLimit
  BY <1>5, <1>6, <1>7, Constants
<1>9. \A j \in Recent : msgs[j].to = s => age[j] >= MinInterval
  BY IntervalIsKept
<1> HIDE DEF T
<1>10. ASSUME NEW j \in R, msgs[j].to = s
       PROVE  a[j] - a[i] >= MinInterval
  <2>1. age[j] \in Nat /\ age[j] >= MinInterval /\ a[j] = age[j]
    BY <1>1, <1>2, <1>9, <1>10
  <2> QED
    BY <1>2, <2>1, Constants
<1>11. \A j \in R, k \in R : j # k /\ msgs[j].to = msgs[k].to => a[j] - a[k] >= MinInterval \/ a[k] - a[j] >= MinInterval
  BY <1>1, <1>2 DEF Fits, Apart
<1> HIDE DEF R
<1>12. Apart(T, a, msgs)
  BY <1>3, <1>10, <1>11 DEF Apart
<1>13. Fits(T, a, msgs)
  BY <1>8, <1>12 DEF Fits
<1> QED
  BY <1>13 DEF T

LEMMA RateKeeps ==
  ASSUME IInv, NEW s \in Slots, ReserveRate(s)
  PROVE  IInv'
<1> DEFINE i == worker[s].m
           due == IF HourLeft > IntervalLeft(s) THEN HourLeft ELSE IntervalLeft(s)
<1>1. /\ WorksOn(s, worker[s]) /\ worker[s] \in Worker /\ i \in Ids /\ phase # "stopped"
      /\ Sent(i) /\ msgs[i].to = s /\ Types /\ worker[s].pc = "leased"
  BY AtWork DEF ReserveRate, Pc
<1>2. HourLeft \in Nat /\ IntervalLeft(s) \in Nat /\ due \in Nat /\ (~(due > 0) => HourLeft = 0 /\ IntervalLeft(s) = 0)
  <2>1. HourLeft \in Nat /\ IntervalLeft(s) \in Nat
    BY <1>1, HourIsFull, IntervalIsKept
  <2> QED
    BY <2>1
<1>3. CASE due > 0
  <2>1. Rests(s) /\ Deferred(s, i, due, "rate") /\ UNCHANGED <<attempts, age>>
    BY <1>3 DEF ReserveRate
  <2>2. "rate" \in Whys
    BY DEF Whys
  <2> HIDE DEF i, due
  <2>3. deferred' \in [Slots -> Deferral]
    BY <1>1, <1>2, <2>1, <2>2, DeferTyped
  <2>4. scheduled' \subseteq scheduled /\ UNCHANGED <<inbox, engine, attempts, vendor>>
    BY <2>1 DEF ReserveRate, engine
  <2> QED
    BY <2>1, <2>3, <2>4, RestsAlone
<1>4. CASE ~(due > 0)
  <2>1. /\ Moves(s, "budgeted") /\ attempts' = attempts \cup {i} /\ age' = [age EXCEPT ![i] = 0]
        /\ deferred' = [deferred EXCEPT ![s] = NotDeferred]
    BY <1>4 DEF ReserveRate
  <2>2. HourLeft = 0 /\ IntervalLeft(s) = 0
    BY <1>2, <1>4
  <2> HIDE DEF i, due
  <2>3. PICK w \in Worker : worker' = [worker EXCEPT ![s] = w] /\ w.pc = "budgeted" /\ w.m = i
    BY <1>1, <2>1, MoveTo DEF InWorker, i
  <2>4. i \notin reserved /\ (policy[s] = "turnend" => prompts[s] = 0)
    BY <1>1 DEF WorksOn, Before, Probed, i
  <2>5. /\ age' \in [Ids -> 0..Old] /\ \A j \in Ids \ {i} : age'[j] = age[j]
        /\ Within(reserved, age') = Within(reserved, age) /\ Fits(Within(reserved, age'), age', msgs)
    <3>1. 0 \in 0..Old /\ Fits(Within(reserved, age), age, msgs)
      BY Constants DEF IInv, Budgets
    <3>2. age' \in [Ids -> 0..Old] /\ \A j \in Ids \ {i} : age'[j] = age[j]
      BY <1>1, <2>1, <3>1 DEF Types, EngineTypes
    <3>3. i \in Ids \ reserved
      BY <1>1, <2>4
    <3>4. Within(reserved, age') = Within(reserved, age) /\ Fits(Within(reserved, age'), age', msgs)
      BY <1>1, <3>1, <3>2, <3>3, UnreservedAge
    <3> QED
      BY <3>2, <3>4
  <2>6. /\ UNCHANGED <<msgs, active, policy, waiting, claimedSince, enabled, reserved, nudge, turnOver, progress, phase, fatal>>
        /\ UNCHANGED <<scheduled, capable, prompts, woken, changes>>
    BY DEF ReserveRate, inbox, vendor
  <2>7. deferred' \in [Slots -> Deferral]
    BY <2>1 DEF IInv, Types, WakerTypes, NotDeferred, Deferral, Whys
  <2>8. Types'
    BY <1>1, <2>1, <2>3, <2>5, <2>6, <2>7 DEF IInv, Types, InboxTypes, EngineTypes, WakerTypes, VendorTypes
  <2>9. WorksOn(s, w)'
    BY <1>1, <2>1, <2>3, <2>4, <2>6 DEF WorksOn, Before, Probed, Sent
  <2>10. Budgets'
    <3>1. ASSUME Available
          PROVE  Within(reserved, age') \subseteq attempts' /\ Fits(Within(attempts', age'), age', msgs)
      <4>1. Fits(Recent, age, msgs) /\ Within(reserved, age) \subseteq attempts
        BY <3>1 DEF IInv, Budgets, Recent, Within
      <4>2. Fits(Within(attempts \cup {i}, age'), age', msgs)
        BY <1>1, <2>1, <2>2, <4>1, OneMoreFits
      <4> QED
        BY <2>1, <2>5, <4>1, <4>2
    <3> QED
      BY <2>5, <2>6, <3>1 DEF Budgets, Available
  <2>11. NoRepeatedNudge'
    BY <2>6 DEF IInv, NoRepeatedNudge
  <2>12. phase # "idling"
    BY <1>1 DEF IInv, Rest, Pc, InAttempt
  <2>13. \A j \in (reserved' \cup attempts') \ (reserved \cup attempts) : Sent(j)
    BY <1>1, <2>1, <2>6
  <2> QED
    BY <1>1, <2>1, <2>3, <2>6, <2>8, <2>9, <2>10, <2>11, <2>12, <2>13, OneMoves
<1> QED
  BY <1>3, <1>4

\* ReserveWake refuses, or its append is lost: the waker gives the budget back.
LEMMA RefusedKeeps ==
  ASSUME IInv, NEW s \in Slots, Pc(s) = "budgeted", Rests(s), attempts' = attempts \ {worker[s].m},
         age' = [age EXCEPT ![worker[s].m] = Old], fatal' \in BOOLEAN, fatal => fatal',
         UNCHANGED <<msgs, active, policy, waiting, claimedSince, enabled, reserved, nudge, turnOver, progress, phase>>,
         UNCHANGED <<scheduled, deferred, capable, prompts, woken, changes>>
  PROVE  IInv'
<1> DEFINE i == worker[s].m
<1>1. /\ WorksOn(s, worker[s]) /\ worker[s] \in Worker /\ i \in Ids /\ phase # "stopped"
      /\ Sent(i) /\ msgs[i].to = s /\ Types /\ worker[s].pc = "budgeted"
  BY AtWork DEF Pc
<1>2. i \notin reserved
  BY <1>1 DEF WorksOn, Before
<1>3. attempts' = attempts \ {i} /\ age' = [age EXCEPT ![i] = Old] /\ worker' = [worker EXCEPT ![s] = Resting]
  BY DEF Rests
<1> HIDE DEF i
<1>4. /\ age' \in [Ids -> 0..Old] /\ \A j \in Ids \ {i} : age'[j] = age[j]
      /\ Within(reserved, age') = Within(reserved, age) /\ Fits(Within(reserved, age'), age', msgs)
  <2>1. Old \in 0..Old /\ Fits(Within(reserved, age), age, msgs)
    BY Constants DEF IInv, Budgets
  <2>2. age' \in [Ids -> 0..Old] /\ \A j \in Ids \ {i} : age'[j] = age[j]
    BY <1>1, <2>1 DEF Types, EngineTypes, i
  <2>3. i \in Ids \ reserved
    BY <1>1, <1>2
  <2>4. Within(reserved, age') = Within(reserved, age) /\ Fits(Within(reserved, age'), age', msgs)
    BY <1>1, <2>1, <2>2, <2>3, UnreservedAge
  <2> QED
    BY <2>2, <2>4
<1>5. Budgets'
  <2>1. ASSUME Available
        PROVE  Within(reserved, age') \subseteq attempts' /\ Fits(Within(attempts', age'), age', msgs)
    <3>1. Within(reserved, age) \subseteq attempts /\ Fits(Within(attempts, age), age, msgs)
      BY <2>1 DEF IInv, Budgets
    <3>2. Within(reserved, age') \subseteq attempts'
      BY <1>2, <1>3, <1>4, <3>1 DEF Within
    <3>3. attempts \subseteq Ids /\ age \in [Ids -> Nat]
      BY <1>1, Constants DEF Types, WakerTypes, EngineTypes
    <3>4. \A j \in attempts' : j \in attempts /\ j \in Ids \ {i} /\ age'[j] = age[j] /\ age[j] \in Nat
      BY <1>3, <1>4, <3>3
    <3>5. Within(attempts', age') \in SUBSET Within(attempts, age) /\ Within(attempts, age) \in SUBSET Ids
      BY <3>3, <3>4 DEF Within
    <3>6. \A j \in Within(attempts', age') : age'[j] = age[j] /\ msgs[j].to = msgs[j].to
      BY <3>4 DEF Within
    <3>7. Fits(Within(attempts', age'), age', msgs)
      <4>1. PICK a, T : a = age' /\ T = Within(attempts', age')
        OBVIOUS
      <4>2. T \in SUBSET Within(attempts, age) /\ \A j \in T : a[j] = age[j] /\ msgs[j].to = msgs[j].to
        BY <3>5, <3>6, <4>1
      <4>3. Fits(T, a, msgs)
        BY <3>1, <3>3, <3>5, <4>2, FitsPart
      <4> QED
        BY <4>1, <4>3
    <3> QED
      BY <3>2, <3>7
  <2>2. Available' => Available
    BY DEF Available
  <2> QED
    BY <1>4, <2>1, <2>2 DEF Budgets
<1>6. Resting \in Worker /\ Resting.pc = "idle" /\ WorksOn(s, Resting)' /\ Resting.pc \notin InAttempt
  BY Rested DEF WorksOn, InAttempt, Resting
<1>7. Types'
  BY <1>1, <1>3, <1>4, <1>6 DEF Types, InboxTypes, EngineTypes, WakerTypes, VendorTypes
<1>8. NoRepeatedNudge'
  BY DEF IInv, NoRepeatedNudge
<1> QED
  BY <1>1, <1>3, <1>5, <1>6, <1>7, <1>8, OneMoves

\* The reservation is in the log.
LEMMA ReservedKeeps ==
  ASSUME IInv, NEW s \in Slots, Pc(s) = "budgeted", MayReserve(s, worker[s].m),
         reserved' = reserved \cup {worker[s].m}, nudge' \in [Slots -> Nudge], claimedSince' \subseteq Ids,
         progress' \in [Slots -> Progress], fatal' \in BOOLEAN,
         \/ ~fatal' /\ Moves(s, "authorized") /\ UNCHANGED attempts
         \/ fatal' /\ Rests(s) /\ attempts' = attempts \ {worker[s].m},
         UNCHANGED <<msgs, active, policy, waiting, enabled, age, turnOver, phase>>,
         UNCHANGED <<scheduled, deferred, capable, prompts, woken, changes>>
  PROVE  IInv'
<1> DEFINE i == worker[s].m
<1>1. /\ WorksOn(s, worker[s]) /\ worker[s] \in Worker /\ i \in Ids /\ phase # "stopped"
      /\ Sent(i) /\ msgs[i].to = s /\ Types /\ worker[s].pc = "budgeted"
  BY AtWork DEF Pc
<1>2. i \notin reserved /\ i \in attempts /\ (policy[s] = "turnend" => prompts[s] = 0)
  BY <1>1 DEF WorksOn, Before, Probed
<1>3. phase = "running" /\ ~fatal /\ Available
  BY DEF MayReserve, Candidate, Healthy, Available
<1>4. woken[i] = 0 /\ woken \in [Ids -> Nat] /\ attempts \subseteq Ids /\ age \in [Ids -> Nat] /\ reserved \subseteq Ids
  <2>1. woken[i] \in Nat /\ woken[i] <= 1 /\ woken[i] # 1
    BY <1>1, <1>2 DEF IInv, NoRepeatedNudge, Types, VendorTypes
  <2> QED
    BY <1>1, <2>1, Constants DEF Types, VendorTypes, WakerTypes, EngineTypes
<1>5. reserved' = reserved \cup {i} /\ (attempts' = attempts \/ attempts' = attempts \ {i})
  OBVIOUS
<1>6. PICK w \in Worker : /\ worker' = [worker EXCEPT ![s] = w]
                          /\ w = Resting \/ (~fatal' /\ attempts' = attempts /\ w.pc = "authorized" /\ w.m = i)
  <2>1. CASE Rests(s)
    BY <2>1, Rested DEF Rests
  <2>2. CASE ~fatal' /\ Moves(s, "authorized") /\ UNCHANGED attempts
    BY <1>1, <2>2, MoveTo DEF InWorker
  <2> QED
    BY <2>1, <2>2
<1>7. ~fatal' => attempts' = attempts
  OBVIOUS
<1> HIDE DEF i
<1>8. WorksOn(s, w)'
  <2>1. CASE w = Resting
    BY <2>1 DEF WorksOn, Resting
  <2>2. CASE w.pc = "authorized" /\ w.m = i
    BY <1>1, <1>2, <1>4, <1>5, <2>2 DEF WorksOn, Before, Probed, Sent
  <2> QED
    BY <1>6, <2>1, <2>2
<1>9. Types'
  BY <1>1, <1>4, <1>5, <1>6 DEF Types, InboxTypes, EngineTypes, WakerTypes, VendorTypes
<1>10. Budgets'
  <2>1. Within(reserved, age) \subseteq attempts /\ Fits(Within(attempts, age), age, msgs)
    BY <1>3 DEF IInv, Budgets
  <2>2. Within(reserved', age) \in SUBSET Within(attempts, age) /\ Within(attempts, age) \in SUBSET Ids
    BY <1>2, <1>4, <1>5, <2>1 DEF Within
  <2>3. \A j \in Within(reserved', age) : age[j] = age[j] /\ msgs[j].to = msgs[j].to
    BY <1>1, <1>4, <1>5 DEF Within
  <2>4. Fits(Within(reserved', age), age, msgs)
    BY <1>4, <2>1, <2>2, <2>3, FitsPart
  <2>5. Available' => Within(reserved', age) \subseteq attempts' /\ Fits(Within(attempts', age), age, msgs)
    <3>1. Available' => attempts' = attempts
      BY <1>7 DEF Available
    <3>2. Within(reserved', age) \subseteq attempts
      BY <2>2 DEF Within
    <3> QED
      BY <2>1, <3>1, <3>2
  <2> QED
    BY <2>4, <2>5 DEF Budgets
<1>11. NoRepeatedNudge'
  BY <1>5 DEF IInv, NoRepeatedNudge
<1>12. \A j \in (reserved' \cup attempts') \ (reserved \cup attempts) : Sent(j)
  BY <1>1, <1>5
<1>13. \A j \in Ids : Sent(j) /\ msgs[j].to # s =>
         (j \in reserved <=> j \in reserved') /\ (j \in attempts => j \in attempts') /\ woken'[j] = woken[j]
  BY <1>1, <1>5
<1> QED
  BY <1>3, <1>6, <1>8, <1>9, <1>10, <1>11, <1>12, <1>13, OneMoves

LEMMA ReserveKeeps ==
  ASSUME IInv, NEW s \in Slots, ReserveWake(s)
  PROVE  IInv'
<1> DEFINE i == worker[s].m
<1>1. i \in Ids /\ Types /\ Pc(s) = "budgeted"
  BY AtWork DEF ReserveWake, Pc
<1>2. /\ UNCHANGED <<msgs, active, policy, waiting, enabled, turnOver, phase>>
      /\ UNCHANGED <<scheduled, deferred, capable, prompts, woken, changes>>
  BY DEF ReserveWake, vendor
<1>3. CASE ~MayReserve(s, i)
  <2>1. /\ Rests(s) /\ attempts' = attempts \ {i} /\ age' = [age EXCEPT ![i] = Old]
        /\ UNCHANGED <<fatal, reserved, nudge, claimedSince, progress>>
    BY <1>3 DEF ReserveWake
  <2>2. fatal' \in BOOLEAN /\ (fatal => fatal')
    BY <1>1, <2>1 DEF Types, EngineTypes
  <2> QED
    BY <1>1, <1>2, <2>1, <2>2, RefusedKeeps
<1>4. CASE MayReserve(s, i)
  <2>1. PICK o \in {"ok", "landed", "lost"} :
            /\ IF o = "lost" THEN UNCHANGED <<reserved, nudge, claimedSince, progress>>
               ELSE /\ reserved' = reserved \cup {i}
                    /\ nudge' = [nudge EXCEPT ![s] = [NoNudge EXCEPT !.m = i]]
                    /\ claimedSince' = {j \in claimedSince : msgs[j].to # s}
                    /\ progress' = [progress EXCEPT ![s] = IF s \in turnOver THEN "idle" ELSE "busy"]
            /\ fatal' = (o # "ok")
            /\ IF Authorized(o) THEN Moves(s, "authorized") /\ UNCHANGED attempts
               ELSE Rests(s) /\ attempts' = attempts \ {i}
            /\ age' = IF o = "lost" THEN [age EXCEPT ![i] = Old] ELSE age
    BY <1>4 DEF ReserveWake
  <2>2. CASE o = "lost"
    <3>1. /\ Rests(s) /\ attempts' = attempts \ {i} /\ age' = [age EXCEPT ![i] = Old] /\ fatal' = TRUE
          /\ UNCHANGED <<reserved, nudge, claimedSince, progress>>
      BY <2>1, <2>2 DEF Authorized
    <3> QED
      BY <1>1, <1>2, <3>1, RefusedKeeps
  <2>3. CASE o # "lost"
    <3>1. /\ reserved' = reserved \cup {i} /\ UNCHANGED age /\ fatal' \in BOOLEAN
          /\ \/ ~fatal' /\ Moves(s, "authorized") /\ UNCHANGED attempts
             \/ fatal' /\ Rests(s) /\ attempts' = attempts \ {i}
      BY <2>1, <2>3 DEF Authorized
    <3>2. nudge' \in [Slots -> Nudge]
      <4> DEFINE n == [NoNudge EXCEPT !.m = i]
      <4>1. n \in Nudge
        BY <1>1 DEF NoNudge, Nudge
      <4>2. nudge \in [Slots -> Nudge]
        BY <1>1 DEF Types, EngineTypes
      <4>3. nudge' = [nudge EXCEPT ![s] = n]
        BY <2>1, <2>3
      <4> HIDE DEF n
      <4> QED
        BY <4>1, <4>2, <4>3
    <3>3. claimedSince' \subseteq Ids /\ progress' \in [Slots -> Progress]
      BY <1>1, <2>1, <2>3 DEF Types, EngineTypes, InboxTypes, Progress
    <3> QED
      BY <1>1, <1>2, <1>4, <3>1, <3>2, <3>3, ReservedKeeps
  <2> QED
    BY <2>2, <2>3
<1> QED
  BY <1>3, <1>4

LEMMA RunKeeps ==
  ASSUME IInv, NEW s \in Slots, RunCommand(s)
  PROVE  IInv'
<1> DEFINE i == worker[s].m
<1>1. /\ WorksOn(s, worker[s]) /\ worker[s] \in Worker /\ i \in Ids /\ phase # "stopped"
      /\ Sent(i) /\ msgs[i].to = s /\ Types /\ worker[s].pc = "authorized"
  BY AtWork DEF RunCommand, Pc
<1>2. i \in reserved /\ woken[i] = 0 /\ (policy[s] = "turnend" => prompts[s] = 0)
  BY <1>1 DEF WorksOn, Before, Probed
<1>3. PICK failed \in BOOLEAN, left \in BOOLEAN :
        /\ worker' = [worker EXCEPT ![s].pc = "ran", ![s].failed = failed]
        /\ prompts' = [prompts EXCEPT ![s] = IF left THEN @ + 1 ELSE @]
  BY DEF RunCommand
<1>4. /\ worker \in [Slots -> Worker] /\ prompts \in [Slots -> Nat] /\ woken \in [Ids -> Nat]
  BY <1>1 DEF Types, WakerTypes, VendorTypes
<1>5. PICK w \in Worker : worker' = [worker EXCEPT ![s] = w] /\ w.pc = "ran" /\ w.m = i
  <2> DEFINE w == [worker[s] EXCEPT !.pc = "ran", !.failed = failed]
  <2>1. w \in Worker /\ w.pc = "ran" /\ w.m = i
    BY <1>1 DEF Worker, InWorker
  <2>2. worker' = [worker EXCEPT ![s] = w]
    BY <1>3, <1>4
  <2> QED
    BY <2>1, <2>2
<1>6. w.m = i
  BY <1>5
<1>7. woken' = [woken EXCEPT ![i] = woken[i] + 1]
  BY DEF RunCommand
<1> HIDE DEF i
<1>8. woken' \in [Ids -> Nat] /\ woken'[i] = 1 /\ \A j \in Ids \ {i} : woken'[j] = woken[j]
  BY <1>1, <1>2, <1>4, <1>7
<1>9. /\ prompts' \in [Slots -> Nat] /\ (policy[s] = "turnend" => prompts'[s] <= 1)
      /\ \A t \in Slots \ {s} : prompts'[t] = prompts[t]
  <2>1. PICK n \in Nat : prompts' = [prompts EXCEPT ![s] = n] /\ n <= prompts[s] + 1
    <3>1. prompts[s] \in Nat /\ prompts[s] + 1 \in Nat /\ prompts[s] <= prompts[s] + 1
      BY <1>4
    <3>2. CASE left
      <4>1. prompts' = [prompts EXCEPT ![s] = prompts[s] + 1]
        BY <1>3, <3>2
      <4>2. PICK n \in Nat : n = prompts[s] + 1
        BY <3>1
      <4>3. prompts' = [prompts EXCEPT ![s] = n]
        BY <4>1, <4>2
      <4>4. n <= prompts[s] + 1
        BY <3>1, <4>2
      <4> QED
        BY <4>3, <4>4
    <3>3. CASE ~left
      <4>1. prompts' = [prompts EXCEPT ![s] = prompts[s]]
        BY <1>3, <3>3
      <4> QED
        BY <3>1, <4>1
    <3> QED
      BY <3>2, <3>3
  <2>2. policy[s] = "turnend" => n <= 1
    BY <1>2, <2>1
  <2> QED
    BY <1>4, <2>1, <2>2
<1>10. /\ UNCHANGED <<msgs, active, policy, waiting, claimedSince, enabled, reserved, age, nudge, turnOver, progress, phase, fatal>>
       /\ UNCHANGED <<scheduled, attempts, deferred, capable, changes>>
  BY DEF RunCommand, inbox, engine
<1>11. Types'
  BY <1>1, <1>4, <1>5, <1>8, <1>9, <1>10 DEF Types, InboxTypes, EngineTypes, WakerTypes, VendorTypes
<1>12. WorksOn(s, w)'
  BY <1>1, <1>5, <1>6, <1>10 DEF WorksOn, Before, Probed, Sent
<1>13. Budgets'
  BY <1>10 DEF IInv, Budgets, Available
<1>14. NoRepeatedNudge'
  <2>1. \A j \in Ids : woken'[j] <= 1 /\ (woken'[j] = 1 => j \in reserved)
    BY <1>2, <1>8 DEF IInv, NoRepeatedNudge
  <2>2. \A t \in Slots : policy[t] = "turnend" => prompts'[t] <= 1
    BY <1>9 DEF IInv, NoRepeatedNudge
  <2> QED
    BY <1>10, <2>1, <2>2 DEF NoRepeatedNudge
<1>15. phase # "idling"
  BY <1>1 DEF IInv, Rest, Pc, InAttempt
<1>16. \A j \in Ids : Sent(j) /\ msgs[j].to # s => woken'[j] = woken[j]
  BY <1>1, <1>8
<1> QED
  BY <1>1, <1>5, <1>9, <1>10, <1>11, <1>12, <1>13, <1>14, <1>15, <1>16, OneMoves

LEMMA RecordKeeps ==
  ASSUME IInv, NEW s \in Slots, RecordOutcome(s)
  PROVE  IInv'
<1>1. /\ worker[s] \in Worker /\ phase # "stopped" /\ Types
  BY AtWork DEF RecordOutcome, Pc
<1>2. nudge' \in [Slots -> Nudge] /\ fatal' \in BOOLEAN /\ (Available' => Available)
  <2>1. nudge \in [Slots -> Nudge] /\ fatal \in BOOLEAN /\ worker[s].failed \in BOOLEAN
    BY <1>1 DEF Types, EngineTypes, Worker
  <2>2. [nudge EXCEPT ![s].failed = worker[s].failed] \in [Slots -> Nudge]
    BY <2>1 DEF Nudge
  <2>3. phase' = phase
    BY DEF RecordOutcome
  <2> QED
    BY <2>1, <2>2, <2>3 DEF RecordOutcome, Available
<1>3. /\ UNCHANGED <<msgs, active, policy, waiting, claimedSince, enabled, reserved, age, turnOver, progress, phase>>
      /\ UNCHANGED <<scheduled, attempts, deferred, capable, prompts, woken, changes>>
  BY DEF RecordOutcome, inbox, vendor
<1>4. Resting \in Worker /\ Resting.pc = "idle" /\ worker' = [worker EXCEPT ![s] = Resting] /\ WorksOn(s, Resting)'
  BY Rested DEF RecordOutcome, Rests, WorksOn, Resting
<1>5. Types'
  BY <1>1, <1>2, <1>3, <1>4 DEF Types, InboxTypes, EngineTypes, WakerTypes, VendorTypes
<1>6. Budgets'
  BY <1>1, <1>2, <1>3, BudgetsStay DEF IInv, Addressed, Sent
<1>7. NoRepeatedNudge'
  BY <1>3 DEF IInv, NoRepeatedNudge
<1> QED
  BY <1>3, <1>4, <1>5, <1>6, <1>7, OneMoves DEF InAttempt

-----------------------------------------------------------------------------
(* Time and the runtime *)

LEMMA TickKeeps ==
  ASSUME IInv, Tick
  PROVE  IInv'
<1>1. /\ age \in [Ids -> 0..Old] /\ age \in [Ids -> Nat] /\ Old \in Nat /\ Hour \in Nat /\ Hour <= Old
      /\ reserved \subseteq Ids /\ attempts \subseteq Ids /\ Types
  BY Constants DEF IInv, Types, EngineTypes, WakerTypes
<1>2. age' \in [Ids -> 0..Old] /\ \A i \in Ids : age'[i] < Hour => age'[i] = age[i] + 1
  <2>1. age' = [i \in Ids |-> IF age[i] < Old THEN age[i] + 1 ELSE Old]
    BY DEF Tick
  <2>2. \A i \in Ids : age'[i] \in 0..Old /\ (age'[i] < Hour => age'[i] = age[i] + 1)
    BY <1>1, <2>1
  <2> QED
    BY <2>1, <2>2
<1>3. deferred' \in [Slots -> Deferral]
  <2>1. deferred \in [Slots -> Deferral]
    BY <1>1 DEF Types, WakerTypes
  <2>2. ASSUME NEW s \in Slots
        PROVE  [deferred[s] EXCEPT !.due = IF @ > 0 THEN @ - 1 ELSE 0] \in Deferral
    <3>1. deferred[s] \in Deferral /\ deferred[s].due \in Nat
      BY <2>1 DEF Deferral
    <3>2. (IF deferred[s].due > 0 THEN deferred[s].due - 1 ELSE 0) \in Nat
      BY <3>1
    <3> QED
      BY <3>1, <3>2 DEF Deferral
  <2> QED
    BY <2>2 DEF Tick
<1>4. /\ UNCHANGED <<msgs, active, policy, waiting, claimedSince, enabled, reserved, nudge, turnOver, progress, phase, fatal>>
      /\ UNCHANGED <<scheduled, worker, attempts, capable, prompts, woken, changes>>
  BY DEF Tick, inbox, vendor
<1>5. Types'
  BY <1>1, <1>2, <1>3, <1>4 DEF Types, InboxTypes, EngineTypes, WakerTypes, VendorTypes
<1>6. ASSUME NEW S \in SUBSET Ids, Fits(Within(S, age), age, msgs)
      PROVE  Within(S, age') \subseteq Within(S, age) /\ Fits(Within(S, age'), age', msgs)
  <2>1. PICK a, d : a = age' /\ d = 1
    OBVIOUS
  <2>2. d \in Nat /\ \A i \in Ids : a[i] < Hour => a[i] = age[i] + d /\ age[i] < Hour
    <3>1. \A i \in Ids : age[i] \in Nat /\ (a[i] < Hour => a[i] = age[i] + 1)
      BY <1>1, <1>2, <2>1
    <3> QED
      BY <1>1, <2>1, <3>1
  <2>3. Within(S, a) \in SUBSET Within(S, age) /\ Within(S, age) \in SUBSET Ids
    BY <2>2 DEF Within
  <2>4. \A i \in Within(S, a) : a[i] = age[i] + d /\ msgs[i].to = msgs[i].to
    BY <2>2 DEF Within
  <2>5. Fits(Within(S, a), a, msgs)
    BY <1>1, <1>6, <2>2, <2>3, <2>4, FitsLess
  <2> QED
    BY <2>1, <2>3, <2>5
<1>7. Budgets'
  <2>1. Within(reserved, age') \subseteq Within(reserved, age) /\ Fits(Within(reserved, age'), age', msgs)
    BY <1>1, <1>6 DEF IInv, Budgets
  <2>2. Available => Within(reserved, age) \subseteq attempts /\ Fits(Within(attempts, age'), age', msgs)
    BY <1>1, <1>6 DEF IInv, Budgets
  <2> QED
    BY <1>4, <2>1, <2>2 DEF Budgets, Available
<1>8. Workers' /\ Known' /\ Rest' /\ NoRepeatedNudge'
  BY <1>4 DEF IInv, Workers, WorksOn, Sent, Known, Rest, Pc, NoRepeatedNudge
<1> QED
  BY <1>5, <1>7, <1>8 DEF IInv

LEMMA ClosingKeeps ==
  ASSUME IInv, TryBeginIdleClose \/ BeginClose
  PROVE  IInv'
<1>1. /\ UNCHANGED <<msgs, active, policy, waiting, claimedSince, enabled, reserved, age, nudge, turnOver, progress, fatal>>
      /\ UNCHANGED <<scheduled, worker, attempts, deferred, capable, prompts, woken, changes>>
      /\ phase = "running" /\ phase' \in {"idling", "closing"}
      /\ phase' = "idling" => ~InUse
  BY DEF TryBeginIdleClose, BeginClose, Healthy, inbox, waker, vendor
<1>2. Types' /\ Workers' /\ Known' /\ NoRepeatedNudge'
  BY <1>1 DEF IInv, Types, InboxTypes, EngineTypes, WakerTypes, VendorTypes, Workers, WorksOn, Sent, Known, NoRepeatedNudge
<1>3. Rest'
  BY <1>1 DEF Rest, Pc, InUse
<1>4. Budgets'
  BY <1>1 DEF IInv, Budgets, Available
<1> QED
  BY <1>2, <1>3, <1>4 DEF IInv

LEMMA StopKeeps ==
  ASSUME IInv, Forgotten, prompts' \in [Slots -> Nat], woken' \in [Ids -> Nat], NoRepeatedNudge'
  PROVE  IInv'
<1>1. Types /\ msgs \in [Ids -> Message] /\ age \in [Ids -> 0..Old] /\ age \in [Ids -> Nat] /\ Old \in 0..Old /\ reserved \subseteq Ids
  BY Constants DEF IInv, Types, InboxTypes, EngineTypes
<1>2. UNCHANGED <<active, policy, claimedSince, enabled, reserved, nudge, capable, changes>>
  BY DEF Forgotten
<1>3. /\ turnOver' = {} /\ waiting' = {} /\ scheduled' = {} /\ attempts' = {} /\ phase' = "stopped" /\ fatal' = FALSE
      /\ progress' \in [Slots -> Progress] /\ worker' = [s \in Slots |-> Resting]
      /\ deferred' \in [Slots -> Deferral]
  BY DEF Forgotten, Progress, NotDeferred, Deferral, Whys
<1>4. age' \in [Ids -> 0..Old] /\ \A i \in reserved : age'[i] = age[i]
  BY <1>1 DEF Forgotten
<1>5. msgs' \in [Ids -> Message] /\ Addressed
  <2>1. \A x \in Message : /\ [x EXCEPT !.st = "unknown"] \in Message /\ [x EXCEPT !.st = "unknown"].st = "unknown"
                           /\ [x EXCEPT !.st = "unknown"].to = x.to
    BY DEF Message, States
  <2>2. \A i \in Ids : msgs'[i] = msgs[i] \/ msgs'[i] = [msgs[i] EXCEPT !.st = "unknown"]
    BY DEF Forgotten
  <2>3. msgs' = [i \in Ids |-> IF msgs[i].st = "delivering" THEN [msgs[i] EXCEPT !.st = "unknown"] ELSE msgs[i]]
    BY DEF Forgotten
  <2>4. \A i \in Ids : msgs'[i] \in Message /\ (Sent(i) => msgs'[i].st # "absent" /\ msgs'[i].to = msgs[i].to)
    BY <1>1, <2>1, <2>2 DEF Sent
  <2> QED
    BY <2>3, <2>4 DEF Addressed
<1>6. Types'
  BY <1>1, <1>2, <1>3, <1>4, <1>5, Rested DEF Types, InboxTypes, EngineTypes, WakerTypes, VendorTypes
<1>7. Workers' /\ Rest'
  BY <1>3 DEF Workers, WorksOn, Rest, Pc, Resting, InAttempt
<1>8. Known'
  BY <1>1, <1>2, <1>3, <1>5 DEF IInv, Known, Addressed, Sent
<1>9. Budgets'
  <2>1. PICK a, N : a = age' /\ N = msgs'
    OBVIOUS
  <2>2. Within(reserved, a) \in SUBSET Within(reserved, age) /\ Within(reserved, age) \in SUBSET Ids
    BY <1>1, <1>4, <2>1 DEF Within
  <2>3. \A i \in Within(reserved, a) : a[i] = age[i] /\ N[i].to = msgs[i].to
    BY <1>1, <1>4, <1>5, <2>1 DEF Within, Addressed, IInv, Known
  <2>4. Fits(Within(reserved, age), age, msgs)
    BY DEF IInv, Budgets
  <2>5. Fits(Within(reserved, a), a, N)
    BY <1>1, <2>2, <2>3, <2>4, FitsPart
  <2> QED
    BY <1>2, <1>3, <2>1, <2>5 DEF Budgets, Available
<1> QED
  BY <1>6, <1>7, <1>8, <1>9 DEF IInv

LEMMA EndKeeps ==
  ASSUME IInv, EndClose
  PROVE  IInv'
<1>1. Forgotten /\ UNCHANGED <<prompts, woken, changes, policy, reserved>>
  BY DEF EndClose, Forgotten
<1>2. prompts' \in [Slots -> Nat] /\ woken' \in [Ids -> Nat] /\ NoRepeatedNudge'
  BY <1>1 DEF IInv, Types, VendorTypes, NoRepeatedNudge
<1> QED
  BY <1>1, <1>2, StopKeeps

LEMMA CrashKeeps ==
  ASSUME IInv, Crash
  PROVE  IInv'
<1>1. PICK S \in SUBSET {s \in Slots : Pc(s) = "authorized"} :
       /\ prompts' = [s \in Slots |-> IF s \in S THEN prompts[s] + 1 ELSE prompts[s]]
       /\ woken' = [i \in Ids |-> IF \E s \in S : worker[s].m = i THEN woken[i] + 1 ELSE woken[i]]
  BY DEF Crash
<1>2. Forgotten /\ UNCHANGED <<policy, reserved>>
  BY DEF Crash, Forgotten
<1>3. prompts \in [Slots -> Nat] /\ woken \in [Ids -> Nat]
  BY DEF IInv, Types, VendorTypes
<1>4. \A s \in S : /\ worker[s].m \in reserved /\ woken[worker[s].m] = 0
                   /\ policy[s] = "turnend" => prompts[s] = 0
  BY AtWork DEF WorksOn, Pc, Probed
<1>5. prompts' \in [Slots -> Nat] /\ \A s \in Slots : policy[s] = "turnend" => prompts'[s] <= 1
  <2>1. \A s \in Slots : prompts'[s] \in Nat /\ (policy[s] = "turnend" => prompts'[s] <= 1)
    BY <1>1, <1>3, <1>4 DEF IInv, NoRepeatedNudge
  <2> QED
    BY <1>1, <2>1
<1>6. woken' \in [Ids -> Nat] /\ \A i \in Ids : woken'[i] <= 1 /\ (woken'[i] = 1 => i \in reserved)
  <2>1. ASSUME NEW i \in Ids
        PROVE  woken'[i] \in Nat /\ woken'[i] <= 1 /\ (woken'[i] = 1 => i \in reserved)
    <3>1. CASE \E s \in S : worker[s].m = i
      BY <1>1, <1>4, <3>1
    <3>2. CASE ~\E s \in S : worker[s].m = i
      BY <1>1, <1>3, <3>2 DEF IInv, NoRepeatedNudge
    <3> QED
      BY <3>1, <3>2
  <2> QED
    BY <1>1, <2>1
<1>7. NoRepeatedNudge'
  BY <1>2, <1>5, <1>6 DEF NoRepeatedNudge
<1> QED
  BY <1>2, <1>5, <1>6, <1>7, StopKeeps

LEMMA OpenKeeps ==
  ASSUME IInv, Open
  PROVE  IInv'
<1>1. /\ UNCHANGED <<msgs, active, policy, waiting, claimedSince, enabled, reserved, age, nudge, turnOver, progress, fatal>>
      /\ UNCHANGED <<scheduled, worker, deferred, capable, prompts, woken, changes>>
      /\ phase = "stopped" /\ phase' = "running" /\ attempts' = reserved
  BY DEF Open, Restored, inbox, vendor
<1>2. Types' /\ Known' /\ NoRepeatedNudge' /\ Rest'
  BY <1>1 DEF IInv, Types, InboxTypes, EngineTypes, WakerTypes, VendorTypes, Known, Sent, NoRepeatedNudge, Rest
<1>3. Workers'
  BY <1>1 DEF IInv, Rest, Pc, Workers, WorksOn
<1>4. Budgets'
  BY <1>1 DEF IInv, Budgets, Within
<1> QED
  BY <1>2, <1>3, <1>4 DEF IInv

-----------------------------------------------------------------------------
LEMMA Initially ==
  ASSUME Init
  PROVE  IInv
<1>1. /\ msgs \in [Ids -> Message] /\ \A i \in Ids : ~Sent(i)
  BY WakeConstants DEF Init, Message, States, Sent
<1>2. Types
  <2>1. InboxTypes
    BY <1>1 DEF Init, InboxTypes
  <2>2. EngineTypes
    <3>1. NoNudge \in Nudge /\ Old \in 0..Old
      BY Constants DEF NoNudge, Nudge
    <3> QED
      BY <3>1 DEF Init, EngineTypes, Progress
  <2>3. WakerTypes
    <3>1. NotDeferred \in Deferral
      BY DEF NotDeferred, Deferral, Whys
    <3>2. Resting \in Worker
      BY Rested
    <3> QED
      BY <3>1, <3>2 DEF Init, WakerTypes
  <2>4. VendorTypes
    BY Constants DEF Init, VendorTypes
  <2> QED
    BY <2>1, <2>2, <2>3, <2>4 DEF Types
<1>3. Workers /\ Known /\ Rest /\ NoRepeatedNudge
  BY DEF Init, Workers, WorksOn, Known, Rest, Pc, Resting, InAttempt, NoRepeatedNudge
<1>4. Budgets
  <2>1. reserved = {} /\ attempts = {}
    BY DEF Init
  <2>2. Within({}, age) = {}
    BY DEF Within
  <2>3. Fits({}, age, msgs)
    BY FS_EmptySet, Constants DEF Fits, Apart
  <2> QED
    BY <2>1, <2>2, <2>3 DEF Budgets
<1> QED
  BY <1>2, <1>3, <1>4 DEF IInv

LEMMA StutterKeeps ==
  ASSUME IInv, UNCHANGED vars
  PROVE  IInv'
<1>1. /\ UNCHANGED <<msgs, active, policy, waiting, claimedSince, enabled, reserved, age, nudge, turnOver, progress, phase, fatal>>
      /\ UNCHANGED <<scheduled, worker, attempts, deferred, capable, prompts, woken, changes>>
  BY DEF vars, inbox, engine, waker, vendor
<1>2. Types' /\ Addressed /\ \A j \in scheduled' : msgs'[j].st # "absent"
  BY <1>1 DEF Addressed, Sent, IInv, Known, Types, InboxTypes, EngineTypes, WakerTypes, VendorTypes
<1> QED
  BY <1>1, <1>2, NothingElse

LEMMA NextKeeps ==
  ASSUME IInv, [Next]_vars
  PROVE  IInv'
<1>1. CASE SessionStep
  <2>1. PICK s \in Slots :
          \/ Publish(s) \/ (\E endsTurn \in BOOLEAN : Call(s, endsTurn)) \/ Claim(s) \/ Wait(s)
          \/ (\E park \in BOOLEAN : WaitEnds(s, park)) \/ (\E bound \in BOOLEAN : BindingChanges(s, bound))
          \/ PromptShown(s) \/ CapabilityChanges(s)
    BY <1>1 DEF SessionStep
  <2> QED
    BY <2>1, PublishKeeps, CallKeeps, ClaimKeeps, WaitKeeps, BindingKeeps, ShownKeeps, SettingKeeps
<1>2. CASE InboxStep
  BY <1>2, AckKeeps, LeavesKeeps, SettingKeeps DEF InboxStep
<1>3. CASE WakerStep
  BY <1>3, BeginKeeps, CancelledKeeps, LookAgainKeeps, ProbeKeeps, AttemptKeeps, RateKeeps, ReserveKeeps, RunKeeps,
     RecordKeeps, ReconcileKeeps DEF WakerStep, WorkerStep
<1>4. CASE LifecycleStep
  BY <1>4, TickKeeps, ClosingKeeps, EndKeeps, CrashKeeps, OpenKeeps DEF LifecycleStep
<1> QED
  BY <1>1, <1>2, <1>3, <1>4, StutterKeeps DEF Next

\* What a worker has reached says what its message is, and the reservations that
\* count keep the budget (IInv).
THEOREM Invariance == Spec => []IInv
<1>1. Init => IInv
  BY Initially
<1>2. IInv /\ [Next]_vars => IInv'
  BY NextKeeps
<1> QED
  BY <1>1, <1>2, PTL DEF Spec

\* Every variable keeps its type, the waker counts every reservation of the hour,
\* and an idle close suspends the Room under no command that may be running.
THEOREM TypeCorrect == Spec => []TypeOK
<1>1. IInv => TypeOK
  <2> SUFFICES ASSUME IInv PROVE TypeOK
    OBVIOUS
  <2>1. \A s \in Slots : IF Pc(s) = "idle" THEN worker[s] = Resting
                         ELSE worker[s].m \in Ids /\ msgs[worker[s].m].to = s
    BY DEF IInv, Workers, WorksOn, Pc
  <2>2. Available => {i \in reserved : age[i] < Hour} \subseteq attempts
    BY DEF IInv, Budgets, Within
  <2>3. phase = "idling" => \A s \in Slots : Pc(s) \notin InAttempt
    BY DEF IInv, Rest
  <2> QED
    BY <2>1, <2>2, <2>3 DEF IInv, Types, InboxTypes, EngineTypes, WakerTypes, VendorTypes, TypeOK, Message, States,
       Nudge, Worker, Deferral, Whys
<1> QED
  BY <1>1, Invariance, PTL

\* No message is nudged for twice, and a Codex queue never holds two nudges,
\* whatever callbacks repeat, appends fail and processes die.
THEOREM NudgedOnce == Spec => []NoRepeatedNudge
<1>1. IInv => NoRepeatedNudge
  BY DEF IInv
<1> QED
  BY <1>1, Invariance, PTL

\* Over restarts too, no hour holds more reservations than the Room's budget, and
\* two of one target keep their interval.
THEOREM BudgetHolds == Spec => []BudgetKept
<1>1. IInv => BudgetKept
  BY DEF IInv, Budgets, Fits, Apart, Within, BudgetKept
<1> QED
  BY <1>1, Invariance, PTL
===============================================================================
