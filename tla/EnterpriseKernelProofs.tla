------------------------ MODULE EnterpriseKernelProofs ------------------------
(***************************************************************************)
(* Safety of the enterprise Service's transaction kernel for every set of  *)
(* processes, Rooms and requests.  The inductive invariant says of each    *)
(* transaction whose COMMIT is under way that the rows it would write are  *)
(* still the rows its locks cover, decided under the epoch that still      *)
(* holds (Good, Locked); all else follows one COMMIT at a time (History).  *)
(***************************************************************************)
EXTENDS EnterpriseKernel, FiniteSetTheorems, SequenceTheorems, TLAPS

Row == [made : BOOLEAN, rev : Nat, msgs : Seq(MessageStates), member : BOOLEAN]
Receipt == [rev : Nat \ {0}, epoch : Nat, msg : Nat]
Request == [at : Stores, key : Requests, exp : Nat, tries : Nat,
            pc : {"resolve", "verify", "snapshot", "commit", "release"}]

ClaimOf(k) == [k EXCEPT !.kind = "claim"]
Claims == {k \in Accepted : k.kind = "claim" /\ receipts[k].msg # 0}
StateOf(k) == rooms[k.room].msgs[receipts[k].msg]

\* The database's types.
Data ==
  /\ epoch \in Nat /\ {owner, lease} \subseteq Stores \cup {None}
  /\ rooms \in [Rooms -> Row]
  /\ receipts \in [Requests -> Receipt \cup {None}]
  /\ marked \subseteq (1..epoch) \X Rooms /\ completed \subseteq 1..epoch

\* What the accepted operations leave behind: none is newer than its Room, a
\* claimed message never waits again, a Room that is settled has nothing out
\* from an earlier epoch, a removed member is gone, and every message was sent.
History ==
  /\ \A r \in Rooms : ~rooms[r].made => rooms[r].rev = 0
  /\ \A k \in Accepted : receipts[k].rev <= rooms[k.room].rev
  /\ \A k \in Claims : /\ receipts[k].msg \in DOMAIN rooms[k.room].msgs
                        /\ StateOf(k) \notin {"queued", "cancelled"}
  /\ \A k \in Claims :
       (epoch \in completed \/ <<epoch, k.room>> \in marked) /\ StateOf(k) = "delivering"
         => receipts[k].epoch = epoch
  /\ \A k \in Accepted : k.kind = "remove" => ~rooms[k.room].member
  /\ \A r \in Rooms : \A i \in DOMAIN rooms[r].msgs :
       \E k \in Accepted : k.kind = "send" /\ k.room = r /\ receipts[k].msg = i
  /\ OneHistory /\ RemovalEnds

-----------------------------------------------------------------------------
\* What one transaction does to the messages of its Room: it gives up the
\* deliveries in D, and then queues, releases or settles one message, retires
\* the Binding, or settles the Room.
Doubtful(old, D) == [i \in DOMAIN old |-> IF i \in D THEN "unknown" ELSE old[i]]

Released(m, old, x, new) ==
  /\ m \in In(old, "queued") /\ \A i \in In(old, "queued") : m <= i
  /\ In(x, "delivering") = {}
  /\ new = [x EXCEPT ![m] = "delivering"]

MsgStep(kind, m, old, new) ==
  \E D \in SUBSET In(old, "delivering") :
    \/ kind = "send" /\ m = Len(old) + 1 /\ new = Append(old, "queued")
    \/ kind = "claim" /\ m = 0 /\ new = Doubtful(old, D)
    \/ kind = "claim" /\ Released(m, old, Doubtful(old, D), new)
    \/ kind = "ack" /\ m \in DOMAIN old /\ new = [Doubtful(old, D) EXCEPT ![m] = "handed_off"]
    \/ kind = "remove" /\ m = 0 /\ new = Retired(old)
    \/ kind = "recover" /\ m = 0 /\ new = Doubtful(old, In(old, "delivering"))
    \/ kind = "create" /\ m = 0 /\ new = old

\* The rows w that an operation k on message m writes follow the rows it locked.
Follows(k, m, w) ==
  LET old == rooms[k.room] IN
  /\ k.room \in Rooms /\ w \in Row
  /\ k.kind # "create" <=> old.made
  /\ k.kind \in Relay \cup {"remove"} => old.member
  /\ w.made
  /\ w.member = (old.member /\ k.kind # "remove")
  /\ w.rev = old.rev + 1 \/ (k.kind = "recover" /\ w.rev = old.rev)
  /\ MsgStep(k.kind, m, old.msgs, w.msgs)

\* An acknowledgement is about what its claim released.
AcksClaim(k, m) == k.kind = "ack" => ClaimOf(k) \in Claims /\ m = receipts[ClaimOf(k)].msg

\* A COMMIT that is under way may still land.
Good(t) ==
  /\ t.staged /\ t.epoch = epoch /\ epoch # 0 /\ t.task \notin absent
  /\ IF t.task.kind = "finish"
     THEN /\ t.write = None /\ t.msg = 0 /\ t.task = Task("finish", 0)
          /\ \A r \in Rooms : rooms[r].made => <<epoch, r>> \in marked
     ELSE Follows(t.task, t.msg, t.write)
  /\ IF t.task \in Requests
     THEN receipts[t.task] = None /\ epoch \in completed /\ AcksClaim(t.task, t.msg)
     ELSE t.task \in {Task("recover", t.task.room), Task("finish", 0)}

\* Two of them are operations on different Rooms.
Locked ==
  \A t, u \in Pending : t # u =>
    t.task.kind \in Relay /\ u.task.kind \in Relay /\ t.task.room # u.task.room

Commits == Locked /\ \A t \in Pending : Good(t)

\* The transaction s runs.  Only the owner of the row has one under way.
Runs(s) ==
  LET t == tx[s] IN
  /\ t = [task |-> t.task, epoch |-> t.epoch, seen |-> t.seen,
          staged |-> t.staged, write |-> t.write, msg |-> t.msg]
  /\ t.epoch = mine[s]
  /\ proc[s] \in {"reaping", "serving"}
  /\ IF t.task \in Requests THEN proc[s] = "serving"
     ELSE /\ proc[s] = "reaping"
          /\ \/ t.task = Task("finish", 0)
             \/ \E r \in Rooms : t.task = Task("recover", r) /\ rooms[r].made
  /\ IF t.staged THEN owner = s /\ t \notin orphans
     ELSE t.staged = FALSE /\ t.write = None /\ t.msg = 0 /\ (owner = s => t.task \notin absent)

Phases == {"closed", "leased", "recovering", "reaping", "serving", "poisoned", "dead"}

Processes ==
  /\ proc \in [Stores -> Phases]
  /\ mine \in [Stores -> Nat]
  /\ todo \in [Stores -> SUBSET Rooms] /\ \A s \in Stores : \A r \in todo[s] : rooms[r].made
  /\ tx = [s \in Stores |-> tx[s]] /\ \A s \in Stores : tx[s] # None => Runs(s)
  /\ owner # None => mine[owner] = epoch /\ epoch # 0
  /\ \A s \in Stores : proc[s] = "serving" => mine[s] \in completed
  /\ lost \subseteq Stores

Serves ==
  /\ handlers \subseteq Request
  /\ \A h \in handlers : proc[h.at] \in {"serving", "poisoned"}
  /\ \A g, h \in handlers : g.at = h.at /\ g.key = h.key => g = h
  /\ \A h \in handlers : /\ h.pc = "release" => h.key \in Claims
                         /\ h.key.kind = "ack" => ClaimOf(h.key) \in released
  /\ released \subseteq Claims /\ absent \subseteq Requests

IInv == Data /\ History /\ Commits /\ Processes /\ Serves /\ AbsentHolds

-----------------------------------------------------------------------------
(* The operators *)

\* Least is the least number of a set that has one.
LEMMA LeastIn ==
  ASSUME NEW S \in SUBSET Nat, S # {}
  PROVE  Least(S) \in S /\ \A y \in S : Least(S) <= y
<1> DEFINE below(n) == {x \in S : x <= n}
           T == {below(n) : n \in S}
<1>1. ASSUME NEW n \in S
      PROVE  below(n) \in FiniteSubsetsOf(Nat)
  <2>1. below(n) \in SUBSET Nat /\ n \in Nat /\ \A x \in below(n) : x <= n
    OBVIOUS
  <2> HIDE DEF below
  <2>2. IsFiniteSet(below(n))
    BY <2>1, FS_BoundedSetOfNaturals
  <2> QED
    BY <2>1, <2>2 DEF FiniteSubsetsOf
<1> HIDE DEF below
<1>2. T \subseteq FiniteSubsetsOf(Nat) /\ T # {}
  BY <1>1
<1> HIDE DEF T
<1>3. \E B \in T : \A C \in T : ~(<<C, B>> \in StrictSubsetOrdering(Nat))
  <2>1. IsWellFoundedOn(StrictSubsetOrdering(Nat), FiniteSubsetsOf(Nat))
    BY FS_StrictSubsetOrderingWellFounded
  <2> QED
    BY <1>2, <2>1, WFMin
<1>4. PICK n \in S : \A C \in T : <<C, below(n)>> \notin StrictSubsetOrdering(Nat)
  BY <1>3 DEF T
<1>5. ASSUME NEW y \in S, y < n
      PROVE  FALSE
  <2>1. below(y) \subseteq below(n) /\ n \in below(n) /\ n \notin below(y)
    <3>1. n \in Nat /\ y \in Nat /\ \A x \in S : x \in Nat
      OBVIOUS
    <3>2. \A x \in Nat : x <= y => x <= n
      BY <1>5, <3>1
    <3>3. n <= n /\ ~(n <= y)
      BY <1>5, <3>1
    <3> QED
      BY <3>1, <3>2, <3>3 DEF below
  <2>2. below(y) \in SUBSET Nat /\ below(n) \in SUBSET Nat
    BY DEF below
  <2>3. <<below(y), below(n)>> \in StrictSubsetOrdering(Nat)
    BY <2>1, <2>2 DEF StrictSubsetOrdering
  <2> QED
    BY <1>4, <2>3 DEF T
<1>6. \A y \in S : n <= y
  BY <1>5
<1> QED
  BY <1>6 DEF Least

LEMMA DoubtfulParts ==
  ASSUME NEW old \in Seq(MessageStates), NEW D \in SUBSET In(old, "delivering")
  PROVE  /\ Doubtful(old, D) \in Seq(MessageStates)
         /\ Len(Doubtful(old, D)) = Len(old)
         /\ \A i \in 1..Len(old) :
              Doubtful(old, D)[i] = IF i \in D THEN "unknown" ELSE old[i]
<1>1. DOMAIN old = 1..Len(old) /\ Len(old) \in Nat
  OBVIOUS
<1>2. \A i \in 1..Len(old) : (IF i \in D THEN "unknown" ELSE old[i]) \in MessageStates
  BY DEF MessageStates
<1> QED
  BY <1>1, <1>2 DEF Doubtful

LEMMA RetiredParts ==
  ASSUME NEW old \in Seq(MessageStates)
  PROVE  /\ Retired(old) \in Seq(MessageStates)
         /\ Len(Retired(old)) = Len(old)
         /\ \A i \in 1..Len(old) :
              /\ Retired(old)[i] \notin {"queued", "delivering"}
              /\ old[i] \notin {"queued", "delivering"} => Retired(old)[i] = old[i]
              /\ old[i] = "queued" => Retired(old)[i] = "cancelled"
              /\ old[i] = "delivering" => Retired(old)[i] = "unknown"
<1>1. DOMAIN old = 1..Len(old) /\ Len(old) \in Nat
  OBVIOUS
<1> DEFINE r(i) == CASE old[i] = "queued" -> "cancelled"
                     [] old[i] = "delivering" -> "unknown"
                     [] OTHER -> old[i]
<1>2. \A i \in 1..Len(old) : /\ r(i) \in MessageStates /\ r(i) \notin {"queued", "delivering"}
                             /\ old[i] \notin {"queued", "delivering"} => r(i) = old[i]
                             /\ old[i] = "queued" => r(i) = "cancelled"
                             /\ old[i] = "delivering" => r(i) = "unknown"
  BY DEF MessageStates
<1> HIDE DEF r
<1>3. Retired(old) = [i \in 1..Len(old) |-> r(i)]
  BY <1>1 DEF Retired, r
<1> QED
  BY <1>1, <1>2, <1>3

\* What a transaction may do to one message of its Room.
StepKeeps(kind, m, old, new) ==
  /\ new \in Seq(MessageStates) /\ m \in Nat
  /\ DOMAIN old \subseteq DOMAIN new
  /\ \A i \in DOMAIN old : old[i] \notin {"queued", "cancelled"} => new[i] \notin {"queued", "cancelled"}
  /\ \A i \in DOMAIN new : i \in DOMAIN old \/ (kind = "send" /\ i = m)
  /\ \A i \in DOMAIN new : new[i] = "queued" =>
       kind = "send" \/ (i \in DOMAIN old /\ old[i] = "queued")
  /\ \A i \in DOMAIN new : new[i] = "delivering" =>
       i \in DOMAIN old /\ (old[i] = "delivering" \/ (kind = "claim" /\ i = m))
  /\ kind = "claim" /\ m # 0 =>
       m \in DOMAIN old /\ old[m] = "queued" /\ new[m] = "delivering"
  /\ kind \in {"recover", "remove"} => \A i \in DOMAIN new : new[i] # "delivering"
  /\ kind = "remove" => \A i \in DOMAIN new : new[i] # "queued"

LEMMA StepFacts ==
  ASSUME NEW kind, NEW m, NEW old \in Seq(MessageStates), NEW new, MsgStep(kind, m, old, new)
  PROVE  StepKeeps(kind, m, old, new)
<1> USE DEF StepKeeps
<1>1. PICK D \in SUBSET In(old, "delivering") :
       \/ kind = "send" /\ m = Len(old) + 1 /\ new = Append(old, "queued")
       \/ kind = "claim" /\ m = 0 /\ new = Doubtful(old, D)
       \/ kind = "claim" /\ Released(m, old, Doubtful(old, D), new)
       \/ kind = "ack" /\ m \in DOMAIN old /\ new = [Doubtful(old, D) EXCEPT ![m] = "handed_off"]
       \/ kind = "remove" /\ m = 0 /\ new = Retired(old)
       \/ kind = "recover" /\ m = 0 /\ new = Doubtful(old, In(old, "delivering"))
       \/ kind = "create" /\ m = 0 /\ new = old
  BY DEF MsgStep
<1> DEFINE x == Doubtful(old, D)
<1>2. /\ x \in Seq(MessageStates) /\ DOMAIN x = DOMAIN old /\ Len(x) = Len(old)
      /\ DOMAIN old = 1..Len(old) /\ Len(old) \in Nat
      /\ \A i \in DOMAIN old : x[i] = IF i \in D THEN "unknown" ELSE old[i]
  BY DoubtfulParts
<1>3. \A i \in D : i \in DOMAIN old /\ old[i] = "delivering"
  BY DEF In
<1>4. CASE kind = "send" /\ m = Len(old) + 1 /\ new = Append(old, "queued")
  BY <1>2, <1>4 DEF MessageStates
<1>5. CASE kind = "claim" /\ m = 0 /\ new = x
  <2> HIDE DEF x
  <2> QED
    BY <1>2, <1>3, <1>5
<1>6. CASE kind = "claim" /\ Released(m, old, x, new)
  <2> HIDE DEF x
  <2>1. m \in DOMAIN old /\ old[m] = "queued" /\ new = [x EXCEPT ![m] = "delivering"]
    BY <1>6 DEF Released, In
  <2>2. new \in Seq(MessageStates) /\ DOMAIN new = DOMAIN x
    BY <1>2, <2>1, ExceptSeq DEF MessageStates
  <2>3. new[m] = "delivering" /\ \A i \in DOMAIN old \ {m} : new[i] = x[i]
    BY <1>2, <2>1
  <2> QED
    BY <1>2, <1>3, <1>6, <2>1, <2>2, <2>3
<1>7. CASE kind = "ack" /\ m \in DOMAIN old /\ new = [x EXCEPT ![m] = "handed_off"]
  <2> HIDE DEF x
  <2>1. new \in Seq(MessageStates) /\ DOMAIN new = DOMAIN x
    BY <1>2, <1>7, ExceptSeq DEF MessageStates
  <2>2. \A i \in DOMAIN old : new[i] = IF i = m THEN "handed_off" ELSE x[i]
    BY <1>2, <1>7
  <2> QED
    BY <1>2, <1>3, <1>7, <2>1, <2>2
<1>8. CASE kind = "remove" /\ m = 0 /\ new = Retired(old)
  BY <1>8, RetiredParts
<1>9. CASE kind = "recover" /\ m = 0 /\ new = Doubtful(old, In(old, "delivering"))
  <2>1. /\ new \in Seq(MessageStates) /\ DOMAIN new = DOMAIN old
        /\ \A i \in DOMAIN old : new[i] = IF old[i] = "delivering" THEN "unknown" ELSE old[i]
    BY <1>9, DoubtfulParts DEF In
  <2> QED
    BY <1>9, <2>1
<1>10. CASE kind = "create" /\ m = 0 /\ new = old
  BY <1>10
<1> QED
  BY <1>1, <1>4, <1>5, <1>6, <1>7, <1>8, <1>9, <1>10

LEMMA ExpireForm ==
  ASSUME Data, NEW r \in Rooms
  PROVE  /\ Expire(r, TRUE) = Doubtful(rooms[r].msgs, In(rooms[r].msgs, "delivering"))
         /\ \E D \in SUBSET In(rooms[r].msgs, "delivering") :
              Expire(r, FALSE) = Doubtful(rooms[r].msgs, D)
<1> DEFINE old == rooms[r].msgs
           D == {i \in In(old, "delivering") : <<r, i>> \in late}
<1>1. Expire(r, TRUE) = Doubtful(old, In(old, "delivering"))
  BY DEF Expire, Doubtful, In
<1>2. Expire(r, FALSE) = Doubtful(old, D)
  BY DEF Expire, Doubtful, In
<1>3. D \in SUBSET In(old, "delivering")
  OBVIOUS
<1> QED
  BY <1>1, <1>2, <1>3

LEMMA RequestParts ==
  ASSUME NEW k \in Requests
  PROVE  /\ k \in [kind : Relay \cup Control, room : Rooms, id : Nat]
         /\ k.kind \in Relay \cup Control /\ k.room \in Rooms
         /\ ClaimOf(k).kind = "claim" /\ ClaimOf(k).room = k.room /\ ClaimOf(k).id = k.id
         /\ k.kind # "recover" /\ k.kind # "finish"
BY KernelConstants DEF ClaimOf, Relay, Control

Plans(kind, old, p) ==
  /\ p = [msgs |-> p.msgs, msg |-> p.msg]
  /\ MsgStep(kind, p.msg, old, p.msgs)

\* An acknowledgement names a claim that was handed out.
Backed(k) == k.kind = "ack" => ClaimOf(k) \in Claims

LEMMA PlansParts ==
  ASSUME NEW kind, NEW old, NEW ms, NEW m, MsgStep(kind, m, old, ms),
         NEW p, p = [msgs |-> ms, msg |-> m]
  PROVE  Plans(kind, old, p)
BY DEF Plans

LEMMA PlannedStep ==
  ASSUME IInv, NEW k \in Requests, k.kind \in Relay, Backed(k)
  PROVE  Plans(k.kind, rooms[k.room].msgs, Planned(k))
<1> DEFINE old == rooms[k.room].msgs
           expired == Expire(k.room, FALSE)
           p == Planned(k)
           kind == k.kind
<1>1. k \in [kind : Relay \cup Control, room : Rooms, id : Nat]
  BY RequestParts
<1>2. old \in Seq(MessageStates)
  BY <1>1 DEF IInv, Data, Row
<1>3. PICK D \in SUBSET In(old, "delivering") : expired = Doubtful(old, D)
  BY <1>1, ExpireForm DEF IInv
<1>4. kind = "send" => p = [msgs |-> Append(old, "queued"), msg |-> Len(old) + 1]
  BY DEF Planned
<1>5. kind = "claim" =>
        p = [msgs |-> IF Claimable(expired) = 0 THEN expired
                      ELSE [expired EXCEPT ![Claimable(expired)] = "delivering"],
             msg |-> Claimable(expired)]
  BY DEF Planned
<1>6. kind = "ack" =>
        /\ p = [msgs |-> [expired EXCEPT ![receipts[ClaimOf(k)].msg] = "handed_off"],
                msg |-> receipts[ClaimOf(k)].msg]
        /\ receipts[ClaimOf(k)].msg \in DOMAIN old
  BY RequestParts DEF Planned, ClaimOf, Backed, IInv, History
<1> SUFFICES Plans(kind, old, p)
  OBVIOUS
<1> HIDE DEF old, p, kind
<1>7. CASE kind = "send"
  <2> DEFINE ms == Append(old, "queued")
             m == Len(old) + 1
  <2>1. MsgStep("send", m, old, ms)
    BY DEF MsgStep
  <2>2. p = [msgs |-> ms, msg |-> m]
    BY <1>4, <1>7
  <2> HIDE DEF ms, m
  <2> QED
    BY <1>7, <2>1, <2>2, PlansParts
<1> HIDE DEF expired
<1>8. CASE kind = "claim"
  <2> DEFINE i == Claimable(expired)
  <2>1. CASE i = 0
    <3>1. MsgStep("claim", 0, old, expired)
      BY <1>3 DEF MsgStep
    <3>2. p = [msgs |-> expired, msg |-> 0]
      BY <1>5, <1>8, <2>1
    <3> QED
      BY <1>8, <3>1, <3>2, PlansParts
  <2>2. CASE i # 0
    <3>1. In(expired, "queued") = In(old, "queued")
      BY <1>2, <1>3, DoubtfulParts DEF In
    <3>2. In(expired, "delivering") = {} /\ In(old, "queued") # {} /\ i = Least(In(old, "queued"))
      BY <2>2, <3>1 DEF Claimable
    <3>3. In(old, "queued") \in SUBSET Nat
      BY <1>2 DEF In
    <3>4. i \in In(old, "queued") /\ \A j \in In(old, "queued") : i <= j
      BY <3>2, <3>3, LeastIn
    <3>5. p = [msgs |-> [expired EXCEPT ![i] = "delivering"], msg |-> i]
      BY <1>5, <1>8, <2>2
    <3> HIDE DEF i
    <3>6. Released(i, old, Doubtful(old, D), [expired EXCEPT ![i] = "delivering"])
      BY <1>3, <3>2, <3>4 DEF Released
    <3>7. MsgStep("claim", i, old, [expired EXCEPT ![i] = "delivering"])
      BY <3>6 DEF MsgStep
    <3> DEFINE ms == [expired EXCEPT ![i] = "delivering"]
    <3>8. MsgStep("claim", i, old, ms) /\ p = [msgs |-> ms, msg |-> i]
      BY <3>5, <3>7
    <3> HIDE DEF ms
    <3> QED
      BY <1>8, <3>8, PlansParts
  <2> QED
    BY <2>1, <2>2
<1>9. CASE kind = "ack"
  <2> DEFINE of == receipts[ClaimOf(k)].msg
  <2>1. of \in DOMAIN old /\ p = [msgs |-> [expired EXCEPT ![of] = "handed_off"], msg |-> of]
    BY <1>6, <1>9
  <2> HIDE DEF of
  <2>2. MsgStep("ack", of, old, [expired EXCEPT ![of] = "handed_off"])
    BY <1>3, <2>1 DEF MsgStep
  <2> DEFINE ms == [expired EXCEPT ![of] = "handed_off"]
  <2>3. MsgStep("ack", of, old, ms) /\ p = [msgs |-> ms, msg |-> of]
    BY <2>1, <2>2
  <2> HIDE DEF ms
  <2> QED
    BY <1>9, <2>3, PlansParts
<1>10. kind \in Relay
  BY DEF kind
<1> QED
  BY <1>7, <1>8, <1>9, <1>10 DEF Relay

\* A decided operation writes rows that follow the ones it read.
LEMMA RequestFollows ==
  ASSUME IInv, NEW k \in Requests, Allowed(k), Possible(k), Backed(k)
  PROVE  Follows(k, IF k.kind \in Relay THEN Planned(k).msg ELSE 0, Written(k))
<1> DEFINE old == rooms[k.room]
           om == old.msgs
           new == Written(k)
           p == Planned(k)
<1>1. k \in [kind : Relay \cup Control, room : Rooms, id : Nat]
  BY RequestParts
<1>2. old \in Row /\ om \in Seq(MessageStates)
  BY <1>1 DEF IInv, Data, Row
<1>3. CASE k.kind \in Relay
  <2> DEFINE m == p.msg
             ms == p.msgs
  <2>1. Plans(k.kind, om, p)
    BY <1>3, PlannedStep
  <2>2. new = [old EXCEPT !.rev = old.rev + 1, !.msgs = ms]
    <3>1. new = [old EXCEPT !.rev = @ + 1, !.msgs = Planned(k).msgs]
      BY <1>3 DEF Written, Relay
    <3> HIDE DEF new, old, ms
    <3> QED
      BY <1>2, <3>1 DEF Row, ms
  <2>3. old.made /\ old.member /\ k.kind \notin {"create", "remove", "recover"}
    BY <1>3 DEF Allowed, Relay
  <2> SUFFICES Follows(k, m, new)
    BY <1>3
  <2> HIDE DEF p, om, new
  <2>4. MsgStep(k.kind, m, om, ms)
    BY <1>1, <2>1 DEF Plans
  <2> HIDE DEF m, ms
  <2>5. ms \in Seq(MessageStates)
    <3> DEFINE kind == k.kind
    <3>1. MsgStep(kind, m, om, ms)
      BY <2>4
    <3> HIDE DEF kind
    <3>2. StepKeeps(kind, m, om, ms)
      BY <1>2, <3>1, StepFacts
    <3> QED
      BY <3>2 DEF StepKeeps
  <2> HIDE DEF old
  <2>6. new = [made |-> old.made, rev |-> old.rev + 1, msgs |-> ms, member |-> old.member]
    BY <1>2, <2>2 DEF Row
  <2>7. new \in Row /\ new.made /\ new.member /\ new.rev = old.rev + 1 /\ new.msgs = ms
    BY <1>2, <2>3, <2>5, <2>6 DEF Row
  <2> QED
    BY <1>1, <2>3, <2>4, <2>7 DEF Follows, old, om
<1>4. CASE k.kind = "create"
  <2>1. new = [old EXCEPT !.made = TRUE, !.rev = 1] /\ k.kind \notin Relay
    BY <1>4 DEF Written, Relay
  <2>2. ~old.made /\ old.rev = 0
    BY <1>1, <1>4 DEF Possible, IInv, History
  <2> SUFFICES Follows(k, 0, new)
    BY <2>1
  <2> HIDE DEF new, om, old
  <2>3. MsgStep("create", 0, om, om)
    BY DEF MsgStep
  <2>4. new = [made |-> TRUE, rev |-> 1, msgs |-> om, member |-> old.member]
    BY <1>2, <2>1 DEF Row, om
  <2>5. new \in Row /\ new.made /\ new.member = old.member /\ new.rev = old.rev + 1 /\ new.msgs = om
    BY <1>2, <2>2, <2>4 DEF Row
  <2> QED
    BY <1>1, <1>2, <1>4, <2>1, <2>2, <2>3, <2>5 DEF Follows, Row, old, om
<1>5. CASE k.kind = "remove"
  <2>1. /\ new = [old EXCEPT !.rev = old.rev + 1, !.member = FALSE, !.msgs = Retired(om)]
        /\ k.kind \notin Relay
    BY <1>5 DEF Written, Relay
  <2>2. old.made /\ old.member
    BY <1>5 DEF Possible, Allowed
  <2> SUFFICES Follows(k, 0, new)
    BY <2>1
  <2> HIDE DEF new, om, old
  <2>3. MsgStep("remove", 0, om, Retired(om)) /\ Retired(om) \in Seq(MessageStates)
    BY <1>2, RetiredParts DEF MsgStep
  <2>4. new = [made |-> old.made, rev |-> old.rev + 1, msgs |-> Retired(om), member |-> FALSE]
    BY <1>2, <2>1 DEF Row
  <2>5. /\ new \in Row /\ new.made /\ new.member = FALSE /\ new.rev = old.rev + 1
        /\ new.msgs = Retired(om)
    BY <1>2, <2>2, <2>3, <2>4 DEF Row
  <2> QED
    BY <1>1, <1>5, <2>1, <2>2, <2>3, <2>5 DEF Follows, old, om
<1> QED
  BY <1>1, <1>3, <1>4, <1>5 DEF Control

LEMMA RecoveryFollows ==
  ASSUME IInv, NEW r \in Rooms, rooms[r].made
  PROVE  Follows(Task("recover", r), 0, Written(Task("recover", r)))
<1> DEFINE k == Task("recover", r)
           old == rooms[r]
           om == old.msgs
           new == Written(k)
           settled == Expire(r, TRUE)
           rev == IF settled = om THEN old.rev ELSE old.rev + 1
<1>1. k = [kind |-> "recover", room |-> r, id |-> 0]
  BY DEF Task
<1>2. old \in Row /\ om \in Seq(MessageStates) /\ old.made
  BY DEF IInv, Data, Row
<1>3. settled = Doubtful(om, In(om, "delivering"))
  BY ExpireForm DEF IInv
<1>4. new = [old EXCEPT !.msgs = settled, !.rev = rev]
  <2>1. new = [old EXCEPT !.msgs = settled, !.rev = IF settled = old.msgs THEN @ ELSE @ + 1]
    <3> HIDE DEF k, settled
    <3> QED
      BY <1>1 DEF Written, Relay, settled
  <2> HIDE DEF new, old, settled
  <2> QED
    BY <1>2, <2>1 DEF Row
<1> HIDE DEF settled, om, new, old
<1>5. MsgStep("recover", 0, om, settled) /\ settled \in Seq(MessageStates)
  BY <1>2, <1>3, DoubtfulParts DEF MsgStep
<1>6. rev \in Nat /\ (rev = old.rev \/ rev = old.rev + 1)
  BY <1>2 DEF Row
<1> HIDE DEF rev, k
<1>7. new = [made |-> old.made, rev |-> rev, msgs |-> settled, member |-> old.member]
  BY <1>2, <1>4 DEF Row
<1>8. new \in Row /\ new.made /\ new.member = old.member /\ new.msgs = settled /\ new.rev = rev
  BY <1>2, <1>5, <1>6, <1>7 DEF Row
<1>9. Follows(k, 0, new)
  BY <1>1, <1>2, <1>5, <1>6, <1>8 DEF Follows, Relay, Row, old, om
<1> QED
  BY <1>9 DEF k, new

-----------------------------------------------------------------------------
(* One COMMIT lands *)

LEMMA PendingGood ==
  ASSUME IInv, NEW t \in Pending
  PROVE  Good(t)
BY DEF IInv, Commits

\* What the database is after an operation of a member or an owner, after the
\* recovery of a Room, and after the completion of a recovery.
LandsRequest(k, m, w) ==
  /\ k \in Requests /\ receipts[k] = None /\ epoch \in completed
  /\ Follows(k, m, w) /\ AcksClaim(k, m)
  /\ rooms' = [rooms EXCEPT ![k.room] = w]
  /\ receipts' = [receipts EXCEPT ![k] = [rev |-> w.rev, epoch |-> epoch, msg |-> m]]
  /\ UNCHANGED <<marked, completed>>

LandsRecovery(r, w) ==
  /\ r \in Rooms /\ Follows(Task("recover", r), 0, w)
  /\ rooms' = [rooms EXCEPT ![r] = w]
  /\ marked' = marked \cup {<<epoch, r>>}
  /\ UNCHANGED <<receipts, completed>>

LandsFinish ==
  /\ \A r \in Rooms : rooms[r].made => <<epoch, r>> \in marked
  /\ completed' = completed \cup {epoch}
  /\ UNCHANGED <<rooms, receipts, marked>>

LEMMA ApplyParts ==
  ASSUME IInv, NEW t \in Pending, Apply(t)
  PROVE  /\ UNCHANGED <<epoch, owner, lease>>
         /\ \/ LandsRequest(t.task, t.msg, t.write)
            \/ LandsRecovery(t.task.room, t.write) /\ t.task = Task("recover", t.task.room)
            \/ LandsFinish /\ t.task = Task("finish", 0)
<1> DEFINE k == t.task
<1>1. Good(t)
  BY PendingGood
<1>2. UNCHANGED <<epoch, owner, lease>>
  BY DEF Apply
<1>3. CASE k \in Requests
  <2>1. k.kind # "finish" /\ k.kind # "recover"
    BY <1>3, RequestParts
  <2>2. /\ Follows(k, t.msg, t.write) /\ t.epoch = epoch /\ receipts[k] = None /\ epoch \in completed
        /\ AcksClaim(k, t.msg)
    BY <1>1, <1>3, <2>1 DEF Good
  <2>3. t.write # None
    BY <2>2, KernelConstants DEF Follows, Row
  <2>4. LandsRequest(k, t.msg, t.write)
    BY <1>3, <2>1, <2>2, <2>3 DEF Apply, LandsRequest
  <2> QED
    BY <1>2, <2>4
<1>4. CASE k \notin Requests /\ k.kind = "finish"
  <2>1. /\ t.write = None /\ k = Task("finish", 0) /\ t.epoch = epoch
        /\ \A r \in Rooms : rooms[r].made => <<epoch, r>> \in marked
    BY <1>1, <1>4 DEF Good
  <2>2. LandsFinish
    BY <1>4, <2>1 DEF Apply, LandsFinish
  <2> QED
    BY <1>2, <2>1, <2>2
<1>5. CASE k \notin Requests /\ k.kind # "finish"
  <2>1. Follows(k, t.msg, t.write) /\ t.epoch = epoch /\ k \in {Task("recover", k.room), Task("finish", 0)}
    BY <1>1, <1>5 DEF Good
  <2>2. k = Task("recover", k.room) /\ k.kind = "recover"
    BY <1>5, <2>1 DEF Task
  <2>3. t.write # None /\ k.room \in Rooms
    BY <2>1, KernelConstants DEF Follows, Row
  <2>4. t.msg = 0
    BY <2>1, <2>2 DEF Follows, MsgStep, Released
  <2>5. LandsRecovery(k.room, t.write)
    BY <1>5, <2>1, <2>2, <2>3, <2>4 DEF Apply, LandsRecovery
  <2> QED
    BY <1>2, <2>2, <2>5
<1> QED
  BY <1>3, <1>4, <1>5

\* The written rows, and what they keep of the messages.
LEMMA FollowsParts ==
  ASSUME IInv, NEW k, k.room \in Rooms, NEW m, NEW w, Follows(k, m, w)
  PROVE  /\ rooms[k.room] \in Row /\ w \in Row /\ w.made /\ m \in Nat
         /\ w.rev \in Nat /\ rooms[k.room].rev \in Nat /\ rooms[k.room].rev <= w.rev
         /\ w.member => rooms[k.room].member
         /\ DOMAIN rooms[k.room].msgs \subseteq DOMAIN w.msgs
         /\ \A i \in DOMAIN rooms[k.room].msgs :
              rooms[k.room].msgs[i] \notin {"queued", "cancelled"} => w.msgs[i] \notin {"queued", "cancelled"}
<1> DEFINE old == rooms[k.room]
           om == old.msgs
           nm == w.msgs
           kind == k.kind
<1>1. old \in Row /\ w \in Row
  BY DEF IInv, Data, Follows
<1>2. om \in Seq(MessageStates) /\ old.rev \in Nat /\ w.rev \in Nat
  BY <1>1 DEF Row
<1>3. MsgStep(kind, m, om, nm)
  BY DEF Follows
<1>4. w.made /\ (w.rev = old.rev \/ w.rev = old.rev + 1) /\ (w.member => old.member)
  BY <1>1 DEF Follows, Row
<1>5. old.rev <= w.rev
  BY <1>2, <1>4
<1> HIDE DEF om, nm, kind
<1>6. StepKeeps(kind, m, om, nm)
  BY <1>2, <1>3, StepFacts
<1>7. /\ m \in Nat /\ DOMAIN om \subseteq DOMAIN nm
      /\ \A i \in DOMAIN om :
           om[i] \notin {"queued", "cancelled"} => nm[i] \notin {"queued", "cancelled"}
  BY <1>6 DEF StepKeeps
<1> QED
  BY <1>1, <1>2, <1>4, <1>5, <1>7 DEF om, nm

LEMMA ApplyData ==
  ASSUME IInv, NEW t \in Pending, Apply(t)
  PROVE  Data'
<1>1. epoch \in Nat /\ epoch # 0 /\ epoch \in 1..epoch
  BY PendingGood DEF IInv, Data, Good
<1>2. ASSUME NEW k, NEW m, NEW w, LandsRequest(k, m, w)
      PROVE  rooms' \in [Rooms -> Row] /\ receipts' \in [Requests -> Receipt \cup {None}]
  <2>1. k \in Requests /\ k.room \in Rooms /\ Follows(k, m, w)
    BY <1>2, RequestParts DEF LandsRequest
  <2>2. w \in Row /\ m \in Nat /\ w.rev \in Nat
    BY <2>1, FollowsParts
  <2>3. w.rev = rooms[k.room].rev + 1 /\ rooms[k.room].rev \in Nat
    BY <2>1, FollowsParts, RequestParts DEF Follows
  <2> DEFINE receipt == [rev |-> w.rev, epoch |-> epoch, msg |-> m]
  <2>4. receipt \in Receipt
    BY <1>1, <2>2, <2>3 DEF Receipt
  <2> HIDE DEF receipt
  <2>5. receipts' = [receipts EXCEPT ![k] = receipt] /\ rooms' = [rooms EXCEPT ![k.room] = w]
    BY <1>2 DEF LandsRequest, receipt
  <2> QED
    BY <2>1, <2>2, <2>4, <2>5 DEF IInv, Data
<1>3. ASSUME NEW r \in Rooms, NEW w, LandsRecovery(r, w)
      PROVE  rooms' \in [Rooms -> Row] /\ marked' \subseteq (1..epoch) \X Rooms
  <2>1. Task("recover", r).room = r
    BY DEF Task
  <2>2. w \in Row
    BY <1>3, <2>1, FollowsParts DEF LandsRecovery
  <2> QED
    BY <1>1, <1>3, <2>2 DEF LandsRecovery, IInv, Data
<1>4. CASE LandsRequest(t.task, t.msg, t.write)
  BY <1>2, <1>4, ApplyParts DEF LandsRequest, IInv, Data
<1>5. CASE LandsRecovery(t.task.room, t.write)
  BY <1>3, <1>5, ApplyParts DEF LandsRecovery, IInv, Data
<1>6. CASE LandsFinish
  BY <1>1, <1>6, ApplyParts DEF LandsFinish, IInv, Data
<1> QED
  BY <1>4, <1>5, <1>6, ApplyParts

\* An accepted operation in terms of its Room's rows.
LEMMA AcceptedParts ==
  ASSUME IInv, NEW l \in Accepted
  PROVE  /\ l \in [kind : Relay \cup Control, room : Rooms, id : Nat]
         /\ l \in Requests /\ receipts[l] \in Receipt /\ rooms[l.room] \in Row
         /\ receipts[l].rev <= rooms[l.room].rev
         /\ receipts[l].epoch \in completed /\ receipts[l].epoch <= epoch
         /\ rooms[l.room].made
<1>1. l \in Requests /\ l \in [kind : Relay \cup Control, room : Rooms, id : Nat]
  BY RequestParts DEF Accepted
<1>2. receipts[l] \in Receipt /\ rooms[l.room] \in Row
  BY <1>1 DEF IInv, Data, Accepted
<1>3. receipts[l].rev <= rooms[l.room].rev /\ receipts[l].epoch \in completed
  BY DEF IInv, History, OneHistory
<1>4. receipts[l].epoch <= epoch
  <2>1. completed \subseteq 1..epoch /\ epoch \in Nat
    BY DEF IInv, Data
  <2>2. receipts[l].epoch \in 1..epoch
    BY <1>3, <2>1
  <2> QED
    BY <2>1, <2>2
<1>5. rooms[l.room].rev # 0
  BY <1>2, <1>3 DEF Receipt, Row
<1>6. rooms[l.room].made
  BY <1>1, <1>5 DEF IInv, History
<1> QED
  BY <1>1, <1>2, <1>3, <1>4, <1>6

\* The receipts and rows after an operation.
LEMMA RequestLands ==
  ASSUME IInv, NEW k, NEW m, NEW w, LandsRequest(k, m, w), UNCHANGED epoch
  PROVE  /\ k \in Accepted' /\ receipts'[k].rev = w.rev /\ receipts'[k].epoch = epoch /\ receipts'[k].msg = m
         /\ Accepted' \subseteq Accepted \cup {k} /\ k \notin Accepted
         /\ \A l \in Accepted : l \in Accepted' /\ receipts'[l] = receipts[l]
         /\ rooms'[k.room] = w /\ \A q \in Rooms \ {k.room} : rooms'[q] = rooms[q]
         /\ w.rev = rooms[k.room].rev + 1
<1>1. k \in Requests /\ k.room \in Rooms /\ receipts[k] = None /\ Follows(k, m, w)
  BY RequestParts DEF LandsRequest
<1>2. k \notin Accepted /\ \A l \in Accepted : l \in Requests /\ l # k /\ receipts[l] # None
  BY <1>1 DEF Accepted
<1>3. receipts \in [Requests -> Receipt \cup {None}] /\ rooms \in [Rooms -> Row]
  BY DEF IInv, Data
<1> DEFINE receipt == [rev |-> w.rev, epoch |-> epoch, msg |-> m]
<1>4. receipts' = [receipts EXCEPT ![k] = receipt] /\ rooms' = [rooms EXCEPT ![k.room] = w]
  BY DEF LandsRequest
<1> HIDE DEF receipt
<1>5. receipts'[k] = receipt /\ \A l \in Requests \ {k} : receipts'[l] = receipts[l]
  BY <1>1, <1>3, <1>4
<1>6. rooms'[k.room] = w /\ \A q \in Rooms \ {k.room} : rooms'[q] = rooms[q]
  BY <1>1, <1>3, <1>4
<1>7. Accepted' \subseteq Accepted \cup {k} /\ \A l \in Accepted : l \in Accepted' /\ receipts'[l] = receipts[l]
  BY <1>2, <1>5 DEF Accepted
<1>8. k \in Accepted' /\ receipts'[k].rev = w.rev /\ receipts'[k].epoch = epoch /\ receipts'[k].msg = m
  <2>1. w.rev \in Nat /\ m \in Nat /\ epoch \in Nat
    BY <1>1, FollowsParts DEF IInv, Data
  <2>2. receipt # None
    BY <2>1, KernelConstants DEF receipt
  <2> QED
    BY <1>1, <1>5, <2>2 DEF receipt, Accepted
<1>9. w.rev = rooms[k.room].rev + 1
  BY <1>1, RequestParts DEF Follows
<1> QED
  BY <1>2, <1>6, <1>7, <1>8, <1>9

\* What an operation leaves of the messages of its Room.
LEMMA LandsKeeps ==
  ASSUME IInv, NEW k, k.room \in Rooms, NEW m, NEW w, Follows(k, m, w)
  PROVE  StepKeeps(k.kind, m, rooms[k.room].msgs, w.msgs)
<1> DEFINE om == rooms[k.room].msgs
           nm == w.msgs
           kind == k.kind
<1>1. om \in Seq(MessageStates) /\ MsgStep(kind, m, om, nm)
  BY DEF IInv, Data, Follows, Row
<1> SUFFICES StepKeeps(kind, m, om, nm)
  OBVIOUS
<1> HIDE DEF om, nm, kind
<1> QED
  BY <1>1, StepFacts

LEMMA RequestHistory ==
  ASSUME IInv, NEW k, NEW m, NEW w, LandsRequest(k, m, w), UNCHANGED epoch
  PROVE  History'
<1> DEFINE r == k.room
           old == rooms[r]
           om == old.msgs
           nm == w.msgs
<1>1. k \in Requests /\ r \in Rooms /\ epoch \in completed /\ Follows(k, m, w)
  BY RequestParts DEF LandsRequest
<1>2. /\ k \in Accepted' /\ receipts'[k].rev = w.rev /\ receipts'[k].epoch = epoch /\ receipts'[k].msg = m
      /\ Accepted' \subseteq Accepted \cup {k} /\ k \notin Accepted
      /\ \A l \in Accepted : l \in Accepted' /\ receipts'[l] = receipts[l]
      /\ rooms'[r] = w /\ \A q \in Rooms \ {r} : rooms'[q] = rooms[q]
      /\ w.rev = old.rev + 1
  BY RequestLands
<1>3. /\ w.made /\ m \in Nat /\ w.rev \in Nat /\ old.rev \in Nat /\ (w.member => old.member)
      /\ DOMAIN om \subseteq DOMAIN nm
      /\ \A i \in DOMAIN om :
           om[i] \notin {"queued", "cancelled"} => nm[i] \notin {"queued", "cancelled"}
  BY <1>1, FollowsParts
<1>4. StepKeeps(k.kind, m, om, nm)
  BY <1>1, LandsKeeps
<1>5. /\ w.member = (old.member /\ k.kind # "remove") /\ (k.kind # "create" <=> old.made)
      /\ k.kind \in Relay \cup {"remove"} => old.member
  BY <1>1 DEF Follows
<1>6. epoch' = epoch /\ completed' = completed /\ marked' = marked
  BY DEF LandsRequest
<1>7. \A l \in Accepted : /\ l.room \in Rooms /\ receipts[l].rev \in Nat /\ rooms[l.room].rev \in Nat
                          /\ receipts[l].rev <= rooms[l.room].rev /\ rooms[l.room].made
                          /\ receipts[l].epoch \in completed /\ receipts[l].epoch <= epoch
                          /\ l.kind \in Relay \cup Control
  BY AcceptedParts DEF Receipt, Row
<1> HIDE DEF om, nm, old, r
<1>8. ASSUME NEW q \in Rooms, ~rooms'[q].made
      PROVE  rooms'[q].rev = 0
  BY <1>2, <1>3, <1>8 DEF IInv, History
<1>9. ASSUME NEW l \in Accepted'
      PROVE  receipts'[l].rev <= rooms'[l.room].rev
  <2>1. CASE l = k
    BY <1>2, <1>3, <2>1 DEF r
  <2>2. CASE l \in Accepted /\ l.room = r
    BY <1>2, <1>3, <1>7, <2>2 DEF old
  <2>3. CASE l \in Accepted /\ l.room # r
    BY <1>2, <1>7, <2>3
  <2> QED
    BY <1>2, <2>1, <2>2, <2>3
<1>10. Claims' \subseteq Claims \cup {k} /\ (k \in Claims' => k.kind = "claim" /\ m # 0)
  BY <1>2 DEF Claims
<1>11. ASSUME NEW l \in Claims'
       PROVE  /\ receipts'[l].msg \in DOMAIN rooms'[l.room].msgs /\ StateOf(l)' \notin {"queued", "cancelled"}
              /\ StateOf(l)' = "delivering" => receipts'[l].epoch = epoch
  <2>1. CASE l = k
    <3>1. m \in DOMAIN om /\ nm[m] = "delivering" /\ m \in DOMAIN nm
      BY <1>3, <1>4, <1>10, <2>1 DEF StepKeeps
    <3>2. receipts'[l].msg = m /\ receipts'[l].epoch = epoch /\ rooms'[l.room].msgs = nm
      BY <1>2, <2>1 DEF Claims, r, nm
    <3> QED
      BY <3>1, <3>2 DEF StateOf
  <2>2. ASSUME l \in Claims
        PROVE  /\ receipts'[l].msg = receipts[l].msg /\ receipts'[l].epoch = receipts[l].epoch
               /\ receipts[l].msg \in DOMAIN rooms[l.room].msgs /\ StateOf(l) \notin {"queued", "cancelled"}
               /\ StateOf(l) = "delivering" => receipts[l].epoch = epoch
               /\ l.room \in Rooms
    BY <1>1, <1>2, <1>7, <2>2 DEF IInv, History, Claims
  <2>3. CASE l \in Claims /\ l.room = r
    <3> DEFINE i == receipts[l].msg
    <3>1. i \in DOMAIN om /\ om[i] \notin {"queued", "cancelled"} /\ (om[i] = "delivering" => receipts[l].epoch = epoch)
      BY <2>2, <2>3 DEF StateOf, om, old
    <3>2. rooms'[l.room].msgs = nm /\ receipts'[l].msg = i /\ receipts'[l].epoch = receipts[l].epoch
      BY <1>2, <2>2, <2>3 DEF nm
    <3> HIDE DEF i
    <3>3. i \in DOMAIN nm /\ nm[i] \notin {"queued", "cancelled"}
      BY <1>3, <3>1
    <3>4. nm[i] = "delivering" => om[i] = "delivering"
      BY <1>4, <3>1, <3>3 DEF StepKeeps
    <3> QED
      BY <3>1, <3>2, <3>3, <3>4 DEF StateOf
  <2>4. CASE l \in Claims /\ l.room # r
    <3>1. rooms'[l.room] = rooms[l.room]
      BY <1>2, <2>2, <2>4
    <3> QED
      BY <2>2, <2>4, <3>1 DEF StateOf
  <2> QED
    BY <1>10, <2>1, <2>3, <2>4
<1>12. ASSUME NEW l \in Accepted', l.kind = "remove"
       PROVE  ~rooms'[l.room].member
  <2>1. CASE l = k
    BY <1>2, <1>5, <1>12, <2>1 DEF r
  <2>2. CASE l \in Accepted
    BY <1>2, <1>3, <1>7, <1>12, <2>2 DEF IInv, History, old
  <2> QED
    BY <1>2, <2>1, <2>2
<1>13. OneHistory'
  <2>1. ASSUME NEW l \in Accepted, l.room = r
        PROVE  receipts[l].rev < w.rev /\ receipts[l].epoch <= epoch /\ receipts[l].rev \in Nat
    BY <1>2, <1>3, <1>7, <2>1 DEF old
  <2>2. ASSUME NEW a \in Accepted', NEW b \in Accepted', a.room = b.room, a # b
        PROVE  /\ receipts'[a].rev # receipts'[b].rev
               /\ receipts'[a].rev < receipts'[b].rev => receipts'[a].epoch <= receipts'[b].epoch
    <3>1. CASE a \in Accepted /\ b \in Accepted
      BY <1>2, <2>2, <3>1 DEF IInv, History, OneHistory
    <3>2. CASE a = k /\ b \in Accepted
      BY <1>2, <1>3, <2>1, <2>2, <3>2 DEF r
    <3>3. CASE a \in Accepted /\ b = k
      BY <1>2, <1>3, <2>1, <2>2, <3>3 DEF r
    <3> QED
      BY <1>2, <2>2, <3>1, <3>2, <3>3
  <2>3. ASSUME NEW a \in Accepted'
        PROVE  receipts'[a].epoch \in completed'
    BY <1>1, <1>2, <1>6, <1>7
  <2> QED
    BY <2>2, <2>3 DEF OneHistory
<1>14. RemovalEnds'
  <2> SUFFICES ASSUME NEW d \in Accepted', d.kind = "remove"
               PROVE  /\ \A l \in Accepted' : l.room = d.room /\ l.kind \in Relay => receipts'[l].rev < receipts'[d].rev
                      /\ \A i \in DOMAIN rooms'[d.room].msgs : rooms'[d.room].msgs[i] \notin {"queued", "delivering"}
    BY DEF RemovalEnds
  <2>1. CASE d = k
    <3>1. \A i \in DOMAIN nm : nm[i] \notin {"queued", "delivering"}
      BY <1>4, <2>1 DEF StepKeeps
    <3>2. rooms'[d.room].msgs = nm
      BY <1>2, <2>1 DEF r, nm
    <3>3. ASSUME NEW l \in Accepted', l.room = d.room, l.kind \in Relay
          PROVE  receipts'[l].rev < receipts'[d].rev
      <4>1. l \in Accepted
        BY <1>2, <2>1, <3>3 DEF Relay
      <4> QED
        BY <1>2, <1>3, <1>7, <2>1, <3>3, <4>1 DEF r, old
    <3> QED
      BY <3>1, <3>2, <3>3
  <2>2. CASE d \in Accepted
    <3>1. d.room # r
      <4>1. ~rooms[d.room].member /\ rooms[d.room].made
        BY <1>7, <2>2 DEF IInv, History
      <4> QED
        BY <1>1, <1>5, <4>1, RequestParts DEF old, Control
    <3>2. rooms'[d.room] = rooms[d.room]
      BY <1>2, <1>7, <2>2, <3>1
    <3>3. \A l \in Accepted' : l.room = d.room => l \in Accepted /\ receipts'[l] = receipts[l]
      BY <1>2, <3>1 DEF r
    <3> QED
      BY <1>2, <2>2, <3>2, <3>3 DEF IInv, History, RemovalEnds
  <2> QED
    BY <1>2, <2>1, <2>2
<1>15. ASSUME NEW q \in Rooms, NEW i \in DOMAIN rooms'[q].msgs
       PROVE  \E l \in Accepted' : l.kind = "send" /\ l.room = q /\ receipts'[l].msg = i
  <2>1. ASSUME i \in DOMAIN rooms[q].msgs
        PROVE  \E l \in Accepted' : l.kind = "send" /\ l.room = q /\ receipts'[l].msg = i
    <3>1. PICK l \in Accepted : l.kind = "send" /\ l.room = q /\ receipts[l].msg = i
      BY <2>1 DEF IInv, History
    <3> QED
      BY <1>2, <3>1
  <2>2. CASE q = r
    <3>1. i \in DOMAIN nm
      BY <1>2, <2>2 DEF nm
    <3>2. i \in DOMAIN om \/ (k.kind = "send" /\ i = m)
      BY <1>4, <3>1 DEF StepKeeps
    <3> QED
      BY <1>2, <2>1, <2>2, <3>2 DEF om, old, r
  <2>3. CASE q # r
    BY <1>2, <2>1, <2>3
  <2> QED
    BY <2>2, <2>3
<1> QED
  BY <1>6, <1>8, <1>9, <1>11, <1>12, <1>13, <1>14, <1>15 DEF History

LEMMA RecoveryHistory ==
  ASSUME IInv, NEW r \in Rooms, NEW w, LandsRecovery(r, w), UNCHANGED epoch
  PROVE  History'
<1> DEFINE k == Task("recover", r)
           old == rooms[r]
           om == old.msgs
           nm == w.msgs
<1>1. Follows(k, 0, w) /\ k.room = r /\ k.kind = "recover"
  BY DEF LandsRecovery, Task
<1> HIDE DEF k
<1>2. /\ w.made /\ w.rev \in Nat /\ old.rev \in Nat /\ old.rev <= w.rev /\ (w.member => old.member)
      /\ DOMAIN om \subseteq DOMAIN nm
      /\ \A i \in DOMAIN om :
           om[i] \notin {"queued", "cancelled"} => nm[i] \notin {"queued", "cancelled"}
  BY <1>1, FollowsParts
<1>3. StepKeeps(k.kind, 0, om, nm)
  BY <1>1, LandsKeeps
<1>4. \A i \in DOMAIN nm : i \in DOMAIN om /\ nm[i] # "delivering" /\ (nm[i] = "queued" => om[i] = "queued")
  BY <1>1, <1>3 DEF StepKeeps
<1>5. rooms \in [Rooms -> Row] /\ rooms' = [rooms EXCEPT ![r] = w] /\ receipts' = receipts
  BY DEF LandsRecovery, IInv, Data
<1>6. rooms'[r] = w /\ \A q \in Rooms \ {r} : rooms'[q] = rooms[q]
  BY <1>5
<1>7. Accepted' = Accepted /\ Claims' = Claims
  BY <1>5 DEF Accepted, Claims
<1>8. epoch' = epoch /\ completed' = completed /\ marked' = marked \cup {<<epoch, r>>}
  BY DEF LandsRecovery
<1>9. \A l \in Accepted : /\ l.room \in Rooms /\ receipts[l].rev \in Nat /\ rooms[l.room].rev \in Nat
                          /\ receipts[l].rev <= rooms[l.room].rev
  BY AcceptedParts DEF Receipt, Row
<1> HIDE DEF om, nm, old
<1>10. ASSUME NEW q \in Rooms, ~rooms'[q].made
       PROVE  rooms'[q].rev = 0
  BY <1>2, <1>6, <1>10 DEF IInv, History
<1>11. ASSUME NEW l \in Accepted
       PROVE  /\ receipts[l].rev <= rooms'[l.room].rev
              /\ l.kind = "remove" => ~rooms'[l.room].member
  <2>1. CASE l.room = r
    BY <1>2, <1>6, <1>9, <2>1 DEF old, IInv, History
  <2>2. CASE l.room # r
    BY <1>6, <1>9, <2>2 DEF IInv, History
  <2> QED
    BY <2>1, <2>2
<1>12. ASSUME NEW l \in Claims
       PROVE  /\ receipts[l].msg \in DOMAIN rooms'[l.room].msgs /\ StateOf(l)' \notin {"queued", "cancelled"}
              /\ (epoch \in completed \/ <<epoch, l.room>> \in marked') /\ StateOf(l)' = "delivering"
                   => receipts[l].epoch = epoch
  <2>1. receipts[l].msg \in DOMAIN rooms[l.room].msgs /\ StateOf(l) \notin {"queued", "cancelled"} /\ l.room \in Rooms
    BY <1>9 DEF IInv, History, Claims
  <2>2. CASE l.room = r
    <3> DEFINE i == receipts[l].msg
    <3>1. i \in DOMAIN om /\ om[i] \notin {"queued", "cancelled"}
      BY <2>1, <2>2 DEF StateOf, om, old
    <3>2. rooms'[l.room].msgs = nm /\ receipts' = receipts
      BY <1>5, <1>6, <2>2 DEF nm
    <3> HIDE DEF i
    <3>3. i \in DOMAIN nm /\ nm[i] \notin {"queued", "cancelled"} /\ nm[i] # "delivering"
      BY <1>2, <1>4, <3>1
    <3> QED
      BY <3>2, <3>3 DEF StateOf, i
  <2>3. CASE l.room # r
    <3>1. rooms'[l.room] = rooms[l.room] /\ StateOf(l)' = StateOf(l)
      BY <1>5, <1>6, <2>1, <2>3 DEF StateOf
    <3>2. <<epoch, l.room>> \in marked' => <<epoch, l.room>> \in marked
      BY <1>8, <2>3
    <3> QED
      BY <2>1, <3>1, <3>2 DEF IInv, History
  <2> QED
    BY <2>2, <2>3
<1>13. OneHistory'
  <2>1. OneHistory
    BY DEF IInv, History
  <2> QED
    BY <1>5, <1>7, <1>8, <2>1 DEF OneHistory
<1>14. RemovalEnds'
  <2> SUFFICES ASSUME NEW d \in Accepted, d.kind = "remove"
               PROVE  \A i \in DOMAIN rooms'[d.room].msgs : rooms'[d.room].msgs[i] \notin {"queued", "delivering"}
    BY <1>5, <1>7 DEF RemovalEnds, IInv, History
  <2>1. \A i \in DOMAIN rooms[d.room].msgs : rooms[d.room].msgs[i] \notin {"queued", "delivering"}
    BY DEF RemovalEnds, IInv, History
  <2>2. CASE d.room = r
    BY <1>4, <1>6, <2>1, <2>2 DEF om, nm, old
  <2>3. CASE d.room # r
    BY <1>6, <1>9, <2>1, <2>3
  <2> QED
    BY <2>2, <2>3
<1>15. ASSUME NEW q \in Rooms, NEW i \in DOMAIN rooms'[q].msgs
       PROVE  \E l \in Accepted : l.kind = "send" /\ l.room = q /\ receipts[l].msg = i
  <2>1. i \in DOMAIN rooms[q].msgs
    BY <1>4, <1>6 DEF om, nm, old
  <2> QED
    BY <2>1 DEF IInv, History
<1>16. \A l \in Accepted' : receipts'[l].rev <= rooms'[l.room].rev /\ (l.kind = "remove" => ~rooms'[l.room].member)
  BY <1>5, <1>7, <1>11
<1>17. \A q \in Rooms : \A i \in DOMAIN rooms'[q].msgs :
         \E l \in Accepted' : l.kind = "send" /\ l.room = q /\ receipts'[l].msg = i
  BY <1>5, <1>7, <1>15
<1>18. \A l \in Claims' : /\ receipts'[l].msg \in DOMAIN rooms'[l.room].msgs
                          /\ StateOf(l)' \notin {"queued", "cancelled"}
                          /\ (epoch' \in completed' \/ <<epoch', l.room>> \in marked') /\ StateOf(l)' = "delivering"
                               => receipts'[l].epoch = epoch'
  BY <1>5, <1>7, <1>8, <1>12
<1> QED
  BY <1>10, <1>13, <1>14, <1>16, <1>17, <1>18 DEF History

LEMMA FinishHistory ==
  ASSUME IInv, LandsFinish, UNCHANGED epoch
  PROVE  History'
<1>1. /\ rooms' = rooms /\ receipts' = receipts /\ marked' = marked /\ epoch' = epoch
      /\ completed' = completed \cup {epoch}
      /\ \A r \in Rooms : rooms[r].made => <<epoch, r>> \in marked
  BY DEF LandsFinish
<1>2. Accepted' = Accepted /\ Claims' = Claims /\ \A l : StateOf(l)' = StateOf(l)
  BY <1>1 DEF Accepted, Claims, StateOf
<1>3. OneHistory' /\ RemovalEnds'
  BY <1>1, <1>2 DEF OneHistory, RemovalEnds, IInv, History
<1>4. \A l \in Claims : <<epoch, l.room>> \in marked
  BY <1>1, AcceptedParts DEF Claims
<1>5. \A l \in Claims : StateOf(l) = "delivering" => receipts[l].epoch = epoch
  BY <1>4 DEF IInv, History
<1> QED
  BY <1>1, <1>2, <1>3, <1>5 DEF IInv, History

LEMMA ApplyHistory ==
  ASSUME IInv, NEW t \in Pending, Apply(t)
  PROVE  History'
<1>1. CASE LandsRequest(t.task, t.msg, t.write)
  BY <1>1, ApplyParts, RequestHistory
<1>2. CASE LandsRecovery(t.task.room, t.write)
  BY <1>2, ApplyParts, RecoveryHistory DEF LandsRecovery
<1>3. CASE LandsFinish
  BY <1>3, ApplyParts, FinishHistory
<1> QED
  BY <1>1, <1>2, <1>3, ApplyParts

-----------------------------------------------------------------------------
(* Steps that leave the database alone *)

\* What a step may leave to the server to settle is what was under way before.
LEMMA PendingShrinks ==
  ASSUME IInv, NEW s \in Stores, NEW x, x = None \/ x.staged = FALSE,
         tx' = [tx EXCEPT ![s] = x], orphans' \subseteq Pending
  PROVE  Pending' \subseteq Pending
<1>1. tx'[s] = x /\ \A q \in Stores \ {s} : tx'[q] = tx[q]
  BY DEF IInv, Processes
<1>2. ASSUME NEW q \in Stores, tx'[q] # None, tx'[q].staged
      PROVE  tx'[q] \in Pending
  BY <1>1, <1>2 DEF Pending
<1> QED
  BY <1>2 DEF Pending

LEMMA Quiet ==
  ASSUME IInv, UNCHANGED database, lease' \in Stores \cup {None}, Pending' \subseteq Pending,
         \A k \in absent' \ absent : receipts[k] = None /\ \A t \in Pending : t.task # k
  PROVE  Data' /\ History' /\ Commits' /\ AbsentHolds'
<1>1. /\ epoch' = epoch /\ owner' = owner /\ rooms' = rooms /\ receipts' = receipts
      /\ marked' = marked /\ completed' = completed
  BY DEF database
<1>2. Data'
  BY <1>1 DEF IInv, Data
<1>3. History'
  <2>1. Accepted' = Accepted /\ Claims' = Claims /\ \A l : StateOf(l)' = StateOf(l)
    BY <1>1 DEF Accepted, Claims, StateOf
  <2>2. OneHistory' /\ RemovalEnds'
    BY <1>1, <2>1 DEF OneHistory, RemovalEnds, IInv, History
  <2> QED
    BY <1>1, <2>1, <2>2 DEF IInv, History
<1>4. ASSUME NEW t \in Pending'
      PROVE  Good(t)'
  <2>1. Good(t) /\ t.task \notin absent' /\ Claims' = Claims
    BY <1>1, PendingGood DEF Good, Claims, Accepted
  <2> QED
    BY <1>1, <2>1 DEF Good, Follows, AcksClaim
<1>5. Locked'
  BY DEF IInv, Commits, Locked
<1>6. AbsentHolds'
  BY <1>1 DEF IInv, AbsentHolds
<1> QED
  BY <1>2, <1>3, <1>4, <1>5, <1>6 DEF Commits

\* A process takes a step: its phase and its transaction become y and x.
LEMMA ProcessSteps ==
  ASSUME IInv, NEW s \in Stores, NEW x, NEW y \in Phases,
         tx' = [tx EXCEPT ![s] = x], proc' = [proc EXCEPT ![s] = y],
         UNCHANGED <<epoch, owner, mine>>,
         \A e \in completed : e \in completed',
         \A r \in Rooms : rooms[r].made => rooms'[r].made,
         \A q \in Stores \ {s} : tx[q] # None =>
           IF tx[q].staged THEN tx[q] \notin orphans' ELSE owner = q => tx[q].task \notin absent',
         y = "serving" => mine[s] \in completed',
         x # None => Runs(s)',
         lost' \subseteq Stores,
         todo' \in [Stores -> SUBSET Rooms], \A q \in Stores : \A r \in todo'[q] : rooms'[r].made
  PROVE  Processes'
<1>1. tx' = [q \in Stores |-> tx'[q]] /\ tx'[s] = x /\ \A q \in Stores \ {s} : tx'[q] = tx[q]
  BY DEF IInv, Processes
<1>2. /\ proc' \in [Stores -> Phases] /\ proc'[s] = y
      /\ \A q \in Stores \ {s} : proc'[q] = proc[q]
  BY DEF IInv, Processes, Phases
<1>3. epoch' = epoch /\ owner' = owner /\ mine' = mine
  OBVIOUS
<1>4. ASSUME NEW q \in Stores, tx'[q] # None
      PROVE  Runs(q)'
  <2>1. CASE q = s
    BY <1>1, <1>4, <2>1
  <2>2. CASE q # s
    <3>1. Runs(q) /\ tx'[q] = tx[q] /\ proc'[q] = proc[q] /\ tx[q] # None
      BY <1>1, <1>2, <1>4, <2>2 DEF IInv, Processes
    <3> QED
      BY <1>3, <2>2, <3>1 DEF Runs
  <2> QED
    BY <2>1, <2>2
<1>5. \A q \in Stores : proc'[q] = "serving" => mine'[q] \in completed'
  BY <1>2, <1>3 DEF IInv, Processes
<1>6. owner' # None => mine'[owner'] = epoch' /\ epoch' # 0
  BY <1>3 DEF IInv, Processes
<1> QED
  BY <1>1, <1>2, <1>3, <1>4, <1>5, <1>6 DEF IInv, Processes, Phases

\* The requests in G go on as those in N, or end.
LEMMA HandlersStep ==
  ASSUME IInv, NEW G, NEW N, handlers' = (handlers \ G) \cup N,
         N \subseteq Request,
         \A n \in N : \A h \in handlers \ G : h.at = n.at => h.key # n.key,
         \A n, o \in N : n.at = o.at /\ n.key = o.key => n = o,
         \A n \in N : /\ n.pc = "release" => n.key \in Claims'
                      /\ n.key.kind = "ack" => ClaimOf(n.key) \in released,
         \A h \in handlers' : proc'[h.at] \in {"serving", "poisoned"},
         \A k \in Claims : k \in Claims',
         \A k \in released : k \in released', released' \subseteq Claims', absent' \subseteq Requests
  PROVE  Serves'
<1>1. \A h \in handlers' : h \in N \/ (h \in handlers /\ h \notin G)
  OBVIOUS
<1>2. handlers' \subseteq Request
  BY DEF IInv, Serves, Request
<1>3. \A g, h \in handlers' : g.at = h.at /\ g.key = h.key => g = h
  BY <1>1 DEF IInv, Serves
<1>4. \A h \in handlers' : /\ h.pc = "release" => h.key \in Claims'
                           /\ h.key.kind = "ack" => ClaimOf(h.key) \in released'
  BY <1>1 DEF IInv, Serves
<1> QED
  BY <1>2, <1>3, <1>4 DEF Serves, Request

\* Nothing but requests, or the lease, changes.
LEMMA Idle ==
  ASSUME IInv, UNCHANGED <<database, processes, tx, lost>>, lease' \in Stores \cup {None},
         orphans' \subseteq orphans, absent' \subseteq absent
  PROVE  Data' /\ History' /\ Commits' /\ AbsentHolds' /\ Processes'
<1>1. /\ epoch' = epoch /\ owner' = owner /\ rooms' = rooms /\ receipts' = receipts
      /\ marked' = marked /\ completed' = completed /\ proc' = proc /\ mine' = mine
      /\ todo' = todo /\ tx' = tx /\ lost' = lost
  BY DEF database, processes
<1>2. Pending' \subseteq Pending
  BY <1>1 DEF Pending
<1>3. Data' /\ History' /\ Commits' /\ AbsentHolds'
  <2>1. UNCHANGED database /\ absent' \ absent = {}
    OBVIOUS
  <2> QED
    BY <1>2, <2>1, Quiet
<1>4. ASSUME NEW s \in Stores, tx[s] # None
      PROVE  Runs(s)'
  <2>1. Runs(s)
    BY <1>4 DEF IInv, Processes
  <2> QED
    BY <1>1, <2>1 DEF Runs
<1>5. Processes'
  BY <1>1, <1>4 DEF IInv, Processes
<1> QED
  BY <1>3, <1>5

\* Requests end, or stay as they are.
LEMMA HandlersEnd ==
  ASSUME IInv, handlers' \subseteq handlers, \A h \in handlers' : proc'[h.at] \in {"serving", "poisoned"},
         UNCHANGED <<receipts, released>>, absent' \subseteq Requests
  PROVE  Serves'
<1>1. Claims' = Claims /\ released' = released
  BY DEF Accepted, Claims
<1>2. released' \subseteq Claims'
  BY <1>1 DEF IInv, Serves
<1> DEFINE G == handlers \ handlers'
           N == {}
<1>3. handlers' = (handlers \ G) \cup N /\ N \subseteq Request /\ \A n \in N : FALSE
  OBVIOUS
<1> HIDE DEF G, N
<1> QED
  BY <1>1, <1>2, <1>3, HandlersStep

\* The request h goes on as g.
LEMMA HandlerMoves ==
  ASSUME IInv, NEW h \in handlers, NEW g \in Request, g.at = h.at, g.key = h.key,
         g.pc = "release" => g.key \in Claims, handlers' = Becomes(h, g),
         UNCHANGED <<receipts, released, proc>>, absent' \subseteq Requests
  PROVE  Serves'
<1>1. Claims' = Claims /\ released' = released
  BY DEF Accepted, Claims
<1>2. handlers' = (handlers \ {h}) \cup {g}
  BY DEF Becomes, Ended
<1>3. released' \subseteq Claims'
  BY <1>1 DEF IInv, Serves
<1>4. \A f \in handlers \ {h} : f.at = g.at => f.key # g.key
  BY DEF IInv, Serves
<1>5. g.key.kind = "ack" => ClaimOf(g.key) \in released
  BY DEF IInv, Serves
<1>6. \A f \in handlers' : proc'[f.at] \in {"serving", "poisoned"}
  BY <1>2 DEF IInv, Serves
<1> DEFINE G == {h}
           N == {g}
<1>7. /\ handlers' = (handlers \ G) \cup N /\ N \subseteq Request
      /\ \A n \in N : \A f \in handlers \ G : f.at = n.at => f.key # n.key
      /\ \A n, o \in N : n.at = o.at /\ n.key = o.key => n = o
      /\ \A n \in N : /\ n.pc = "release" => n.key \in Claims'
                      /\ n.key.kind = "ack" => ClaimOf(n.key) \in released
  BY <1>1, <1>2, <1>4, <1>5
<1> HIDE DEF G, N
<1> QED
  BY <1>1, <1>3, <1>6, <1>7, HandlersStep

\* A process changes its phase with no transaction under way.
LEMMA PhaseChanges ==
  ASSUME IInv, NEW s \in Stores, NEW y \in Phases, tx[s] = None, proc' = [proc EXCEPT ![s] = y],
         UNCHANGED <<database, mine, tx, lost, orphans, absent>>, lease' \in Stores \cup {None},
         y = "serving" => mine[s] \in completed,
         todo' \in [Stores -> SUBSET Rooms], \A q \in Stores : \A r \in todo'[q] : rooms[r].made
  PROVE  Data' /\ History' /\ Commits' /\ AbsentHolds' /\ Processes'
<1>1. /\ epoch' = epoch /\ owner' = owner /\ rooms' = rooms /\ receipts' = receipts
      /\ marked' = marked /\ completed' = completed
  BY DEF database
<1>2. Data' /\ History' /\ Commits' /\ AbsentHolds'
  <2>1. Pending' \subseteq Pending
    BY DEF Pending
  <2>2. UNCHANGED database /\ absent' \ absent = {}
    OBVIOUS
  <2> QED
    BY <2>1, <2>2, Quiet
<1>3. tx' = [tx EXCEPT ![s] = None]
  BY DEF IInv, Processes
<1>4. ASSUME NEW q \in Stores \ {s}, tx[q] # None
      PROVE  IF tx[q].staged THEN tx[q] \notin orphans' ELSE owner = q => tx[q].task \notin absent'
  BY <1>4 DEF IInv, Processes, Runs
<1>5. lost' \subseteq Stores
  BY DEF IInv, Processes
<1> DEFINE x == None
<1>6. tx' = [tx EXCEPT ![s] = x] /\ ~(x # None)
  BY <1>3
<1> HIDE DEF x
<1>7. Processes'
  BY <1>1, <1>4, <1>5, <1>6, ProcessSteps
<1> QED
  BY <1>2, <1>7

\* A process that is only opening has no transaction, and no request.
LEMMA Opening ==
  ASSUME IInv, NEW s \in Stores, proc[s] \in {"closed", "leased", "recovering"}
  PROVE  tx[s] = None /\ \A h \in handlers : h.at # s
BY DEF IInv, Processes, Runs, Serves

LEMMA OpenLeaseKeeps ==
  ASSUME IInv, NEW s \in Stores, OpenLease(s)
  PROVE  IInv'
<1>1. /\ proc[s] = "closed" /\ lease' = s /\ proc' = [proc EXCEPT ![s] = "leased"]
      /\ UNCHANGED <<database, mine, todo, tx, lost, orphans, handlers, clients>>
  BY DEF OpenLease
<1>2. tx[s] = None /\ \A h \in handlers : h.at # s
  BY <1>1, Opening
<1>3. Data' /\ History' /\ Commits' /\ AbsentHolds' /\ Processes'
  <2>1. "leased" \in Phases /\ absent' = absent
    BY <1>1 DEF Phases, clients
  <2>2. todo' \in [Stores -> SUBSET Rooms] /\ \A q \in Stores : \A r \in todo'[q] : rooms[r].made
    BY <1>1 DEF IInv, Processes
  <2> QED
    BY <1>1, <1>2, <2>1, <2>2, PhaseChanges
<1>4. Serves'
  <2>1. \A h \in handlers' : proc'[h.at] \in {"serving", "poisoned"}
    BY <1>1, <1>2 DEF IInv, Serves, Processes, Request
  <2>2. handlers' \subseteq handlers /\ UNCHANGED <<receipts, released>> /\ absent' \subseteq Requests
    BY <1>1 DEF IInv, Serves, database, clients
  <2> QED
    BY <2>1, <2>2, HandlersEnd
<1> QED
  BY <1>3, <1>4 DEF IInv

LEMMA RecoverPageKeeps ==
  ASSUME IInv, NEW s \in Stores, RecoverPage(s)
  PROVE  IInv'
<1> DEFINE y == IF ~Fence(s) THEN "dead" ELSE IF mine[s] \in completed THEN "serving" ELSE "reaping"
<1>1. /\ proc[s] = "recovering" /\ proc' = [proc EXCEPT ![s] = y]
      /\ UNCHANGED <<database, mine, lease, tx, lost, orphans, handlers, clients>>
  BY DEF RecoverPage, Lapsed, IInv, Processes
<1>2. tx[s] = None /\ \A h \in handlers : h.at # s
  BY <1>1, Opening
<1>3. todo' \in [Stores -> SUBSET Rooms] /\ \A q \in Stores : \A r \in todo'[q] : rooms[r].made
  <2> DEFINE z == IF proc'[s] = "reaping" THEN {r \in Rooms : rooms[r].made} ELSE todo[s]
  <2>1. todo' = [todo EXCEPT ![s] = z]
    BY DEF RecoverPage, IInv, Processes
  <2>2. z \in SUBSET Rooms /\ \A r \in z : rooms[r].made
    BY DEF IInv, Processes
  <2> HIDE DEF z
  <2> QED
    BY <2>1, <2>2 DEF IInv, Processes
<1>4. y \in Phases /\ (y = "serving" => mine[s] \in completed)
  BY DEF Phases
<1> HIDE DEF y
<1>5. Data' /\ History' /\ Commits' /\ AbsentHolds' /\ Processes'
  <2>1. absent' = absent /\ lease' \in Stores \cup {None}
    BY <1>1 DEF clients, IInv, Data
  <2> QED
    BY <1>1, <1>2, <1>3, <1>4, <2>1, PhaseChanges
<1>6. Serves'
  <2>1. \A h \in handlers' : proc'[h.at] \in {"serving", "poisoned"}
    BY <1>1, <1>2 DEF IInv, Serves, Processes, Request
  <2>2. handlers' \subseteq handlers /\ UNCHANGED <<receipts, released>> /\ absent' \subseteq Requests
    BY <1>1 DEF IInv, Serves, database, clients
  <2> QED
    BY <2>1, <2>2, HandlersEnd
<1> QED
  BY <1>5, <1>6 DEF IInv

\* A failed fence at a process with no transaction: the request is refused.
LEMMA FencedKeeps ==
  ASSUME IInv, NEW h \in handlers, tx[h.at] = None, proc' = Lapsed(h.at), handlers' = Ended(h),
         UNCHANGED <<database, lease, mine, todo, tx, lost, orphans, clients>>
  PROVE  IInv'
<1>1. h.at \in Stores /\ proc[h.at] \in {"serving", "poisoned"}
  BY DEF IInv, Serves, Request
<1>2. proc' = [proc EXCEPT ![h.at] = "poisoned"]
  BY <1>1 DEF Lapsed, IInv, Processes
<1>3. Data' /\ History' /\ Commits' /\ AbsentHolds' /\ Processes'
  <2>1. /\ "poisoned" \in Phases /\ absent' = absent /\ lease' \in Stores \cup {None}
        /\ UNCHANGED <<database, mine, tx, lost, orphans>>
    BY DEF Phases, clients, IInv, Data
  <2>2. todo' \in [Stores -> SUBSET Rooms] /\ \A q \in Stores : \A r \in todo'[q] : rooms[r].made
    BY DEF IInv, Processes
  <2> QED
    BY <1>1, <1>2, <2>1, <2>2, PhaseChanges
<1>4. Serves'
  <2>1. \A g \in handlers' : proc'[g.at] \in {"serving", "poisoned"}
    BY <1>1, <1>2 DEF IInv, Serves, Processes, Request, Ended
  <2>2. handlers' \subseteq handlers /\ UNCHANGED <<receipts, released>> /\ absent' \subseteq Requests
    BY DEF IInv, Serves, database, clients, Ended
  <2> QED
    BY <2>1, <2>2, HandlersEnd
<1> QED
  BY <1>3, <1>4 DEF IInv

LEMMA IdleKeeps ==
  ASSUME IInv, UNCHANGED <<database, processes, tx, lost, clients>>, lease' \in Stores \cup {None},
         orphans' \subseteq orphans, handlers' \subseteq handlers
  PROVE  IInv'
<1>1. Data' /\ History' /\ Commits' /\ AbsentHolds' /\ Processes'
  <2>1. absent' \subseteq absent
    BY DEF clients
  <2> QED
    BY <2>1, Idle
<1>2. Serves'
  <2>1. /\ \A h \in handlers' : proc'[h.at] \in {"serving", "poisoned"}
        /\ UNCHANGED <<receipts, released>> /\ absent' \subseteq Requests
    BY DEF IInv, Serves, database, processes, clients
  <2> QED
    BY <2>1, HandlersEnd
<1> QED
  BY <1>1, <1>2 DEF IInv

LEMMA IdleSteps ==
  ASSUME IInv,
         \/ \E s \in Stores : LeaseDrops(s)
         \/ \E h \in handlers : Drop(h)
         \/ \E t \in orphans : OrphanAborts(t)
         \/ \E r \in Rooms : \E i \in DOMAIN rooms[r].msgs : LeaseRunsOut(r, i)
  PROVE  IInv'
<1>1. lease \in Stores \cup {None}
  BY DEF IInv, Data
<1>2. ASSUME NEW s \in Stores, LeaseDrops(s)
      PROVE  IInv'
  BY <1>2, IdleKeeps DEF LeaseDrops
<1>3. ASSUME NEW h \in handlers, Drop(h)
      PROVE  IInv'
  BY <1>1, <1>3, IdleKeeps DEF Drop, Ended
<1>4. ASSUME NEW t \in orphans, OrphanAborts(t)
      PROVE  IInv'
  BY <1>1, <1>4, IdleKeeps DEF OrphanAborts
<1>5. ASSUME NEW r \in Rooms, NEW i \in DOMAIN rooms[r].msgs, LeaseRunsOut(r, i)
      PROVE  IInv'
  BY <1>1, <1>5, IdleKeeps DEF LeaseRunsOut
<1> QED
  BY <1>2, <1>3, <1>4, <1>5

LEMMA SubmitKeeps ==
  ASSUME IInv, NEW s \in Stores, NEW k \in Requests, Submit(s, k)
  PROVE  IInv'
<1>1. PICK pc \in {"verify", "resolve", "snapshot", "commit"} : handlers' = handlers \cup {Handler(s, k, pc)}
  BY DEF Submit
<1> DEFINE n == Handler(s, k, pc)
<1>2. /\ proc[s] = "serving" /\ \A h \in handlers : h.at = s => h.key # k
      /\ k.kind = "ack" => ClaimOf(k) \in released
      /\ UNCHANGED <<database, lease, processes, tx, lost, orphans, absent, released>>
  BY DEF Submit, ClaimOf
<1>3. Data' /\ History' /\ Commits' /\ AbsentHolds' /\ Processes'
  <2>1. lease' \in Stores \cup {None} /\ absent' \subseteq absent /\ orphans' \subseteq orphans
    BY <1>2 DEF IInv, Data
  <2> QED
    BY <1>2, <2>1, Idle
<1>4. n \in Request /\ n.at = s /\ n.key = k /\ n.pc # "release"
  BY DEF Handler, Request
<1>5. Claims' = Claims /\ released' \subseteq Claims' /\ absent' \subseteq Requests /\ released' = released
  BY <1>2 DEF database, Accepted, Claims, IInv, Serves
<1> HIDE DEF n
<1>6. \A h \in handlers' : proc'[h.at] \in {"serving", "poisoned"}
  BY <1>1, <1>2, <1>4 DEF processes, IInv, Serves, n
<1> DEFINE G == {}
           N == {n}
<1>7. /\ handlers' = (handlers \ G) \cup N /\ N \subseteq Request
      /\ \A x \in N : \A h \in handlers \ G : h.at = x.at => h.key # x.key
      /\ \A x, y \in N : x.at = y.at /\ x.key = y.key => x = y
      /\ \A x \in N : /\ x.pc = "release" => x.key \in Claims'
                      /\ x.key.kind = "ack" => ClaimOf(x.key) \in released
  BY <1>1, <1>2, <1>4 DEF n
<1> HIDE DEF G, N
<1>8. Serves'
  BY <1>5, <1>6, <1>7, HandlersStep
<1> QED
  BY <1>3, <1>8 DEF IInv

LEMMA ReadSnapshotKeeps ==
  ASSUME IInv, NEW h \in handlers, ReadSnapshot(h)
  PROVE  IInv'
<1>1. UNCHANGED <<database, lease, processes, tx, lost, orphans, clients>>
  BY DEF ReadSnapshot
<1>2. CASE handlers' = Ended(h)
  BY <1>1, <1>2, IdleKeeps DEF Ended, IInv, Data
<1>3. CASE Allowed(h.key)
             /\ handlers' = Becomes(h, [h EXCEPT !.pc = "commit", !.exp = rooms[h.key.room].rev,
                                                 !.tries = @ + 1])
  <2> DEFINE e == rooms[h.key.room].rev
             g == [h EXCEPT !.pc = "commit", !.exp = e, !.tries = @ + 1]
  <2>1. h \in Request /\ e \in Nat
    BY RequestParts DEF IInv, Serves, Request, Data, Row
  <2> HIDE DEF e
  <2>2. g = [at |-> h.at, key |-> h.key, exp |-> e, tries |-> h.tries + 1, pc |-> "commit"]
    <3> DEFINE c == [h EXCEPT !.pc = "commit"]
               f == [c EXCEPT !.exp = e]
    <3>1. c = [at |-> h.at, key |-> h.key, exp |-> h.exp, tries |-> h.tries, pc |-> "commit"]
      BY <2>1 DEF Request
    <3>2. g = [f EXCEPT !.tries = @ + 1]
      OBVIOUS
    <3> HIDE DEF c
    <3>3. f = [at |-> h.at, key |-> h.key, exp |-> e, tries |-> h.tries, pc |-> "commit"]
      BY <3>1
    <3> HIDE DEF f, g
    <3> QED
      BY <3>2, <3>3
  <2>3. g \in Request /\ g.at = h.at /\ g.key = h.key /\ g.pc = "commit"
    BY <2>1, <2>2 DEF Request
  <2> HIDE DEF g
  <2>4. handlers' = Becomes(h, g) /\ UNCHANGED <<receipts, released, proc>> /\ absent' \subseteq Requests
    BY <1>1, <1>3 DEF g, e, database, processes, clients, IInv, Serves
  <2>5. Serves'
    BY <2>3, <2>4, HandlerMoves
  <2>6. lease' \in Stores \cup {None} /\ absent' \subseteq absent /\ orphans' \subseteq orphans
    BY <1>1 DEF IInv, Data, clients
  <2>7. Data' /\ History' /\ Commits' /\ AbsentHolds' /\ Processes'
    BY <1>1, <2>6, Idle
  <2> QED
    BY <2>5, <2>7 DEF IInv
<1> QED
  BY <1>2, <1>3 DEF ReadSnapshot

LEMMA ReleaseKeeps ==
  ASSUME IInv, NEW h \in handlers, Release(h)
  PROVE  IInv'
<1>1. /\ UNCHANGED <<database, lease, processes, tx, lost, orphans, absent>>
      /\ released' \subseteq released \cup {h.key} /\ released \subseteq released'
      /\ handlers' = Ended(h) /\ h.pc = "release"
  BY DEF Release
<1>2. Data' /\ History' /\ Commits' /\ AbsentHolds' /\ Processes'
  <2>1. lease' \in Stores \cup {None} /\ absent' \subseteq absent /\ orphans' \subseteq orphans
    BY <1>1 DEF IInv, Data
  <2> QED
    BY <1>1, <2>1, Idle
<1>3. h.key \in Claims /\ Claims' = Claims
  BY <1>1 DEF IInv, Serves, database, Accepted, Claims
<1>4. released' \subseteq Claims' /\ absent' \subseteq Requests
  BY <1>1, <1>3 DEF IInv, Serves
<1>5. \A g \in handlers' : proc'[g.at] \in {"serving", "poisoned"}
  BY <1>1 DEF processes, Ended, IInv, Serves
<1> DEFINE G == {h}
           N == {}
<1>6. handlers' = (handlers \ G) \cup N /\ N \subseteq Request /\ \A n \in N : FALSE
  BY <1>1 DEF Ended
<1> HIDE DEF G, N
<1>7. Serves'
  BY <1>1, <1>3, <1>4, <1>5, <1>6, HandlersStep
<1> QED
  BY <1>2, <1>7 DEF IInv

\* A request whose operation is accepted is answered, a claim after one check more.
LEMMA AnsweredKeeps ==
  ASSUME IInv, NEW h \in handlers, handlers' = Answered(h), receipts[h.key] # None,
         UNCHANGED <<receipts, released, proc>>, absent' \subseteq Requests
  PROVE  Serves'
<1>1. h \in Request
  BY DEF IInv, Serves
<1>2. CASE h.key.kind = "claim" /\ receipts[h.key].msg # 0
  <2> DEFINE g == [h EXCEPT !.pc = "release"]
  <2>1. g = [at |-> h.at, key |-> h.key, exp |-> h.exp, tries |-> h.tries, pc |-> "release"]
    BY <1>1 DEF Request
  <2>2. g \in Request /\ g.at = h.at /\ g.key = h.key
    BY <1>1, <2>1 DEF Request
  <2>3. handlers' = Becomes(h, g)
    BY <1>2 DEF Answered
  <2> HIDE DEF g
  <2>4. g.key \in Claims
    BY <1>1, <1>2, <2>2 DEF Claims, Accepted, Request
  <2> QED
    BY <2>2, <2>3, <2>4, HandlerMoves
<1>3. CASE ~(h.key.kind = "claim" /\ receipts[h.key].msg # 0)
  <2>1. handlers' \subseteq handlers /\ \A g \in handlers' : proc'[g.at] \in {"serving", "poisoned"}
    BY <1>3 DEF Answered, Ended, IInv, Serves
  <2> QED
    BY <2>1, HandlersEnd
<1> QED
  BY <1>2, <1>3

\* Nothing under way is an operation a reading has found absent.
LEMMA ReadAlone ==
  ASSUME IInv, NEW h \in handlers, Reads(h, Exclusive(h.key)), NEW t \in Pending
  PROVE  t.task # h.key
<1>1. h.key \in Requests
  BY DEF IInv, Serves, Request
<1>2. ~Exclusive(h.key) /\ (t.task.room = h.key.room => ~LocksRoom(t))
  BY DEF Reads, OwnershipFree, VerifyFree, RoomFree
<1>3. h.key.kind \in Relay
  BY <1>2 DEF Exclusive
<1> QED
  BY <1>2, <1>3 DEF LocksRoom, Relay

LEMMA ResolveKeeps ==
  ASSUME IInv, NEW h \in handlers, Resolve(h)
  PROVE  IInv'
<1>1. /\ Reads(h, Exclusive(h.key)) /\ Fence(h.at) /\ h.pc \in {"resolve", "verify"}
      /\ UNCHANGED <<database, lease, processes, tx, lost, orphans, released>>
  BY DEF Resolve
<1>2. h \in Request /\ h.key \in Requests
  BY DEF IInv, Serves, Request
<1>3. UNCHANGED <<receipts, released, proc>>
  BY <1>1 DEF database, processes
<1>4. CASE handlers' = Ended(h) /\ UNCHANGED absent
  BY <1>1, <1>4, IdleKeeps DEF Ended, IInv, Data, Resolve, clients
<1>5. CASE handlers' = Answered(h) /\ receipts[h.key] # None /\ UNCHANGED absent
  <2>1. lease' \in Stores \cup {None} /\ absent' \subseteq absent /\ orphans' \subseteq orphans
        /\ absent' \subseteq Requests
    BY <1>1, <1>5 DEF IInv, Data, Serves
  <2>2. Data' /\ History' /\ Commits' /\ AbsentHolds' /\ Processes'
    BY <1>1, <2>1, Idle
  <2>3. Serves'
    BY <1>3, <1>5, <2>1, AnsweredKeeps
  <2> QED
    BY <2>2, <2>3 DEF IInv
<1>6. CASE /\ receipts[h.key] = None /\ absent' = absent \cup {h.key}
           /\ handlers' = IF h.pc = "verify" THEN Ended(h) ELSE Becomes(h, [h EXCEPT !.pc = "snapshot"])
  <2>1. \A k \in absent' \ absent : k = h.key
    BY <1>6
  <2>2. \A k \in absent' \ absent : receipts[k] = None /\ \A t \in Pending : t.task # k
    BY <1>1, <1>6, <2>1, ReadAlone
  <2>3. Pending' \subseteq Pending /\ lease' \in Stores \cup {None} /\ UNCHANGED database
    BY <1>1 DEF Pending, IInv, Data
  <2>4. Data' /\ History' /\ Commits' /\ AbsentHolds'
    BY <2>2, <2>3, Quiet
  <2>5. /\ epoch' = epoch /\ owner' = owner /\ rooms' = rooms /\ completed' = completed
        /\ proc' = proc /\ mine' = mine /\ todo' = todo /\ tx' = tx /\ lost' = lost /\ orphans' = orphans
    BY <1>1 DEF database, processes
  <2>6. ASSUME NEW q \in Stores, tx[q] # None
        PROVE  Runs(q)'
    <3>1. Runs(q) /\ (owner = q => q # h.at)
      BY <1>1, <2>6 DEF IInv, Processes, Reads
    <3>2. owner # q
      BY <1>1, <3>1 DEF Fence
    <3> QED
      BY <2>5, <3>1, <3>2 DEF Runs
  <2>7. Processes'
    BY <2>5, <2>6 DEF IInv, Processes
  <2>8. absent' \subseteq Requests
    BY <1>2, <1>6 DEF IInv, Serves
  <2>9. Serves'
    <3>1. CASE handlers' = Ended(h)
      <4>1. handlers' \subseteq handlers /\ \A g \in handlers' : proc'[g.at] \in {"serving", "poisoned"}
        BY <1>3, <3>1 DEF Ended, IInv, Serves
      <4> QED
        BY <1>3, <2>8, <4>1, HandlersEnd
    <3>2. CASE handlers' = Becomes(h, [h EXCEPT !.pc = "snapshot"])
      <4> DEFINE g == [h EXCEPT !.pc = "snapshot"]
      <4>1. g = [at |-> h.at, key |-> h.key, exp |-> h.exp, tries |-> h.tries, pc |-> "snapshot"]
        BY <1>2 DEF Request
      <4>2. g \in Request /\ g.at = h.at /\ g.key = h.key /\ g.pc # "release" /\ handlers' = Becomes(h, g)
        BY <1>2, <3>2, <4>1 DEF Request
      <4> HIDE DEF g
      <4> QED
        BY <1>3, <2>8, <4>2, HandlerMoves
    <3> QED
      BY <1>6, <3>1, <3>2
  <2> QED
    BY <2>4, <2>7, <2>9 DEF IInv
<1> QED
  BY <1>4, <1>5, <1>6 DEF Resolve

-----------------------------------------------------------------------------
(* Transactions *)

LEMMA TxChanges ==
  ASSUME IInv, NEW s \in Stores, NEW x, NEW y \in Phases, x = None \/ x.staged = FALSE,
         tx' = [tx EXCEPT ![s] = x], proc' = [proc EXCEPT ![s] = y],
         UNCHANGED <<database, mine, lease>>, absent' \subseteq absent, orphans' \subseteq Pending,
         \A q \in Stores \ {s} : tx[q] # None /\ tx[q].staged => tx[q] \notin orphans',
         y = "serving" => mine[s] \in completed, x # None => Runs(s)', lost' \subseteq Stores,
         todo' \in [Stores -> SUBSET Rooms], \A q \in Stores : todo'[q] \subseteq todo[q]
  PROVE  Data' /\ History' /\ Commits' /\ AbsentHolds' /\ Processes'
<1>1. Pending' \subseteq Pending
  BY PendingShrinks
<1>2. Data' /\ History' /\ Commits' /\ AbsentHolds'
  <2>1. UNCHANGED database /\ absent' \ absent = {} /\ lease' \in Stores \cup {None}
    BY DEF IInv, Data
  <2> QED
    BY <1>1, <2>1, Quiet
<1>3. ASSUME NEW q \in Stores \ {s}, tx[q] # None
      PROVE  IF tx[q].staged THEN tx[q] \notin orphans' ELSE owner = q => tx[q].task \notin absent'
  BY <1>3 DEF IInv, Processes, Runs
<1>4. epoch' = epoch /\ owner' = owner /\ rooms' = rooms /\ completed' = completed /\ mine' = mine
  BY DEF database
<1>5. \A q \in Stores : \A r \in todo'[q] : rooms'[r].made
  BY <1>4 DEF IInv, Processes
<1>6. Processes'
  BY <1>3, <1>4, <1>5, ProcessSteps
<1> QED
  BY <1>2, <1>6

\* What the server has to settle does not hold a transaction still under way.
LEMMA NotOrphaned ==
  ASSUME IInv
  PROVE  /\ orphans \subseteq Pending
         /\ \A q \in Stores : tx[q] # None /\ tx[q].staged => tx[q] \notin orphans /\ tx[q] \in Pending
         /\ \A s, q \in Stores : tx[q] # None /\ tx[q].staged /\ tx[s] # None /\ tx[s].staged => s = q
BY DEF IInv, Processes, Runs, Pending

LEMMA DiscoveredRuns ==
  ASSUME IInv, NEW s \in Stores, NEW k, tx'[s] = Discovered(s, k),
         UNCHANGED <<database, mine>>, owner = s => k \notin absent',
         IF k \in Requests THEN proc'[s] = "serving"
         ELSE /\ proc'[s] = "reaping"
              /\ k = Task("finish", 0) \/ \E r \in Rooms : k = Task("recover", r) /\ rooms[r].made
  PROVE  Runs(s)' /\ Discovered(s, k).staged = FALSE
<1> DEFINE seen == Deps(k, mine[s])
           t == tx'[s]
<1>1. /\ t = [task |-> k, epoch |-> mine[s], seen |-> seen, staged |-> FALSE, write |-> None, msg |-> 0]
      /\ owner' = owner /\ rooms' = rooms /\ mine' = mine
  BY DEF Discovered, database
<1> HIDE DEF seen
<1>2. /\ t = [task |-> t.task, epoch |-> t.epoch, seen |-> t.seen,
              staged |-> t.staged, write |-> t.write, msg |-> t.msg]
      /\ t.task = k /\ t.epoch = mine[s] /\ t.staged = FALSE /\ t.write = None /\ t.msg = 0
  BY <1>1
<1> HIDE DEF t
<1>3. Runs(s)'
  BY <1>1, <1>2 DEF Runs, t
<1> QED
  BY <1>3 DEF Discovered

LEMMA SameTodo ==
  ASSUME IInv, UNCHANGED todo
  PROVE  todo' \in [Stores -> SUBSET Rooms] /\ \A q \in Stores : todo'[q] \subseteq todo[q]
BY DEF IInv, Processes

LEMMA BeginKeeps ==
  ASSUME IInv, NEW h \in handlers, Begin(h)
  PROVE  IInv'
<1> DEFINE s == h.at
           k == h.key
           x == Discovered(s, k)
<1>1. /\ proc[s] = "serving" /\ tx[s] = None /\ tx' = [tx EXCEPT ![s] = x]
      /\ lost' = lost \ {s} /\ absent' = absent \ {k}
      /\ UNCHANGED <<database, lease, processes, orphans, handlers, released>>
  BY DEF Begin
<1>2. s \in Stores /\ k \in Requests
  BY DEF IInv, Serves, Request
<1> HIDE DEF s, k, x
<1>3. tx'[s] = x /\ proc' = [proc EXCEPT ![s] = "serving"] /\ UNCHANGED <<proc, mine, todo>> /\ proc'[s] = "serving"
  BY <1>1, <1>2 DEF IInv, Processes, processes
<1>4. Runs(s)' /\ x.staged = FALSE
  BY <1>1, <1>2, <1>3, DiscoveredRuns DEF x
<1>5. /\ "serving" \in Phases /\ mine[s] \in completed /\ lost' \subseteq Stores
      /\ absent' \subseteq absent /\ orphans' \subseteq Pending
      /\ \A q \in Stores \ {s} : tx[q] # None /\ tx[q].staged => tx[q] \notin orphans'
  BY <1>1, <1>2, NotOrphaned DEF Phases, IInv, Processes
<1>6. Data' /\ History' /\ Commits' /\ AbsentHolds' /\ Processes'
  BY <1>1, <1>2, <1>3, <1>4, <1>5, SameTodo, TxChanges
<1>7. Serves'
  <2>1. /\ \A g \in handlers' : proc'[g.at] \in {"serving", "poisoned"}
        /\ handlers' \subseteq handlers /\ UNCHANGED <<receipts, released>> /\ absent' \subseteq Requests
    BY <1>1, <1>3 DEF IInv, Serves, database
  <2> QED
    BY <2>1, HandlersEnd
<1> QED
  BY <1>6, <1>7 DEF IInv

\* The tasks of a recovery are not requests.
LEMMA NotRequest ==
  /\ Task("finish", 0) \notin Requests
  /\ \A r \in Rooms : Task("recover", r) \notin Requests
BY RequestParts DEF Task, Relay, Control

\* A process takes up another transaction, its requests as they are.
LEMMA Discovers ==
  ASSUME IInv, NEW s \in Stores, NEW k, tx' = [tx EXCEPT ![s] = Discovered(s, k)],
         tx[s] = None \/ tx[s].staged = FALSE,
         UNCHANGED <<database, lease, processes, lost, orphans, handlers, clients>>,
         owner = s => k \notin absent,
         IF k \in Requests THEN proc[s] = "serving"
         ELSE /\ proc[s] = "reaping"
              /\ k = Task("finish", 0) \/ \E r \in Rooms : k = Task("recover", r) /\ rooms[r].made
  PROVE  IInv'
<1> DEFINE x == Discovered(s, k)
           y == proc[s]
<1>1. tx'[s] = x /\ proc' = proc /\ mine' = mine /\ todo' = todo /\ absent' = absent
  BY DEF IInv, Processes, processes, clients
<1>2. proc' = [proc EXCEPT ![s] = y] /\ y \in Phases /\ (y = "serving" => mine[s] \in completed)
  BY <1>1 DEF IInv, Processes
<1>3. Runs(s)' /\ x.staged = FALSE
  BY <1>1, DiscoveredRuns
<1>4. /\ lost' \subseteq Stores /\ absent' \subseteq absent /\ orphans' \subseteq Pending
      /\ \A q \in Stores \ {s} : tx[q] # None /\ tx[q].staged => tx[q] \notin orphans'
  BY <1>1, NotOrphaned DEF IInv, Processes
<1> HIDE DEF x, y
<1>5. Data' /\ History' /\ Commits' /\ AbsentHolds' /\ Processes'
  BY <1>1, <1>2, <1>3, <1>4, SameTodo, TxChanges DEF x
<1>6. Serves'
  <2>1. /\ \A g \in handlers' : proc'[g.at] \in {"serving", "poisoned"}
        /\ handlers' \subseteq handlers /\ UNCHANGED <<receipts, released>> /\ absent' \subseteq Requests
    BY <1>1 DEF IInv, Serves, database, clients
  <2> QED
    BY <2>1, HandlersEnd
<1> QED
  BY <1>5, <1>6 DEF IInv

LEMMA BeginRecoveryKeeps ==
  ASSUME IInv, NEW s \in Stores, BeginRecovery(s)
  PROVE  IInv'
<1>1. /\ proc[s] = "reaping" /\ tx[s] = None
      /\ UNCHANGED <<database, lease, processes, lost, orphans, handlers, clients>>
  BY DEF BeginRecovery
<1>2. todo[s] \in SUBSET Nat /\ todo[s] \subseteq Rooms /\ \A r \in todo[s] : rooms[r].made
  BY KernelConstants DEF IInv, Processes
<1>3. CASE todo[s] = {}
  <2>1. tx' = [tx EXCEPT ![s] = Discovered(s, Task("finish", 0))]
    BY <1>3 DEF BeginRecovery
  <2>2. Task("finish", 0) \notin Requests /\ Task("finish", 0) \notin absent
    BY NotRequest DEF IInv, Serves
  <2> DEFINE k == Task("finish", 0)
  <2>3. tx' = [tx EXCEPT ![s] = Discovered(s, k)] /\ k \notin Requests /\ k \notin absent /\ k = Task("finish", 0)
    BY <2>1, <2>2
  <2> HIDE DEF k
  <2> QED
    BY <1>1, <2>3, Discovers
<1>4. CASE todo[s] # {}
  <2> DEFINE r == Least(todo[s])
  <2>1. tx' = [tx EXCEPT ![s] = Discovered(s, Task("recover", r))]
    BY <1>4 DEF BeginRecovery
  <2>2. r \in todo[s]
    BY <1>2, <1>4, LeastIn
  <2> HIDE DEF r
  <2> DEFINE k == Task("recover", r)
  <2>3. /\ tx' = [tx EXCEPT ![s] = Discovered(s, k)] /\ k \notin Requests /\ k \notin absent
        /\ r \in Rooms /\ k = Task("recover", r) /\ rooms[r].made
    BY <1>2, <2>1, <2>2, NotRequest DEF IInv, Serves
  <2> HIDE DEF k
  <2> QED
    BY <1>1, <2>3, Discovers
<1> QED
  BY <1>3, <1>4

LEMMA RestartKeeps ==
  ASSUME IInv, NEW s \in Stores, Restart(s)
  PROVE  IInv'
<1> DEFINE k == tx[s].task
<1>1. /\ tx[s] # None /\ ~tx[s].staged /\ owner = s
      /\ UNCHANGED <<database, lease, processes, lost, orphans, handlers, clients>>
  BY DEF Restart, Locks, Fence
<1>2. Runs(s)
  BY <1>1 DEF IInv, Processes
<1>3. /\ tx[s].staged = FALSE /\ k \notin absent
      /\ IF k \in Requests THEN proc[s] = "serving"
         ELSE /\ proc[s] = "reaping"
              /\ k = Task("finish", 0) \/ \E r \in Rooms : k = Task("recover", r) /\ rooms[r].made
  BY <1>1, <1>2 DEF Runs
<1>4. tx' = [tx EXCEPT ![s] = Discovered(s, k)]
  BY DEF Restart, IInv, Processes
<1> HIDE DEF k
<1> QED
  BY <1>1, <1>3, <1>4, Discovers

\* The transaction of s is over with nothing written; the server may have to
\* settle its COMMIT.
LEMMA TxEnds ==
  ASSUME IInv, NEW s \in Stores, NEW y \in Phases, tx' = [tx EXCEPT ![s] = None],
         proc' = [proc EXCEPT ![s] = y], y = "serving" => proc[s] = "serving",
         UNCHANGED <<database, mine, lease, clients>>,
         orphans' = orphans \/ (orphans' = orphans \cup {tx[s]} /\ tx[s] \in Pending),
         lost' \subseteq Stores,
         todo' \in [Stores -> SUBSET Rooms], \A q \in Stores : todo'[q] \subseteq todo[q],
         handlers' \subseteq handlers,
         y \in {"serving", "poisoned"} \/ \A h \in handlers' : h.at # s
  PROVE  IInv'
<1> DEFINE x == None
<1>1. tx' = [tx EXCEPT ![s] = x] /\ (x = None \/ x.staged = FALSE) /\ ~(x # None)
  OBVIOUS
<1> HIDE DEF x
<1>2. y = "serving" => mine[s] \in completed
  BY DEF IInv, Processes
<1>3. orphans' \subseteq Pending /\ absent' \subseteq absent
  BY NotOrphaned DEF clients
<1>4. ASSUME NEW q \in Stores \ {s}, tx[q] # None, tx[q].staged
      PROVE  tx[q] \notin orphans'
  <2>1. tx[q] \notin orphans /\ (tx[q] = tx[s] => q = s)
    BY <1>4, NotOrphaned
  <2> QED
    BY <2>1
<1>5. Data' /\ History' /\ Commits' /\ AbsentHolds' /\ Processes'
  BY <1>1, <1>2, <1>3, <1>4, TxChanges
<1>6. Serves'
  <2>1. proc'[s] = y /\ \A q \in Stores \ {s} : proc'[q] = proc[q]
    BY DEF IInv, Processes
  <2>2. \A g \in handlers' : proc'[g.at] \in {"serving", "poisoned"}
    BY <2>1 DEF IInv, Serves, Request
  <2>3. UNCHANGED <<receipts, released>> /\ absent' \subseteq Requests
    BY DEF IInv, Serves, database, clients
  <2> QED
    BY <2>2, <2>3, HandlersEnd
<1> QED
  BY <1>5, <1>6 DEF IInv

LEMMA FailKeeps ==
  ASSUME IInv, NEW s \in Stores, Fail(s) \/ GiveUp(s)
  PROVE  IInv'
<1> DEFINE y == IF proc[s] = "reaping" THEN "dead" ELSE proc[s]
<1>1. /\ tx[s] # None /\ tx' = [tx EXCEPT ![s] = None] /\ handlers' \subseteq handlers
      /\ UNCHANGED <<database, lease, mine, todo, clients>> /\ lost' \subseteq Stores
      /\ orphans' = orphans \/ (orphans' = orphans \cup {tx[s]} /\ tx[s] \in Pending)
  BY NotOrphaned DEF Fail, GiveUp, Without, IInv, Processes
<1>2. proc[s] \in {"reaping", "serving"} /\ proc' = [proc EXCEPT ![s] = y]
  BY <1>1 DEF IInv, Processes, Runs, Failed, Fail, GiveUp
<1>3. y \in Phases /\ (y = "serving" => proc[s] = "serving")
  BY <1>2 DEF Phases
<1>4. y \in {"serving", "poisoned"} \/ \A h \in handlers' : h.at # s
  BY <1>1, <1>2 DEF IInv, Serves
<1> HIDE DEF y
<1> QED
  BY <1>1, <1>2, <1>3, <1>4, SameTodo, TxEnds

LEMMA LockFencedKeeps ==
  ASSUME IInv, NEW s \in Stores, LockFenced(s)
  PROVE  IInv'
<1> DEFINE y == IF proc[s] \in {"recovering", "reaping"} THEN "dead" ELSE "poisoned"
<1>1. /\ tx' = [tx EXCEPT ![s] = None] /\ handlers' \subseteq handlers
      /\ UNCHANGED <<database, lease, mine, todo, clients>> /\ lost' \subseteq Stores
      /\ orphans' = orphans
  BY DEF LockFenced, Without, IInv, Processes
<1>2. proc' = [proc EXCEPT ![s] = y]
  BY DEF LockFenced, Lapsed, IInv, Processes
<1>3. y \in Phases /\ y # "serving"
  BY DEF Phases
<1>4. y \in {"serving", "poisoned"} \/ \A h \in handlers' : h.at # s
  BY <1>1 DEF IInv, Serves
<1> HIDE DEF y
<1> QED
  BY <1>1, <1>2, <1>3, <1>4, SameTodo, TxEnds

LEMMA CrashKeeps ==
  ASSUME IInv, NEW s \in Stores, Crash(s)
  PROVE  IInv'
<1>1. /\ tx' = [tx EXCEPT ![s] = None] /\ handlers' = {h \in handlers : h.at # s}
      /\ UNCHANGED <<database, lease, mine, clients>> /\ lost' \subseteq Stores
      /\ orphans' = orphans \/ (orphans' = orphans \cup {tx[s]} /\ tx[s] \in Pending)
      /\ proc' = [proc EXCEPT ![s] = "dead"]
  BY DEF Crash, IInv, Processes
<1>2. todo' \in [Stores -> SUBSET Rooms] /\ \A q \in Stores : todo'[q] \subseteq todo[q]
  BY DEF Crash, IInv, Processes
<1>3. handlers' \subseteq handlers /\ \A h \in handlers' : h.at # s
  BY <1>1
<1> DEFINE y == "dead"
<1>4. proc' = [proc EXCEPT ![s] = y] /\ y \in Phases /\ y # "serving"
  BY <1>1 DEF Phases
<1> HIDE DEF y
<1> QED
  BY <1>1, <1>2, <1>3, <1>4, TxEnds

LEMMA DeclineKeeps ==
  ASSUME IInv, NEW h \in handlers, Decline(h)
  PROVE  IInv'
<1> DEFINE s == h.at
           y == proc[s]
           x == None
<1>1. /\ tx' = [tx EXCEPT ![s] = x]
      /\ UNCHANGED <<database, lease, processes, lost, orphans, clients>>
  BY DEF Decline
<1>2. h \in Request /\ s \in Stores
  BY DEF IInv, Serves, Request
<1>3. ~(x # None) /\ (x = None \/ x.staged = FALSE)
  OBVIOUS
<1> HIDE DEF x
<1>4. proc' = [proc EXCEPT ![s] = y] /\ y \in Phases /\ (y = "serving" => mine[s] \in completed)
  BY <1>1, <1>2 DEF IInv, Processes, processes
<1>5. /\ lost' \subseteq Stores /\ absent' \subseteq absent /\ orphans' \subseteq Pending
      /\ \A q \in Stores \ {s} : tx[q] # None /\ tx[q].staged => tx[q] \notin orphans'
      /\ UNCHANGED <<database, mine, lease, todo>>
  BY <1>1, NotOrphaned DEF IInv, Processes, processes, clients
<1> HIDE DEF s, y
<1>6. Data' /\ History' /\ Commits' /\ AbsentHolds' /\ Processes'
  BY <1>1, <1>2, <1>3, <1>4, <1>5, SameTodo, TxChanges
<1>7. UNCHANGED <<receipts, released, proc>> /\ absent' \subseteq Requests
  BY <1>1 DEF database, processes, clients, IInv, Serves
<1>8. Serves'
  <2>1. CASE handlers' = Ended(h)
    <3>1. handlers' \subseteq handlers /\ \A g \in handlers' : proc'[g.at] \in {"serving", "poisoned"}
      BY <1>7, <2>1 DEF Ended, IInv, Serves
    <3> QED
      BY <1>7, <3>1, HandlersEnd
  <2>2. CASE handlers' = Answered(h) /\ receipts[h.key] # None
    BY <1>7, <2>2, AnsweredKeeps
  <2>3. CASE handlers' = Becomes(h, [h EXCEPT !.pc = "snapshot"])
    <3> DEFINE g == [h EXCEPT !.pc = "snapshot"]
    <3>1. g = [at |-> h.at, key |-> h.key, exp |-> h.exp, tries |-> h.tries, pc |-> "snapshot"]
      BY <1>2 DEF Request
    <3>2. g \in Request /\ g.at = h.at /\ g.key = h.key /\ g.pc # "release" /\ handlers' = Becomes(h, g)
      BY <1>2, <2>3, <3>1 DEF Request
    <3> HIDE DEF g
    <3> QED
      BY <1>7, <3>2, HandlerMoves
  <2> QED
    BY <2>1, <2>2, <2>3 DEF Decline
<1> QED
  BY <1>6, <1>8 DEF IInv

\* Whoever locks all it needs is alone with its Room.
LEMMA LockedAway ==
  ASSUME IInv, NEW s \in Stores, Locks(s), NEW t \in Pending
  PROVE  tx[s].task.kind \in Relay /\ t.task.kind \in Relay /\ t.task.room # tx[s].task.room
<1>1. ~Exclusive(tx[s].task) /\ ~Exclusive(t.task)
  BY DEF Locks, OwnershipFree
<1>2. tx[s].task.kind \in Relay /\ t.task.kind \in Relay
  BY <1>1 DEF Exclusive
<1>3. LocksRoom(tx[s]) /\ LocksRoom(t)
  BY <1>2 DEF LocksRoom, Relay
<1> QED
  BY <1>2, <1>3 DEF Locks, RoomFree

\* COMMIT is sent for x.
LEMMA StagedKeeps ==
  ASSUME IInv, NEW s \in Stores, Locks(s), Fence(s), NEW x, Good(x),
         x = [task |-> tx[s].task, epoch |-> tx[s].epoch, seen |-> tx[s].seen,
              staged |-> TRUE, write |-> x.write, msg |-> x.msg],
         tx' = [tx EXCEPT ![s] = x],
         UNCHANGED <<database, lease, processes, lost, orphans, handlers, clients>>
  PROVE  IInv'
<1>1. /\ epoch' = epoch /\ owner' = owner /\ rooms' = rooms /\ receipts' = receipts
      /\ marked' = marked /\ completed' = completed /\ lease' = lease
      /\ proc' = proc /\ mine' = mine /\ todo' = todo
      /\ absent' = absent /\ released' = released /\ orphans' = orphans
  BY DEF database, processes, clients
<1>2. tx'[s] = x /\ (\A q \in Stores \ {s} : tx'[q] = tx[q]) /\ x.staged = TRUE
  BY DEF IInv, Processes
<1>3. Data' /\ History' /\ AbsentHolds'
  <2>1. Accepted' = Accepted /\ Claims' = Claims /\ \A l : StateOf(l)' = StateOf(l)
    BY <1>1 DEF Accepted, Claims, StateOf
  <2>2. OneHistory' /\ RemovalEnds'
    BY <1>1, <2>1 DEF OneHistory, RemovalEnds, IInv, History
  <2> QED
    BY <1>1, <2>1, <2>2 DEF IInv, Data, History, AbsentHolds
<1>4. Pending' \subseteq Pending \cup {x}
  <2>1. ASSUME NEW q \in Stores, tx'[q] # None, tx'[q].staged
        PROVE  tx'[q] \in Pending \cup {x}
    BY <1>2, <2>1 DEF Pending
  <2> QED
    BY <1>1, <2>1 DEF Pending
<1>5. ASSUME NEW t \in Pending'
      PROVE  Good(t)'
  <2>1. Good(t) /\ Claims' = Claims
    BY <1>1, <1>4, PendingGood DEF Claims, Accepted
  <2> QED
    BY <1>1, <2>1 DEF Good, Follows, AcksClaim
<1>6. x.task = tx[s].task
  OBVIOUS
<1>7. Locked'
  <2>1. ASSUME NEW t \in Pending', NEW u \in Pending', t # u
        PROVE  t.task.kind \in Relay /\ u.task.kind \in Relay /\ t.task.room # u.task.room
    <3>1. CASE t \in Pending /\ u \in Pending
      BY <2>1, <3>1 DEF IInv, Commits, Locked
    <3>2. CASE t = x /\ u \in Pending
      BY <1>6, <3>2, LockedAway
    <3>3. CASE u = x /\ t \in Pending
      BY <1>6, <3>3, LockedAway
    <3> QED
      BY <1>4, <2>1, <3>1, <3>2, <3>3
  <2> QED
    BY <2>1 DEF Locked
<1>8. x \notin orphans
  <2>1. x \in orphans => x \in Pending
    BY DEF Pending
  <2> QED
    BY <1>6, <2>1, LockedAway
<1>9. Runs(s) /\ owner = s
  BY DEF Locks, Fence, IInv, Processes
<1>10. Runs(s)'
  <2> DEFINE t == tx[s]
             u == tx'[s]
  <2>1. /\ u.task = t.task /\ u.epoch = t.epoch /\ u.staged = TRUE /\ u = x
        /\ u = [task |-> u.task, epoch |-> u.epoch, seen |-> u.seen,
                staged |-> u.staged, write |-> u.write, msg |-> u.msg]
    BY <1>2
  <2>2. /\ t.epoch = mine[s] /\ proc[s] \in {"reaping", "serving"}
        /\ IF t.task \in Requests THEN proc[s] = "serving"
           ELSE /\ proc[s] = "reaping"
                /\ \/ t.task = Task("finish", 0)
                   \/ \E r \in Rooms : t.task = Task("recover", r) /\ rooms[r].made
    BY <1>9 DEF Runs
  <2> HIDE DEF t
  <2>3. /\ u.epoch = mine'[s] /\ proc'[s] \in {"reaping", "serving"}
        /\ IF u.task \in Requests THEN proc'[s] = "serving"
           ELSE /\ proc'[s] = "reaping"
                /\ \/ u.task = Task("finish", 0)
                   \/ \E r \in Rooms : u.task = Task("recover", r) /\ rooms'[r].made
    BY <1>1, <2>1, <2>2
  <2>4. owner' = s /\ u \notin orphans' /\ u.staged
    BY <1>1, <1>8, <1>9, <2>1
  <2>5. u = [task |-> u.task, epoch |-> u.epoch, seen |-> u.seen,
                staged |-> u.staged, write |-> u.write, msg |-> u.msg]
    BY <2>1
  <2> QED
    BY <2>3, <2>4, <2>5 DEF Runs, u
<1>11. Processes'
  <2> DEFINE y == proc[s]
  <2>1. proc' = [proc EXCEPT ![s] = y] /\ y \in Phases /\ (y = "serving" => mine[s] \in completed')
    BY <1>1 DEF IInv, Processes
  <2>2. ASSUME NEW q \in Stores \ {s}, tx[q] # None
        PROVE  IF tx[q].staged THEN tx[q] \notin orphans' ELSE owner = q => tx[q].task \notin absent'
    BY <1>1, <2>2 DEF IInv, Processes, Runs
  <2>3. /\ lost' \subseteq Stores /\ todo' \in [Stores -> SUBSET Rooms]
        /\ \A q \in Stores : \A r \in todo'[q] : rooms'[r].made
    BY <1>1 DEF IInv, Processes
  <2> HIDE DEF y
  <2> QED
    BY <1>1, <1>10, <2>1, <2>2, <2>3, ProcessSteps
<1>12. Serves'
  <2>1. /\ handlers' \subseteq handlers /\ absent' \subseteq Requests
        /\ \A g \in handlers' : proc'[g.at] \in {"serving", "poisoned"}
    BY <1>1 DEF IInv, Serves
  <2> QED
    BY <1>1, <2>1, HandlersEnd
<1> QED
  BY <1>3, <1>5, <1>7, <1>11, <1>12 DEF IInv, Commits

\* A record of the form of a transaction.
Whole(t) == t = [task |-> t.task, epoch |-> t.epoch, seen |-> t.seen,
                 staged |-> t.staged, write |-> t.write, msg |-> t.msg]

LEMMA StagedForm ==
  ASSUME NEW t, NEW w, NEW m, Whole(t)
  PROVE  /\ [t EXCEPT !.staged = TRUE, !.write = w]
              = [task |-> t.task, epoch |-> t.epoch, seen |-> t.seen,
                 staged |-> TRUE, write |-> w, msg |-> t.msg]
         /\ [t EXCEPT !.staged = TRUE, !.write = w, !.msg = m]
              = [task |-> t.task, epoch |-> t.epoch, seen |-> t.seen,
                 staged |-> TRUE, write |-> w, msg |-> m]
<1> DEFINE p == t.task
           e == t.epoch
           z == t.seen
           g == t.staged
           u == t.write
           v == t.msg
           y == TRUE
           a == [t EXCEPT !.staged = y]
           b == [a EXCEPT !.write = w]
           c == [b EXCEPT !.msg = m]
<1>1. t = [task |-> p, epoch |-> e, seen |-> z, staged |-> g, write |-> u, msg |-> v]
  BY DEF Whole
<1>2. [t EXCEPT !.staged = TRUE, !.write = w] = b /\ [t EXCEPT !.staged = TRUE, !.write = w, !.msg = m] = c
  OBVIOUS
<1> SUFFICES /\ b = [task |-> p, epoch |-> e, seen |-> z, staged |-> y, write |-> w, msg |-> v]
             /\ c = [task |-> p, epoch |-> e, seen |-> z, staged |-> y, write |-> w, msg |-> m]
  BY <1>2
<1> HIDE DEF p, e, z, g, u, v, y
<1>3. a = [task |-> p, epoch |-> e, seen |-> z, staged |-> y, write |-> u, msg |-> v]
  BY <1>1
<1> HIDE DEF a
<1>4. b = [task |-> p, epoch |-> e, seen |-> z, staged |-> y, write |-> w, msg |-> v]
  BY <1>3
<1> HIDE DEF b
<1>5. c = [task |-> p, epoch |-> e, seen |-> z, staged |-> y, write |-> w, msg |-> m]
  BY <1>4
<1> QED
  BY <1>4, <1>5

LEMMA StageKeeps ==
  ASSUME IInv, NEW h \in handlers, Stage(h)
  PROVE  IInv'
<1> DEFINE s == h.at
           k == h.key
           t == tx[s]
           W == Written(k)
           M == IF k.kind \in Relay THEN Planned(k).msg ELSE 0
           x == [task |-> t.task, epoch |-> t.epoch, seen |-> t.seen,
                 staged |-> TRUE, write |-> W, msg |-> M]
<1>1. s \in Stores /\ k \in Requests
  BY DEF IInv, Serves, Request
<1>2. /\ t # None /\ k = t.task /\ Locks(s) /\ Fence(s) /\ ~t.staged
      /\ Allowed(k) /\ receipts[k] = None /\ Possible(k)
      /\ UNCHANGED <<database, lease, processes, lost, orphans, handlers, clients>>
  BY DEF Stage, Waiting, Verified, Locks
<1>3. tx' = [tx EXCEPT ![s].staged = TRUE, ![s].write = W, ![s].msg = M]
  BY DEF Stage
<1>4. Runs(s)
  BY <1>1, <1>2 DEF IInv, Processes
<1>5. Backed(k)
  BY DEF Backed, IInv, Serves
<1>6. Follows(k, M, W)
  BY <1>1, <1>2, <1>5, RequestFollows
<1>7. mine[s] = epoch /\ owner = s /\ epoch # 0
  BY <1>1, <1>2, KernelConstants DEF Fence, IInv, Processes
<1>8. proc[s] = "serving" /\ epoch \in completed /\ t.epoch = epoch /\ k \notin absent
  BY <1>1, <1>2, <1>4, <1>7 DEF Runs, IInv, Processes
<1>13. AcksClaim(k, M)
  BY <1>5 DEF AcksClaim, Backed, Planned, ClaimOf, Relay
<1> HIDE DEF W, M, s, k
<1>9. tx' = [tx EXCEPT ![s] = x]
  <2>1. Whole(t)
    BY <1>4 DEF Runs, Whole
  <2>2. tx = [q \in Stores |-> tx[q]]
    BY DEF IInv, Processes
  <2>3. x = [t EXCEPT !.staged = TRUE, !.write = W, !.msg = M]
    <3> HIDE DEF t
    <3> QED
      BY <2>1, StagedForm
  <2>4. tx' = [tx EXCEPT ![s] = [t EXCEPT !.staged = TRUE, !.write = W, !.msg = M]]
    BY <1>1, <1>3, <2>2
  <2> QED
    BY <2>3, <2>4
<1>10. /\ x.task = k /\ x.epoch = t.epoch /\ x.staged = TRUE /\ x.write = W /\ x.msg = M
       /\ x.seen = t.seen
  BY <1>2
<1>11. x = [task |-> tx[s].task, epoch |-> tx[s].epoch, seen |-> tx[s].seen,
            staged |-> TRUE, write |-> x.write, msg |-> x.msg]
  BY <1>10
<1> HIDE DEF x, t
<1>12. Good(x)
  BY <1>1, <1>2, <1>6, <1>7, <1>8, <1>10, <1>13, RequestParts DEF Good
<1> QED
  BY <1>1, <1>2, <1>9, <1>11, <1>12, StagedKeeps

LEMMA StageRecoveryKeeps ==
  ASSUME IInv, NEW s \in Stores, StageRecovery(s)
  PROVE  IInv'
<1> DEFINE t == tx[s]
           k == t.task
           W == Written(k)
           x == [task |-> k, epoch |-> t.epoch, seen |-> t.seen,
                 staged |-> TRUE, write |-> W, msg |-> 0]
<1>1. /\ proc[s] = "reaping" /\ t # None /\ Locks(s) /\ Fence(s) /\ ~t.staged
      /\ k.kind = "finish" => \A r \in Rooms : rooms[r].made => <<mine[s], r>> \in marked
      /\ UNCHANGED <<database, lease, processes, lost, orphans, handlers, clients>>
  BY DEF StageRecovery, Verified, Locks
<1>2. tx' = [tx EXCEPT ![s].staged = TRUE, ![s].write = W]
  BY DEF StageRecovery
<1>3. Runs(s)
  BY <1>1 DEF IInv, Processes
<1>4. mine[s] = epoch /\ owner = s /\ epoch # 0
  BY <1>1, KernelConstants DEF Fence, IInv, Processes
<1>5. /\ k \notin Requests /\ t.epoch = epoch /\ k \notin absent /\ t.msg = 0
      /\ k = Task("finish", 0) \/ \E r \in Rooms : k = Task("recover", r) /\ rooms[r].made
  BY <1>1, <1>3, <1>4 DEF Runs
<1>6. tx' = [tx EXCEPT ![s] = x]
  <2>1. Whole(t)
    BY <1>3 DEF Runs, Whole
  <2>2. tx = [q \in Stores |-> tx[q]]
    BY DEF IInv, Processes
  <2> HIDE DEF W
  <2>3. x = [t EXCEPT !.staged = TRUE, !.write = W]
    <3>1. t.msg = 0
      BY <1>5
    <3> HIDE DEF t
    <3> QED
      BY <2>1, <3>1, StagedForm DEF x, k
  <2>4. tx' = [tx EXCEPT ![s] = [t EXCEPT !.staged = TRUE, !.write = W]]
    BY <1>2, <2>2
  <2> QED
    BY <2>3, <2>4
<1>7. IF k.kind = "finish"
      THEN /\ W = None /\ k = Task("finish", 0)
           /\ \A r \in Rooms : rooms[r].made => <<epoch, r>> \in marked
      ELSE Follows(k, 0, W) /\ k = Task("recover", k.room)
  <2>1. CASE k = Task("finish", 0)
    <3>1. k.kind = "finish"
      BY <2>1 DEF Task
    <3> QED
      BY <1>1, <1>4, <2>1, <3>1 DEF Written, Relay
  <2>2. ASSUME NEW r \in Rooms, k = Task("recover", r), rooms[r].made
        PROVE  k.kind # "finish" /\ Follows(k, 0, W) /\ k.room = r
    <3>1. Follows(Task("recover", r), 0, Written(Task("recover", r)))
      BY <2>2, RecoveryFollows
    <3>2. Task("recover", r).kind = "recover" /\ Task("recover", r).room = r
      BY DEF Task
    <3> HIDE DEF k, t
    <3> QED
      BY <2>2, <3>1, <3>2
  <2> QED
    BY <1>5, <2>1, <2>2
<1> HIDE DEF W
<1>8. /\ x.task = k /\ x.epoch = t.epoch /\ x.staged = TRUE /\ x.write = W /\ x.msg = 0
      /\ x.seen = t.seen
  OBVIOUS
<1>9. x = [task |-> tx[s].task, epoch |-> tx[s].epoch, seen |-> tx[s].seen,
           staged |-> TRUE, write |-> x.write, msg |-> x.msg]
  BY <1>8
<1> HIDE DEF x, k, t
<1>10. Good(x)
  BY <1>4, <1>5, <1>7, <1>8 DEF Good
<1> QED
  BY <1>1, <1>6, <1>9, <1>10, StagedKeeps DEF t, k

LEMMA AdvanceKeeps ==
  ASSUME IInv, NEW s \in Stores, Advance(s)
  PROVE  IInv'
<1>1. /\ proc[s] = "leased" /\ epoch' = epoch + 1 /\ owner' = s
      /\ mine' = [mine EXCEPT ![s] = epoch + 1] /\ proc' = [proc EXCEPT ![s] = "recovering"]
      /\ UNCHANGED <<lease, rooms, receipts, marked, completed, todo, tx, lost, orphans, handlers, clients>>
  BY DEF Advance
<1>2. Pending = {}
  BY DEF Advance, OwnershipFree
<1>3. Pending' = {}
  BY <1>1, <1>2 DEF Pending
<1>4. epoch \in Nat /\ completed \subseteq 1..epoch /\ marked \subseteq (1..epoch) \X Rooms
  BY DEF IInv, Data
<1>5. Data'
  <2>1. 1..epoch \subseteq 1..(epoch + 1)
    BY <1>4
  <2>2. marked \subseteq (1..(epoch + 1)) \X Rooms /\ completed \subseteq 1..(epoch + 1)
    BY <1>4, <2>1
  <2> QED
    BY <1>1, <1>4, <2>2 DEF IInv, Data
<1>6. History'
  <2>1. Accepted' = Accepted /\ Claims' = Claims /\ \A l : StateOf(l)' = StateOf(l)
    BY <1>1 DEF Accepted, Claims, StateOf
  <2>2. OneHistory' /\ RemovalEnds'
    BY <1>1, <2>1 DEF OneHistory, RemovalEnds, IInv, History
  <2>3. epoch + 1 \notin 1..epoch
    BY <1>4
  <2>4. epoch' \notin completed' /\ \A r : <<epoch', r>> \notin marked'
    BY <1>1, <1>4, <2>3
  <2> QED
    BY <1>1, <2>1, <2>2, <2>4 DEF IInv, History
<1>7. AbsentHolds'
  BY <1>1 DEF IInv, AbsentHolds, clients
<1>8. tx[s] = None /\ \A h \in handlers : h.at # s
  BY <1>1, Opening
<1>9. ASSUME NEW q \in Stores, tx'[q] # None
      PROVE  Runs(q)'
  <2>1. Runs(q) /\ q # s /\ tx' = tx /\ ~tx[q].staged
    BY <1>1, <1>2, <1>8, <1>9 DEF IInv, Processes, Pending
  <2>2. mine'[q] = mine[q] /\ proc'[q] = proc[q] /\ owner' # q
    BY <1>1, <2>1 DEF IInv, Processes
  <2> QED
    BY <1>1, <2>1, <2>2 DEF Runs
<1>10. Processes'
  <2>1. epoch + 1 \in Nat /\ epoch + 1 # 0 /\ "recovering" \in Phases
    BY <1>4 DEF Phases
  <2>2. mine' \in [Stores -> Nat] /\ mine'[s] = epoch' /\ proc' \in [Stores -> Phases]
    BY <1>1, <2>1 DEF IInv, Processes
  <2>3. \A q \in Stores : proc'[q] = "serving" => mine'[q] \in completed'
    BY <1>1 DEF IInv, Processes
  <2> QED
    BY <1>1, <1>9, <2>1, <2>2, <2>3 DEF IInv, Processes
<1>11. Serves'
  <2>1. \A h \in handlers' : proc'[h.at] \in {"serving", "poisoned"}
    BY <1>1, <1>8 DEF IInv, Serves, Processes, Request
  <2>2. handlers' \subseteq handlers /\ UNCHANGED <<receipts, released>> /\ absent' \subseteq Requests
    BY <1>1 DEF IInv, Serves, clients
  <2> QED
    BY <2>1, <2>2, HandlersEnd
<1>12. Commits'
  BY <1>3 DEF Commits, Locked
<1> QED
  BY <1>5, <1>6, <1>7, <1>10, <1>11, <1>12 DEF IInv

-----------------------------------------------------------------------------
(* A COMMIT lands *)

\* What stays true of the rest of the database.
LEMMA ApplyKeeps ==
  ASSUME IInv, NEW t \in Pending, Apply(t), UNCHANGED absent
  PROVE  /\ \A r \in Rooms : rooms[r].made => rooms'[r].made
         /\ \A e \in completed : e \in completed'
         /\ t.task = Task("finish", 0) => t.epoch \in completed'
         /\ \A k \in Claims : k \in Claims'
         /\ t.task \in Requests /\ t.task.kind = "claim" /\ t.msg # 0 => t.task \in Claims'
         /\ AbsentHolds'
<1>1. Good(t)
  BY PendingGood
<1>2. rooms \in [Rooms -> Row] /\ receipts \in [Requests -> Receipt \cup {None}] /\ epoch \in Nat
  BY DEF IInv, Data
<1>3. CASE LandsRequest(t.task, t.msg, t.write)
  <2> DEFINE k == t.task
             m == t.msg
             w == t.write
             receipt == [rev |-> w.rev, epoch |-> epoch, msg |-> m]
  <2>1. /\ k \in Requests /\ k.room \in Rooms /\ Follows(k, m, w) /\ receipts[k] = None
        /\ rooms' = [rooms EXCEPT ![k.room] = w] /\ receipts' = [receipts EXCEPT ![k] = receipt]
        /\ marked' = marked /\ completed' = completed
    BY <1>3, RequestParts DEF LandsRequest
  <2>2. w.made /\ m \in Nat /\ w.rev \in Nat
    BY <2>1, FollowsParts
  <2>3. receipt # None /\ receipt.msg = m
    BY <1>2, <2>2, KernelConstants
  <2>4. t.task \notin absent /\ t.task # Task("finish", 0)
    BY <1>1, <2>1, NotRequest DEF Good
  <2> HIDE DEF k, m, w, receipt
  <2>5. \A r \in Rooms : rooms[r].made => rooms'[r].made
    BY <1>2, <2>1, <2>2
  <2>6. \A l \in Requests : receipts'[l] = IF l = k THEN receipt ELSE receipts[l]
    BY <1>2, <2>1
  <2>7. \A l \in Claims : l \in Claims'
    BY <2>1, <2>6 DEF Claims, Accepted
  <2>8. k.kind = "claim" /\ m # 0 => k \in Claims'
    BY <2>1, <2>3, <2>6 DEF Claims, Accepted
  <2>9. AbsentHolds'
    BY <2>4, <2>6 DEF AbsentHolds, IInv, Serves, k
  <2> QED
    BY <2>1, <2>4, <2>5, <2>7, <2>8, <2>9 DEF k, m
<1>4. CASE LandsRecovery(t.task.room, t.write) /\ t.task = Task("recover", t.task.room)
  <2> DEFINE r == t.task.room
             w == t.write
  <2>1. /\ r \in Rooms /\ Follows(Task("recover", r), 0, w) /\ t.task \notin Requests
        /\ rooms' = [rooms EXCEPT ![r] = w] /\ receipts' = receipts /\ completed' = completed
        /\ t.task # Task("finish", 0)
    BY <1>4, NotRequest DEF LandsRecovery, Task
  <2>2. w.made
    BY <2>1 DEF Follows
  <2> HIDE DEF r, w
  <2>3. \A q \in Rooms : rooms[q].made => rooms'[q].made
    BY <1>2, <2>1, <2>2
  <2>4. Claims' = Claims /\ AbsentHolds'
    BY <2>1 DEF Claims, Accepted, AbsentHolds, IInv
  <2> QED
    BY <2>1, <2>3, <2>4
<1>5. CASE LandsFinish /\ t.task = Task("finish", 0)
  <2>1. rooms' = rooms /\ receipts' = receipts /\ completed' = completed \cup {epoch} /\ t.epoch = epoch
    BY <1>1, <1>5 DEF LandsFinish, Good
  <2>2. Claims' = Claims /\ AbsentHolds'
    BY <2>1 DEF Claims, Accepted, AbsentHolds, IInv
  <2> QED
    BY <1>5, <2>1, <2>2, NotRequest
<1> QED
  BY <1>3, <1>4, <1>5, ApplyParts

\* What is still under way is about other Rooms, and may land after it.
LEMMA ApplyCommits ==
  ASSUME IInv, NEW t \in Pending, Apply(t), UNCHANGED absent, Pending' \subseteq Pending \ {t}
  PROVE  Commits'
<1>1. ASSUME NEW u \in Pending'
      PROVE  Good(u)'
  <2>1. /\ u \in Pending /\ u # t /\ u.task.kind \in Relay /\ t.task.kind \in Relay
        /\ u.task.room # t.task.room
    BY DEF IInv, Commits, Locked
  <2>2. Good(u) /\ u.task.kind # "finish"
    BY <2>1, PendingGood DEF Relay
  <2>3. u.task \in Requests /\ t.task # Task("finish", 0) /\ t.task # Task("recover", t.task.room)
    BY <2>1, <2>2 DEF Good, Task, Relay
  <2>4. LandsRequest(t.task, t.msg, t.write) /\ epoch' = epoch
    BY <2>3, ApplyParts
  <2>5. /\ rooms' = [rooms EXCEPT ![t.task.room] = t.write] /\ completed' = completed /\ marked' = marked
        /\ \A l \in Requests : l # t.task => receipts'[l] = receipts[l]
    BY <2>4 DEF LandsRequest, IInv, Data
  <2>6. rooms'[u.task.room] = rooms[u.task.room]
    <3>1. u.task.room \in Rooms /\ rooms \in [Rooms -> Row]
      BY <2>3, RequestParts DEF IInv, Data
    <3> QED
      BY <2>1, <2>5, <3>1
  <2>7. receipts'[u.task] = receipts[u.task]
    BY <2>1, <2>3, <2>5
  <2>8. AcksClaim(u.task, u.msg)'
    <3>1. AcksClaim(u.task, u.msg)
      BY <2>2, <2>3 DEF Good
    <3>2. \A l \in Claims : l \in Claims' /\ receipts'[l] = receipts[l]
      <4>1. \A l \in Accepted : receipts'[l] = receipts[l]
        BY <2>4, RequestLands
      <4> QED
        BY <4>1, ApplyKeeps DEF Claims
    <3> QED
      BY <3>1, <3>2 DEF AcksClaim
  <2> QED
    BY <2>2, <2>3, <2>4, <2>5, <2>6, <2>7, <2>8 DEF Good, Follows
<1>2. Locked'
  BY DEF IInv, Commits, Locked
<1> QED
  BY <1>1, <1>2 DEF Commits

LEMMA OrphanLandsKeeps ==
  ASSUME IInv, NEW t \in orphans, OrphanLands(t)
  PROVE  IInv'
<1>1. /\ Apply(t) /\ orphans' = orphans \ {t} /\ tx' = tx /\ lost' = lost /\ handlers' = handlers
      /\ proc' = proc /\ mine' = mine /\ todo' = todo
      /\ absent' = absent /\ released' = released /\ t \in Pending
  BY DEF OrphanLands, processes, clients, Pending
<1>2. Pending' \subseteq Pending \ {t}
  <2>1. ASSUME NEW q \in Stores, tx[q] # None, tx[q].staged
        PROVE  tx[q] \in Pending \ {t}
    BY <2>1, NotOrphaned
  <2> QED
    BY <1>1, <2>1 DEF Pending
<1>3. Data' /\ History' /\ Commits'
  BY <1>1, <1>2, ApplyData, ApplyHistory, ApplyCommits
<1>4. epoch' = epoch /\ owner' = owner
  BY <1>1 DEF Apply
<1>5. /\ \A r \in Rooms : rooms[r].made => rooms'[r].made
      /\ \A e \in completed : e \in completed'
      /\ \A k \in Claims : k \in Claims'
      /\ AbsentHolds'
  BY <1>1, ApplyKeeps
<1>6. ASSUME NEW q \in Stores, tx[q] # None
      PROVE  Runs(q)'
  <2>1. Runs(q)
    BY <1>6 DEF IInv, Processes
  <2> QED
    BY <1>1, <1>4, <1>5, <2>1 DEF Runs
<1>7. Processes'
  <2>1. \A q \in Stores : \A r \in todo'[q] : rooms'[r].made
    BY <1>1, <1>5 DEF IInv, Processes
  <2>2. /\ proc' \in [Stores -> Phases] /\ mine' \in [Stores -> Nat] /\ todo' \in [Stores -> SUBSET Rooms]
        /\ tx' = [q \in Stores |-> tx'[q]] /\ (owner' # None => mine'[owner'] = epoch' /\ epoch' # 0)
        /\ (\A q \in Stores : proc'[q] = "serving" => mine'[q] \in completed') /\ lost' \subseteq Stores
    BY <1>1, <1>4, <1>5 DEF IInv, Processes
  <2> QED
    BY <1>1, <1>6, <2>1, <2>2 DEF Processes
<1>8. Serves'
  <2>1. /\ released' \subseteq Claims' /\ absent' \subseteq Requests /\ (\A k \in released : k \in released')
        /\ \A h \in handlers' : proc'[h.at] \in {"serving", "poisoned"}
    BY <1>1, <1>5 DEF IInv, Serves
  <2> DEFINE G == {}
             N == {}
  <2>2. handlers' = (handlers \ G) \cup N /\ N \subseteq Request /\ \A n \in N : FALSE
    BY <1>1
  <2> HIDE DEF G, N
  <2> QED
    BY <1>5, <2>1, <2>2, HandlersStep
<1> QED
  BY <1>3, <1>5, <1>7, <1>8 DEF IInv

LEMMA LandKeeps ==
  ASSUME IInv, NEW s \in Stores, Land(s)
  PROVE  IInv'
<1> DEFINE t == tx[s]
           k == t.task
           y == IF k.kind = "finish" THEN "serving" ELSE proc[s]
           x == None
           G == Waiting(s)
           N == {[h EXCEPT !.pc = "release"] : h \in {g \in G : g.key.kind = "claim" /\ t.msg # 0}}
<1>1. /\ t # None /\ t.staged /\ Apply(t) /\ tx' = [tx EXCEPT ![s] = x]
      /\ todo' = [todo EXCEPT ![s] = @ \ {t.task.room}]
      /\ handlers' = (handlers \ G) \cup N /\ mine' = mine /\ lost' = lost /\ orphans' = orphans
      /\ absent' = absent /\ released' = released
  BY DEF Land, clients, Without
<1>2. proc' = [proc EXCEPT ![s] = y]
  BY DEF Land, IInv, Processes
<1>3. t \in Pending /\ orphans \subseteq Pending /\ t \notin orphans
  BY <1>1, NotOrphaned
<1>4. Runs(s) /\ Good(t) /\ owner = s /\ mine[s] = epoch
  <2>1. Runs(s)
    BY <1>1 DEF IInv, Processes
  <2>2. Good(t)
    BY <1>3, PendingGood
  <2>3. owner = s
    BY <1>1, <2>1 DEF Runs
  <2>4. mine[s] = epoch
    BY <2>3, KernelConstants DEF IInv, Processes
  <2> QED
    BY <2>1, <2>2, <2>3, <2>4
<1>5. /\ \A r \in Rooms : rooms[r].made => rooms'[r].made
      /\ \A e \in completed : e \in completed'
      /\ k = Task("finish", 0) => t.epoch \in completed'
      /\ \A l \in Claims : l \in Claims'
      /\ k \in Requests /\ k.kind = "claim" /\ t.msg # 0 => k \in Claims'
      /\ AbsentHolds'
  BY <1>1, <1>3, ApplyKeeps
<1>6. Pending' \subseteq Pending \ {t}
  <2>1. tx'[s] = None /\ \A q \in Stores \ {s} : tx'[q] = tx[q]
    BY <1>1 DEF IInv, Processes
  <2> HIDE DEF t
  <2>2. ASSUME NEW q \in Stores, tx'[q] # None, tx'[q].staged
        PROVE  tx'[q] \in Pending \ {t}
    BY <1>1, <2>1, <2>2, NotOrphaned DEF t
  <2> QED
    BY <1>1, <1>3, <2>2 DEF Pending
<1>7. Data' /\ History' /\ Commits'
  BY <1>1, <1>3, <1>6, ApplyData, ApplyHistory, ApplyCommits
<1>8. y \in Phases /\ (y = "serving" => mine[s] \in completed')
  <2>1. CASE k.kind = "finish"
    <3>1. k = Task("finish", 0) /\ t.epoch = epoch
      BY <1>4, <2>1 DEF Good
    <3> QED
      BY <1>4, <1>5, <2>1, <3>1 DEF Phases
  <2>2. CASE k.kind # "finish"
    BY <1>5, <2>2 DEF IInv, Processes
  <2> QED
    BY <2>1, <2>2
<1>9. Processes'
  <2>1. ASSUME NEW q \in Stores \ {s}, tx[q] # None
        PROVE  IF tx[q].staged THEN tx[q] \notin orphans' ELSE owner = q => tx[q].task \notin absent'
    BY <1>1, <2>1 DEF IInv, Processes, Runs
  <2>2. /\ todo' \in [Stores -> SUBSET Rooms] /\ lost' \subseteq Stores
        /\ \A q \in Stores : todo'[q] \subseteq todo[q]
    BY <1>1 DEF IInv, Processes
  <2>3. \A q \in Stores : \A r \in todo'[q] : rooms'[r].made
    BY <1>5, <2>2 DEF IInv, Processes
  <2>4. UNCHANGED <<epoch, owner, mine>>
    BY <1>1 DEF Apply
  <2>5. ~(x # None)
    OBVIOUS
  <2> HIDE DEF x, y, t
  <2> QED
    BY <1>1, <1>2, <1>5, <1>8, <2>1, <2>2, <2>3, <2>4, <2>5, ProcessSteps
<1>10. Serves'
  <2>1. \A h \in G : h \in handlers /\ h \in Request /\ h.at = s /\ h.key = k
    BY DEF Waiting, IInv, Serves
  <2>2. ASSUME NEW n \in N
        PROVE  /\ n \in Request /\ n.at = s /\ n.key = k /\ k \in Requests
               /\ k.kind = "claim" /\ t.msg # 0 /\ n.pc = "release"
               /\ \E h \in G : n = [h EXCEPT !.pc = "release"]
    <3>1. PICK h \in G : h.key.kind = "claim" /\ t.msg # 0 /\ n = [h EXCEPT !.pc = "release"]
      OBVIOUS
    <3>2. h \in Request /\ h.at = s /\ h.key = k
      BY <2>1
    <3> HIDE DEF k, t, G, N
    <3>3. n = [at |-> h.at, key |-> h.key, exp |-> h.exp, tries |-> h.tries, pc |-> "release"]
      BY <3>1, <3>2 DEF Request
    <3>4. n \in Request /\ n.at = s /\ n.key = k /\ k \in Requests /\ n.pc = "release"
      BY <3>2, <3>3 DEF Request
    <3> QED
      BY <3>1, <3>2, <3>4
  <2> HIDE DEF G, N
  <2>3. \A h, g \in G : h = g
    BY <2>1 DEF IInv, Serves
  <2>4. \A n, o \in N : n.at = o.at /\ n.key = o.key => n = o
    BY <2>2, <2>3
  <2>5. \A n \in N : \A h \in handlers \ G : h.at = n.at => h.key # n.key
    <3>1. \A n \in N : \A h \in handlers : h.at = s /\ h.key = k => h \in G
      BY <2>1, <2>2 DEF IInv, Serves
    <3> QED
      BY <2>2, <3>1
  <2>6. \A n \in N : /\ n.pc = "release" => n.key \in Claims'
                     /\ n.key.kind = "ack" => ClaimOf(n.key) \in released
    BY <1>5, <2>2
  <2>7. \A h \in handlers' : proc'[h.at] \in {"serving", "poisoned"}
    <3>1. \A h \in handlers' : \E g \in handlers : g.at = h.at
      BY <1>1, <2>1, <2>2
    <3>2. \A q \in Stores : proc[q] \in {"serving", "poisoned"} => proc'[q] \in {"serving", "poisoned"}
      BY <1>2 DEF IInv, Processes
    <3> QED
      BY <3>1, <3>2 DEF IInv, Serves, Request
  <2>8. /\ N \subseteq Request /\ released' \subseteq Claims' /\ absent' \subseteq Requests
        /\ \A l \in released : l \in released'
    BY <1>1, <1>5, <2>2 DEF IInv, Serves
  <2> QED
    BY <1>1, <1>5, <2>4, <2>5, <2>6, <2>7, <2>8, HandlersStep
<1> QED
  BY <1>5, <1>7, <1>9, <1>10 DEF IInv

-----------------------------------------------------------------------------
(* The theorems *)

LEMMA Initially ==
  ASSUME Init
  PROVE  IInv
<1>1. Accepted = {} /\ Claims = {} /\ Pending = {}
  BY DEF Init, Accepted, Claims, Pending
<1>2. Data
  <2> DEFINE row(r) == [made |-> r \in Founded, rev |-> IF r \in Founded THEN 1 ELSE 0,
                        msgs |-> <<>>, member |-> r \in Founded]
  <2>1. \A r \in Rooms : row(r) \in Row
    BY DEF Row
  <2>2. rooms = [r \in Rooms |-> row(r)]
    BY DEF Init
  <2> HIDE DEF row
  <2> QED
    BY <2>1, <2>2 DEF Init, Data
<1>3. History
  <2>1. \A r \in Rooms : rooms[r].msgs = <<>> /\ (~rooms[r].made => rooms[r].rev = 0)
    BY DEF Init
  <2>2. \A r \in Rooms : DOMAIN rooms[r].msgs = {}
    BY <2>1
  <2> QED
    BY <1>1, <2>1, <2>2 DEF History, OneHistory, RemovalEnds
<1>4. Commits
  BY <1>1 DEF Commits, Locked
<1>5. Processes
  BY DEF Init, Processes, Phases
<1>6. Serves /\ AbsentHolds
  BY DEF Init, Serves, AbsentHolds
<1> QED
  BY <1>2, <1>3, <1>4, <1>5, <1>6 DEF IInv

LEMMA NextKeeps ==
  ASSUME IInv, Next
  PROVE  IInv'
<1>1. ASSUME NEW s \in Stores, Serving(s)
      PROVE  IInv'
  <2>1. CASE OpenLease(s)
    BY <2>1, OpenLeaseKeeps
  <2>2. CASE Advance(s)
    BY <2>2, AdvanceKeeps
  <2>3. CASE RecoverPage(s)
    BY <2>3, RecoverPageKeeps
  <2>4. CASE LeaseDrops(s)
    BY <2>4, IdleSteps
  <2>5. CASE Crash(s)
    BY <2>5, CrashKeeps
  <2>6. CASE \E k \in Requests : Submit(s, k)
    BY <2>6, SubmitKeeps
  <2>7. CASE BeginRecovery(s)
    BY <2>7, BeginRecoveryKeeps
  <2>8. CASE LockFenced(s)
    BY <2>8, LockFencedKeeps
  <2>9. CASE Restart(s)
    BY <2>9, RestartKeeps
  <2>10. CASE StageRecovery(s)
    BY <2>10, StageRecoveryKeeps
  <2>11. CASE Land(s)
    BY <2>11, LandKeeps
  <2>12. CASE Fail(s) \/ GiveUp(s)
    BY <2>12, FailKeeps
  <2> QED
    BY <1>1, <2>1, <2>2, <2>3, <2>4, <2>5, <2>6, <2>7, <2>8, <2>9, <2>10, <2>11, <2>12 DEF Serving
<1>2. ASSUME NEW h \in handlers, Handling(h)
      PROVE  IInv'
  <2>1. CASE Drop(h)
    BY <2>1, IdleSteps
  <2>2. CASE ReadFenced(h)
    BY <2>2, FencedKeeps DEF ReadFenced, Reads
  <2>3. CASE Resolve(h)
    BY <2>3, ResolveKeeps
  <2>4. CASE ReadSnapshot(h)
    BY <2>4, ReadSnapshotKeeps
  <2>5. CASE Release(h)
    BY <2>5, ReleaseKeeps
  <2>6. CASE Begin(h)
    BY <2>6, BeginKeeps
  <2>7. CASE BeginFenced(h)
    BY <2>7, FencedKeeps DEF BeginFenced
  <2>8. CASE Decline(h)
    BY <2>8, DeclineKeeps
  <2>9. CASE Stage(h)
    BY <2>9, StageKeeps
  <2> QED
    BY <1>2, <2>1, <2>2, <2>3, <2>4, <2>5, <2>6, <2>7, <2>8, <2>9 DEF Handling
<1>3. ASSUME NEW t \in orphans, OrphanLands(t) \/ OrphanAborts(t)
      PROVE  IInv'
  BY <1>3, OrphanLandsKeeps, IdleSteps
<1>4. ASSUME NEW r \in Rooms, NEW i \in DOMAIN rooms[r].msgs, LeaseRunsOut(r, i)
      PROVE  IInv'
  BY <1>4, IdleSteps
<1> QED
  BY <1>1, <1>2, <1>3, <1>4 DEF Next

LEMMA StutterKeeps ==
  ASSUME IInv, UNCHANGED vars
  PROVE  IInv'
<1>1. UNCHANGED <<database, processes, tx, lost, clients>> /\ lease' \in Stores \cup {None}
  BY DEF vars, IInv, Data
<1>2. orphans' \subseteq orphans /\ handlers' \subseteq handlers
  BY DEF vars
<1> QED
  BY <1>1, <1>2, IdleKeeps

\* Every reachable state of the deployment satisfies the invariant: whatever
\* COMMIT is still under way may land, and nothing else can be between it and
\* the rows it was decided on.
THEOREM Invariance == Spec => []IInv
<1>1. Init => IInv
  BY Initially
<1>2. IInv /\ [Next]_vars => IInv'
  BY NextKeeps, StutterKeeps
<1> QED
  BY <1>1, <1>2, PTL DEF Spec

LEMMA TypesFollow ==
  ASSUME IInv
  PROVE  TypeOK
<1>1. epoch \in Nat /\ completed \subseteq 1..epoch
  BY DEF IInv, Data
<1>2. ASSUME NEW r \in Rooms
      PROVE  /\ rooms[r] = [made |-> rooms[r].made, rev |-> rooms[r].rev,
                            msgs |-> rooms[r].msgs, member |-> rooms[r].member]
             /\ {rooms[r].made, rooms[r].member} \subseteq BOOLEAN /\ rooms[r].rev \in Nat
             /\ rooms[r].msgs \in Seq(MessageStates)
  <2>1. rooms[r] \in Row
    BY DEF IInv, Data
  <2> DEFINE row == rooms[r]
  <2>2. row \in Row
    BY <2>1
  <2> HIDE DEF row
  <2>3. /\ row = [made |-> row.made, rev |-> row.rev, msgs |-> row.msgs, member |-> row.member]
        /\ {row.made, row.member} \subseteq BOOLEAN /\ row.rev \in Nat /\ row.msgs \in Seq(MessageStates)
    BY <2>2 DEF Row
  <2> QED
    BY <2>3 DEF row
<1>3. ASSUME NEW k \in Accepted
      PROVE  receipts[k] \in [rev : Nat \ {0}, epoch : 1..epoch, msg : Nat]
  <2>1. receipts[k] \in Receipt /\ receipts[k].epoch \in 1..epoch
    BY <1>1, AcceptedParts
  <2> QED
    BY <2>1 DEF Receipt
<1>4. ASSUME NEW t \in Pending
      PROVE  /\ t.staged /\ t.task \in Tasks /\ t.epoch \in 1..epoch
             /\ t.write = None <=> t.task.kind = "finish"
  <2>1. Good(t)
    BY PendingGood
  <2>2. t.staged /\ t.epoch \in 1..epoch
    BY <1>1, <2>1 DEF Good
  <2>3. CASE t.task.kind = "finish"
    BY <2>1, <2>2, <2>3 DEF Good, Tasks
  <2>4. CASE t.task.kind # "finish"
    <3>1. t.write \in Row /\ t.task.room \in Rooms
      BY <2>1, <2>4 DEF Good, Follows
    <3>2. t.write # None
      BY <3>1, KernelConstants DEF Row
    <3>3. t.task \in Requests \/ t.task = Task("recover", t.task.room) \/ t.task = Task("finish", 0)
      BY <2>1 DEF Good
    <3> QED
      BY <2>2, <2>4, <3>1, <3>2, <3>3 DEF Tasks
  <2> QED
    BY <2>3, <2>4
<1>5. \A h \in handlers : h.at \in Stores /\ h.key \in Requests /\ proc[h.at] \in {"serving", "poisoned"}
  BY DEF IInv, Serves, Request
<1>6. released \subseteq Requests
  BY DEF IInv, Serves, Claims, Accepted
<1>7. /\ {owner, lease} \subseteq Stores \cup {None} /\ marked \subseteq (1..epoch) \X Rooms
      /\ owner # None => mine[owner] = epoch
      /\ proc \in [Stores -> {"closed", "leased", "recovering", "reaping", "serving", "poisoned", "dead"}]
      /\ \A g, h \in handlers : g.at = h.at /\ g.key = h.key => g = h
      /\ absent \subseteq Requests /\ lost \subseteq Stores
  BY DEF IInv, Data, Processes, Phases, Serves
<1> QED
  BY <1>1, <1>2, <1>3, <1>4, <1>5, <1>6, <1>7 DEF TypeOK

\* The database, the processes and what waits for the server keep their shape:
\* no COMMIT that may still land is of another epoch than the row's.
THEOREM TypeCorrect == Spec => []TypeOK
<1>1. IInv => TypeOK
  BY TypesFollow
<1> QED
  BY <1>1, Invariance, PTL

\* A definite absence is definite (Resolve): whoever was told that an operation
\* has not committed never sees one sent earlier take effect.
THEOREM AbsenceHolds == Spec => []AbsentHolds
<1>1. IInv => AbsentHolds
  BY DEF IInv
<1> QED
  BY <1>1, Invariance, PTL

\* A Room has one history, whatever COMMITs were lost and whoever came next
\* (compare-and-swap on the locked revision, the fence, recovery before service).
THEOREM HistoryIsOne == Spec => []OneHistory
<1>1. IInv => OneHistory
  BY DEF IInv, History
<1> QED
  BY <1>1, Invariance, PTL

\* Once an epoch's recovery has completed, nothing an earlier process released
\* is out (applyRecoveryPlan, the markers of each Room).
THEOREM RecoveryComesFirst == Spec => []RecoveredFirst
<1>1. IInv => RecoveredFirst
  BY DEF IInv, History, RecoveredFirst, Claims, StateOf
<1> QED
  BY <1>1, Invariance, PTL

\* A removal is the end (retireAuthorityBindings): no operation of the removed
\* member has a later revision, and nothing waits for the Binding it retired.
THEOREM RemovalIsTheEnd == Spec => []RemovalEnds
<1>1. IInv => RemovalEnds
  BY DEF IInv, History
<1> QED
  BY <1>1, Invariance, PTL
-----------------------------------------------------------------------------
(* The delivery contract of a Room *)

\* A Room has no more messages than sends were accepted for it.
LEMMA MessagesCounted ==
  ASSUME IInv, NEW r \in Rooms, IsFiniteSet(Requests)
  PROVE  DOMAIN rooms[r].msgs \subseteq Slots
<1> DEFINE sends == {k \in Requests : k.kind = "send"}
           n == Len(rooms[r].msgs)
           sent == [i \in 1..n |-> CHOOSE k \in Accepted : k.kind = "send" /\ k.room = r /\ receipts[k].msg = i]
<1>1. rooms[r].msgs \in Seq(MessageStates)
  BY DEF IInv, Data, Row
<1>2. n \in Nat /\ DOMAIN rooms[r].msgs = 1..n
  BY <1>1
<1>3. IsFiniteSet(sends)
  BY FS_Subset
<1>4. ASSUME NEW i \in 1..n
      PROVE  sent[i] \in sends /\ receipts[sent[i]].msg = i
  <2>1. \E k \in Accepted : k.kind = "send" /\ k.room = r /\ receipts[k].msg = i
    BY <1>2 DEF IInv, History
  <2>2. /\ sent[i] \in Accepted /\ sent[i].kind = "send" /\ receipts[sent[i]].msg = i
    BY <2>1
  <2> HIDE DEF sent
  <2> QED
    BY <2>2 DEF Accepted
<1>5. sent \in [1..n -> sends]
  <2>1. sent = [i \in 1..n |-> sent[i]]
    OBVIOUS
  <2> HIDE DEF sent, sends
  <2> QED
    BY <1>4, <2>1
<1> HIDE DEF sent, n, sends
<1>6. sent \in Injection(1..n, sends)
  BY <1>4, <1>5 DEF Injection, IsInjective
<1>7. Cardinality(1..n) <= Cardinality(sends)
  BY <1>3, <1>6, FS_Injection
<1>8. Cardinality(1..n) = n
  BY <1>2, FS_Interval
<1>9. Cardinality(sends) \in Nat
  BY <1>3, FS_CardinalityType
<1>10. Slots = 1..Cardinality(sends)
  BY DEF Slots, sends
<1> QED
  BY <1>2, <1>7, <1>8, <1>9, <1>10

\* What a step does to the messages of every Room.
MsgsMove ==
  \/ UNCHANGED rooms
  \/ \E k, m, w : k.room \in Rooms /\ Follows(k, m, w) /\ AcksClaim(k, m) /\ rooms' = [rooms EXCEPT ![k.room] = w]

LEMMA ApplyMoves ==
  ASSUME IInv, NEW t \in Pending, Apply(t)
  PROVE  MsgsMove
<1>1. CASE LandsRequest(t.task, t.msg, t.write)
  BY <1>1, RequestParts DEF LandsRequest, MsgsMove
<1>2. CASE LandsRecovery(t.task.room, t.write)
  <2> DEFINE k == Task("recover", t.task.room)
  <2>1. k.kind = "recover" /\ k.room = t.task.room
    BY DEF Task
  <2>2. Follows(k, 0, t.write) /\ rooms' = [rooms EXCEPT ![k.room] = t.write] /\ k.room \in Rooms
    BY <1>2, <2>1 DEF LandsRecovery
  <2> HIDE DEF k
  <2>3. AcksClaim(k, 0)
    BY <2>1 DEF AcksClaim
  <2> QED
    BY <2>2, <2>3 DEF MsgsMove
<1>3. CASE LandsFinish
  BY <1>3 DEF LandsFinish, MsgsMove
<1> QED
  BY <1>1, <1>2, <1>3, ApplyParts

LEMMA NextMoves ==
  ASSUME IInv, [Next]_vars
  PROVE  MsgsMove
<1>1. ASSUME NEW s \in Stores, Serving(s)
      PROVE  MsgsMove
  <2>1. CASE Land(s)
    <3>1. tx[s] \in Pending /\ Apply(tx[s])
      BY <2>1 DEF Land, Pending
    <3> QED
      BY <3>1, ApplyMoves
  <2>2. CASE ~Land(s)
    BY <1>1, <2>2 DEF Serving, OpenLease, Advance, RecoverPage, LeaseDrops, Crash, Submit, BeginRecovery,
       LockFenced, Restart, StageRecovery, Fail, GiveUp, database, MsgsMove
  <2> QED
    BY <2>1, <2>2
<1>2. ASSUME NEW h \in handlers, Handling(h)
      PROVE  MsgsMove
  BY <1>2 DEF Handling, Drop, ReadFenced, Resolve, ReadSnapshot, Release, Begin, BeginFenced, Decline,
     Stage, database, MsgsMove
<1>3. ASSUME NEW t \in orphans, OrphanLands(t) \/ OrphanAborts(t)
      PROVE  MsgsMove
  BY <1>3, ApplyMoves DEF OrphanLands, OrphanAborts, Pending, database, MsgsMove
<1>4. ASSUME NEW r \in Rooms, NEW i \in DOMAIN rooms[r].msgs, LeaseRunsOut(r, i)
      PROVE  MsgsMove
  BY <1>4 DEF LeaseRunsOut, database, MsgsMove
<1>5. CASE UNCHANGED vars
  BY <1>5 DEF vars, database, MsgsMove
<1> QED
  BY <1>1, <1>2, <1>3, <1>4, <1>5 DEF Next

\* The contract's view of a Room's messages.
Shown(ms) == [i \in Slots |-> IF i \in DOMAIN ms THEN StatusOf[ms[i]] ELSE "absent"]
ShownLane(ms) == [i \in Slots |-> IF i \in DOMAIN ms THEN Watched ELSE None]

LEMMA StatusTells ==
  ASSUME NEW st \in MessageStates
  PROVE  /\ StatusOf[st] # "absent"
         /\ StatusOf[st] = "waiting" <=> st = "queued"
         /\ StatusOf[st] = "out" <=> st = "delivering"
         /\ StatusOf[st] = "doubt" <=> st = "unknown"
         /\ StatusOf[st] = "done" <=> st = "handed_off"
         /\ StatusOf[st] = "withdrawn" <=> st = "cancelled"
BY DEF StatusOf, MessageStates

\* A message step of the watched Room.
Watches(kind, m, old, new) ==
  /\ old \in Seq(MessageStates) /\ new \in Seq(MessageStates)
  /\ DOMAIN old \subseteq Slots /\ DOMAIN new \subseteq Slots /\ Watched \in Founded
  /\ rooms[Watched].msgs = old /\ rooms'[Watched].msgs = new
  /\ kind = "ack" => old[m] \notin {"queued", "cancelled"}

\* The contract's variables, as the watched Room shows them.
Views(old, new) ==
  /\ [i \in Slots |-> IF i \in Kept THEN StatusOf[rooms[Watched].msgs[i]] ELSE "absent"] = Shown(old)
  /\ [i \in Slots |-> IF i \in Kept' THEN StatusOf[rooms'[Watched].msgs[i]] ELSE "absent"] = Shown(new)
  /\ [i \in Slots |-> IF i \in Kept THEN Watched ELSE None] = ShownLane(old)
  /\ [i \in Slots |-> IF i \in Kept' THEN Watched ELSE None] = ShownLane(new)

LEMMA ViewsHold ==
  ASSUME NEW kind, NEW m, NEW old, NEW new, Watches(kind, m, old, new)
  PROVE  Views(old, new)
BY DEF Views, Shown, ShownLane, Kept, Watches

LEMMA Given ==
  ASSUME NEW kind, NEW m, NEW old, NEW new, Watches(kind, m, old, new),
         NEW D \in SUBSET In(old, "delivering")
  PROVE  /\ D \in SUBSET Contract!Out
         /\ Contract!Doubting(D) = Shown(Doubtful(old, D))
<1>1. old \in Seq(MessageStates) /\ DOMAIN old = 1..Len(old) /\ DOMAIN old \subseteq Slots
  BY DEF Watches
<1>2. Views(old, new)
  BY ViewsHold
<1>3. \A i \in D : i \in DOMAIN old /\ old[i] = "delivering"
  BY DEF In
<1>4. \A i \in D : i \in Slots /\ Shown(old)[i] = "out"
  BY <1>1, <1>3 DEF Shown, StatusOf
<1>5. D \in SUBSET Contract!Out
  BY <1>2, <1>4 DEF Contract!Out, Views
<1> DEFINE x == Doubtful(old, D)
<1>6. /\ x \in Seq(MessageStates) /\ DOMAIN x = DOMAIN old
      /\ \A i \in DOMAIN old : x[i] = IF i \in D THEN "unknown" ELSE old[i]
  BY <1>1, DoubtfulParts
<1> HIDE DEF x
<1>7. Shown(x) = [i \in Slots |-> IF i \in D THEN "doubt" ELSE Shown(old)[i]]
  BY <1>3, <1>6 DEF Shown, StatusOf
<1>8. Contract!Doubting(D) = Shown(x)
  BY <1>2, <1>7 DEF Contract!Doubting, Views
<1> QED
  BY <1>5, <1>8 DEF x

\* The contract's step that gives up the releases in D and withdraws W.
LEMMA Withdrawn ==
  ASSUME NEW kind, NEW m, NEW old, NEW new, Watches(kind, m, old, new),
         NEW D \in SUBSET In(old, "delivering"), NEW W \in SUBSET In(old, "queued"),
         DOMAIN new = DOMAIN old,
         \A i \in DOMAIN old : new[i] = IF i \in W THEN "cancelled" ELSE Doubtful(old, D)[i]
  PROVE  Contract!Next
<1>1. Views(old, new) /\ ShownLane(new) = ShownLane(old)
  BY ViewsHold DEF ShownLane
<1>2. D \in SUBSET Contract!Out /\ Contract!Doubting(D) = Shown(Doubtful(old, D))
  BY Given
<1>3. old \in Seq(MessageStates) /\ DOMAIN old \subseteq Slots
  BY DEF Watches
<1>4. \A i \in W : i \in DOMAIN old /\ i \in Slots /\ Shown(old)[i] = "waiting"
  BY <1>3 DEF In, Shown, StatusOf
<1> DEFINE x == Doubtful(old, D)
<1>5. DOMAIN x = DOMAIN old /\ \A i \in DOMAIN old : new[i] = IF i \in W THEN "cancelled" ELSE x[i]
  BY DEF Doubtful
<1> HIDE DEF x
<1>6. Shown(new) = [i \in Slots |-> IF i \in W THEN "withdrawn" ELSE Shown(x)[i]]
  <2>1. ASSUME NEW i \in Slots
        PROVE  Shown(new)[i] = IF i \in W THEN "withdrawn" ELSE Shown(x)[i]
    <3>1. CASE i \in W
      <4>1. i \in DOMAIN new /\ new[i] = "cancelled"
        BY <1>4, <1>5, <3>1
      <4>2. Shown(new)[i] = StatusOf[new[i]]
        BY <4>1 DEF Shown
      <4> QED
        BY <3>1, <4>1, <4>2 DEF StatusOf
    <3>2. CASE i \notin W
      BY <1>5, <3>2 DEF Shown
    <3> QED
      BY <3>1, <3>2
  <2>2. Shown(new) = [i \in Slots |-> Shown(new)[i]]
    BY DEF Shown
  <2> QED
    BY <2>1, <2>2
<1>7. Contract!Withdraw(D, W)
  BY <1>1, <1>2, <1>4, <1>6 DEF Contract!Withdraw, Views, x
<1>8. W \in SUBSET Slots
  BY <1>4
<1> QED
  BY <1>2, <1>7, <1>8 DEF Contract!Next

\* A step of one message is a step of the contract.
LEMMA StepIsContract ==
  ASSUME NEW kind, NEW m, NEW old, NEW new, Watches(kind, m, old, new), MsgStep(kind, m, old, new)
  PROVE  Contract!Next \/ UNCHANGED rooms[Watched].msgs
<1>1. PICK D \in SUBSET In(old, "delivering") :
       \/ kind = "send" /\ m = Len(old) + 1 /\ new = Append(old, "queued")
       \/ kind = "claim" /\ m = 0 /\ new = Doubtful(old, D)
       \/ kind = "claim" /\ Released(m, old, Doubtful(old, D), new)
       \/ kind = "ack" /\ m \in DOMAIN old /\ new = [Doubtful(old, D) EXCEPT ![m] = "handed_off"]
       \/ kind = "remove" /\ m = 0 /\ new = Retired(old)
       \/ kind = "recover" /\ m = 0 /\ new = Doubtful(old, In(old, "delivering"))
       \/ kind = "create" /\ m = 0 /\ new = old
  BY DEF MsgStep
<1> DEFINE x == Doubtful(old, D)
<1>2. /\ x \in Seq(MessageStates) /\ DOMAIN x = DOMAIN old /\ Len(x) = Len(old)
      /\ DOMAIN old = 1..Len(old) /\ Len(old) \in Nat /\ old \in Seq(MessageStates)
      /\ \A i \in DOMAIN old : x[i] = IF i \in D THEN "unknown" ELSE old[i]
  BY DoubtfulParts DEF Watches
<1>3. \A i \in D : i \in DOMAIN old /\ old[i] = "delivering"
  BY DEF In
<1>4. Views(old, new) /\ DOMAIN old \subseteq Slots /\ DOMAIN new \subseteq Slots /\ Watched \in Founded
  BY ViewsHold DEF Watches
<1>5. D \in SUBSET Contract!Out /\ Contract!Doubting(D) = Shown(x)
  BY Given
<1>6. CASE kind = "send" /\ m = Len(old) + 1 /\ new = Append(old, "queued")
  <2> DEFINE N == {}
  <2>1. N \in SUBSET In(old, "delivering") /\ \A i : i \notin N
    OBVIOUS
  <2> HIDE DEF N
  <2>2. N \in SUBSET Contract!Out /\ Contract!Doubting(N) = Shown(Doubtful(old, N))
    BY <2>1, Given
  <2>3. Doubtful(old, N) = old
    BY <1>2, <2>1 DEF Doubtful
  <2>4. m \notin DOMAIN old /\ DOMAIN new = DOMAIN old \cup {m} /\ new[m] = "queued" /\ m \in Nat
        /\ \A i \in DOMAIN old : new[i] = old[i]
    BY <1>2, <1>6
  <2>5. m \in Slots /\ \A j \in Slots : j < m => j \in DOMAIN old
    <3>1. Slots \subseteq Nat \ {0}
      BY DEF Slots
    <3> QED
      BY <1>2, <1>4, <1>6, <2>4, <3>1
  <2>6. Shown(old)[m] = "absent" /\ \A j \in Slots : j < m => Shown(old)[j] # "absent"
    BY <1>2, <2>4, <2>5, StatusTells DEF Shown
  <2>7. Shown(new) = [Shown(old) EXCEPT ![m] = "waiting"]
    <3>1. DOMAIN new = DOMAIN old \cup {m} /\ \A i \in DOMAIN old \ {m} : new[i] = old[i]
      BY <2>4
    <3>2. StatusOf[new[m]] = "waiting" /\ m \in Slots
      BY <2>4, <2>5 DEF StatusOf
    <3>3. ASSUME NEW i \in Slots
          PROVE  Shown(new)[i] = IF i = m THEN "waiting" ELSE Shown(old)[i]
      BY <3>1, <3>2 DEF Shown
    <3>4. Shown(new) = [i \in Slots |-> Shown(new)[i]] /\ Shown(old) = [i \in Slots |-> Shown(old)[i]]
      BY DEF Shown
    <3> QED
      BY <3>2, <3>3, <3>4
  <2>8. ShownLane(new) = [ShownLane(old) EXCEPT ![m] = Watched]
    BY <2>4, <2>5 DEF ShownLane
  <2>9. Contract!Accept(N, m)
    BY <1>4, <2>2, <2>3, <2>6, <2>7, <2>8 DEF Contract!Accept, Views
  <2> QED
    BY <2>2, <2>5, <2>9 DEF Contract!Next
<1>7. CASE kind = "claim" /\ m = 0 /\ new = x
  <2> DEFINE W == {}
  <2>1. W \in SUBSET In(old, "queued") /\ \A i : i \notin W
    OBVIOUS
  <2> HIDE DEF W, x
  <2>2. DOMAIN new = DOMAIN old /\ \A i \in DOMAIN old : new[i] = IF i \in W THEN "cancelled" ELSE x[i]
    BY <1>2, <1>7, <2>1
  <2> QED
    BY <2>1, <2>2, Withdrawn DEF x
<1>8. CASE kind = "claim" /\ Released(m, old, x, new)
  <2>1. /\ m \in DOMAIN old /\ old[m] = "queued" /\ new = [x EXCEPT ![m] = "delivering"]
        /\ \A j \in DOMAIN old : old[j] = "queued" => m <= j
        /\ \A j \in DOMAIN old : x[j] # "delivering"
    BY <1>2, <1>8 DEF Released, In
  <2> HIDE DEF x
  <2>2. DOMAIN new = DOMAIN old /\ new[m] = "delivering" /\ \A i \in DOMAIN old \ {m} : new[i] = x[i]
    BY <1>2, <2>1
  <2>3. m \in Slots /\ Shown(old)[m] = "waiting" /\ ShownLane(new) = ShownLane(old)
    BY <1>4, <2>1, <2>2 DEF Shown, ShownLane, StatusOf
  <2>6. Shown(new) = [Shown(x) EXCEPT ![m] = "out"]
    <3>1. DOMAIN new = DOMAIN x \cup {m} /\ \A i \in DOMAIN x \ {m} : new[i] = x[i]
      BY <1>2, <2>1, <2>2
    <3>2. StatusOf[new[m]] = "out"
      BY <2>2 DEF StatusOf
    <3>3. m \in Slots
      BY <2>3
    <3>4. ASSUME NEW i \in Slots
          PROVE  Shown(new)[i] = IF i = m THEN "out" ELSE Shown(x)[i]
      BY <3>1, <3>2, <3>3 DEF Shown
    <3>5. Shown(new) = [i \in Slots |-> Shown(new)[i]] /\ Shown(x) = [i \in Slots |-> Shown(x)[i]]
      BY DEF Shown
    <3> QED
      BY <3>3, <3>4, <3>5
  <2>4. \A j \in Slots : /\ Shown(old)[j] = "waiting" => m <= j
                         /\ Shown(x)[j] # "out"
    <3>1. \A i \in DOMAIN old : old[i] \in MessageStates /\ x[i] \in MessageStates
      BY <1>2
    <3> QED
      BY <1>2, <2>1, <3>1, StatusTells DEF Shown
  <2>5. Contract!Release(D, m)
    BY <1>4, <1>5, <2>3, <2>4, <2>6 DEF Contract!Release, Views
  <2> QED
    BY <1>5, <2>3, <2>5 DEF Contract!Next
<1>9. CASE kind = "ack" /\ m \in DOMAIN old /\ new = [x EXCEPT ![m] = "handed_off"]
  <2>1. old[m] \in {"delivering", "unknown", "handed_off"}
    <3>1. old[m] \in MessageStates
      BY <1>2, <1>9
    <3> QED
      BY <1>9, <3>1 DEF MessageStates, Watches
  <2> HIDE DEF x
  <2>2. DOMAIN new = DOMAIN old /\ new[m] = "handed_off" /\ \A i \in DOMAIN old \ {m} : new[i] = x[i]
    BY <1>2, <1>9
  <2>3. CASE old[m] = "handed_off"
    <3> DEFINE W == {}
    <3>1. W \in SUBSET In(old, "queued") /\ \A i : i \notin W
      OBVIOUS
    <3> HIDE DEF W
    <3>2. \A i \in DOMAIN old : new[i] = IF i \in W THEN "cancelled" ELSE x[i]
      BY <1>2, <1>3, <1>9, <2>2, <2>3, <3>1
    <3> QED
      BY <2>2, <3>1, <3>2, Withdrawn DEF x
  <2>4. CASE old[m] \in {"delivering", "unknown"}
    <3>1. x[m] \in {"delivering", "unknown"}
      BY <1>2, <1>9, <2>4
    <3>2. m \in Slots /\ Shown(x)[m] \in {"out", "doubt"}
      BY <1>2, <1>4, <1>9, <3>1 DEF Shown, StatusOf
    <3>3. Shown(new) = [Shown(x) EXCEPT ![m] = "done"]
      <4>1. DOMAIN new = DOMAIN x \cup {m} /\ \A i \in DOMAIN x \ {m} : new[i] = x[i]
        BY <1>2, <1>9, <2>2
      <4>2. StatusOf[new[m]] = "done"
        BY <2>2 DEF StatusOf
      <4>3. ASSUME NEW i \in Slots
            PROVE  Shown(new)[i] = IF i = m THEN "done" ELSE Shown(x)[i]
        BY <3>2, <4>1, <4>2 DEF Shown
      <4>4. Shown(new) = [i \in Slots |-> Shown(new)[i]] /\ Shown(x) = [i \in Slots |-> Shown(x)[i]]
        BY DEF Shown
      <4> QED
        BY <3>2, <4>3, <4>4
    <3>5. ShownLane(new) = ShownLane(old)
      BY <2>2 DEF ShownLane
    <3>4. Contract!Confirm(D, m)
      BY <1>4, <1>5, <3>2, <3>3, <3>5 DEF Contract!Confirm, Views
    <3> QED
      BY <1>5, <3>2, <3>4 DEF Contract!Next
  <2> QED
    BY <2>1, <2>3, <2>4
<1>10. CASE kind = "remove" /\ m = 0 /\ new = Retired(old)
  <2> DEFINE E == In(old, "delivering")
             W == In(old, "queued")
  <2>1. Doubtful(old, E) = [i \in DOMAIN old |-> IF i \in E THEN "unknown" ELSE old[i]]
    BY DEF Doubtful
  <2>2. DOMAIN new = DOMAIN old
    BY <1>2, <1>10 DEF Retired
  <2>3. \A i \in DOMAIN old : new[i] = IF i \in W THEN "cancelled" ELSE Doubtful(old, E)[i]
    <3>1. \A i \in DOMAIN old : /\ i \in W <=> old[i] = "queued"
                                /\ i \in E <=> old[i] = "delivering"
      BY DEF In
    <3>2. \A i \in DOMAIN old : /\ old[i] = "queued" => new[i] = "cancelled"
                                /\ old[i] = "delivering" => new[i] = "unknown"
                                /\ old[i] \notin {"queued", "delivering"} => new[i] = old[i]
      BY <1>2, <1>10, RetiredParts
    <3> HIDE DEF E, W
    <3> QED
      BY <2>1, <3>1, <3>2
  <2>4. E \in SUBSET In(old, "delivering") /\ W \in SUBSET In(old, "queued")
    OBVIOUS
  <2> HIDE DEF E, W
  <2> QED
    BY <2>2, <2>3, <2>4, Withdrawn
<1>11. CASE kind = "recover" /\ m = 0 /\ new = Doubtful(old, In(old, "delivering"))
  <2> DEFINE E == In(old, "delivering")
             W == {}
  <2>1. E \in SUBSET In(old, "delivering") /\ W \in SUBSET In(old, "queued") /\ \A i : i \notin W
    OBVIOUS
  <2>2. new = Doubtful(old, E)
    BY <1>11
  <2> HIDE DEF E, W
  <2>3. DOMAIN new = DOMAIN old /\ \A i \in DOMAIN old : new[i] = IF i \in W THEN "cancelled" ELSE Doubtful(old, E)[i]
    BY <2>1, <2>2 DEF Doubtful
  <2> QED
    BY <2>1, <2>3, Withdrawn
<1>12. CASE kind = "create" /\ m = 0 /\ new = old
  BY <1>12 DEF Watches
<1> QED
  BY <1>1, <1>6, <1>7, <1>8, <1>9, <1>10, <1>11, <1>12

LEMMA CountedNext ==
  ASSUME IsFiniteSet(Requests)
  PROVE  IInv' => (\A r \in Rooms : DOMAIN rooms[r].msgs \subseteq Slots)'
<1>1. IInv => \A r \in Rooms : DOMAIN rooms[r].msgs \subseteq Slots
  BY MessagesCounted
<1> QED
  BY <1>1, PTL

LEMMA MoveIsContract ==
  ASSUME IInv, IInv', MsgsMove, IsFiniteSet(Requests), Founded # {}
  PROVE  Contract!Next \/ UNCHANGED rooms[Watched].msgs
<1> DEFINE old == rooms[Watched].msgs
           new == rooms'[Watched].msgs
<1>1. Founded \in SUBSET Nat /\ Founded \subseteq Rooms
  BY KernelConstants
<1>2. Watched \in Founded /\ Watched \in Rooms
  BY <1>1, LeastIn DEF Watched
<1>3. old \in Seq(MessageStates) /\ new \in Seq(MessageStates)
  BY <1>2 DEF IInv, Data, Row
<1>4. DOMAIN old \subseteq Slots /\ DOMAIN new \subseteq Slots
  BY <1>2, MessagesCounted, CountedNext
<1>5. CASE UNCHANGED rooms
  BY <1>5
<1>6. ASSUME NEW k, NEW m, NEW w, k.room \in Rooms, Follows(k, m, w), AcksClaim(k, m),
             rooms' = [rooms EXCEPT ![k.room] = w]
      PROVE  Contract!Next \/ UNCHANGED rooms[Watched].msgs
  <2>1. rooms \in [Rooms -> Row]
    BY DEF IInv, Data
  <2>2. CASE k.room # Watched
    BY <1>2, <1>6, <2>1, <2>2
  <2>3. CASE k.room = Watched
    <3> DEFINE kind == k.kind
    <3>1. new = w.msgs /\ MsgStep(kind, m, old, new)
      BY <1>2, <1>6, <2>1, <2>3 DEF Follows
    <3>2. kind = "ack" => old[m] \notin {"queued", "cancelled"}
      <4> SUFFICES ASSUME kind = "ack"
                   PROVE  old[m] \notin {"queued", "cancelled"}
        OBVIOUS
      <4>1. ClaimOf(k) \in Claims /\ m = receipts[ClaimOf(k)].msg
        BY <1>6 DEF AcksClaim
      <4>2. ClaimOf(k).room = k.room
        BY DEF ClaimOf
      <4> QED
        BY <2>3, <4>1, <4>2 DEF IInv, History, StateOf
    <3>3. Watches(kind, m, old, new)
      BY <1>2, <1>3, <1>4, <3>2 DEF Watches
    <3> HIDE DEF old, new, kind
    <3> QED
      BY <3>1, <3>3, StepIsContract
  <2> QED
    BY <2>2, <2>3
<1> QED
  BY <1>5, <1>6 DEF MsgsMove

\* The messages of a founded Room keep the contract of the Native Room's, for
\* any processes, Rooms and requests: no lost COMMIT, takeover, recovery or
\* removal releases a message twice or settles one it should not. The contract
\* numbers messages up to the sends there are, hence finitely many requests.
THEOREM ContractKept ==
  ASSUME IsFiniteSet(Requests), Founded # {}
  PROVE  Spec => KeepsContract
<1>1. Init => Contract!Init
  <2> SUFFICES ASSUME Init PROVE Contract!Init
    OBVIOUS
  <2>1. Watched \in Rooms
    BY KernelConstants, LeastIn DEF Watched
  <2>2. Kept = {}
    BY <2>1 DEF Init, Kept
  <2> QED
    BY <2>2 DEF Contract!Init
<1>2. IInv /\ IInv' /\ [Next]_vars => [Contract!Next]_(Contract!contract)
  <2> SUFFICES ASSUME IInv, IInv', [Next]_vars
               PROVE  [Contract!Next]_(Contract!contract)
    OBVIOUS
  <2>1. Contract!Next \/ UNCHANGED rooms[Watched].msgs
    BY NextMoves, MoveIsContract
  <2>2. UNCHANGED rooms[Watched].msgs => UNCHANGED (Contract!contract)
    BY DEF Contract!contract, Kept
  <2> QED
    BY <2>1, <2>2
<1> QED
  BY <1>1, <1>2, Invariance, PTL DEF Spec, KeepsContract, Contract!Spec
=============================================================================
