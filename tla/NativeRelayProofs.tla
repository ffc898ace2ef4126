-------------------------- MODULE NativeRelayProofs --------------------------
(***************************************************************************)
(* Safety of the Native relay engine for every set of bind attempts,       *)
(* collectors and messages.  One inductive invariant carries all of it:    *)
(* MsgInv speaks of a message table M, so that it can be followed through  *)
(* the reap that precedes an operation and the fact the operation appends; *)
(* Control speaks of everything else.                                      *)
(***************************************************************************)
EXTENDS NativeRelay, TLAPS

\* The table is well typed and every entry is of one of the three shapes.
WellFormed(M) ==
  /\ M \in [Ids -> Message]
  /\ \A i \in Ids : IF M[i].state = "absent" THEN M[i] = NoMessage
                    ELSE IF M[i].state = "human" THEN M[i].to = User
                    ELSE M[i].to \in Slots /\ M[i].tgen # 0

\* In a dynamic Room exactly the participants' messages have a source generation,
\* and exactly the messages for participants have a target generation.
Routed(M) ==
  Dynamic => \A i \in Ids : M[i].state # "absent" =>
    /\ (M[i].to \in Slots) = (M[i].tgen # 0)
    /\ (M[i].from \in Slots) = (M[i].fgen # 0)

Single(M) == \A i, j \in Delivering(M) : M[i].to = M[j].to => i = j

Current(M) ==
  \A i \in Ids :
    /\ M[i].state \in {"queued", "delivering"} => M[i].tgen = Generation(M[i].to)
    /\ M[i].state = "delivering" => bindings[M[i].to].active

\* A receipt exists exactly from the claim on.
Once(M) ==
  \A i \in Ids : /\ M[i].receipt <= 1
                 /\ M[i].state = "queued" => M[i].receipt = 0

MsgInv(M) == WellFormed(M) /\ Routed(M) /\ Single(M) /\ Current(M) /\ Once(M)

\* What a write of m over entry i of M must satisfy to keep MsgInv.
GoodWrite(M, i, m) ==
  /\ m \in Message
  /\ m.state # "absent"
  /\ IF m.state = "human" THEN m.to = User ELSE m.to \in Slots /\ m.tgen # 0
  /\ Dynamic => /\ (m.to \in Slots) = (m.tgen # 0)
                /\ (m.from \in Slots) = (m.fgen # 0)
  /\ m.state \in {"queued", "delivering"} => m.tgen = Generation(m.to)
  /\ m.state = "delivering" => /\ bindings[m.to].active
                               /\ \A j \in Delivering(M) : M[j].to = m.to => j = i
  /\ m.receipt <= 1
  /\ m.state = "queued" => m.receipt = 0

Control ==
  /\ bindings \in [Slots -> Binding]
  /\ \A s \in Slots : bindings[s].active => bindings[s].bind \in BindIDs /\ bindings[s].gen # 0
  /\ SessionExclusive
  /\ seenBinds \subseteq BindIDs
  /\ reports \subseteq Receipt
  /\ lastReport \in [BindIDs -> Nat]
  /\ phase \in Phases /\ fatal \in BOOLEAN /\ poisoned = FALSE
  /\ expired \subseteq Delivering(msgs) /\ (phase = "stopped" => expired = {})
  /\ collectors \in [Collectors -> Collector]
  /\ held \subseteq Ids \X Nat

IInv == MsgInv(msgs) /\ Control

-----------------------------------------------------------------------------
(* The message table *)

\* Ending leases keeps the table's invariant and shrinks what is out.
LEMMA ExpireKeeps ==
  ASSUME NEW M, MsgInv(M), NEW S \in SUBSET Delivering(M)
  PROVE  /\ MsgInv(Expire(M, S))
         /\ Delivering(Expire(M, S)) = Delivering(M) \ S
         /\ \A i \in Ids : i \notin S => Expire(M, S)[i] = M[i]
         /\ \A i \in Ids : /\ Expire(M, S)[i].to = M[i].to
                           /\ Expire(M, S)[i].from = M[i].from
                           /\ Expire(M, S)[i].tgen = M[i].tgen
                           /\ Expire(M, S)[i].fgen = M[i].fgen
                           /\ Expire(M, S)[i].receipt = M[i].receipt
                           /\ Expire(M, S)[i].state = IF i \in S THEN "unknown" ELSE M[i].state
<1> DEFINE N == Expire(M, S)
<1>1. M \in [Ids -> Message]
  BY DEF MsgInv, WellFormed
<1>2. S \subseteq Ids
  BY DEF Delivering
<1>3. \A i \in Ids : N[i] = IF i \in S THEN [M[i] EXCEPT !.state = "unknown"] ELSE M[i]
  BY DEF Expire
<1>4. \A i \in Ids : /\ N[i] \in Message
                     /\ N[i].to = M[i].to /\ N[i].from = M[i].from
                     /\ N[i].tgen = M[i].tgen /\ N[i].fgen = M[i].fgen
                     /\ N[i].receipt = M[i].receipt
                     /\ N[i].state = IF i \in S THEN "unknown" ELSE M[i].state
  <2> TAKE i \in Ids
  <2>1. M[i] \in Message /\ "unknown" \in States
    BY <1>1 DEF States
  <2>2. CASE i \in S
    <3>1. N[i] = [M[i] EXCEPT !.state = "unknown"]
      BY <1>3, <2>2
    <3> HIDE DEF N
    <3> QED
      BY <2>1, <2>2, <3>1 DEF Message
  <2>3. CASE i \notin S
    BY <1>3, <2>1, <2>3
  <2> QED
    BY <2>2, <2>3
<1>5. N \in [Ids -> Message]
  BY <1>4 DEF Expire
<1>6. \A i \in S : M[i].state = "delivering"
  BY DEF Delivering
<1>7. Delivering(N) = Delivering(M) \ S
  BY <1>4, <1>6 DEF Delivering
<1>8. WellFormed(N)
  BY <1>2, <1>3, <1>4, <1>5, <1>6 DEF MsgInv, WellFormed
<1>9. Routed(N)
  BY <1>4, <1>6 DEF MsgInv, Routed
<1>10. Single(N)
  BY <1>4, <1>7 DEF MsgInv, Single, Delivering
<1>11. Current(N)
  BY <1>4 DEF MsgInv, Current
<1>12. Once(N)
  BY <1>4 DEF MsgInv, Once
<1> QED
  BY <1>3, <1>4, <1>7, <1>8, <1>9, <1>10, <1>11, <1>12 DEF MsgInv

\* A good write keeps it.
LEMMA WriteKeeps ==
  ASSUME NEW M, MsgInv(M), NEW i \in Ids, NEW m, GoodWrite(M, i, m)
  PROVE  MsgInv([M EXCEPT ![i] = m])
<1> DEFINE N == [M EXCEPT ![i] = m]
<1>1. M \in [Ids -> Message] /\ m \in Message
  BY DEF MsgInv, WellFormed, GoodWrite
<1>2. N \in [Ids -> Message] /\ N[i] = m /\ \A j \in Ids \ {i} : N[j] = M[j]
  BY <1>1
<1>3. WellFormed(N)
  BY <1>2 DEF MsgInv, WellFormed, GoodWrite
<1>4. Routed(N)
  BY <1>2 DEF MsgInv, Routed, GoodWrite
<1>5. Single(N)
  <2> SUFFICES ASSUME NEW j \in Delivering(N), NEW k \in Delivering(N), N[j].to = N[k].to
               PROVE  j = k
    BY DEF Single
  <2>1. CASE j # i /\ k # i
    BY <2>1, <1>2 DEF MsgInv, Single, Delivering
  <2>2. CASE j = i /\ k # i
    BY <2>2, <1>2 DEF GoodWrite, Delivering
  <2>3. CASE j # i /\ k = i
    BY <2>3, <1>2 DEF GoodWrite, Delivering
  <2> QED
    BY <2>1, <2>2, <2>3
<1>6. Current(N)
  BY <1>2 DEF MsgInv, Current, GoodWrite
<1>7. Once(N)
  BY <1>2 DEF MsgInv, Once, GoodWrite
<1> QED
  BY <1>3, <1>4, <1>5, <1>6, <1>7 DEF MsgInv

\* A table whose invariant holds for the bindings of this state has it in the
\* next one when the bindings stay.
LEMMA SameBindings ==
  ASSUME MsgInv(msgs'), bindings' = bindings
  PROVE  MsgInv(msgs)'
BY DEF MsgInv, WellFormed, Routed, Single, Current, Once, Generation, Delivering

\* Appending a good and valid message fact, with any outcome.
LEMMA AppendKeeps ==
  ASSUME NEW M, MsgInv(M), NEW o \in Outcomes, NEW i \in Ids, NEW m,
         GoodWrite(M, i, m), ValidMessage(M, i, m), AppendMessage(M, o, i, m),
         poisoned = FALSE, expired \subseteq Ids
  PROVE  /\ MsgInv(msgs')
         /\ fatal' \in BOOLEAN /\ poisoned' = FALSE
         /\ expired' \subseteq Delivering(msgs') /\ expired' \subseteq expired
<1>1. MsgInv([M EXCEPT ![i] = m])
  BY WriteKeeps
<1>2. msgs' = M \/ msgs' = [M EXCEPT ![i] = m]
  BY DEF AppendMessage, Lands
<1>3. MsgInv(msgs')
  BY <1>1, <1>2
<1>4. fatal' \in BOOLEAN /\ poisoned' = FALSE
  BY DEF AppendMessage, Appended
<1>5. expired' \subseteq Delivering(msgs') /\ expired' \subseteq expired
  BY DEF AppendMessage, Delivering
<1> QED
  BY <1>3, <1>4, <1>5

\* Waking the blocked calls keeps them collectors.
LEMMA SignalledType ==
  ASSUME collectors \in [Collectors -> Collector]
  PROVE  Signalled(collectors) \in [Collectors -> Collector]
BY DEF Signalled, Collector

\* The reaped table has the invariant, nothing in flight is left expired, and
\* what is not in flight is untouched.
LEMMA ReapedKeeps ==
  ASSUME IInv
  PROVE  /\ MsgInv(Reaped)
         /\ \A i \in Ids : msgs[i].state # "delivering" => Reaped[i] = msgs[i]
         /\ \A i \in Ids : /\ Reaped[i].to = msgs[i].to
                           /\ Reaped[i].from = msgs[i].from
                           /\ Reaped[i].tgen = msgs[i].tgen
                           /\ Reaped[i].fgen = msgs[i].fgen
                           /\ Reaped[i].receipt = msgs[i].receipt
<1>1. MsgInv(msgs) /\ expired \in SUBSET Delivering(msgs)
  BY DEF IInv, Control
<1>2. \A i \in Ids : msgs[i].state # "delivering" => i \notin expired
  BY <1>1 DEF Delivering
<1> QED
  BY <1>1, <1>2, ExpireKeeps DEF Reaped

-----------------------------------------------------------------------------
(* Reaping *)

LEMMA ReapFailsKeeps ==
  ASSUME IInv, ReapFails, collectors' \in [Collectors -> Collector]
  PROVE  IInv'
<1>1. PICK S \in SUBSET expired : msgs' = Expire(msgs, S) /\ expired' = expired \ S
  BY DEF ReapFails
<1>2. MsgInv(msgs) /\ S \in SUBSET Delivering(msgs)
  BY <1>1 DEF IInv, Control
<1>3. MsgInv(msgs') /\ Delivering(msgs') = Delivering(msgs) \ S
  BY <1>1, <1>2, ExpireKeeps
<1>4. MsgInv(msgs)'
  BY <1>3, SameBindings DEF ReapFails
<1>5. Control'
  BY <1>1, <1>3 DEF IInv, Control, ReapFails, SessionExclusive, Delivering
<1> QED
  BY <1>4, <1>5 DEF IInv

LEMMA ReapOnlyKeeps ==
  ASSUME IInv, ReapOnly, collectors' \in [Collectors -> Collector]
  PROVE  IInv'
<1>1. MsgInv(msgs')
  BY ReapedKeeps DEF ReapOnly
<1>2. MsgInv(msgs)'
  BY <1>1, SameBindings DEF ReapOnly
<1>3. Control'
  BY DEF IInv, Control, ReapOnly, SessionExclusive
<1> QED
  BY <1>2, <1>3 DEF IInv

\* A message fact appended to the reaped table, with the rest left alone.
LEMMA WriteStep ==
  ASSUME IInv, NEW M, MsgInv(M), NEW o \in Outcomes, NEW i \in Ids, NEW m,
         GoodWrite(M, i, m), ValidMessage(M, i, m), AppendMessage(M, o, i, m),
         collectors' \in [Collectors -> Collector], held' \subseteq Ids \X Nat,
         UNCHANGED <<bindings, seenBinds, reports, lastReport, phase>>
  PROVE  IInv'
<1>1. expired \subseteq Ids /\ poisoned = FALSE
  BY DEF IInv, Control, Delivering
<1>2. /\ MsgInv(msgs')
      /\ fatal' \in BOOLEAN /\ poisoned' = FALSE
      /\ expired' \subseteq Delivering(msgs') /\ expired' \subseteq expired
  BY <1>1, AppendKeeps
<1>3. MsgInv(msgs)'
  BY <1>2, SameBindings
<1>4. Control'
  BY <1>2 DEF IInv, Control, SessionExclusive, Delivering
<1> QED
  BY <1>3, <1>4 DEF IInv

-----------------------------------------------------------------------------
(* Binding operations *)

\* A slot's binding facts keep the invariant: what they leave in the inbox is
\* addressed to the generation they make current.
LEMMA BindingKeeps ==
  ASSUME IInv, NEW s \in Slots, NEW b \in Binding, NEW o \in Outcomes,
         b.bind \in BindIDs, b.gen # 0,
         \/ b.gen = bindings[s].gen
         \/ b.active,
         b.active => SessionFree(s, b.bind),
         ValidBinding(s, b),
         AppendBinding(o, s, b)
  PROVE  IInv'
<1>1. /\ msgs \in [Ids -> Message] /\ bindings \in [Slots -> Binding] /\ MsgInv(msgs)
      /\ collectors' \in [Collectors -> Collector]
      /\ fatal' \in BOOLEAN /\ poisoned' = FALSE
      /\ expired' \subseteq Delivering(msgs') /\ expired' \subseteq expired
  BY SignalledType DEF IInv, MsgInv, WellFormed, Control, AppendBinding, Appended, Delivering
<1>2. CASE o = "lost"
  <2>1. UNCHANGED <<bindings, seenBinds, msgs>>
    BY <1>2 DEF AppendBinding, Lands
  <2>2. MsgInv(msgs)'
    BY <1>1, <2>1, SameBindings
  <2>3. Control'
    BY <1>1, <2>1 DEF IInv, Control, AppendBinding, SessionExclusive
  <2> QED
    BY <2>2, <2>3 DEF IInv
<1>3. CASE o # "lost"
  <2>1. /\ bindings' = [bindings EXCEPT ![s] = b]
        /\ seenBinds' = seenBinds \cup {b.bind}
        /\ msgs' = Settled(s, b)
    BY <1>3 DEF AppendBinding, Lands
  <2> DEFINE ends(i) == msgs[i].to = s /\ (~b.active \/ msgs[i].tgen # b.gen)
  <2>2. \A i \in Ids : /\ msgs'[i] \in Message
                       /\ msgs'[i].to = msgs[i].to /\ msgs'[i].from = msgs[i].from
                       /\ msgs'[i].tgen = msgs[i].tgen /\ msgs'[i].fgen = msgs[i].fgen
                       /\ msgs'[i].receipt = msgs[i].receipt
                       /\ msgs'[i].state = IF ~ends(i) THEN msgs[i].state
                                           ELSE IF msgs[i].state = "queued" THEN "cancelled"
                                           ELSE IF msgs[i].state = "delivering" THEN "unknown"
                                           ELSE msgs[i].state
                       /\ msgs[i].state \notin {"queued", "delivering"} => msgs'[i] = msgs[i]
    BY <2>1, <1>1 DEF Settled, Message, States
  <2>3. msgs' \in [Ids -> Message]
    BY <2>1, <2>2 DEF Settled
  <2>4. WellFormed(msgs')
    BY <2>2, <2>3, <1>1 DEF MsgInv, WellFormed
  <2>5. Routed(msgs')
    BY <2>2, <1>1 DEF MsgInv, Routed
  <2>6. Single(msgs')
    BY <2>2, <1>1 DEF MsgInv, Single, Delivering
  <2>7. Once(msgs')
    BY <2>2, <1>1 DEF MsgInv, Once
  <2>8. Current(msgs)'
    <3> SUFFICES ASSUME NEW i \in Ids
                 PROVE  /\ msgs'[i].state \in {"queued", "delivering"}
                             => msgs'[i].tgen = Generation(msgs[i].to)'
                        /\ msgs'[i].state = "delivering" => bindings'[msgs[i].to].active
      BY <2>2 DEF Current, Generation
    <3>1. msgs'[i].state \in {"queued", "delivering"} => msgs'[i].state = msgs[i].state
      BY <2>2
    <3>2. CASE msgs[i].to = s
      <4>1. msgs'[i].state \in {"queued", "delivering"} => b.active /\ msgs[i].tgen = b.gen
        BY <3>2, <2>2
      <4> QED
        BY <4>1, <3>2, <2>1, <2>2, <1>1 DEF Generation
    <3>3. CASE msgs[i].to # s
      <4>1. msgs[i].state \in {"queued", "delivering"} => msgs[i].to \in Slots
        BY <1>1 DEF MsgInv, WellFormed
      <4>2. msgs[i].to \in Slots => bindings'[msgs[i].to] = bindings[msgs[i].to]
        BY <3>3, <2>1, <1>1
      <4> QED
        BY <4>1, <4>2, <3>1, <2>2, <1>1 DEF Generation, MsgInv, Current
    <3> QED
      BY <3>2, <3>3
  <2>9. MsgInv(msgs)'
    BY <2>4, <2>5, <2>6, <2>7, <2>8
       DEF MsgInv, WellFormed, Routed, Single, Once, Delivering
  <2>10. SessionExclusive'
    BY <2>1, <1>1 DEF IInv, Control, SessionExclusive, SessionFree, OtherParticipant, Slots
  <2>11. Control'
    BY <1>1, <2>1, <2>10 DEF IInv, Control, AppendBinding
  <2> QED
    BY <2>9, <2>11 DEF IInv
<1> QED
  BY <1>2, <1>3

LEMMA BindKeeps ==
  ASSUME IInv, NEW s \in Slots, NEW b \in BindIDs, NEW replace \in BOOLEAN, Bind(s, b, replace)
  PROVE  IInv'
<1> DEFINE fact == [bind |-> b, gen |-> bindings[s].gen + 1, active |-> TRUE, park |-> TRUE]
<1>1. PICK o \in Outcomes : AppendBinding(o, s, fact)
  BY DEF Bind
<1>2. bindings[s].gen \in Nat
  BY DEF IInv, Control, Binding
<1>3. fact \in Binding /\ fact.gen # 0
  BY <1>2 DEF Binding
<1>4. SessionFree(s, fact.bind) /\ b \notin seenBinds
  BY DEF Bind
<1>5. ValidBinding(s, fact)
  BY <1>2, <1>4 DEF ValidBinding
<1> QED
  BY <1>1, <1>3, <1>4, <1>5, BindingKeeps

\* Facts that rewrite an active binding within its generation.
LEMMA RewriteKeeps ==
  ASSUME IInv, NEW s \in Slots, bindings[s].active, NEW b \in Binding,
         b.gen = bindings[s].gen, b.bind = bindings[s].bind,
         NEW o \in Outcomes, AppendBinding(o, s, b)
  PROVE  IInv'
<1>1. bindings[s].gen \in Nat /\ b.bind \in BindIDs /\ b.gen # 0
  BY DEF IInv, Control, Binding
<1>2. SessionFree(s, b.bind)
  BY DEF SessionFree, IInv, Control, SessionExclusive, OtherParticipant, Slots
<1>3. ValidBinding(s, b)
  BY <1>1, <1>2 DEF ValidBinding
<1> QED
  BY <1>1, <1>2, <1>3, BindingKeeps

LEMMA BindingStepKeeps ==
  ASSUME IInv, BindingStep
  PROVE  IInv'
<1> PICK s \in Slots :
       \/ \E b \in BindIDs, replace \in BOOLEAN : Bind(s, b, replace)
       \/ Unbind(s)
       \/ StopParks /\ \E enabled \in BOOLEAN : Park(s, enabled)
       \/ RecordFact(s)
  BY DEF BindingStep
<1>1. bindings[s] \in Binding
  BY DEF IInv, Control
<1>2. CASE \E b \in BindIDs, replace \in BOOLEAN : Bind(s, b, replace)
  BY <1>2, BindKeeps
<1>3. CASE Unbind(s)
  <2>1. [bindings[s] EXCEPT !.active = FALSE] \in Binding
    BY <1>1 DEF Binding
  <2> QED
    BY <1>1, <1>3, <2>1, RewriteKeeps DEF Unbind, Binding
<1>4. CASE \E enabled \in BOOLEAN : Park(s, enabled)
  <2> PICK enabled \in BOOLEAN : Park(s, enabled)
    BY <1>4
  <2>1. [bindings[s] EXCEPT !.park = enabled] \in Binding
    BY <1>1 DEF Binding
  <2> QED
    BY <1>1, <2>1, RewriteKeeps DEF Park, Binding
<1>5. CASE RecordFact(s)
  BY <1>1, <1>5, RewriteKeeps DEF RecordFact
<1> QED
  BY <1>2, <1>3, <1>4, <1>5

-----------------------------------------------------------------------------
(* Publishing *)

\* The generation new work is stamped with is never zero.
LEMMA GenerationType ==
  ASSUME IInv, NEW s \in Slots
  PROVE  Generation(s) \in Nat \ {0}
BY DEF IInv, Control, Binding, Generation

\* A fresh entry that is queued for the current generation of its recipient, or
\* written for the owner, is a good write.
LEMMA FreshGood ==
  ASSUME IInv, NEW i \in Ids, NEW m \in Message, msgs[i].state = "absent",
         \/ m.to = User /\ m.state = "human" /\ m.tgen = 0
         \/ m.to \in Slots /\ m.state = "queued" /\ m.tgen = Generation(m.to),
         Dynamic => (m.from \in Slots) = (m.fgen # 0),
         m.receipt = 0
  PROVE  GoodWrite(msgs, i, m)
BY GenerationType DEF GoodWrite, User, Slots

\* What a participant with an active binding, or the owner, plans to send.
LEMMA PlannedType ==
  ASSUME IInv, NEW from \in Slots \cup {User}, NEW to \in Slots \cup {User}, NEW key \in Key,
         from \in Slots => bindings[from].active
  PROVE  LET m == PlanMessage(from, to, key) IN
         /\ m \in Message /\ m.from = from /\ m.to = to /\ m.retryOf = 0 /\ m.receipt = 0
         /\ \/ to = User /\ m.state = "human" /\ m.tgen = 0
            \/ to \in Slots /\ m.state = "queued" /\ m.tgen = Generation(to)
         /\ Dynamic => (from \in Slots) = (m.fgen # 0)
         /\ (Dynamic /\ from \in Slots) => m.fgen = bindings[from].gen
<1>1. to \in Slots => Generation(to) \in Nat
  BY GenerationType
<1>2. from \in Slots => bindings[from].gen \in Nat /\ bindings[from].gen # 0
  BY DEF IInv, Control, Binding
<1> QED
  BY <1>1, <1>2 DEF PlanMessage, Message, States, User, Slots

LEMMA SendLockedKeeps ==
  ASSUME IInv, NEW from \in Slots \cup {User}, NEW to \in Slots \cup {User}, NEW key \in Key,
         NEW expected \in Nat, from \in Slots => bindings[from].active,
         SendLocked(from, to, key, expected)
  PROVE  IInv'
<1> DEFINE m == Stamped(PlanMessage(from, to, key), expected)
<1>1. PICK i \in Ids, o \in Outcomes : NewId(msgs, i) /\ AppendMessage(msgs, o, i, m)
  BY DEF SendLocked
<1>2. m = PlanMessage(from, to, key)
  <2>1. CASE Dynamic /\ from # User /\ to # User
    BY <2>1 DEF SendLocked, PeerUnchanged, Stamped, PlanMessage
  <2>2. CASE ~(Dynamic /\ from # User /\ to # User)
    BY <2>2 DEF Stamped, PlanMessage
  <2> QED
    BY <2>1, <2>2
<1>3. /\ m \in Message /\ m.from = from /\ m.to = to /\ m.retryOf = 0 /\ m.receipt = 0
      /\ \/ to = User /\ m.state = "human" /\ m.tgen = 0
         \/ to \in Slots /\ m.state = "queued" /\ m.tgen = Generation(to)
      /\ Dynamic => (from \in Slots) = (m.fgen # 0)
      /\ (Dynamic /\ from \in Slots) => m.fgen = bindings[from].gen
  BY <1>2, PlannedType
<1>4. GoodWrite(msgs, i, m)
  BY <1>1, <1>3, FreshGood DEF NewId
<1>5. ValidMessage(msgs, i, m)
  BY <1>1, <1>3, GenerationType DEF ValidMessage, NewId, User, Slots
<1>6. MsgInv(msgs) /\ collectors' \in [Collectors -> Collector] /\ held' \subseteq Ids \X Nat
  BY SignalledType DEF IInv, Control, SendLocked
<1>7. UNCHANGED <<bindings, seenBinds, reports, lastReport, phase>>
  BY DEF SendLocked
<1> QED
  BY <1>1, <1>4, <1>5, <1>6, <1>7, WriteStep

LEMMA ReportKeeps ==
  ASSUME IInv, NEW s \in Slots, NEW seq \in 1..MaxReportSeq, NEW to \in Slots \cup {User},
         NEW expected \in Nat, Report(s, seq, to, expected)
  PROVE  IInv'
<1> DEFINE b == bindings[s].bind
           outcome == PublicationOutcome(s, to, expected)
           m == PlanMessage(s, to, [by |-> b, kind |-> "report", n |-> seq])
<1>1. bindings[s].active /\ b \in BindIDs /\ seq \in Nat
  BY ConstantsOK DEF Report, IInv, Control
<1>2. PICK i \in Ids, o \in Outcomes :
        LET valid == ValidPublication(s, i, m, outcome, expected) IN
        /\ NewId(msgs, i)
        /\ Appended(o, valid)
        /\ IF Lands(o, valid)
           THEN /\ reports' = reports \cup {[by |-> b, seq |-> seq, outcome |-> outcome]}
                /\ lastReport' = [lastReport EXCEPT ![b] = seq]
                /\ msgs' = IF outcome = "routed" THEN [msgs EXCEPT ![i] = m] ELSE msgs
           ELSE UNCHANGED <<reports, lastReport, msgs>>
  BY DEF Report
<1>3. [by |-> b, kind |-> "report", n |-> seq] \in Key
  BY <1>1 DEF Key
<1>4. /\ m \in Message /\ m.from = s /\ m.to = to /\ m.retryOf = 0 /\ m.receipt = 0
      /\ \/ to = User /\ m.state = "human" /\ m.tgen = 0
         \/ to \in Slots /\ m.state = "queued" /\ m.tgen = Generation(to)
      /\ Dynamic => (s \in Slots) = (m.fgen # 0)
      /\ Dynamic => m.fgen = bindings[s].gen
  BY <1>1, <1>3, PlannedType
<1>5. GoodWrite(msgs, i, m)
  BY <1>2, <1>4, FreshGood DEF NewId
<1>6. ValidMessage(msgs, i, m)
  BY <1>1, <1>2, <1>4, GenerationType DEF ValidMessage, NewId, User, Slots
<1>7. ValidPublication(s, i, m, outcome, expected)
  <2>1. (Dynamic /\ outcome = "routed" /\ to \in Slots) => expected = Generation(to)
    BY DEF PublicationOutcome, OtherParticipant, Slots
  <2>2. to \in Slots => m.tgen = Generation(to)
    BY <1>4 DEF User, Slots
  <2> HIDE DEF m, outcome
  <2> QED
    BY <1>1, <1>4, <1>6, <2>1, <2>2 DEF ValidPublication
<1>8. fatal' \in BOOLEAN /\ poisoned' = FALSE
  BY <1>2, <1>7 DEF Appended, IInv, Control
<1>9. outcome \in {"routed", "private", "peer_changed"}
  BY DEF PublicationOutcome
<1>10. /\ reports' \subseteq Receipt
       /\ lastReport' \in [BindIDs -> Nat]
  BY <1>1, <1>2, <1>9 DEF IInv, Control, Receipt
<1>11. msgs' = msgs \/ msgs' = [msgs EXCEPT ![i] = m]
  BY <1>2
<1>12. MsgInv(msgs')
  BY <1>5, <1>11, WriteKeeps DEF IInv
<1>13. MsgInv(msgs)'
  BY <1>12, SameBindings DEF Report
<1>14. expired' \subseteq Delivering(msgs')
  BY <1>2, <1>11 DEF Report, IInv, Control, MsgInv, WellFormed, Delivering, NewId
<1>15. Control'
  BY <1>8, <1>10, <1>14, SignalledType DEF IInv, Control, Report, SessionExclusive, Delivering
<1> QED
  BY <1>13, <1>15 DEF IInv

LEMMA PublishStepKeeps ==
  ASSUME IInv, PublishStep
  PROVE  IInv'
<1> PICK s \in Slots :
      \/ \E to \in {OtherParticipant(s), User}, n \in 1..MaxSends, e \in Generations :
           Send(s, to, n, e)
      \/ \E n \in 1..MaxSends : SendUser(s, n)
      \/ \E seq \in 1..MaxReportSeq, to \in Slots \cup {User}, e \in Generations :
           Report(s, seq, to, e)
  BY DEF PublishStep
<1>1. Generations \subseteq Nat
  BY DEF Generations
<1>2. CASE \E to \in {OtherParticipant(s), User}, n \in 1..MaxSends, e \in Generations :
             Send(s, to, n, e)
  <2> PICK to \in {OtherParticipant(s), User}, n \in 1..MaxSends, e \in Generations :
             Send(s, to, n, e)
    BY <1>2
  <2>1. to \in Slots \cup {User} /\ n \in Nat
    BY ConstantsOK DEF OtherParticipant, Slots
  <2>2. bindings[s].active /\ bindings[s].bind \in BindIDs
    BY DEF Send, IInv, Control
  <2>3. [by |-> bindings[s].bind, kind |-> "send", n |-> n] \in Key
    BY <2>1, <2>2 DEF Key
  <2> QED
    BY <1>1, <2>1, <2>2, <2>3, SendLockedKeeps DEF Send
<1>3. CASE \E n \in 1..MaxSends : SendUser(s, n)
  <2> PICK n \in 1..MaxSends : SendUser(s, n)
    BY <1>3
  <2>1. [by |-> NoBind, kind |-> "user", n |-> n] \in Key /\ User \notin Slots
    BY ConstantsOK DEF Key, User, Slots
  <2> QED
    BY <2>1, SendLockedKeeps DEF SendUser
<1>4. CASE \E seq \in 1..MaxReportSeq, to \in Slots \cup {User}, e \in Generations :
             Report(s, seq, to, e)
  BY <1>1, <1>4, ReportKeeps
<1> QED
  BY <1>2, <1>3, <1>4

-----------------------------------------------------------------------------
(* Collecting *)

LEMMA ClaimHeadKeeps ==
  ASSUME IInv, NEW c \in Collectors, NEW s \in Slots, NEW b, NEW g,
         Authentic(s, b, g),
         NEW i \in SelectClaim(Reaped, s, g), ClaimHead(c, i)
  PROVE  IInv'
<1> DEFINE m == PlanClaim(msgs[i])
<1>1. PICK o \in Outcomes :
        /\ AppendMessage(Reaped, o, i, m)
        /\ held' \in IF fatal' THEN {held} ELSE {held, held \cup {<<i, msgs[i].receipt + 1>>}}
  BY DEF ClaimHead
<1>2. MsgInv(msgs) /\ MsgInv(Reaped) /\ msgs \in [Ids -> Message]
  BY ReapedKeeps DEF IInv, MsgInv, WellFormed
<1>3. /\ i \in Ids /\ Reaped[i].state = "queued" /\ Reaped[i].to = s /\ Reaped[i].tgen = g
      /\ ~Busy(Reaped, s)
  BY DEF SelectClaim, Queue
<1>4. msgs[i] = Reaped[i]
  <2>1. expired \in SUBSET Delivering(msgs)
    BY DEF IInv, Control
  <2>2. Reaped[i].state = IF i \in expired THEN "unknown" ELSE msgs[i].state
    BY <1>2, <1>3, <2>1, ExpireKeeps DEF Reaped
  <2>3. i \notin expired
    BY <1>3, <2>2
  <2> QED
    BY <1>2, <1>3, <2>1, <2>3, ExpireKeeps DEF Reaped
<1>5. msgs[i].receipt = 0 /\ msgs[i] \in Message
  BY <1>2, <1>3, <1>4 DEF MsgInv, Once
<1>6. /\ m \in Message /\ m.state = "delivering" /\ m.receipt = 1
      /\ m.to = s /\ m.tgen = g /\ m.from = msgs[i].from /\ m.fgen = msgs[i].fgen
  <2>1. m = [msgs[i] EXCEPT !.state = "delivering", !.receipt = 1]
    BY <1>5 DEF PlanClaim
  <2>2. /\ m.state = "delivering" /\ m.receipt = 1
        /\ m.to = msgs[i].to /\ m.tgen = msgs[i].tgen
        /\ m.from = msgs[i].from /\ m.fgen = msgs[i].fgen
    BY <2>1, <1>5 DEF Message
  <2>3. [msgs[i] EXCEPT !.state = "delivering", !.receipt = 1] \in Message
    BY <1>5 DEF Message, States
  <2> HIDE DEF m
  <2> QED
    BY <2>1, <1>3, <1>4, <2>2, <2>3
<1>7. bindings[s].active /\ g = Generation(s) /\ g \in Nat \ {0}
  BY GenerationType DEF Authentic, Generation
<1>8. Dynamic => (m.from \in Slots) = (m.fgen # 0)
  BY <1>2, <1>3, <1>4, <1>6 DEF MsgInv, Routed
<1>9. GoodWrite(Reaped, i, m)
  BY <1>3, <1>6, <1>7, <1>8 DEF GoodWrite, Busy
<1>10. ValidMessage(Reaped, i, m)
  BY <1>3, <1>4, <1>6, <1>7, <1>8 DEF ValidMessage, SameRoute
<1>11. collectors' \in [Collectors -> Collector] /\ held' \subseteq Ids \X Nat
  <2>1. Idle \in Collector
    BY DEF Idle, Collector, Slots
  <2>2. collectors' = [Signalled(collectors) EXCEPT ![c] = Idle]
    BY DEF ClaimHead
  <2>3. Signalled(collectors) \in [Collectors -> Collector]
    BY SignalledType DEF IInv, Control
  <2>4. held' \subseteq Ids \X Nat
    BY <1>1, <1>3, <1>5 DEF IInv, Control
  <2> QED
    BY <2>1, <2>2, <2>3, <2>4
<1>12. UNCHANGED <<bindings, seenBinds, reports, lastReport, phase>>
  BY DEF ClaimHead
<1> HIDE DEF m
<1> QED
  BY <1>1, <1>2, <1>3, <1>9, <1>10, <1>11, <1>12, WriteStep

LEMMA ClaimPassKeeps ==
  ASSUME IInv, NEW c \in Collectors, NEW call \in Collector, ClaimPass(c, call)
  PROVE  IInv'
<1>1. Idle \in Collector
  BY DEF Idle, Collector, Slots
<1>2. collectors \in [Collectors -> Collector]
      /\ Signalled(collectors) \in [Collectors -> Collector]
  BY SignalledType DEF IInv, Control
<1>3. CASE /\ collectors' = [collectors EXCEPT ![c] = Idle]
           /\ UNCHANGED <<bindings, seenBinds, msgs, reports, lastReport, phase, fatal,
                          poisoned, expired, held>>
  <2>1. collectors' \in [Collectors -> Collector]
    BY <1>1, <1>2, <1>3
  <2>2. MsgInv(msgs)'
    BY <1>3, SameBindings DEF IInv
  <2>3. Control'
    BY <1>3, <2>1 DEF IInv, Control, SessionExclusive, Delivering
  <2> QED
    BY <2>2, <2>3 DEF IInv
<1>4. CASE ReapFails /\ collectors' = [Signalled(collectors) EXCEPT ![c] = Idle]
  BY <1>1, <1>2, <1>4, ReapFailsKeeps
<1>5. CASE /\ Authentic(call.slot, call.bind, call.gen)
           /\ \E i \in SelectClaim(Reaped, call.slot, call.gen) : ClaimHead(c, i)
  <2>1. call.slot \in Slots
    BY DEF Collector
  <2> QED
    BY <1>5, <2>1, ClaimHeadKeeps
<1>6. CASE ClaimWaits(c, call)
  <2>1. [call EXCEPT !.st = "blocked"] \in Collector
    BY DEF Collector
  <2>2. collectors' \in [Collectors -> Collector]
    BY <1>1, <1>2, <1>6, <2>1 DEF ClaimWaits
  <2>3. MsgInv(msgs)'
    BY <1>6, ReapedKeeps, SameBindings DEF ClaimWaits
  <2>4. Control'
    BY <1>6, <2>2 DEF ClaimWaits, IInv, Control, SessionExclusive
  <2> QED
    BY <2>3, <2>4 DEF IInv
<1> QED
  BY <1>3, <1>4, <1>5, <1>6 DEF ClaimPass

LEMMA CollectStepKeeps ==
  ASSUME IInv, CollectStep
  PROVE  IInv'
<1> PICK c \in Collectors :
      \/ \E s \in Slots, park \in {FALSE, StopParks} : Claim(c, s, park)
      \/ ResumeClaim(c)
      \/ ClaimContextDone(c)
  BY DEF CollectStep
<1>1. CASE \E s \in Slots, park \in {FALSE, StopParks} : Claim(c, s, park)
  <2> PICK s \in Slots, park \in {FALSE, StopParks} : Claim(c, s, park)
    BY <1>1
  <2>1. [st |-> "idle", slot |-> s, bind |-> bindings[s].bind, gen |-> bindings[s].gen,
         park |-> park] \in Collector
    BY ConstantsOK DEF IInv, Control, Binding, Collector
  <2> QED
    BY <2>1, ClaimPassKeeps DEF Claim
<1>2. CASE ResumeClaim(c)
  BY <1>2, ClaimPassKeeps DEF ResumeClaim, IInv, Control
<1>3. CASE ClaimContextDone(c)
  <2>1. Idle \in Collector
    BY DEF Idle, Collector, Slots
  <2>2. MsgInv(msgs)'
    BY <1>3, SameBindings DEF IInv, ClaimContextDone
  <2>3. Control'
    BY <1>3, <2>1 DEF IInv, Control, ClaimContextDone, SessionExclusive, Delivering
  <2> QED
    BY <2>2, <2>3 DEF IInv
<1> QED
  BY <1>1, <1>2, <1>3

-----------------------------------------------------------------------------
(* Settling *)

\* A rewrite of an entry that is already there, into a settled state.
LEMMA SettledGood ==
  ASSUME IInv, NEW M, MsgInv(M), NEW i \in Ids, NEW m \in Message,
         M[i].state \in {"queued", "delivering", "unknown"},
         m.state \in {"handed_off", "cancelled"}, m.receipt <= 1, SameRoute(m, M[i])
  PROVE  GoodWrite(M, i, m) /\ ValidMessage(M, i, m)
<1>1. M[i].to \in Slots /\ M[i].tgen # 0
  BY DEF MsgInv, WellFormed
<1>2. Dynamic => /\ (M[i].to \in Slots) = (M[i].tgen # 0)
                 /\ (M[i].from \in Slots) = (M[i].fgen # 0)
  BY DEF MsgInv, Routed
<1> QED
  BY <1>1, <1>2 DEF GoodWrite, ValidMessage, SameRoute

LEMMA AckKeeps ==
  ASSUME IInv, NEW s \in Slots, NEW i \in Ids, NEW r \in Nat, Ack(s, i, r)
  PROVE  IInv'
<1>1. collectors' \in [Collectors -> Collector]
  BY SignalledType DEF Ack, ReapThen, IInv, Control
<1>2. CASE ReapFails
  BY <1>1, <1>2, ReapFailsKeeps
<1>3. CASE ReapOnly
  BY <1>1, <1>3, ReapOnlyKeeps
<1>4. CASE /\ AckHandsOff(Reaped, s, i, r)
           /\ \E o \in Outcomes :
                AppendMessage(Reaped, o, i, [Reaped[i] EXCEPT !.state = "handed_off"])
           /\ UNCHANGED <<bindings, seenBinds, reports, lastReport, phase, held>>
  <2> DEFINE m == [Reaped[i] EXCEPT !.state = "handed_off"]
  <2>1. MsgInv(Reaped) /\ Reaped[i] \in Message /\ Reaped[i].receipt <= 1
    BY ReapedKeeps DEF MsgInv, WellFormed, Once
  <2>2. Reaped[i].state \in {"delivering", "unknown"}
    BY <1>4 DEF AckHandsOff
  <2>3. /\ m \in Message /\ m.state = "handed_off" /\ m.receipt <= 1
        /\ SameRoute(m, Reaped[i])
    BY <2>1 DEF Message, States, SameRoute
  <2>4. GoodWrite(Reaped, i, m) /\ ValidMessage(Reaped, i, m)
    BY <2>1, <2>2, <2>3, SettledGood
  <2>5. held' \subseteq Ids \X Nat
    BY <1>4 DEF IInv, Control
  <2> HIDE DEF m
  <2> QED
    BY <1>1, <1>4, <2>1, <2>4, <2>5, WriteStep DEF m
<1> QED
  BY <1>2, <1>3, <1>4 DEF Ack, ReapThen

LEMMA CancelKeeps ==
  ASSUME IInv, NEW i \in Ids, Cancel(i)
  PROVE  IInv'
<1> DEFINE m == [msgs[i] EXCEPT !.state = "cancelled", !.receipt = 0]
<1>1. MsgInv(msgs) /\ msgs[i] \in Message
  BY DEF IInv, MsgInv, WellFormed
<1>2. m \in Message /\ m.state = "cancelled" /\ m.receipt <= 1 /\ SameRoute(m, msgs[i])
  <2>1. /\ m.state = "cancelled" /\ m.receipt = 0
        /\ m.from = msgs[i].from /\ m.to = msgs[i].to
        /\ m.tgen = msgs[i].tgen /\ m.fgen = msgs[i].fgen
    BY <1>1 DEF Message
  <2>2. m \in Message
    BY <1>1 DEF Message, States
  <2> QED
    BY <2>1, <2>2 DEF SameRoute
<1>3. GoodWrite(msgs, i, m) /\ ValidMessage(msgs, i, m)
  BY <1>1, <1>2, SettledGood DEF Cancel
<1>4. collectors' \in [Collectors -> Collector] /\ held' \subseteq Ids \X Nat
  BY SignalledType DEF Cancel, IInv, Control
<1>5. PICK o \in Outcomes : AppendMessage(msgs, o, i, m)
  BY DEF Cancel
<1>6. UNCHANGED <<bindings, seenBinds, reports, lastReport, phase>>
  BY DEF Cancel
<1> HIDE DEF m
<1> QED
  BY <1>1, <1>3, <1>4, <1>5, <1>6, WriteStep

LEMMA RetryKeeps ==
  ASSUME IInv, NEW i \in Ids, Retry(i)
  PROVE  IInv'
<1>1. collectors' \in [Collectors -> Collector]
  BY SignalledType DEF Retry, ReapThen, IInv, Control
<1>2. CASE ReapFails
  BY <1>1, <1>2, ReapFailsKeeps
<1>3. CASE ReapOnly
  BY <1>1, <1>3, ReapOnlyKeeps
<1>4. CASE /\ MayRetry(Reaped, i)
           /\ \E j \in Ids, o \in Outcomes :
                NewId(Reaped, j) /\ AppendMessage(Reaped, o, j, PlanRetry(Reaped, i))
           /\ UNCHANGED <<bindings, seenBinds, reports, lastReport, phase, held>>
  <2> DEFINE m == PlanRetry(Reaped, i)
  <2>1. PICK j \in Ids, o \in Outcomes : NewId(Reaped, j) /\ AppendMessage(Reaped, o, j, m)
    BY <1>4
  <2>2. /\ MsgInv(Reaped) /\ Reaped[i] \in Message /\ Reaped[i].state = "unknown"
        /\ Reaped[i].to \in Slots /\ Reaped[i].tgen # 0
    BY <1>4, ReapedKeeps DEF MsgInv, WellFormed, MayRetry
  <2>3. Generation(Reaped[i].to) \in Nat \ {0}
    BY <2>2, GenerationType
  <2>4. RetryKey \in Key
    BY DEF RetryKey, Key
  <2>5. /\ m \in Message /\ m.state = "queued" /\ m.receipt = 0 /\ m.retryOf = i
        /\ m.to = Reaped[i].to /\ m.from = Reaped[i].from /\ m.fgen = Reaped[i].fgen
        /\ m.tgen = IF Dynamic THEN Reaped[i].tgen ELSE Generation(Reaped[i].to)
    BY <2>2, <2>3, <2>4 DEF PlanRetry, Message, States
  <2>6. m.tgen = Generation(m.to)
    BY <1>4, <2>5 DEF MayRetry
  <2>7. Dynamic => /\ (m.to \in Slots) = (m.tgen # 0)
                   /\ (m.from \in Slots) = (m.fgen # 0)
    BY <2>2, <2>5 DEF MsgInv, Routed
  <2>8. GoodWrite(Reaped, j, m)
    BY <2>2, <2>3, <2>5, <2>6, <2>7 DEF GoodWrite
  <2>9. i # 0
    BY DEF Ids
  <2>10. ValidMessage(Reaped, j, m)
    BY <2>1, <2>2, <2>5, <2>7, <2>9 DEF ValidMessage, SameRoute, NewId
  <2>11. held' \subseteq Ids \X Nat
    BY <1>4 DEF IInv, Control
  <2> HIDE DEF m
  <2> QED
    BY <1>1, <1>4, <2>1, <2>2, <2>8, <2>10, <2>11, WriteStep
<1> QED
  BY <1>2, <1>3, <1>4 DEF Retry, ReapThen

LEMMA SettleStepKeeps ==
  ASSUME IInv, SettleStep
  PROVE  IInv'
<1>1. ASSUME NEW s \in Slots, NEW h \in held, Ack(s, h[1], h[2]) PROVE IInv'
  <2>1. h[1] \in Ids /\ h[2] \in Nat
    BY DEF IInv, Control
  <2> QED
    BY <1>1, <2>1, AckKeeps
<1>2. ASSUME NEW s \in Slots, NEW i \in Ids, Ack(s, i, 0) PROVE IInv'
  BY <1>2, AckKeeps
<1>3. ASSUME NEW i \in Ids, LeaseEnds(i) PROVE IInv'
  <2>1. MsgInv(msgs)'
    BY <1>3, SameBindings DEF IInv, LeaseEnds
  <2>2. Control'
    BY <1>3 DEF IInv, Control, LeaseEnds, SessionExclusive, Delivering
  <2> QED
    BY <2>1, <2>2 DEF IInv
<1>4. ASSUME Reap PROVE IInv'
  <2>1. collectors' \in [Collectors -> Collector]
    BY <1>4, SignalledType DEF Reap, ReapThen, IInv, Control
  <2> QED
    BY <1>4, <2>1, ReapFailsKeeps, ReapOnlyKeeps DEF Reap, ReapThen
<1> QED
  BY <1>1, <1>2, <1>3, <1>4, CancelKeeps, RetryKeeps DEF SettleStep

-----------------------------------------------------------------------------
(* Drain, close, crash and reopen *)

LEMMA LifecycleStepKeeps ==
  ASSUME IInv, LifecycleStep
  PROVE  IInv'
<1>1. MsgInv(msgs) /\ [c \in Collectors |-> Idle] \in [Collectors -> Collector]
  BY DEF IInv, Idle, Collector, Slots
<1>2. ASSUME NEW value \in BOOLEAN, SetDraining(value) PROVE IInv'
  <2>1. MsgInv(msgs)'
    BY <1>1, <1>2, SameBindings DEF SetDraining
  <2>2. Control'
    BY <1>2, SignalledType DEF IInv, Control, SetDraining, SessionExclusive, Delivering, Phases
  <2> QED
    BY <2>1, <2>2 DEF IInv
<1>3. ASSUME TryBeginIdleClose PROVE IInv'
  <2>1. MsgInv(msgs)'
    BY <1>1, <1>3, SameBindings DEF TryBeginIdleClose
  <2>2. Control'
    BY <1>3, SignalledType DEF IInv, Control, TryBeginIdleClose, SessionExclusive, Delivering, Phases
  <2> QED
    BY <2>1, <2>2 DEF IInv
<1>4. ASSUME Close PROVE IInv'
  <2>1. MsgInv(msgs')
    BY <1>1, <1>4, ExpireKeeps DEF Close
  <2>2. MsgInv(msgs)'
    BY <1>4, <2>1, SameBindings DEF Close
  <2>3. Control'
    BY <1>1, <1>4 DEF IInv, Control, Close, SessionExclusive, Phases
  <2> QED
    BY <2>2, <2>3 DEF IInv
<1>5. ASSUME Crash PROVE IInv'
  <2>1. MsgInv(msgs)'
    BY <1>1, <1>5, SameBindings DEF Crash
  <2>2. Control'
    BY <1>1, <1>5 DEF IInv, Control, Crash, SessionExclusive, Phases
  <2> QED
    BY <2>1, <2>2 DEF IInv
<1>6. ASSUME Open PROVE IInv'
  <2>1. PICK S \in SUBSET Delivering(msgs) : msgs' = Expire(msgs, S)
    BY <1>6 DEF Open, Recovered
  <2>2. MsgInv(msgs')
    BY <1>1, <2>1, ExpireKeeps
  <2>3. MsgInv(msgs)'
    BY <1>6, <2>2, SameBindings DEF Open
  <2>4. expired' = {} /\ phase' \in Phases
    BY <1>6 DEF Open, IInv, Control, Phases
  <2>5. Control'
    BY <1>6, <2>4 DEF IInv, Control, Open, SessionExclusive
  <2> QED
    BY <2>3, <2>5 DEF IInv
<1> QED
  BY <1>2, <1>3, <1>4, <1>5, <1>6 DEF LifecycleStep

-----------------------------------------------------------------------------
(* The invariant of the specification *)

LEMMA InitKeeps == Init => IInv
<1> SUFFICES ASSUME Init PROVE IInv
  OBVIOUS
<1>1. NoMessage \in Message /\ NoMessage.state = "absent" /\ NoMessage.receipt = 0
  BY ConstantsOK DEF NoMessage, RetryKey, Message, States, Key, Slots, User
<1>2. \A i \in Ids : msgs[i] = NoMessage
  BY DEF Init
<1>3. msgs \in [Ids -> Message]
  BY <1>1 DEF Init
<1>4. Delivering(msgs) = {}
  BY <1>1, <1>2 DEF Delivering
<1>5. MsgInv(msgs)
  BY <1>1, <1>2, <1>3, <1>4 DEF MsgInv, WellFormed, Routed, Single, Current, Once
<1>6. Vacant \in Binding /\ Vacant.active = FALSE /\ Idle \in Collector
  BY DEF Vacant, Binding, Idle, Collector, Slots
<1>7. Control
  BY <1>6 DEF Init, Control, SessionExclusive, Slots, Phases, Receipt
<1> QED
  BY <1>5, <1>7 DEF IInv

LEMMA NextKeeps == IInv /\ [Next]_vars => IInv'
<1> SUFFICES ASSUME IInv, [Next]_vars PROVE IInv'
  OBVIOUS
<1>1. CASE UNCHANGED vars
  <2>1. MsgInv(msgs)'
    BY <1>1, SameBindings DEF vars, IInv
  <2>2. Control'
    BY <1>1 DEF vars, IInv, Control, SessionExclusive, Delivering
  <2> QED
    BY <2>1, <2>2 DEF IInv
<1>2. CASE BindingStep
  BY <1>2, BindingStepKeeps
<1>3. CASE PublishStep
  BY <1>3, PublishStepKeeps
<1>4. CASE CollectStep
  BY <1>4, CollectStepKeeps
<1>5. CASE SettleStep
  BY <1>5, SettleStepKeeps
<1>6. CASE LifecycleStep
  BY <1>6, LifecycleStepKeeps
<1> QED
  BY <1>1, <1>2, <1>3, <1>4, <1>5, <1>6 DEF Next

\* The inductive invariant holds in every reachable state.
THEOREM Invariance == Spec => []IInv
BY InitKeeps, NextKeeps, PTL DEF Spec

\* Every variable keeps its type, for Rooms of any size (TypeOK).
THEOREM TypeCorrect == Spec => []TypeOK
<1>1. IInv => TypeOK
  BY DEF IInv, MsgInv, WellFormed, Control, TypeOK
<1> QED
  BY <1>1, Invariance, PTL

\* No slot ever has two envelopes out, with any number of messages, collectors
\* and bind attempts (Claim's busy test, lease expiry, rebinding, restarts).
THEOREM SingleDeliveryHolds == Spec => []SingleDelivery
<1>1. IInv => SingleDelivery
  BY DEF IInv, MsgInv, Single, SingleDelivery
<1> QED
  BY <1>1, Invariance, PTL

\* Open inbox work is always addressed to the generation that can collect it
\* (applyBindingProjection settles the rest in the append that ends it).
THEOREM InboxCurrentHolds == Spec => []InboxCurrent
<1>1. IInv => InboxCurrent
  BY DEF IInv, MsgInv, Current, InboxCurrent
<1> QED
  BY <1>1, Invariance, PTL

\* A message is claimed at most once, however many leases, crashes and replays
\* come after (planClaimFact, planExpiryFacts, decideRetry).
THEOREM ClaimedOnceHolds == Spec => []ClaimedOnce
<1>1. IInv => ClaimedOnce
  BY DEF IInv, MsgInv, Once, ClaimedOnce
<1> QED
  BY <1>1, Invariance, PTL

\* One session never holds both slots of a dynamic Room (validateDynamicBinding).
THEOREM SessionExclusiveHolds == Spec => []SessionExclusive
<1>1. IInv => SessionExclusive
  BY DEF IInv, Control
<1> QED
  BY <1>1, Invariance, PTL

\* No operation ever appends a fact that replay refuses, so what the engine
\* writes never keeps a Room from opening (apply's validation).
THEOREM ReplayableHolds == Spec => []Replayable
<1>1. IInv => Replayable
  BY DEF IInv, Control, Replayable
<1> QED
  BY <1>1, Invariance, PTL

-----------------------------------------------------------------------------
(* Handing off *)

\* What is handed off in N already was in M, unchanged.
SameHandoffs(M, N) == \A i \in Ids : N[i].state = "handed_off" => N[i] = M[i]

\* The step hands off message i, for its own generation and a receipt that a
\* collector holds.
HandsOff(i) ==
  /\ \A j \in Ids \ {i} : msgs'[j].state = "handed_off" => msgs'[j] = msgs[j]
  /\ msgs'[i].receipt = msgs[i].receipt
  /\ bindings[msgs[i].to].active /\ bindings[msgs[i].to].gen = msgs[i].tgen
  /\ <<i, msgs[i].receipt>> \in held

LEMMA ExpireSame ==
  ASSUME NEW M, MsgInv(M), NEW S \in SUBSET Delivering(M)
  PROVE  SameHandoffs(M, Expire(M, S))
BY ExpireKeeps DEF SameHandoffs

LEMMA ReapedSame ==
  ASSUME IInv
  PROVE  SameHandoffs(msgs, Reaped)
<1>1. MsgInv(msgs) /\ expired \in SUBSET Delivering(msgs)
  BY DEF IInv, Control
<1> QED
  BY <1>1, ExpireSame DEF Reaped

LEMMA AppendSame ==
  ASSUME NEW M, MsgInv(M), SameHandoffs(msgs, M), NEW o, NEW i \in Ids, NEW m,
         m.state # "handed_off", AppendMessage(M, o, i, m)
  PROVE  SameHandoffs(msgs, msgs')
<1>1. M \in [Ids -> Message]
  BY DEF MsgInv, WellFormed
<1>2. msgs' = M \/ msgs' = [M EXCEPT ![i] = m]
  BY DEF AppendMessage
<1> QED
  BY <1>1, <1>2 DEF SameHandoffs

LEMMA ReapFailsSame ==
  ASSUME IInv, ReapFails
  PROVE  SameHandoffs(msgs, msgs')
<1>1. PICK S \in SUBSET expired : msgs' = Expire(msgs, S)
  BY DEF ReapFails
<1>2. MsgInv(msgs) /\ S \in SUBSET Delivering(msgs)
  BY DEF IInv, Control
<1> QED
  BY <1>1, <1>2, ExpireSame

LEMMA BindingSame ==
  ASSUME IInv, NEW s, NEW b, NEW o, AppendBinding(o, s, b)
  PROVE  SameHandoffs(msgs, msgs')
<1>1. msgs' = msgs \/ msgs' = Settled(s, b)
  BY DEF AppendBinding
<1>2. \A i \in Ids : Settled(s, b)[i].state = "handed_off" => Settled(s, b)[i] = msgs[i]
  <2> TAKE i \in Ids
  <2>1. msgs[i] \in Message
    BY DEF IInv, MsgInv, WellFormed
  <2> QED
    BY <2>1 DEF Settled, Message
<1> QED
  BY <1>1, <1>2 DEF SameHandoffs

LEMMA ClaimPassSame ==
  ASSUME IInv, NEW c \in Collectors, NEW call \in Collector, ClaimPass(c, call)
  PROVE  SameHandoffs(msgs, msgs') /\ held \subseteq held'
<1>1. CASE UNCHANGED <<msgs, held>>
  BY <1>1 DEF SameHandoffs
<1>2. CASE ReapFails
  BY <1>2, ReapFailsSame DEF ReapFails
<1>3. ASSUME NEW i \in SelectClaim(Reaped, call.slot, call.gen), ClaimHead(c, i)
      PROVE  SameHandoffs(msgs, msgs') /\ held \subseteq held'
  <2>1. PICK o \in Outcomes : AppendMessage(Reaped, o, i, PlanClaim(msgs[i]))
    BY <1>3 DEF ClaimHead
  <2>2. i \in Ids /\ msgs[i] \in Message
    BY DEF SelectClaim, Queue, IInv, MsgInv, WellFormed
  <2>3. PlanClaim(msgs[i]).state # "handed_off"
    BY <2>2 DEF PlanClaim, Message
  <2>4. SameHandoffs(msgs, msgs')
    BY <2>1, <2>2, <2>3, ReapedKeeps, ReapedSame, AppendSame
  <2>5. held \subseteq held'
    BY <1>3 DEF ClaimHead
  <2> QED
    BY <2>4, <2>5
<1>4. CASE ClaimWaits(c, call)
  BY <1>4, ReapedSame DEF ClaimWaits
<1> QED
  BY <1>1, <1>2, <1>3, <1>4 DEF ClaimPass

LEMMA CollectStepSame ==
  ASSUME IInv, CollectStep
  PROVE  SameHandoffs(msgs, msgs') /\ held \subseteq held'
<1> PICK c \in Collectors :
      \/ \E s \in Slots, park \in {FALSE, StopParks} : Claim(c, s, park)
      \/ ResumeClaim(c)
      \/ ClaimContextDone(c)
  BY DEF CollectStep
<1>1. CASE \E s \in Slots, park \in {FALSE, StopParks} : Claim(c, s, park)
  <2> PICK s \in Slots, park \in {FALSE, StopParks} : Claim(c, s, park)
    BY <1>1
  <2>1. [st |-> "idle", slot |-> s, bind |-> bindings[s].bind, gen |-> bindings[s].gen,
         park |-> park] \in Collector
    BY ConstantsOK DEF IInv, Control, Binding, Collector
  <2> QED
    BY <2>1, ClaimPassSame DEF Claim
<1>2. CASE ResumeClaim(c)
  BY <1>2, ClaimPassSame DEF ResumeClaim, IInv, Control
<1>3. CASE ClaimContextDone(c)
  BY <1>3 DEF ClaimContextDone, SameHandoffs
<1> QED
  BY <1>1, <1>2, <1>3

LEMMA AckHands ==
  ASSUME IInv, NEW s \in Slots, NEW i \in Ids, NEW r \in Nat, Ack(s, i, r),
         r = 0 \/ <<i, r>> \in held
  PROVE  /\ SameHandoffs(msgs, msgs') \/ HandsOff(i)
         /\ held' = held
<1>1. CASE ReapFails
  BY <1>1, ReapFailsSame DEF ReapFails
<1>2. CASE ReapOnly
  BY <1>2, ReapedSame DEF ReapOnly
<1>3. CASE /\ AckHandsOff(Reaped, s, i, r)
           /\ \E o \in Outcomes :
                AppendMessage(Reaped, o, i, [Reaped[i] EXCEPT !.state = "handed_off"])
           /\ held' = held
  <2> DEFINE m == [Reaped[i] EXCEPT !.state = "handed_off"]
  <2>1. PICK o \in Outcomes : AppendMessage(Reaped, o, i, m)
    BY <1>3
  <2>2. Reaped \in [Ids -> Message] /\ SameHandoffs(msgs, Reaped)
    BY ReapedKeeps, ReapedSame DEF MsgInv, WellFormed
  <2>3. m.receipt = Reaped[i].receipt
    BY <2>2 DEF Message
  <2>4. msgs' = Reaped \/ msgs' = [Reaped EXCEPT ![i] = m]
    BY <2>1 DEF AppendMessage
  <2> HIDE DEF m
  <2>5. \A j \in Ids \ {i} : msgs'[j].state = "handed_off" => msgs'[j] = msgs[j]
    BY <2>2, <2>4 DEF SameHandoffs
  <2>6. msgs'[i].receipt = msgs[i].receipt
    BY <2>2, <2>3, <2>4, ReapedKeeps
  <2>7. bindings[msgs[i].to].active /\ bindings[msgs[i].to].gen = msgs[i].tgen
    BY <1>3, ReapedKeeps DEF AckHandsOff, Ack
  <2>8. <<i, msgs[i].receipt>> \in held
    BY <1>3, ReapedKeeps DEF AckHandsOff
  <2> QED
    BY <1>3, <2>5, <2>6, <2>7, <2>8 DEF HandsOff
<1> QED
  BY <1>1, <1>2, <1>3 DEF Ack, ReapThen

LEMMA SettleStepHands ==
  ASSUME IInv, SettleStep
  PROVE  /\ SameHandoffs(msgs, msgs') \/ \E i \in Ids : HandsOff(i)
         /\ held' = held
<1>1. ASSUME NEW s \in Slots, NEW h \in held, Ack(s, h[1], h[2])
      PROVE  /\ SameHandoffs(msgs, msgs') \/ \E i \in Ids : HandsOff(i)
             /\ held' = held
  <2>1. h[1] \in Ids /\ h[2] \in Nat /\ <<h[1], h[2]>> \in held
    BY DEF IInv, Control
  <2> QED
    BY <1>1, <2>1, AckHands
<1>2. ASSUME NEW s \in Slots, NEW i \in Ids, Ack(s, i, 0)
      PROVE  /\ SameHandoffs(msgs, msgs') \/ HandsOff(i)
             /\ held' = held
  BY <1>2, AckHands
<1>3. ASSUME NEW i \in Ids, Cancel(i)
      PROVE  SameHandoffs(msgs, msgs') /\ held' = held
  <2> DEFINE m == [msgs[i] EXCEPT !.state = "cancelled", !.receipt = 0]
  <2>1. PICK o \in Outcomes : AppendMessage(msgs, o, i, m)
    BY <1>3 DEF Cancel
  <2>2. MsgInv(msgs) /\ msgs[i] \in Message /\ SameHandoffs(msgs, msgs)
    BY DEF IInv, MsgInv, WellFormed, SameHandoffs
  <2>3. m.state # "handed_off"
    BY <2>2 DEF Message
  <2> HIDE DEF m
  <2> QED
    BY <1>3, <2>1, <2>2, <2>3, AppendSame DEF Cancel
<1>4. ASSUME NEW i \in Ids, Retry(i)
      PROVE  SameHandoffs(msgs, msgs') /\ held' = held
  <2>1. CASE ReapFails
    BY <2>1, ReapFailsSame DEF ReapFails
  <2>2. CASE ReapOnly
    BY <2>2, ReapedSame DEF ReapOnly
  <2>3. CASE /\ \E j \in Ids, o \in Outcomes :
                  NewId(Reaped, j) /\ AppendMessage(Reaped, o, j, PlanRetry(Reaped, i))
             /\ held' = held
    <3>1. PICK j \in Ids, o \in Outcomes : AppendMessage(Reaped, o, j, PlanRetry(Reaped, i))
      BY <2>3
    <3>2. MsgInv(Reaped) /\ Reaped[i] \in Message /\ SameHandoffs(msgs, Reaped)
      BY ReapedKeeps, ReapedSame DEF MsgInv, WellFormed
    <3>3. PlanRetry(Reaped, i).state # "handed_off"
      BY <3>2 DEF PlanRetry, Message
    <3> QED
      BY <2>3, <3>1, <3>2, <3>3, AppendSame
  <2> QED
    BY <1>4, <2>1, <2>2, <2>3 DEF Retry, ReapThen
<1>5. ASSUME NEW i \in Ids, LeaseEnds(i)
      PROVE  SameHandoffs(msgs, msgs') /\ held' = held
  BY <1>5 DEF LeaseEnds, SameHandoffs
<1>6. ASSUME Reap
      PROVE  SameHandoffs(msgs, msgs') /\ held' = held
  BY <1>6, ReapFailsSame, ReapedSame DEF Reap, ReapThen, ReapFails, ReapOnly
<1> QED
  BY <1>1, <1>2, <1>3, <1>4, <1>5, <1>6 DEF SettleStep

LEMMA SendLockedSame ==
  ASSUME IInv, NEW from, NEW to, NEW key, NEW expected, SendLocked(from, to, key, expected)
  PROVE  SameHandoffs(msgs, msgs') /\ held' = held
<1> DEFINE m == Stamped(PlanMessage(from, to, key), expected)
<1>1. PICK i \in Ids, o \in Outcomes : AppendMessage(msgs, o, i, m)
  BY DEF SendLocked
<1>2. MsgInv(msgs) /\ SameHandoffs(msgs, msgs)
  BY DEF IInv, SameHandoffs
<1>3. m.state # "handed_off"
  BY DEF Stamped, PlanMessage
<1> HIDE DEF m
<1> QED
  BY <1>1, <1>2, <1>3, AppendSame DEF SendLocked

LEMMA PublishStepSame ==
  ASSUME IInv, PublishStep
  PROVE  SameHandoffs(msgs, msgs') /\ held' = held
<1>1. ASSUME NEW s \in Slots, NEW to, NEW n, NEW e, Send(s, to, n, e)
      PROVE  SameHandoffs(msgs, msgs') /\ held' = held
  BY <1>1, SendLockedSame DEF Send
<1>2. ASSUME NEW s \in Slots, NEW n, SendUser(s, n)
      PROVE  SameHandoffs(msgs, msgs') /\ held' = held
  BY <1>2, SendLockedSame DEF SendUser
<1>3. ASSUME NEW s \in Slots, NEW seq, NEW to, NEW e, Report(s, seq, to, e)
      PROVE  SameHandoffs(msgs, msgs') /\ held' = held
  <2> DEFINE m == PlanMessage(s, to, [by |-> bindings[s].bind, kind |-> "report", n |-> seq])
  <2>1. PICK i \in Ids : msgs' = msgs \/ msgs' = [msgs EXCEPT ![i] = m]
    BY <1>3 DEF Report
  <2>2. m.state # "handed_off"
    BY DEF PlanMessage
  <2>3. msgs \in [Ids -> Message]
    BY DEF IInv, MsgInv, WellFormed
  <2> HIDE DEF m
  <2> QED
    BY <1>3, <2>1, <2>2, <2>3 DEF SameHandoffs, Report
<1> QED
  BY <1>1, <1>2, <1>3 DEF PublishStep

LEMMA LifecycleStepSame ==
  ASSUME IInv, LifecycleStep
  PROVE  SameHandoffs(msgs, msgs') /\ held' = held
<1>1. held' = held
  BY DEF LifecycleStep, SetDraining, TryBeginIdleClose, Close, Crash, Open
<1>2. msgs' = msgs \/ \E S \in SUBSET Delivering(msgs) : msgs' = Expire(msgs, S)
  BY DEF LifecycleStep, SetDraining, TryBeginIdleClose, Close, Crash, Open, Recovered
<1>3. MsgInv(msgs) /\ SameHandoffs(msgs, msgs)
  BY DEF IInv, SameHandoffs
<1> QED
  BY <1>1, <1>2, <1>3, ExpireSame

LEMMA BindingStepSame ==
  ASSUME IInv, BindingStep
  PROVE  SameHandoffs(msgs, msgs') /\ held' = held
<1>1. \E s, o, b : AppendBinding(o, s, b)
  BY DEF BindingStep, Bind, Unbind, Park, RecordFact
<1> QED
  BY <1>1, BindingSame DEF AppendBinding

\* In one step at most one message is handed off, by an acknowledgement.
LEMMA NextHands ==
  ASSUME IInv, [Next]_vars
  PROVE  /\ SameHandoffs(msgs, msgs') \/ \E i \in Ids : HandsOff(i)
         /\ held \subseteq held'
<1>1. CASE UNCHANGED vars
  BY <1>1 DEF vars, SameHandoffs
<1> QED
  BY <1>1, BindingStepSame, PublishStepSame, CollectStepSame, SettleStepHands,
     LifecycleStepSame DEF Next

\* A message is marked handed off only if its envelope reached a collector with
\* the receipt the log records, in every Room (Ack and decideAcknowledgement).
THEOREM HandedOffByReceiptHolds == Spec => []HandedOffByReceipt
<1>1. Init => HandedOffByReceipt
  BY DEF Init, HandedOffByReceipt, NoMessage
<1>2. HandedOffByReceipt /\ IInv /\ [Next]_vars => HandedOffByReceipt'
  <2> SUFFICES ASSUME HandedOffByReceipt, IInv, [Next]_vars, NEW i \in Ids,
                      msgs'[i].state = "handed_off"
               PROVE  <<i, msgs'[i].receipt>> \in held'
    BY DEF HandedOffByReceipt
  <2>1. held \subseteq held'
    BY NextHands
  <2>2. CASE msgs'[i] = msgs[i]
    BY <2>1, <2>2 DEF HandedOffByReceipt
  <2>3. CASE HandsOff(i)
    BY <2>1, <2>3 DEF HandsOff
  <2> QED
    BY <2>2, <2>3, NextHands DEF SameHandoffs, HandsOff
<1> QED
  BY <1>1, <1>2, Invariance, PTL DEF Spec

\* Only the active binding of the generation a message names acknowledges it, for
\* every number of binds, messages and collectors.
THEOREM HandoffByItsGenerationHolds == Spec => HandoffByItsGeneration
<1>1. IInv /\ [Next]_vars =>
        [\A i \in Ids :
           (msgs'[i].state = "handed_off" /\ msgs[i].state # "handed_off")
             => bindings[msgs[i].to].active /\ bindings[msgs[i].to].gen = msgs[i].tgen]_vars
  <2> SUFFICES ASSUME IInv, [Next]_vars, NEW i \in Ids,
                      msgs'[i].state = "handed_off", msgs[i].state # "handed_off"
               PROVE  bindings[msgs[i].to].active /\ bindings[msgs[i].to].gen = msgs[i].tgen
    OBVIOUS
  <2>1. HandsOff(i)
    BY NextHands DEF SameHandoffs, HandsOff
  <2> QED
    BY <2>1 DEF HandsOff
<1> QED
  BY <1>1, Invariance, PTL DEF Spec, HandoffByItsGeneration

-----------------------------------------------------------------------------
(* What a step does to the message table.  Every step first loses some of    *)
(* the deliveries, D, and then withdraws queued entries or writes one entry. *)

Withdraws(D, W) ==
  /\ \A i \in W : msgs[i].state = "queued"
  /\ msgs' = [i \in Ids |-> IF i \in W THEN [msgs[i] EXCEPT !.state = "cancelled"]
                            ELSE Expire(msgs, D)[i]]

\* A key that no accepted message has: a client's own, or a report numbered
\* above all the binding's earlier ones.
NewKey(key) ==
  \/ key.kind # "report" /\ ~SentBefore(key)
  \/ /\ key.kind = "report" /\ key.by \in BindIDs
     /\ lastReport[key.by] < key.n /\ key.n <= lastReport'[key.by]

Accepts(i, m) ==
  /\ NewId(msgs, i) /\ m.retryOf = 0 /\ NewKey(m.key)
  /\ \/ m.to = User /\ m.state = "human"
     \/ m.to \in Slots /\ m.state = "queued"

Retries(M, i, m) ==
  /\ NewId(msgs, i) /\ m.state = "queued" /\ m.to \in Slots
  /\ m.retryOf \in Ids /\ M[m.retryOf].state = "unknown" /\ ~HasPendingRetry(M, m.retryOf)

SameOrigin(m, old) == m.to = old.to /\ m.retryOf = old.retryOf /\ m.key = old.key

Claims(M, i, m) ==
  /\ M[i].state = "queued" /\ ~Busy(M, M[i].to) /\ \A j \in Queue(M, M[i].to) : i <= j
  /\ m.state = "delivering" /\ SameOrigin(m, M[i])

HandsOver(M, i, m) ==
  /\ M[i].state \in {"delivering", "unknown"} /\ (M[i].state = "unknown" => ~HasPendingRetry(M, i))
  /\ m.state = "handed_off" /\ SameOrigin(m, M[i])

Writes(M, i, m) ==
  /\ msgs' = [M EXCEPT ![i] = m]
  /\ Accepts(i, m) \/ Retries(M, i, m) \/ Claims(M, i, m) \/ HandsOver(M, i, m)

Moves ==
  /\ \E D \in SUBSET Delivering(msgs) :
       \/ msgs' = Expire(msgs, D)
       \/ \E W \in SUBSET Ids : Withdraws(D, W)
       \/ \E i \in Ids, m \in Message : Writes(Expire(msgs, D), i, m)
  /\ \A b \in BindIDs : lastReport'[b] \in Nat /\ lastReport[b] <= lastReport'[b]

\* The table stays, or only deliveries are lost.
LEMMA StayMoves ==
  ASSUME IInv, UNCHANGED lastReport,
         msgs' = msgs \/ \E D \in SUBSET Delivering(msgs) : msgs' = Expire(msgs, D)
  PROVE  Moves
<1>1. msgs = Expire(msgs, {})
  BY DEF IInv, MsgInv, WellFormed, Expire
<1>2. {} \in SUBSET Delivering(msgs)
  OBVIOUS
<1>3. \E D \in SUBSET Delivering(msgs) : msgs' = Expire(msgs, D)
  BY <1>1, <1>2
<1>4. \A b \in BindIDs : lastReport'[b] \in Nat /\ lastReport[b] <= lastReport'[b]
  BY DEF IInv, Control
<1> QED
  BY <1>3, <1>4 DEF Moves

LEMMA ReapMoves ==
  ASSUME IInv, ReapFails \/ ReapOnly
  PROVE  Moves
<1>1. expired \in SUBSET Delivering(msgs)
  BY DEF IInv, Control
<1>2. \E D \in SUBSET Delivering(msgs) : msgs' = Expire(msgs, D)
  BY <1>1 DEF ReapFails, ReapOnly, Reaped
<1> QED
  BY <1>2, StayMoves DEF ReapFails, ReapOnly

\* An appended message fact is such a write, or it is lost.
LEMMA AppendMoves ==
  ASSUME IInv, UNCHANGED lastReport, NEW D \in SUBSET Delivering(msgs),
         NEW o, NEW i \in Ids, NEW m \in Message, AppendMessage(Expire(msgs, D), o, i, m),
         \/ Accepts(i, m) \/ Retries(Expire(msgs, D), i, m)
         \/ Claims(Expire(msgs, D), i, m) \/ HandsOver(Expire(msgs, D), i, m)
  PROVE  Moves
<1>1. CASE msgs' = Expire(msgs, D)
  BY <1>1, StayMoves
<1>2. CASE msgs' = [Expire(msgs, D) EXCEPT ![i] = m]
  <2>1. Writes(Expire(msgs, D), i, m)
    BY <1>2 DEF Writes
  <2>2. \A b \in BindIDs : lastReport'[b] \in Nat /\ lastReport[b] <= lastReport'[b]
    BY DEF IInv, Control
  <2> QED
    BY <2>1, <2>2 DEF Moves
<1> QED
  BY <1>1, <1>2 DEF AppendMessage

\* Nothing is lost before an operation that does not reap.
LEMMA NothingLost ==
  ASSUME IInv
  PROVE  {} \in SUBSET Delivering(msgs) /\ Expire(msgs, {}) = msgs
BY DEF IInv, MsgInv, WellFormed, Expire

LEMMA ReapedIsExpire ==
  ASSUME IInv
  PROVE  expired \in SUBSET Delivering(msgs) /\ Reaped = Expire(msgs, expired)
BY DEF IInv, Control, Reaped

\* Expiry moves no message and touches only what was out.
LEMMA ExpireParts ==
  ASSUME IInv, NEW D \in SUBSET Delivering(msgs), NEW i \in Ids
  PROVE  /\ msgs[i] \in Message /\ Expire(msgs, D)[i] \in Message
         /\ Expire(msgs, D)[i].state = IF i \in D THEN "unknown" ELSE msgs[i].state
         /\ i \in D => msgs[i].state = "delivering"
         /\ i \notin D => Expire(msgs, D)[i] = msgs[i]
         /\ SameOrigin(Expire(msgs, D)[i], msgs[i])
         /\ Expire(msgs, D)[i].receipt = msgs[i].receipt
<1>1. msgs \in [Ids -> Message] /\ msgs[i] \in Message
  BY DEF IInv, MsgInv, WellFormed
<1>2. i \in D => msgs[i].state = "delivering"
  BY DEF Delivering
<1>3. CASE i \notin D
  BY <1>1, <1>2, <1>3 DEF Expire, SameOrigin
<1>4. CASE i \in D
  <2>1. Expire(msgs, D)[i] = [msgs[i] EXCEPT !.state = "unknown"]
    BY <1>4 DEF Expire
  <2>2. [msgs[i] EXCEPT !.state = "unknown"] \in Message
    BY <1>1 DEF Message, States
  <2> QED
    BY <1>1, <1>2, <1>4, <2>1, <2>2 DEF Message, SameOrigin
<1> QED
  BY <1>3, <1>4

-----------------------------------------------------------------------------

\* A binding fact loses what its slot has out, and withdraws what it has queued.
LEMMA BindingMoves ==
  ASSUME IInv, NEW s, NEW b, NEW o, AppendBinding(o, s, b)
  PROVE  Moves
<1>1. UNCHANGED lastReport /\ (msgs' = msgs \/ msgs' = Settled(s, b))
  BY DEF AppendBinding
<1>2. CASE msgs' = msgs
  BY <1>1, <1>2, StayMoves
<1>3. CASE msgs' = Settled(s, b)
  <2> DEFINE ends(i) == msgs[i].to = s /\ (~b.active \/ msgs[i].tgen # b.gen)
             D == {i \in Ids : ends(i) /\ msgs[i].state = "delivering"}
             W == {i \in Ids : ends(i) /\ msgs[i].state = "queued"}
  <2>1. D \in SUBSET Delivering(msgs) /\ W \in SUBSET Ids
    BY DEF Delivering
  <2>2. \A i \in Ids : Settled(s, b)[i] = IF i \in W THEN [msgs[i] EXCEPT !.state = "cancelled"]
                                          ELSE Expire(msgs, D)[i]
    BY DEF Settled, Expire
  <2>3. Withdraws(D, W)
    BY <1>3, <2>2 DEF Withdraws, Settled
  <2>4. \A t \in BindIDs : lastReport'[t] \in Nat /\ lastReport[t] <= lastReport'[t]
    BY <1>1 DEF IInv, Control
  <2> HIDE DEF D, W
  <2> QED
    BY <2>1, <2>3, <2>4 DEF Moves
<1> QED
  BY <1>1, <1>2, <1>3

LEMMA BindingStepMoves ==
  ASSUME IInv, BindingStep
  PROVE  Moves
<1>1. \E s, o, b : AppendBinding(o, s, b)
  BY DEF BindingStep, Bind, Unbind, Park, RecordFact
<1> QED
  BY <1>1, BindingMoves

LEMMA SendLockedMoves ==
  ASSUME IInv, NEW from \in Slots \cup {User}, NEW to \in Slots \cup {User}, NEW key \in Key,
         key.kind # "report",
         NEW expected \in Nat, from \in Slots => bindings[from].active,
         SendLocked(from, to, key, expected)
  PROVE  Moves
<1> DEFINE p == PlanMessage(from, to, key)
           m == Stamped(p, expected)
<1>1. PICK i \in Ids, o \in Outcomes : NewId(msgs, i) /\ AppendMessage(msgs, o, i, m)
  BY DEF SendLocked
<1>2. /\ p \in Message /\ p.to = to /\ p.retryOf = 0 /\ p.key = key
      /\ (to = User /\ p.state = "human") \/ (to \in Slots /\ p.state = "queued")
  <2>1. p.key = key
    BY DEF PlanMessage
  <2> HIDE DEF p
  <2> QED
    BY <2>1, PlannedType DEF p
<1>3. /\ m \in Message /\ m.to = to /\ m.retryOf = 0 /\ m.key = key
      /\ (to = User /\ m.state = "human") \/ (to \in Slots /\ m.state = "queued")
  <2> HIDE DEF p
  <2>1. m = p \/ m = [p EXCEPT !.tgen = expected]
    BY DEF Stamped
  <2> QED
    BY <1>2, <2>1 DEF Message
<1>4. Accepts(i, m)
  BY <1>1, <1>3 DEF Accepts, NewKey, SendLocked
<1>5. UNCHANGED lastReport
  BY DEF SendLocked
<1> HIDE DEF m, p
<1> QED
  BY <1>1, <1>3, <1>4, <1>5, NothingLost, AppendMoves

LEMMA ReportMoves ==
  ASSUME IInv, NEW s \in Slots, NEW seq \in 1..MaxReportSeq, NEW to \in Slots \cup {User},
         NEW expected, Report(s, seq, to, expected)
  PROVE  Moves
<1> DEFINE b == bindings[s].bind
           outcome == PublicationOutcome(s, to, expected)
           key == [by |-> b, kind |-> "report", n |-> seq]
           m == PlanMessage(s, to, key)
<1>1. /\ bindings[s].active /\ b \in BindIDs /\ seq \in Nat /\ lastReport[b] < seq
      /\ lastReport \in [BindIDs -> Nat]
  BY ConstantsOK DEF Report, NewReport, IInv, Control
<1>2. PICK i \in Ids :
        /\ NewId(msgs, i)
        /\ \/ /\ lastReport' = [lastReport EXCEPT ![b] = seq]
              /\ msgs' = IF outcome = "routed" THEN [msgs EXCEPT ![i] = m] ELSE msgs
           \/ UNCHANGED <<lastReport, msgs>>
  BY DEF Report
<1>3. CASE UNCHANGED <<lastReport, msgs>>
  BY <1>3, StayMoves
<1>4. CASE /\ lastReport' = [lastReport EXCEPT ![b] = seq]
           /\ msgs' = IF outcome = "routed" THEN [msgs EXCEPT ![i] = m] ELSE msgs
  <2>1. /\ lastReport'[b] = seq
        /\ \A t \in BindIDs : lastReport'[t] \in Nat /\ lastReport[t] <= lastReport'[t]
    BY <1>1, <1>4
  <2>2. key \in Key /\ key.kind = "report" /\ key.by = b /\ key.n = seq
    BY <1>1 DEF Key
  <2>3. m.key = key
    BY DEF PlanMessage
  <2> HIDE DEF key
  <2>4. /\ m \in Message /\ m.to = to /\ m.retryOf = 0
        /\ (to = User /\ m.state = "human") \/ (to \in Slots /\ m.state = "queued")
    BY <1>1, <2>2, PlannedType
  <2>5. Accepts(i, m)
    BY <1>1, <1>2, <2>1, <2>2, <2>3, <2>4 DEF Accepts, NewKey
  <2> HIDE DEF m, outcome
  <2>6. msgs' = Expire(msgs, {}) \/ Writes(Expire(msgs, {}), i, m)
    BY <1>4, <2>5, NothingLost DEF Writes
  <2> QED
    BY <2>1, <2>4, <2>6, NothingLost DEF Moves
<1> QED
  BY <1>2, <1>3, <1>4

LEMMA PublishStepMoves ==
  ASSUME IInv, PublishStep
  PROVE  Moves
<1> PICK s \in Slots :
      \/ \E to \in {OtherParticipant(s), User}, n \in 1..MaxSends, e \in Generations :
           Send(s, to, n, e)
      \/ \E n \in 1..MaxSends : SendUser(s, n)
      \/ \E seq \in 1..MaxReportSeq, to \in Slots \cup {User}, e \in Generations :
           Report(s, seq, to, e)
  BY DEF PublishStep
<1>1. Generations \subseteq Nat
  BY DEF Generations
<1>2. ASSUME NEW to \in {OtherParticipant(s), User}, NEW n \in 1..MaxSends,
             NEW e \in Generations, Send(s, to, n, e)
      PROVE  Moves
  <2> DEFINE key == [by |-> bindings[s].bind, kind |-> "send", n |-> n]
  <2>1. to \in Slots \cup {User} /\ n \in Nat /\ e \in Nat
    BY <1>1, ConstantsOK DEF OtherParticipant, Slots
  <2>2. bindings[s].active /\ bindings[s].bind \in BindIDs
    BY <1>2 DEF Send, IInv, Control
  <2>3. key \in Key /\ key.kind # "report"
    BY <2>1, <2>2 DEF Key
  <2>4. SendLocked(s, to, key, e)
    BY <1>2 DEF Send
  <2> HIDE DEF key
  <2> QED
    BY <2>1, <2>2, <2>3, <2>4, SendLockedMoves
<1>3. ASSUME NEW n \in 1..MaxSends, SendUser(s, n)
      PROVE  Moves
  <2> DEFINE key == [by |-> NoBind, kind |-> "user", n |-> n]
  <2>1. key \in Key /\ key.kind # "report" /\ User \notin Slots
    BY ConstantsOK DEF Key, User, Slots
  <2>2. SendLocked(User, s, key, 0)
    BY <1>3 DEF SendUser
  <2> HIDE DEF key
  <2> QED
    BY <2>1, <2>2, SendLockedMoves
<1> QED
  BY <1>2, <1>3, ReportMoves

LEMMA ClaimHeadMoves ==
  ASSUME IInv, NEW c, NEW s, NEW g,
         NEW i \in SelectClaim(Reaped, s, g), ClaimHead(c, i)
  PROVE  Moves
<1> DEFINE m == PlanClaim(msgs[i])
<1>1. PICK o \in Outcomes : AppendMessage(Reaped, o, i, m)
  BY DEF ClaimHead
<1>2. /\ i \in Ids /\ Reaped[i].state = "queued" /\ Reaped[i].to = s
      /\ ~Busy(Reaped, s) /\ \A j \in Queue(Reaped, s) : i <= j
  BY DEF SelectClaim, Queue
<1>3. Reaped[i] = msgs[i] /\ msgs[i] \in Message
  <2> HIDE DEF m
  <2> QED
    BY <1>2, ReapedIsExpire, ExpireParts
<1>4. m \in Message /\ m.state = "delivering" /\ SameOrigin(m, msgs[i])
  <2>1. msgs[i].receipt + 1 \in Nat
    BY <1>3 DEF Message
  <2> QED
    BY <1>3, <2>1 DEF PlanClaim, Message, States, SameOrigin
<1>5. Claims(Reaped, i, m)
  BY <1>2, <1>3, <1>4 DEF Claims
<1>6. UNCHANGED lastReport
  BY DEF ClaimHead
<1> HIDE DEF m
<1> QED
  BY <1>1, <1>2, <1>4, <1>5, <1>6, ReapedIsExpire, AppendMoves

LEMMA ClaimPassMoves ==
  ASSUME IInv, NEW c, NEW call, ClaimPass(c, call)
  PROVE  Moves
<1>1. CASE UNCHANGED <<msgs, lastReport>>
  BY <1>1, StayMoves
<1>2. CASE ReapFails
  BY <1>2, ReapMoves
<1>3. CASE \E i \in SelectClaim(Reaped, call.slot, call.gen) : ClaimHead(c, i)
  BY <1>3, ClaimHeadMoves
<1>4. CASE ClaimWaits(c, call)
  BY <1>4, ReapedIsExpire, StayMoves DEF ClaimWaits
<1> QED
  BY <1>1, <1>2, <1>3, <1>4 DEF ClaimPass

LEMMA CollectStepMoves ==
  ASSUME IInv, CollectStep
  PROVE  Moves
BY ClaimPassMoves, StayMoves DEF CollectStep, Claim, ResumeClaim, ClaimContextDone

LEMMA AckMoves ==
  ASSUME IInv, NEW s, NEW i \in Ids, NEW r, Ack(s, i, r)
  PROVE  Moves
<1>1. CASE ReapFails \/ ReapOnly
  BY <1>1, ReapMoves
<1>2. CASE /\ AckHandsOff(Reaped, s, i, r)
           /\ \E o \in Outcomes :
                AppendMessage(Reaped, o, i, [Reaped[i] EXCEPT !.state = "handed_off"])
           /\ UNCHANGED lastReport
  <2> DEFINE m == [Reaped[i] EXCEPT !.state = "handed_off"]
  <2>1. PICK o \in Outcomes : AppendMessage(Reaped, o, i, m)
    BY <1>2
  <2>2. Reaped[i] \in Message
    BY ReapedIsExpire, ExpireParts
  <2>3. m \in Message /\ m.state = "handed_off" /\ SameOrigin(m, Reaped[i])
    BY <2>2 DEF Message, States, SameOrigin
  <2>4. HandsOver(Reaped, i, m)
    BY <1>2, <2>3 DEF HandsOver, AckHandsOff
  <2> HIDE DEF m
  <2> QED
    BY <1>2, <2>1, <2>3, <2>4, ReapedIsExpire, AppendMoves
<1> QED
  BY <1>1, <1>2 DEF Ack, ReapThen

LEMMA CancelMoves ==
  ASSUME IInv, NEW i \in Ids, Cancel(i)
  PROVE  Moves
<1> DEFINE m == [msgs[i] EXCEPT !.state = "cancelled", !.receipt = 0]
<1>1. UNCHANGED lastReport /\ msgs[i].state = "queued"
  BY DEF Cancel
<1>2. msgs' = msgs \/ msgs' = [msgs EXCEPT ![i] = m]
  BY DEF Cancel, AppendMessage
<1>3. msgs \in [Ids -> Message] /\ msgs[i] \in Message /\ msgs[i].receipt = 0
  BY <1>1 DEF IInv, MsgInv, WellFormed, Once
<1>4. m = [msgs[i] EXCEPT !.state = "cancelled"]
  BY <1>3 DEF Message
<1> HIDE DEF m
<1>5. CASE msgs' = [msgs EXCEPT ![i] = m]
  <2>1. msgs' = [j \in Ids |-> IF j \in {i} THEN [msgs[j] EXCEPT !.state = "cancelled"]
                               ELSE Expire(msgs, {})[j]]
    BY <1>3, <1>4, <1>5, NothingLost
  <2>2. Withdraws({}, {i})
    BY <1>1, <2>1 DEF Withdraws
  <2>3. \A b \in BindIDs : lastReport'[b] \in Nat /\ lastReport[b] <= lastReport'[b]
    BY <1>1 DEF IInv, Control
  <2> QED
    BY <2>2, <2>3, NothingLost DEF Moves
<1> QED
  BY <1>1, <1>2, <1>5, StayMoves

LEMMA RetryMoves ==
  ASSUME IInv, NEW i \in Ids, Retry(i)
  PROVE  Moves
<1>1. CASE ReapFails \/ ReapOnly
  BY <1>1, ReapMoves
<1>2. CASE /\ MayRetry(Reaped, i)
           /\ \E j \in Ids, o \in Outcomes :
                NewId(Reaped, j) /\ AppendMessage(Reaped, o, j, PlanRetry(Reaped, i))
           /\ UNCHANGED lastReport
  <2> DEFINE m == PlanRetry(Reaped, i)
  <2>1. PICK j \in Ids, o \in Outcomes : NewId(Reaped, j) /\ AppendMessage(Reaped, o, j, m)
    BY <1>2
  <2>2. /\ Reaped[i] \in Message /\ Reaped[i].state = "unknown" /\ ~HasPendingRetry(Reaped, i)
        /\ Reaped[i].to \in Slots
    BY <1>2, ReapedKeeps DEF MsgInv, WellFormed, MayRetry
  <2>3. Generation(Reaped[i].to) \in Nat
    BY <2>2, GenerationType
  <2>4. RetryKey \in Key
    BY DEF RetryKey, Key
  <2>5. m \in Message /\ m.state = "queued" /\ m.to = Reaped[i].to /\ m.retryOf = i
    BY <2>2, <2>3, <2>4 DEF PlanRetry, Message, States
  <2>6. NewId(msgs, j)
    <3>1. \A k \in Ids : Reaped[k].state = "absent" <=> msgs[k].state = "absent"
      BY ReapedIsExpire, ExpireParts
    <3> QED
      BY <2>1, <3>1 DEF NewId
  <2>7. Retries(Reaped, j, m)
    BY <2>2, <2>5, <2>6 DEF Retries
  <2> HIDE DEF m
  <2> QED
    BY <1>2, <2>1, <2>5, <2>7, ReapedIsExpire, AppendMoves
<1> QED
  BY <1>1, <1>2 DEF Retry, ReapThen

LEMMA SettleStepMoves ==
  ASSUME IInv, SettleStep
  PROVE  Moves
<1>1. ASSUME NEW s \in Slots, NEW h \in held, Ack(s, h[1], h[2]) PROVE Moves
  <2>1. h[1] \in Ids
    BY DEF IInv, Control
  <2> QED
    BY <1>1, <2>1, AckMoves
<1>2. ASSUME NEW i \in Ids, LeaseEnds(i) PROVE Moves
  BY <1>2, StayMoves DEF LeaseEnds
<1>3. ASSUME Reap PROVE Moves
  BY <1>3, ReapMoves DEF Reap, ReapThen
<1> QED
  BY <1>1, <1>2, <1>3, AckMoves, CancelMoves, RetryMoves DEF SettleStep

LEMMA LifecycleStepMoves ==
  ASSUME IInv, LifecycleStep
  PROVE  Moves
<1>1. UNCHANGED lastReport
  BY DEF LifecycleStep, SetDraining, TryBeginIdleClose, Close, Crash, Open
<1>2. msgs' = msgs \/ \E D \in SUBSET Delivering(msgs) : msgs' = Expire(msgs, D)
  BY DEF LifecycleStep, SetDraining, TryBeginIdleClose, Close, Crash, Open, Recovered
<1> QED
  BY <1>1, <1>2, StayMoves

\* Every step of the engine moves the message table in one of these ways.
LEMMA NextMoves ==
  ASSUME IInv, [Next]_vars
  PROVE  Moves
<1>1. CASE UNCHANGED vars
  BY <1>1, StayMoves DEF vars
<1> QED
  BY <1>1, BindingStepMoves, PublishStepMoves, CollectStepMoves, SettleStepMoves,
     LifecycleStepMoves DEF Next

-----------------------------------------------------------------------------
\* The parts of an entry that a move changes.
LEMMA WritesParts ==
  ASSUME IInv, NEW D \in SUBSET Delivering(msgs), NEW i \in Ids, NEW m \in Message,
         Writes(Expire(msgs, D), i, m)
  PROVE  /\ msgs'[i] = m
         /\ \A j \in Ids \ {i} : msgs'[j] = Expire(msgs, D)[j]
BY DEF Writes, Expire

LEMMA WithdrawsParts ==
  ASSUME IInv, NEW D \in SUBSET Delivering(msgs), NEW W \in SUBSET Ids, Withdraws(D, W),
         NEW i \in Ids
  PROVE  /\ msgs'[i].state = IF i \in W THEN "cancelled" ELSE Expire(msgs, D)[i].state
         /\ SameOrigin(msgs'[i], msgs[i])
<1>1. msgs[i] \in Message
  BY ExpireParts
<1>2. CASE i \in W
  BY <1>1, <1>2 DEF Withdraws, Message, SameOrigin
<1>3. CASE i \notin W
  BY <1>3, ExpireParts DEF Withdraws
<1> QED
  BY <1>2, <1>3

-----------------------------------------------------------------------------
(* Retries *)

\* Pending(j, i): a retry j of i waits or runs.
RetryOpen(M, j) == M[j].retryOf \in Ids /\ M[j].state \in {"queued", "delivering"}

LEMMA RetryPrecedenceForm ==
  RetryPrecedence <=>
    \A j \in Ids : RetryOpen(msgs, j) =>
      /\ msgs[msgs[j].retryOf].state = "unknown"
      /\ \A k \in Ids : RetryOpen(msgs, k) /\ msgs[k].retryOf = msgs[j].retryOf => k = j
BY DEF RetryPrecedence, RetryOpen

\* One table keeps the rule when no retry opens and no original of an open one
\* changes.
LEMMA RetryKept ==
  ASSUME RetryPrecedence,
         \A j \in Ids : RetryOpen(msgs', j) =>
           /\ RetryOpen(msgs, j) /\ msgs'[j].retryOf = msgs[j].retryOf
           /\ msgs'[msgs[j].retryOf].state = "unknown"
  PROVE  RetryPrecedence'
BY DEF RetryPrecedence, RetryOpen

LEMMA RetryMove ==
  ASSUME IInv, RetryPrecedence, Moves
  PROVE  RetryPrecedence'
<1>1. PICK D \in SUBSET Delivering(msgs) :
       \/ msgs' = Expire(msgs, D)
       \/ \E W \in SUBSET Ids : Withdraws(D, W)
       \/ \E i \in Ids, m \in Message : Writes(Expire(msgs, D), i, m)
  BY DEF Moves
<1> DEFINE M == Expire(msgs, D)
<1>2. \A j \in Ids : /\ RetryOpen(M, j) => RetryOpen(msgs, j) /\ M[j].retryOf = msgs[j].retryOf
                     /\ msgs[j].state = "unknown" => M[j] = msgs[j]
                     /\ M[j].retryOf = msgs[j].retryOf
  BY ExpireParts DEF RetryOpen, SameOrigin
<1>3. \A j \in Ids : RetryOpen(msgs, j) =>
        msgs[j].retryOf \in Ids /\ msgs[msgs[j].retryOf].state = "unknown"
  BY DEF RetryPrecedence, RetryOpen
<1>4. CASE msgs' = M
  BY <1>2, <1>3, <1>4, RetryKept
<1>5. ASSUME NEW W \in SUBSET Ids, Withdraws(D, W)
      PROVE  RetryPrecedence'
  <2> HIDE DEF M
  <2>1. ASSUME NEW j \in Ids
        PROVE  /\ msgs'[j].state = IF j \in W THEN "cancelled" ELSE M[j].state
               /\ msgs'[j].retryOf = msgs[j].retryOf
    BY <1>5, WithdrawsParts DEF M, SameOrigin
  <2>2. \A j \in Ids : RetryOpen(msgs', j) =>
           /\ RetryOpen(msgs, j) /\ msgs'[j].retryOf = msgs[j].retryOf
           /\ msgs'[msgs[j].retryOf].state = "unknown"
    <3> TAKE j \in Ids
    <3> HAVE RetryOpen(msgs', j)
    <3>1. j \notin W /\ RetryOpen(M, j) /\ msgs'[j].retryOf = msgs[j].retryOf
      BY <1>2, <2>1 DEF RetryOpen
    <3>2. /\ RetryOpen(msgs, j) /\ msgs[j].retryOf \in Ids
          /\ msgs[msgs[j].retryOf].state = "unknown"
      BY <1>2, <1>3, <3>1
    <3>3. msgs[j].retryOf \notin W
      BY <1>5, <3>2 DEF Withdraws
    <3> QED
      BY <1>2, <2>1, <3>1, <3>2, <3>3
  <2> QED
    BY <2>2, RetryKept
<1>6. ASSUME NEW i \in Ids, NEW m \in Message, Writes(M, i, m)
      PROVE  RetryPrecedence'
  <2>1. msgs'[i] = m /\ \A j \in Ids \ {i} : msgs'[j] = M[j]
    BY <1>6, WritesParts
  <2> HIDE DEF M
  <2>2. \A j \in Ids \ {i} : RetryOpen(msgs', j) =>
           RetryOpen(msgs, j) /\ msgs'[j].retryOf = msgs[j].retryOf /\ RetryOpen(M, j)
    BY <1>2, <2>1 DEF RetryOpen
  <2>3. CASE Accepts(i, m)
    <3>1. m.retryOf \notin Ids /\ msgs[i].state = "absent"
      BY <2>3 DEF Accepts, Ids, NewId
    <3>2. \A j \in Ids : RetryOpen(msgs', j) =>
             /\ RetryOpen(msgs, j) /\ msgs'[j].retryOf = msgs[j].retryOf
             /\ msgs'[msgs[j].retryOf].state = "unknown"
      BY <1>2, <1>3, <2>1, <2>2, <3>1 DEF RetryOpen
    <3> QED
      BY <3>2, RetryKept
  <2>4. CASE Retries(M, i, m)
    <3>1. /\ m.retryOf \in Ids /\ M[m.retryOf].state = "unknown"
          /\ \A j \in Ids : RetryOpen(M, j) => M[j].retryOf # m.retryOf
          /\ msgs[i].state = "absent"
      BY <2>4 DEF Retries, HasPendingRetry, PendingRetry, RetryOpen, NewId
    <3>2. m.retryOf # i
      BY <3>1, ExpireParts DEF M
    <3>3. \A j \in Ids \ {i} : RetryOpen(msgs', j) =>
             /\ msgs'[msgs'[j].retryOf].state = "unknown" /\ msgs'[j].retryOf # m.retryOf
             /\ msgs[j].retryOf = msgs'[j].retryOf /\ RetryOpen(msgs, j)
      BY <1>2, <1>3, <2>1, <2>2, <3>1
    <3>4. \A j, k \in Ids \ {i} :
            RetryOpen(msgs', j) /\ RetryOpen(msgs', k) /\ msgs'[j].retryOf = msgs'[k].retryOf
              => j = k
      BY <3>3 DEF RetryPrecedence, RetryOpen
    <3> QED
      BY <2>1, <3>1, <3>2, <3>3, <3>4 DEF RetryPrecedence, RetryOpen
  <2>5. CASE Claims(M, i, m)
    <3>1. M[i].state = "queued" /\ m.retryOf = M[i].retryOf /\ m.state = "delivering"
      BY <2>5 DEF Claims, SameOrigin
    <3>2. M[i] = msgs[i]
      BY <3>1, ExpireParts DEF M
    <3>3. \A j \in Ids : RetryOpen(msgs', j) =>
             /\ RetryOpen(msgs, j) /\ msgs'[j].retryOf = msgs[j].retryOf
             /\ msgs'[msgs[j].retryOf].state = "unknown"
      BY <1>2, <1>3, <2>1, <2>2, <3>1, <3>2 DEF RetryOpen
    <3> QED
      BY <3>3, RetryKept
  <2>6. CASE HandsOver(M, i, m)
    <3>1. /\ m.state = "handed_off" /\ M[i].state \in {"delivering", "unknown"}
          /\ M[i].state = "unknown" => \A j \in Ids : RetryOpen(M, j) => M[j].retryOf # i
      BY <2>6 DEF HandsOver, HasPendingRetry, PendingRetry, RetryOpen
    <3>2. \A j \in Ids \ {i} : RetryOpen(M, j) => msgs[j].retryOf # i
      BY <1>2, <1>3, <3>1
    <3>3. \A j \in Ids : RetryOpen(msgs', j) =>
             /\ RetryOpen(msgs, j) /\ msgs'[j].retryOf = msgs[j].retryOf
             /\ msgs'[msgs[j].retryOf].state = "unknown"
      <4> TAKE j \in Ids
      <4> HAVE RetryOpen(msgs', j)
      <4>1. j # i
        BY <2>1, <3>1 DEF RetryOpen
      <4> QED
        BY <1>2, <1>3, <2>1, <2>2, <3>2, <4>1
    <3> QED
      BY <3>3, RetryKept
  <2> QED
    BY <1>6, <2>3, <2>4, <2>5, <2>6 DEF Writes
<1> QED
  BY <1>1, <1>4, <1>5, <1>6

\* While a retry of a message waits or runs it is the only one, and the original
\* stays unknown, for any number of messages (decideRetry, decideAcknowledgement).
THEOREM RetryPrecedenceHolds == Spec => []RetryPrecedence
<1>1. Init => RetryPrecedence
  BY DEF Init, RetryPrecedence, NoMessage
<1>2. RetryPrecedence /\ IInv /\ [Next]_vars => RetryPrecedence'
  BY NextMoves, RetryMove
<1> QED
  BY <1>1, <1>2, Invariance, PTL DEF Spec

-----------------------------------------------------------------------------
(* Keys *)

Accepted(M, i) == M[i].state # "absent"
Original(M, i) == Accepted(M, i) /\ M[i].retryOf = 0

\* Messages are numbered without a gap, and no report is numbered above the
\* newest its binding has had accepted.
Numbered(M, last) ==
  /\ \A i, j \in Ids : i < j /\ Accepted(M, j) => Accepted(M, i)
  /\ \A i \in Ids : Original(M, i) /\ M[i].key.kind = "report" =>
       M[i].key.by \in BindIDs /\ M[i].key.n <= last[M[i].key.by]

KeyInv == Numbered(msgs, lastReport) /\ AcceptedOnceInOrder

\* A step that takes nothing in keeps what was accepted as it was.
LEMMA SameAccepted ==
  ASSUME IInv, KeyInv, Moves,
         \A i \in Ids : Accepted(msgs', i) <=> Accepted(msgs, i),
         \A i \in Ids : msgs'[i].retryOf = msgs[i].retryOf /\ msgs'[i].key = msgs[i].key
  PROVE  KeyInv'
<1>1. \A b \in BindIDs : /\ lastReport[b] \in Nat /\ lastReport'[b] \in Nat
                         /\ lastReport[b] <= lastReport'[b]
  BY DEF Moves, IInv, Control
<1>2. \A i \in Ids : msgs[i].key.n \in Nat
  BY DEF IInv, MsgInv, WellFormed, Message, Key
<1>3. \A i \in Ids : Original(msgs', i) => Original(msgs, i)
  BY DEF Original
<1>4. Numbered(msgs, lastReport)'
  BY <1>1, <1>2, <1>3 DEF KeyInv, Numbered
<1>5. AcceptedOnceInOrder'
  BY <1>3 DEF KeyInv, AcceptedOnceInOrder, Original, Accepted
<1> QED
  BY <1>4, <1>5 DEF KeyInv

LEMMA KeyMove ==
  ASSUME IInv, KeyInv, Moves
  PROVE  KeyInv'
<1>1. PICK D \in SUBSET Delivering(msgs) :
       \/ msgs' = Expire(msgs, D)
       \/ \E W \in SUBSET Ids : Withdraws(D, W)
       \/ \E i \in Ids, m \in Message : Writes(Expire(msgs, D), i, m)
  BY DEF Moves
<1> DEFINE M == Expire(msgs, D)
<1>2. \A j \in Ids : /\ Accepted(M, j) <=> Accepted(msgs, j)
                     /\ M[j].retryOf = msgs[j].retryOf /\ M[j].key = msgs[j].key
  BY ExpireParts DEF Accepted, SameOrigin
<1>3. CASE msgs' = M
  BY <1>2, <1>3, SameAccepted
<1>4. ASSUME NEW W \in SUBSET Ids, Withdraws(D, W)
      PROVE  KeyInv'
  <2>1. \A j \in Ids : /\ Accepted(msgs', j) <=> Accepted(msgs, j)
                       /\ msgs'[j].retryOf = msgs[j].retryOf /\ msgs'[j].key = msgs[j].key
    BY <1>2, <1>4, WithdrawsParts DEF Accepted, SameOrigin, Withdraws
  <2> QED
    BY <2>1, SameAccepted
<1>5. ASSUME NEW i \in Ids, NEW m \in Message, Writes(M, i, m)
      PROVE  KeyInv'
  <2>1. msgs'[i] = m /\ \A j \in Ids \ {i} : msgs'[j] = M[j]
    BY <1>5, WritesParts
  <2> HIDE DEF M
  <2>2. CASE Claims(M, i, m) \/ HandsOver(M, i, m)
    <3>1. \A j \in Ids : /\ Accepted(msgs', j) <=> Accepted(msgs, j)
                         /\ msgs'[j].retryOf = msgs[j].retryOf /\ msgs'[j].key = msgs[j].key
      BY <1>2, <2>1, <2>2 DEF Claims, HandsOver, SameOrigin, Accepted
    <3> QED
      BY <3>1, SameAccepted
  <2>3. CASE Accepts(i, m) \/ Retries(M, i, m)
    <3>1. NewId(msgs, i) /\ m.state # "absent" /\ i \in Nat
      BY <2>3 DEF Accepts, Retries, Ids
    <3>2. \A j \in Ids : Accepted(msgs, j) => j < i
      <4> TAKE j \in Ids
      <4>1. ~(i < j /\ Accepted(msgs, j)) /\ j \in Nat
        BY <3>1 DEF KeyInv, Numbered, NewId, Accepted, Ids
      <4>2. j = i => ~Accepted(msgs, j)
        BY <3>1 DEF NewId, Accepted
      <4> QED
        BY <3>1, <4>1, <4>2
    <3>3. \A j \in Ids : Accepted(msgs', j) <=> Accepted(msgs, j) \/ j = i
      BY <1>2, <2>1, <3>1 DEF Accepted
    <3>4. \A j \in Ids : j < i => Accepted(msgs, j)
      BY <3>1 DEF NewId, Accepted
    <3>5. \A j \in Ids \ {i} : /\ Original(msgs', j) <=> Original(msgs, j)
                              /\ msgs'[j].key = msgs[j].key /\ msgs'[j].retryOf = msgs[j].retryOf
      BY <1>2, <2>1 DEF Original, Accepted
    <3>6. Original(msgs', i) => NewKey(m.key)
      BY <2>1, <2>3 DEF Original, Accepts, Retries, Ids
    <3>7. \A b \in BindIDs : /\ lastReport[b] \in Nat /\ lastReport'[b] \in Nat
                             /\ lastReport[b] <= lastReport'[b]
      BY DEF Moves, IInv, Control
    <3>8. m.key.n \in Nat /\ \A j \in Ids : msgs[j].key.n \in Nat
      BY DEF IInv, MsgInv, WellFormed, Message, Key
    <3>9. Numbered(msgs, lastReport)'
      <4>1. \A j, k \in Ids : j < k /\ Accepted(msgs', k) => Accepted(msgs', j)
        <5> TAKE j, k \in Ids
        <5> HAVE j < k /\ Accepted(msgs', k)
        <5>1. CASE k = i
          BY <3>3, <3>4, <5>1
        <5>2. CASE Accepted(msgs, k)
          BY <3>3, <5>2 DEF KeyInv, Numbered
        <5> QED
          BY <3>3, <5>1, <5>2
      <4>2. \A j \in Ids : Original(msgs', j) /\ msgs'[j].key.kind = "report" =>
              msgs'[j].key.by \in BindIDs /\ msgs'[j].key.n <= lastReport'[msgs'[j].key.by]
        <5> TAKE j \in Ids
        <5> HAVE Original(msgs', j) /\ msgs'[j].key.kind = "report"
        <5>1. CASE j = i
          BY <2>1, <3>6, <5>1 DEF NewKey
        <5>2. CASE j # i
          <6>1. msgs[j].key.by \in BindIDs /\ msgs[j].key.n <= lastReport[msgs[j].key.by]
            BY <3>5, <5>2 DEF KeyInv, Numbered
          <6> QED
            BY <3>5, <3>7, <3>8, <5>2, <6>1
        <5> QED
          BY <5>1, <5>2
      <4> QED
        BY <4>1, <4>2 DEF Numbered
    <3>10. ASSUME NEW j \in Ids, j # i, Original(msgs, j), Original(msgs', i)
           PROVE  /\ msgs[j].key # m.key
                  /\ ( /\ msgs[j].key.kind = "report" /\ m.key.kind = "report"
                       /\ msgs[j].key.by = m.key.by ) => msgs[j].key.n < m.key.n
      <4>1. CASE m.key.kind # "report" /\ ~SentBefore(m.key)
        BY <3>10, <4>1 DEF SentBefore, Original, Accepted
      <4>2. CASE m.key.kind = "report" /\ m.key.by \in BindIDs /\ lastReport[m.key.by] < m.key.n
        <5>1. msgs[j].key.kind = "report" => msgs[j].key.by \in BindIDs /\ msgs[j].key.n <= lastReport[msgs[j].key.by]
          BY <3>10 DEF KeyInv, Numbered
        <5> QED
          BY <3>7, <3>8, <4>2, <5>1
      <4> QED
        BY <3>6, <3>10, <4>1, <4>2 DEF NewKey
    <3>11. AcceptedOnceInOrder'
      <4> SUFFICES ASSUME NEW j \in Ids, NEW k \in Ids, j < k,
                          Original(msgs', j), Original(msgs', k)
                   PROVE  /\ msgs'[j].key # msgs'[k].key
                          /\ ( /\ msgs'[j].key.kind = "report" /\ msgs'[k].key.kind = "report"
                               /\ msgs'[j].key.by = msgs'[k].key.by )
                               => msgs'[j].key.n < msgs'[k].key.n
        BY DEF AcceptedOnceInOrder, Original, Accepted
      <4>1. CASE k = i
        <5>1. j # i
          BY <3>1, <4>1
        <5> QED
          BY <2>1, <3>5, <3>10, <4>1, <5>1
      <4>2. CASE k # i
        <5>1. Original(msgs, k) /\ k < i /\ i \in Nat /\ j \in Nat /\ k \in Nat
          BY <3>1, <3>2, <3>5, <4>2 DEF Original, Ids
        <5>2. j # i
          BY <5>1
        <5> QED
          BY <3>5, <4>2, <5>1, <5>2 DEF KeyInv, AcceptedOnceInOrder, Original, Accepted
      <4> QED
        BY <4>1, <4>2
    <3> QED
      BY <3>9, <3>11 DEF KeyInv
  <2> QED
    BY <1>5, <2>2, <2>3 DEF Writes
<1> QED
  BY <1>1, <1>3, <1>4, <1>5

\* A send or report is one message however often it is repeated, and the reports
\* of a binding are accepted in their order, for any number of messages, bind
\* attempts, failures and restarts (sendLocked, Report).
THEOREM AcceptedOnceInOrderHolds == Spec => []AcceptedOnceInOrder
<1>1. Init => KeyInv
  BY DEF Init, KeyInv, Numbered, AcceptedOnceInOrder, Original, Accepted, NoMessage
<1>2. KeyInv /\ IInv /\ [Next]_vars => KeyInv'
  BY NextMoves, KeyMove
<1>3. KeyInv => AcceptedOnceInOrder
  BY DEF KeyInv
<1> QED
  BY <1>1, <1>2, <1>3, Invariance, PTL DEF Spec

-----------------------------------------------------------------------------
(* The delivery contract *)

\* A lost delivery is a doubted one, and what waits or is out shows it.
LEMMA StatusAfterExpire ==
  ASSUME IInv, NEW D \in SUBSET Delivering(msgs)
  PROVE  /\ D \in SUBSET Contract!Out
         /\ \A i \in Ids : /\ Status[Expire(msgs, D)[i].state] = Contract!Doubting(D)[i]
                           /\ Expire(msgs, D)[i].to = msgs[i].to
BY ExpireParts DEF Contract!Out, Contract!Doubting, Delivering, Status, SameOrigin

\* The states that tell a status apart.
LEMMA StatusTells ==
  ASSUME NEW x \in States
  PROVE  /\ Status[x] = "absent" <=> x = "absent"
         /\ Status[x] = "waiting" <=> x = "queued"
         /\ Status[x] = "out" <=> x = "delivering"
         /\ Status[x] = "doubt" <=> x = "unknown"
BY DEF States, Status

ShownWrite(D, i, m) ==
  /\ [j \in Ids |-> Status[msgs'[j].state]] = [Contract!Doubting(D) EXCEPT ![i] = Status[m.state]]
  /\ [j \in Ids |-> msgs'[j].to] = [[j \in Ids |-> msgs[j].to] EXCEPT ![i] = m.to]

\* A write of entry i is the contract's step of message i.
LEMMA WriteShown ==
  ASSUME IInv, NEW D \in SUBSET Delivering(msgs), NEW i \in Ids, NEW m \in Message,
         Writes(Expire(msgs, D), i, m)
  PROVE  ShownWrite(D, i, m)
<1>1. /\ msgs'[i] = m
      /\ \A j \in Ids \ {i} : msgs'[j] = Expire(msgs, D)[j]
  BY WritesParts
<1>2. \A j \in Ids : /\ Status[Expire(msgs, D)[j].state] = Contract!Doubting(D)[j]
                     /\ Expire(msgs, D)[j].to = msgs[j].to
  BY StatusAfterExpire
<1>3. [j \in Ids |-> Status[msgs'[j].state]] = [Contract!Doubting(D) EXCEPT ![i] = Status[m.state]]
  BY <1>1, <1>2 DEF Contract!Doubting
<1>4. [j \in Ids |-> msgs'[j].to] = [[j \in Ids |-> msgs[j].to] EXCEPT ![i] = m.to]
  BY <1>1, <1>2
<1> QED
  BY <1>3, <1>4 DEF ShownWrite

LEMMA StepIsContract ==
  ASSUME IInv, Moves
  PROVE  Contract!Next
<1>1. PICK D \in SUBSET Delivering(msgs) :
       \/ msgs' = Expire(msgs, D)
       \/ \E W \in SUBSET Ids : Withdraws(D, W)
       \/ \E i \in Ids, m \in Message : Writes(Expire(msgs, D), i, m)
  BY DEF Moves
<1> DEFINE M == Expire(msgs, D)
<1>2. /\ D \in SUBSET Contract!Out
      /\ \A i \in Ids : Status[M[i].state] = Contract!Doubting(D)[i] /\ M[i].to = msgs[i].to
  BY StatusAfterExpire
<1>3. \A i \in Ids : msgs[i].state \in States /\ M[i].state \in States
  BY ExpireParts DEF Message
<1> HIDE DEF M
<1>4. ASSUME NEW W \in SUBSET Ids, \A i \in W : msgs[i].state = "queued",
             \A i \in Ids : /\ msgs'[i].state = IF i \in W THEN "cancelled" ELSE M[i].state
                            /\ msgs'[i].to = msgs[i].to
      PROVE  Contract!Next
  <2>1. Contract!Withdraw(D, W)
    BY <1>2, <1>4 DEF Contract!Withdraw, Status
  <2> QED
    BY <1>2, <2>1 DEF Contract!Next
<1>5. CASE msgs' = M
  <2>1. \A i \in Ids : msgs'[i].state = M[i].state /\ msgs'[i].to = msgs[i].to
    BY <1>2, <1>5
  <2> DEFINE W == {}
  <2>2. W \in SUBSET Ids /\ \A i \in Ids : i \notin W
    OBVIOUS
  <2> HIDE DEF W
  <2> QED
    BY <1>4, <2>1, <2>2
<1>6. ASSUME NEW W \in SUBSET Ids, Withdraws(D, W)
      PROVE  Contract!Next
  <2>1. \A i \in Ids : /\ msgs'[i].state = IF i \in W THEN "cancelled" ELSE M[i].state
                       /\ msgs'[i].to = msgs[i].to
    BY <1>6, WithdrawsParts DEF M, SameOrigin
  <2>2. \A i \in W : msgs[i].state = "queued"
    BY <1>6 DEF Withdraws
  <2> QED
    BY <1>4, <2>1, <2>2
<1>7. ASSUME NEW i \in Ids, NEW m \in Message, Writes(M, i, m)
      PROVE  Contract!Next
  <2>1. /\ [j \in Ids |-> Status[msgs'[j].state]] =
              [Contract!Doubting(D) EXCEPT ![i] = Status[m.state]]
        /\ [j \in Ids |-> msgs'[j].to] = [[j \in Ids |-> msgs[j].to] EXCEPT ![i] = m.to]
    <3>1. Writes(Expire(msgs, D), i, m)
      BY <1>7 DEF M
    <3>2. ShownWrite(D, i, m)
      BY <3>1, WriteShown
    <3> QED
      BY <3>2 DEF ShownWrite
  <2>2. CASE Accepts(i, m) \/ Retries(M, i, m)
    <3>1. NewId(msgs, i)
      BY <2>2 DEF Accepts, Retries
    <3>2. \/ m.to = User /\ m.state = "human"
          \/ m.to \in Slots /\ m.state = "queued"
      BY <2>2 DEF Accepts, Retries
    <3>3. Status[msgs[i].state] = "absent" /\ \A j \in Ids : j < i => Status[msgs[j].state] # "absent"
      BY <1>3, <3>1, StatusTells DEF NewId
    <3>4. CASE m.to \in Slots /\ m.state = "queued"
      <4>1. Status[m.state] = "waiting"
        BY <3>4 DEF Status
      <4>2. Contract!Accept(D, i)
        BY <2>1, <3>3, <3>4, <4>1 DEF Contract!Accept
      <4> QED
        BY <1>2, <4>2 DEF Contract!Next
    <3>5. CASE m.to = User /\ m.state = "human"
      <4>1. msgs[i].to = User
        BY <3>1 DEF NewId, IInv, MsgInv, WellFormed, NoMessage
      <4>2. [j \in Ids |-> msgs'[j].to] = [j \in Ids |-> msgs[j].to]
        BY <2>1, <3>5, <4>1
      <4>3. Contract!Accept(D, i)
        BY <2>1, <3>3, <3>5, <4>2 DEF Contract!Accept, Status
      <4> QED
        BY <1>2, <4>3 DEF Contract!Next
    <3> QED
      BY <3>2, <3>4, <3>5
  <2>3. CASE Claims(M, i, m) \/ HandsOver(M, i, m)
    <3>1. m.to = msgs[i].to
      BY <1>2, <2>3 DEF Claims, HandsOver, SameOrigin
    <3>2. [j \in Ids |-> msgs'[j].to] = [j \in Ids |-> msgs[j].to]
      BY <2>1, <3>1
    <3>3. CASE HandsOver(M, i, m)
      <4>1. m.state = "handed_off" /\ Contract!Doubting(D)[i] \in {"out", "doubt"}
        BY <1>2, <1>3, <3>3, StatusTells DEF HandsOver
      <4>2. Contract!Confirm(D, i)
        BY <2>1, <3>2, <4>1 DEF Contract!Confirm, Status
      <4> QED
        BY <1>2, <4>2 DEF Contract!Next
    <3>4. CASE Claims(M, i, m)
      <4>1. /\ m.state = "delivering" /\ M[i].state = "queued"
            /\ \A j \in Ids : M[j].state = "queued" /\ M[j].to = M[i].to => i <= j
            /\ \A j \in Ids : M[j].state = "delivering" => M[j].to # M[i].to
        BY <3>4 DEF Claims, Queue, Busy, Delivering
      <4>2. \A j \in Ids : msgs[j].state = "queued" <=> M[j].state = "queued"
        BY ExpireParts DEF M
      <4>3. Status[msgs[i].state] = "waiting"
        BY <4>1, <4>2 DEF Status
      <4>4. \A j \in Ids : msgs[j].to = msgs[i].to =>
              /\ Status[msgs[j].state] = "waiting" => i <= j
              /\ Contract!Doubting(D)[j] # "out"
        BY <1>2, <1>3, <4>1, <4>2, StatusTells
      <4>5. Contract!Release(D, i)
        BY <2>1, <3>2, <4>1, <4>3, <4>4 DEF Contract!Release, Status
      <4> QED
        BY <1>2, <4>5 DEF Contract!Next
    <3> QED
      BY <2>3, <3>3, <3>4
  <2> QED
    BY <1>7, <2>2, <2>3 DEF Writes
<1> QED
  BY <1>1, <1>5, <1>6, <1>7 DEF M

\* The engine implements DeliveryContract, for any number of messages, bind
\* attempts and collectors, over every failed append, crash and replay.
THEOREM ContractKept == Spec => KeepsContract
<1>1. Init => Contract!Init
  BY DEF Init, Contract!Init, NoMessage, Status
<1>2. IInv /\ [Next]_vars => [Contract!Next]_(Contract!contract)
  BY NextMoves, StepIsContract
<1> QED
  BY <1>1, <1>2, Invariance, PTL DEF Spec, KeepsContract, Contract!Spec
=============================================================================
