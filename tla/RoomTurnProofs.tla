---------------------------- MODULE RoomTurnProofs ----------------------------
(***************************************************************************)
(* Who owns the Turn of an Embedded Room, and that nobody owns it for     *)
(* nothing, for every number of messages, every bound and both kinds of    *)
(* runtime.  IInv (RoomProofs) speaks of what the Room has recorded.       *)
(* Whether it may release the Turn also depends on what the runtimes are   *)
(* doing and have said: Correlated follows a message from its delivery     *)
(* (Crossings) into the native Turn of its slot and on to the reports of   *)
(* it that the Room has yet to take (InSlot); Attended and Owned say that  *)
(* none of this is forgotten on the way.                                   *)
(***************************************************************************)
EXTENDS RoomProofs

-----------------------------------------------------------------------------
Told(s) == {events[s][i] : i \in DOMAIN events[s]}
Has(n) == n.inputs \cup ({n.staged} \ {0})
\* An event of the Turn that the Room takes for the current one.
Timely(s, e) == e.turn = 0 \/ current[s] \in {0, e.turn}

Crossings ==
  \A m \in Ids :
    /\ crossed[m] = 0 =>
         msgs[m].turn = 0 /\ msgs[m].unsure = FALSE /\ msgs[m].del \notin {"started", "injected"}
    /\ msgs[m].turn # 0 => crossed[msgs[m].turn] > 0
    /\ msgs[m].turn \in {0, m} \/ msgs[m].steer = TRUE
    /\ task[m].pc = "accepted" => crossed[m] > 0
Reports(s) ==
  \A e \in Told(s) :
    /\ e.msg \in Ids /\ msgs[e.msg].to = s /\ crossed[e.msg] > 0
    /\ e.turn # 0 =>
         /\ crossed[e.turn] > 0 /\ msgs[e.msg].turn \in {0, e.turn}
         /\ e.turn = e.msg \/ msgs[e.msg].steer = TRUE
         /\ \A f \in Told(s) : f.msg = e.msg => f.turn \in {0, e.turn}
Inputs(s) ==
  /\ \A k \in Has(native[s]) : /\ k \in Ids /\ msgs[k].to = s /\ crossed[k] > 0
                               /\ \A e \in Told(s) : e.msg # k
  /\ \A k \in native[s].inputs : /\ msgs[k].turn \in {0, native[s].turn}
                                 /\ k = native[s].turn \/ msgs[k].steer = TRUE
  /\ native[s].turn # 0 => native[s].turn \in native[s].inputs /\ native[s].staged = 0
  /\ native[s].turn = 0 => native[s].inputs = {}
  /\ native[s].staged # 0 => msgs[native[s].staged].turn = 0
  /\ native[s] # IdleRuntime =>
       \A e \in Told(s) : e.kind = "boundary" => e.turn \notin {0, native[s].turn}
  /\ control[s] = "stop" => native[s] = IdleRuntime
\* A message that a restart left open, and open it stays until its slot is stopped.
Parked(m) ==
  /\ Open(msgs[m]) /\ msgs[m].del \in {"failed", "skipped"} /\ msgs[m].turn # 0
  /\ task[m].pc = "none" /\ m \notin routing.cancelled /\ m \notin ToSet(turn.queue)
Stuck(m) ==
  LET r == msgs[m]
      n == native[r.to]
  IN /\ crashed /\ Parked(m)
     /\ m \notin Has(n) /\ r.turn \notin {n.turn, n.staged}
     /\ \A e \in Told(r.to) : e.msg # m /\ e.turn # r.turn
Blocked(s) == \E m \in Ids : msgs[m].to = s /\ Stuck(m)
Numbered(s) ==
  \A m \in Ids : msgs[m].to = s /\ Open(msgs[m]) /\ msgs[m].turn # 0 => msgs[m].turn = current[s] \/ Stuck(m)
Ending(s) ==
  current[s] # 0 => \/ native[s].turn = current[s] \/ control[s] = "stop"
                    \/ \E e \in Told(s) : e.kind = "boundary" /\ Timely(s, e)
Turning(s) ==
  native[s].turn # 0 => \/ Blocked(s)
                        \/ current[s] = native[s].turn /\ (turn.owner = s => turn.boundary = FALSE)
Unmarked(s) ==
  /\ control[s] # "stop" /\ Blocked(s) => current[s] = 0
  /\ native[s].staged # 0 => current[s] = 0
  /\ (\E e \in Told(s) : e.kind = "boundary" /\ e.turn = 0) => current[s] = 0
InSlot(s) == Reports(s) /\ Inputs(s) /\ Numbered(s) /\ Ending(s) /\ Turning(s) /\ Unmarked(s)
Correlated == Crossings /\ (phase = "up" => \A s \in Slots : InSlot(s))

-----------------------------------------------------------------------------
LEMMA ToldTyped ==
  ASSUME IInv, NEW s \in Slots
  PROVE  Told(s) \subseteq Report
<1>1. events[s] \in Seq(Report)
  BY DEF IInv, Around
<1> QED BY <1>1 DEF Told

\* What a step may do to a message of which no runtime hears: settle it, forget its
\* Turn, or note the Turn that an event about it names.
Mild(m) ==
  /\ msgs'[m].to = msgs[m].to /\ msgs'[m].steer = msgs[m].steer
  /\ Open(msgs'[m]) => Open(msgs[m])
  /\ crossed[m] = 0 => msgs'[m].unsure = FALSE /\ msgs'[m].del \notin {"started", "injected"}
  /\ \/ msgs'[m].turn \in {0, msgs[m].turn}
     \/ ~Open(msgs'[m]) /\ \E e \in Told(msgs[m].to) : e.msg = m /\ e.turn = msgs'[m].turn
MildIn(s) == \A m \in Ids : msgs[m].to = s => Mild(m)
Grown ==
  /\ Ids \subseteq DOMAIN msgs' /\ \A m \in Ids : msgs'[m].to = msgs[m].to
  /\ \A m \in DOMAIN msgs' \ Ids : InFifo(msgs'[m]) /\ msgs'[m].turn = 0 /\ msgs'[m].unsure = FALSE
Mildly == Grown /\ \A s \in Slots : MildIn(s)
\* What crossed has crossed.
Further == \A m \in Numbers : crossed[m] > 0 => crossed'[m] > 0

LEMMA CrossingsKept ==
  ASSUME IInv, IInv', phase = "up", Correlated, Mildly, crossed' = crossed,
         \A m \in Ids : task'[m].pc = "accepted" => task[m].pc = "accepted",
         \A m \in DOMAIN msgs' \ Ids : task'[m].pc # "accepted"
  PROVE  Crossings'
<1>1. /\ Ids \subseteq Numbers /\ \A m \in Ids : msgs[m].to \in Slots /\ m \in Numbers
      /\ \A s \in Slots : Reports(s)
  BY Facts DEF Correlated, InSlot
<1>2. ASSUME NEW m \in DOMAIN msgs' \ Ids
      PROVE  /\ msgs'[m].turn = 0 /\ msgs'[m].unsure = FALSE /\ msgs'[m].del \notin {"started", "injected"}
             /\ task'[m].pc # "accepted"
  BY <1>2 DEF Mildly, Grown, InFifo
<1>3. ASSUME NEW m \in Ids
      PROVE  /\ crossed[m] = 0 =>
                  msgs'[m].turn = 0 /\ msgs'[m].unsure = FALSE /\ msgs'[m].del \notin {"started", "injected"}
             /\ msgs'[m].turn # 0 => crossed[msgs'[m].turn] > 0
             /\ msgs'[m].turn \in {0, m} \/ msgs'[m].steer = TRUE
             /\ task'[m].pc = "accepted" => crossed[m] > 0
  <2>1. /\ crossed[m] = 0 => msgs[m].turn = 0
        /\ msgs[m].turn # 0 => crossed[msgs[m].turn] > 0
        /\ msgs[m].turn \in {0, m} \/ msgs[m].steer = TRUE
        /\ task[m].pc = "accepted" => crossed[m] > 0
    BY DEF Correlated, Crossings
  <2>2. Mild(m)
    BY <1>1 DEF Mildly, MildIn
  <2>3. CASE msgs'[m].turn \in {0, msgs[m].turn}
    BY <2>1, <2>2, <2>3 DEF Mild
  <2>4. CASE \E e \in Told(msgs[m].to) : e.msg = m /\ e.turn = msgs'[m].turn
    <3>1. PICK e \in Told(msgs[m].to) : e.msg = m /\ e.turn = msgs'[m].turn
      BY <2>4
    <3>2. /\ crossed[m] > 0
          /\ e.turn # 0 => crossed[e.turn] > 0 /\ (e.turn = m \/ msgs[m].steer = TRUE)
      BY <3>1, <1>1 DEF Reports
    <3>3. crossed[m] # 0
      BY <3>2
    <3> QED BY <2>1, <2>2, <3>1, <3>2, <3>3 DEF Mild
  <2> QED BY <2>2, <2>3, <2>4 DEF Mild
<1> QED BY <1>2, <1>3 DEF Crossings, Ids

LEMMA ReportsKept ==
  ASSUME IInv, phase = "up", Correlated, NEW s \in Slots, Grown, MildIn(s), Further,
         Told(s)' \subseteq Told(s)
  PROVE  Reports(s)'
<1>1. Reports(s)
  BY DEF Correlated, InSlot
<1>2. SUFFICES ASSUME NEW e \in Told(s)'
      PROVE  /\ e.msg \in DOMAIN msgs' /\ msgs'[e.msg].to = s /\ crossed'[e.msg] > 0
             /\ e.turn # 0 =>
                  /\ crossed'[e.turn] > 0 /\ msgs'[e.msg].turn \in {0, e.turn}
                  /\ e.turn = e.msg \/ msgs'[e.msg].steer = TRUE
                  /\ \A f \in Told(s)' : f.msg = e.msg => f.turn \in {0, e.turn}
  BY <1>1 DEF Reports, Ids
<1>3. /\ e \in Told(s) /\ e.msg \in Ids /\ msgs[e.msg].to = s /\ crossed[e.msg] > 0
      /\ e.turn # 0 =>
           /\ crossed[e.turn] > 0 /\ msgs[e.msg].turn \in {0, e.turn}
           /\ e.turn = e.msg \/ msgs[e.msg].steer = TRUE
           /\ \A f \in Told(s) : f.msg = e.msg => f.turn \in {0, e.turn}
  BY <1>1 DEF Reports
<1>4. Mild(e.msg) /\ e.msg \in DOMAIN msgs' /\ crossed'[e.msg] > 0 /\ (e.turn # 0 => crossed'[e.turn] > 0)
  <2>1. e.msg \in Numbers /\ (e.turn # 0 => e.turn \in Numbers)
    BY <1>3, ToldTyped, NumberFacts DEF Report
  <2> QED BY <2>1, <1>3 DEF Grown, MildIn, Further
<1>5. ASSUME e.turn # 0 PROVE msgs'[e.msg].turn \in {0, e.turn}
  <2>1. CASE msgs'[e.msg].turn \in {0, msgs[e.msg].turn}
    BY <2>1, <1>3, <1>5
  <2>2. CASE \E f \in Told(s) : f.msg = e.msg /\ f.turn = msgs'[e.msg].turn
    BY <2>2, <1>3, <1>5
  <2> QED BY <1>3, <1>4, <2>1, <2>2 DEF Mild
<1> QED BY <1>1, <1>3, <1>4, <1>5 DEF Mild

LEMMA InputsKept ==
  ASSUME IInv, phase = "up", Correlated, NEW s \in Slots, Grown, MildIn(s), Further,
         Told(s)' \subseteq Told(s), native'[s] = native[s],
         control'[s] = "stop" => native[s] = IdleRuntime
  PROVE  Inputs(s)'
<1>1. Inputs(s)
  BY DEF Correlated, InSlot
<1>2. ASSUME NEW k \in Has(native[s])
      PROVE  /\ k \in DOMAIN msgs' /\ msgs'[k].to = s /\ crossed'[k] > 0
             /\ \A e \in Told(s)' : e.msg # k
             /\ msgs'[k].turn \in {0, msgs[k].turn} /\ msgs'[k].steer = msgs[k].steer
  <2>1. k \in Ids /\ msgs[k].to = s /\ crossed[k] > 0 /\ \A e \in Told(s) : e.msg # k
    BY <1>1 DEF Inputs
  <2>2. Mild(k) /\ k \in DOMAIN msgs' /\ k \in Numbers
    BY <2>1, Facts DEF Grown, MildIn
  <2> QED BY <2>1, <2>2 DEF Mild, Further
<1>3. native[s].inputs \subseteq Has(native[s]) /\ (native[s].staged # 0 => native[s].staged \in Has(native[s]))
  BY DEF Has
<1>4. Has(native[s])' = Has(native[s])
  BY DEF Has
<1>5. \A k \in Has(native[s])' : /\ k \in Ids' /\ msgs'[k].to = s /\ crossed'[k] > 0
                                 /\ \A e \in Told(s)' : e.msg # k
  BY <1>2, <1>4 DEF Ids
<1>6. \A k \in native[s].inputs : /\ msgs'[k].turn \in {0, native[s].turn}
                                  /\ k = native[s].turn \/ msgs'[k].steer = TRUE
  BY <1>1, <1>2, <1>3 DEF Inputs
<1>7. native[s].staged # 0 => msgs'[native[s].staged].turn = 0
  BY <1>1, <1>2, <1>3 DEF Inputs
<1>8. native[s] # IdleRuntime =>
        \A e \in Told(s)' : e.kind = "boundary" => e.turn \notin {0, native[s].turn}
  BY <1>1 DEF Inputs
<1> QED BY <1>1, <1>5, <1>6, <1>7, <1>8 DEF Inputs

\* A stuck message stays stuck through every step but a stop of its slot.
LEMMA StuckKept ==
  ASSUME NEW m \in Ids, m \in DOMAIN msgs', Stuck(m), crashed' = crashed,
         msgs'[m] = msgs[m], task'[m].pc = "none", m \notin routing'.cancelled,
         m \notin ToSet(turn'.queue), m \notin Has(native[msgs[m].to])',
         msgs[m].turn \notin {native'[msgs[m].to].turn, native'[msgs[m].to].staged},
         \A e \in Told(msgs[m].to)' : e \in Told(msgs[m].to) \/ (e.msg # m /\ e.turn # msgs[m].turn)
  PROVE  Stuck(m)' /\ Blocked(msgs[m].to)'
<1>1. Stuck(m)'
  BY DEF Stuck, Parked, Told, Has
<1>2. msgs'[m].to = msgs[m].to /\ m \in Ids'
  BY DEF Ids
<1> QED BY <1>1, <1>2 DEF Blocked

\* The stuck messages of a slot stay so.
Staying(s) == \A m \in Ids : msgs[m].to = s /\ Stuck(m) => Stuck(m)'

LEMMA NumberedKept ==
  ASSUME IInv, phase = "up", Correlated, NEW s \in Slots, Grown, MildIn(s), Staying(s),
         \A m \in Ids : msgs[m].to = s /\ Open(msgs'[m]) /\ msgs[m].turn = current[s] /\ msgs[m].turn # 0
                          => msgs[m].turn = current'[s]
  PROVE  Numbered(s)'
<1>1. Numbered(s) /\ Reports(s)
  BY DEF Correlated, InSlot
<1>2. SUFFICES ASSUME NEW m \in DOMAIN msgs', msgs'[m].to = s, Open(msgs'[m]), msgs'[m].turn # 0
               PROVE  msgs'[m].turn = current'[s] \/ Stuck(m)'
  BY DEF Numbered, Ids
<1>3. m \in Ids /\ msgs[m].to = s /\ Mild(m)
  BY <1>2 DEF Grown, MildIn
<1>4. Open(msgs[m]) /\ msgs'[m].turn = msgs[m].turn /\ msgs[m].turn # 0
  BY <1>2, <1>3 DEF Mild
<1>5. msgs[m].turn = current[s] \/ Stuck(m)
  BY <1>1, <1>3, <1>4 DEF Numbered
<1> QED BY <1>2, <1>3, <1>4, <1>5 DEF Staying

\* The message that blocks a slot bears no current Turn, before as after.
LEMMA BlockedFrom ==
  ASSUME IInv, phase = "up", Correlated, NEW s \in Slots, Grown, MildIn(s), Ending(s)',
         current'[s] = current[s], control'[s] # "stop", control[s] # "stop",
         (\E e \in Told(s)' : e.kind = "boundary" /\ e.turn = 0) => current'[s] = 0,
         Blocked(s)'
  PROVE  current'[s] = 0
<1>1. PICK m \in Ids' : msgs'[m].to = s /\ Stuck(m)'
  BY DEF Blocked
<1>2. /\ Open(msgs'[m]) /\ msgs'[m].turn # 0 /\ msgs'[m].turn # native'[s].turn
      /\ \A e \in Told(s)' : e.turn # msgs'[m].turn
  BY <1>1 DEF Stuck, Parked, Told
<1>3. m \in Ids /\ msgs[m].to = s /\ Mild(m)
  BY <1>1, <1>2 DEF Grown, MildIn, Ids
<1>4. Open(msgs[m]) /\ msgs'[m].turn = msgs[m].turn /\ msgs[m].turn # 0
  BY <1>2, <1>3 DEF Mild
<1>5. Numbered(s) /\ Unmarked(s)
  BY DEF Correlated, InSlot
<1>6. CASE Stuck(m)
  BY <1>3, <1>5, <1>6 DEF Unmarked, Blocked
<1>7. CASE msgs[m].turn = current[s]
  <2>1. current'[s] = msgs'[m].turn /\ current'[s] # 0
    BY <1>4, <1>7
  <2>2. PICK e \in Told(s)' : e.kind = "boundary" /\ Timely(s, e)'
    BY <2>1, <1>2 DEF Ending
  <2>3. e.turn = 0 \/ e.turn = current'[s]
    BY <2>1, <2>2 DEF Timely
  <2> QED BY <2>1, <2>2, <2>3, <1>2
<1> QED BY <1>3, <1>4, <1>5, <1>6, <1>7 DEF Numbered

LEMMA BlockedKept ==
  ASSUME Grown, NEW s \in Slots, Staying(s), Blocked(s)
  PROVE  Blocked(s)'
BY DEF Grown, Staying, Blocked, Ids

\* A slot that a step leaves alone, but for what it records of its messages and for
\* an event handled that ended nothing; a Turn that has none needs no end.
Unended(s) == current[s] = 0 \/ control[s] = "stop"
SameSlot(s) ==
  /\ Told(s)' \subseteq Told(s)
  /\ \A e \in Told(s) : e.kind = "boundary" /\ Timely(s, e) => e \in Told(s)' \/ Unended(s)
  /\ native'[s] = native[s] /\ current'[s] = current[s]
  /\ control'[s] = "stop" <=> control[s] = "stop"
  /\ turn'.owner = s /\ native[s].turn # 0 =>
       turn'.boundary = FALSE \/ (turn.owner = s /\ turn'.boundary = turn.boundary)
LEMMA SlotKept ==
  ASSUME IInv, phase = "up", Correlated, NEW s \in Slots, Grown, MildIn(s), Further, Staying(s), SameSlot(s)
  PROVE  InSlot(s)'
<1>1. InSlot(s)
  BY DEF Correlated
<1>3. Reports(s)'
  BY ReportsKept DEF SameSlot
<1>4. Inputs(s)'
  <2>1. control'[s] = "stop" => native[s] = IdleRuntime
    BY <1>1 DEF SameSlot, InSlot, Inputs
  <2> QED BY <2>1, InputsKept DEF SameSlot
<1>5. Numbered(s)'
  BY NumberedKept DEF SameSlot
<1>6. Ending(s)'
  BY <1>1 DEF InSlot, Ending, SameSlot, Timely, Unended
<1>7. Turning(s)'
  BY <1>1, BlockedKept DEF InSlot, Turning, SameSlot
<1>8. (\E e \in Told(s)' : e.kind = "boundary" /\ e.turn = 0) => current'[s] = 0
  BY <1>1 DEF InSlot, Unmarked, SameSlot
<1>9. control'[s] # "stop" /\ Blocked(s)' => current'[s] = 0
  BY <1>6, <1>8, BlockedFrom DEF SameSlot
<1>10. Unmarked(s)'
  BY <1>1, <1>8, <1>9 DEF InSlot, Unmarked, SameSlot
<1> QED BY <1>3, <1>4, <1>5, <1>6, <1>7, <1>10 DEF InSlot

-----------------------------------------------------------------------------
Over == {"failed", "skipped"}
Unsent(r) == r.unsure = FALSE /\ r.del \notin {"started", "injected"}
\* What the operations on one message leave of it.
Keeps(r, q) ==
  /\ q \in Message /\ q.to = r.to /\ q.steer = r.steer
  /\ Open(q) => Open(r)
  /\ Unsent(r) => Unsent(q)
  /\ q.turn \in {0, r.turn}
Quiet(r, q) ==
  /\ Keeps(r, q)
  /\ Open(q) /\ q.del \in Over => r.del \in Over
  /\ AtNative(q) => AtNative(r)

LEMMA QuietSame == ASSUME NEW r \in Message PROVE Quiet(r, r) /\ Keeps(r, r)
BY DEF Quiet, Keeps

LEMMA QuietTransitive ==
  ASSUME NEW r \in Message, NEW q, NEW p, Quiet(r, q), Quiet(q, p)
  PROVE  Quiet(r, p)
BY DEF Quiet, Keeps

LEMMA DeliveredFields ==
  ASSUME NEW r \in Message, NEW d \in {"queued", "submitting", "started", "injected", "failed", "skipped"}
  PROVE  LET q == Delivered(r, d)
         IN /\ q \in Message /\ q.to = r.to /\ q.steer = r.steer /\ q.from = r.from
            /\ q.proc = r.proc /\ q.turn = r.turn /\ q.unsure = r.unsure
            /\ q.del = IF DeliveryAllowed(r.del, d) THEN d ELSE r.del
<1>1. CASE DeliveryAllowed(r.del, d)
  <2>1. Delivered(r, d) = [r EXCEPT !.del = d]
    BY <1>1 DEF Delivered
  <2> QED BY <1>1, <2>1 DEF Message
<1>2. CASE ~DeliveryAllowed(r.del, d)
  BY <1>2 DEF Delivered
<1> QED BY <1>1, <1>2

LEMMA ResolvedFields ==
  ASSUME NEW r \in Message
  PROVE  LET q == Resolved(r)
         IN /\ q \in Message /\ q.to = r.to /\ q.steer = r.steer /\ q.from = r.from
            /\ q.proc = r.proc /\ q.turn = r.turn
            /\ r.unsure = FALSE => q = r
            /\ q.del \in {r.del, "started"} \/ q.proc = "failed"
            /\ q.del = "started" => r.del \in {"started", "submitting"}
<1>1. CASE ~r.unsure \/ r.proc = "waiting"
  BY <1>1 DEF Resolved
<1>2. CASE ~(~r.unsure \/ r.proc = "waiting")
  <2> DEFINE d == IF r.proc \in {"working", "completed"} THEN "started" ELSE "failed"
             e == Delivered(r, d)
  <2>1. Resolved(r) = [e EXCEPT !.unsure = FALSE]
    BY <1>2 DEF Resolved
  <2>2. d \in {"started", "failed"} /\ (d = "failed" => r.proc = "failed")
    BY <1>2 DEF Message, Settled
  <2>3. /\ e \in Message /\ e.to = r.to /\ e.steer = r.steer /\ e.from = r.from
        /\ e.proc = r.proc /\ e.turn = r.turn /\ e.del = IF DeliveryAllowed(r.del, d) THEN d ELSE r.del
    <3> HIDE DEF d
    <3> QED BY <2>2, DeliveredFields
  <2>4. DeliveryAllowed(r.del, "started") => r.del \in {"started", "submitting"}
    BY DEF DeliveryAllowed
  <2> HIDE DEF d, e
  <2> DEFINE q == [e EXCEPT !.unsure = FALSE]
  <2>5. /\ q \in Message /\ q.to = e.to /\ q.steer = e.steer /\ q.from = e.from
        /\ q.proc = e.proc /\ q.turn = e.turn /\ q.del = e.del
    BY <2>3 DEF Message
  <2> HIDE DEF q
  <2> QED BY <1>2, <2>1, <2>2, <2>3, <2>4, <2>5 DEF q
<1> QED BY <1>1, <1>2

LEMMA ProcessedFields ==
  ASSUME NEW r \in Message, NEW p \in {"working"} \cup Settled, NEW t \in 0..MaxMessages
  PROVE  LET q == Processed(r, p, t)
         IN /\ q \in Message /\ q.to = r.to /\ q.steer = r.steer /\ q.from = r.from
            /\ IF ProcessingAllowed(r.proc, p) THEN q.proc = p /\ q.turn = t ELSE q = r
            /\ r.unsure = FALSE => q.unsure = FALSE /\ q.del = r.del
            /\ q.del \in {r.del, "started"} \/ q.proc = "failed"
            /\ q.del = "started" => r.del \in {"started", "submitting"}
<1>1. CASE ~ProcessingAllowed(r.proc, p)
  BY <1>1 DEF Processed
<1>2. CASE ProcessingAllowed(r.proc, p)
  <2> DEFINE e == [r EXCEPT !.proc = p, !.turn = t]
  <2>1. Processed(r, p, t) = Resolved(e)
    BY <1>2 DEF Processed, Settled
  <2>2. /\ e \in Message /\ e.to = r.to /\ e.steer = r.steer /\ e.from = r.from /\ e.proc = p /\ e.turn = t
        /\ e.unsure = r.unsure /\ e.del = r.del
    BY DEF Message
  <2> HIDE DEF e
  <2> DEFINE q == Resolved(e)
  <2>3. /\ q \in Message /\ q.to = e.to /\ q.steer = e.steer /\ q.from = e.from
        /\ q.proc = e.proc /\ q.turn = e.turn
        /\ e.unsure = FALSE => q = e
        /\ q.del \in {e.del, "started"} \/ q.proc = "failed"
        /\ q.del = "started" => e.del \in {"started", "submitting"}
    BY <2>2, ResolvedFields
  <2>4. r.unsure = FALSE => q.unsure = FALSE /\ q.del = r.del
    BY <2>2, <2>3
  <2> HIDE DEF q
  <2> QED BY <1>2, <2>1, <2>2, <2>3, <2>4 DEF q
<1> QED BY <1>1, <1>2

LEMMA Closes ==
  ASSUME NEW r \in Message, NEW p \in Settled, NEW t \in 0..MaxMessages
  PROVE  LET q == Processed(r, p, t)
         IN /\ q \in Message /\ q.to = r.to /\ q.steer = r.steer /\ ~Open(q)
            /\ Unsent(r) => Unsent(q)
            /\ q.turn \in {r.turn, t} /\ (AtNative(q) => AtNative(r))
<1> DEFINE q == Processed(r, p, t)
<1>1. /\ q \in Message /\ q.to = r.to /\ q.steer = r.steer
      /\ IF ProcessingAllowed(r.proc, p) THEN q.proc = p /\ q.turn = t ELSE q = r
      /\ r.unsure = FALSE => q.unsure = FALSE /\ q.del = r.del
  BY ProcessedFields
<1>2. Tame(r, q)
  BY ProcessedTame
<1>3. ~ProcessingAllowed(r.proc, p) => r.proc \in Settled
  BY DEF ProcessingAllowed, Message
<1> HIDE DEF q
<1> QED BY <1>1, <1>2, <1>3 DEF Open, Tame, Unsent, q

LEMMA FailedQuiet == ASSUME NEW r \in Message PROVE Quiet(r, Failed(r)) /\ ~Open(Failed(r))
<1>1. 0 \in 0..MaxMessages /\ "failed" \in Settled
  BY NumberFacts DEF Settled
<1> DEFINE q == Processed(r, "failed", 0)
<1>2. /\ q \in Message /\ q.to = r.to /\ q.steer = r.steer /\ ~Open(q)
      /\ Unsent(r) => Unsent(q)
      /\ q.turn \in {r.turn, 0} /\ (AtNative(q) => AtNative(r))
  BY <1>1, Closes
<1> HIDE DEF q
<1>3. Quiet(r, q)
  BY <1>2 DEF Quiet, Keeps
<1> QED BY <1>2, <1>3 DEF Failed, q

LEMMA SkippedFields ==
  ASSUME NEW r \in Message
  PROVE  /\ Keeps(r, Skipped(r)) /\ (AtNative(Skipped(r)) => AtNative(r))
         /\ Skipped(r).turn = r.turn
         /\ ~Open(r) => Quiet(r, Skipped(r)) /\ ~Open(Skipped(r))
<1> DEFINE q == Delivered(r, "skipped")
<1>1. /\ q \in Message /\ q.to = r.to /\ q.steer = r.steer
      /\ q.proc = r.proc /\ q.turn = r.turn /\ q.unsure = r.unsure
      /\ q.del = IF DeliveryAllowed(r.del, "skipped") THEN "skipped" ELSE r.del
  BY DeliveredFields
<1> HIDE DEF q
<1>2. Keeps(r, q) /\ (AtNative(q) => AtNative(r)) /\ q.turn = r.turn /\ (Open(q) <=> Open(r))
  BY <1>1 DEF Keeps, AtNative, Unsent, Open
<1>3. ~Open(r) => Quiet(r, q) /\ ~Open(q)
  BY <1>2 DEF Quiet
<1> QED BY <1>2, <1>3 DEF Skipped, q

LEMMA QueuedFields ==
  ASSUME NEW r \in Message
  PROVE  LET q == Delivered(r, "queued")
         IN Keeps(r, q) /\ (Open(q) /\ q.del \in Over => r.del \in Over) /\ (AtNative(q) => AtNative(r))
            /\ q.turn = r.turn /\ (r.del \in Over => q = r)
<1> DEFINE q == Delivered(r, "queued")
<1>1. /\ q \in Message /\ q.to = r.to /\ q.steer = r.steer
      /\ q.proc = r.proc /\ q.turn = r.turn /\ q.unsure = r.unsure
      /\ q.del = IF DeliveryAllowed(r.del, "queued") THEN "queued" ELSE r.del
  BY DeliveredFields
<1>2. r.del \in Over => q = r
  BY DEF Over, Delivered, DeliveryAllowed
<1> HIDE DEF q
<1>3. Keeps(r, q) /\ (Open(q) /\ q.del \in Over => r.del \in Over) /\ (AtNative(q) => AtNative(r)) /\ q.turn = r.turn
  BY <1>1 DEF Keeps, Open, Unsent, Over, AtNative
<1> QED BY <1>2, <1>3 DEF q

\* What reserveNextLocked does to a message: nothing, if it is open.
Left(r, q) == q = r \/ (~Open(r) /\ q = Skipped(r))
LEMMA ReserveLeaves ==
  ASSUME NEW ms \in Seq(Message), NEW t
  PROVE  /\ DOMAIN Reserve(t, ms).msgs = DOMAIN ms
         /\ \A m \in DOMAIN ms : Left(ms[m], Reserve(t, ms).msgs[m])
<1> DEFINE live == {i \in DOMAIN t.queue : Awaiting(ms[t.queue[i]])}
           first == IF live = {} THEN Len(t.queue) + 1 ELSE Min(live)
           dropped == {m \in ToSet(SubSeq(t.queue, 1, first - 1)) : ~Open(ms[m]) /\ InFifo(ms[m])}
           f == Each(ms, dropped, Skipped)
<1>1. Reserve(t, ms).msgs = f
  BY DEF Reserve
<1>2. \A m \in dropped : ~Open(ms[m])
  OBVIOUS
<1> HIDE DEF dropped
<1>3. DOMAIN f = DOMAIN ms /\ \A i \in DOMAIN ms : f[i] = IF i \in dropped THEN Skipped(ms[i]) ELSE ms[i]
  BY DEF Each
<1> HIDE DEF f
<1> QED BY <1>1, <1>2, <1>3 DEF Left

LEMMA LeftQuiet ==
  ASSUME NEW r \in Message, NEW q, Left(r, q)
  PROVE  Quiet(r, q) /\ q.turn = r.turn /\ (Open(r) => q = r)
<1>1. CASE q = r
  BY <1>1, QuietSame
<1>2. CASE ~Open(r) /\ q = Skipped(r)
  BY <1>2, SkippedFields
<1> QED BY <1>1, <1>2 DEF Left

-----------------------------------------------------------------------------
\* Where a scheduler operation leaves the Turn: with its owner and as it was, with
\* nobody, or with the message that starts; `new` may have come to the queue, and
\* what starts from the queue was still awaiting.
Placed(t, ms, res, new) ==
  /\ res.turn \in TurnState
  /\ ToSet(res.turn.queue) \subseteq ToSet(t.queue) \cup new
  /\ res.start = 0 \/ res.start \in ToSet(t.queue) \cup new
  /\ res.start \notin new \cup {0} => Awaiting(ms[res.start])
  /\ \/ res.turn.owner = t.owner /\ res.turn.boundary = t.boundary
     \/ /\ res.turn.boundary = FALSE
        /\ res.turn.owner = None \/ (res.start # 0 /\ ms[res.start].to = res.turn.owner)
  /\ (t.owner = None => t.queue = <<>>) => (res.turn.owner = None => res.turn.queue = <<>>)

LEMMA PlacedSame == ASSUME NEW t \in TurnState, NEW ms, NEW new PROVE Placed(t, ms, [turn |-> t, msgs |-> ms, start |-> 0], new)
BY DEF Placed

LEMMA ReservePlaced ==
  ASSUME NEW ms \in Seq(Message), NEW t \in TurnState, Queued(ms, t), t.owner = None
  PROVE  /\ Placed(t, ms, Reserve(t, ms), {})
         /\ Reserve(t, ms).turn.owner = None => Reserve(t, ms).turn.queue = <<>>
<1> DEFINE res == Reserve(t, ms)
<1>1. Reserved(t, ms, res)
  BY ReserveResult
<1> HIDE DEF res
<1>2. CASE res.start = 0
  <2>1. res.turn = [t EXCEPT !.queue = <<>>]
    BY <1>1, <1>2 DEF Reserved
  <2>2. /\ res.turn.owner = t.owner /\ res.turn.boundary = t.boundary /\ res.turn.queue = <<>>
    BY <2>1 DEF TurnState
  <2> QED BY <1>1, <1>2, <2>2 DEF Reserved, Placed, res
<1>3. CASE res.start # 0
  <2>1. res.turn.owner \in Slots
    <3>1. res.start \in DOMAIN ms
      BY <1>1, <1>3 DEF Reserved, Queued
    <3>2. ms[res.start] \in Message
      BY <3>1
    <3> QED BY <1>1, <1>3, <3>2 DEF Reserved, Message
  <2>2. res.turn.owner # None
    BY <2>1, TwoSlots
  <2> QED BY <1>1, <1>3, <2>2 DEF Reserved, Placed, res
<1> QED BY <1>2, <1>3

\* The Turn has changed hands, or is nobody's.
Vacated(ms, res) ==
  /\ res.turn.boundary = FALSE /\ (res.turn.owner = None => res.turn.queue = <<>>)
  /\ res.turn.owner = None \/ (res.start # 0 /\ ms[res.start].to = res.turn.owner)
LEMMA FinishPlaced ==
  ASSUME NEW ms \in Seq(Message), NEW t \in TurnState, Queued(ms, t)
  PROVE  /\ Placed(t, ms, FinishTurn(t, ms), {})
         /\ Vacated(ms, FinishTurn(t, ms))
<1> DEFINE u == [t EXCEPT !.owner = None, !.submitting = 0, !.boundary = FALSE]
           res == Reserve(u, ms)
<1>1. u \in TurnState /\ u.owner = None /\ u.queue = t.queue /\ u.boundary = FALSE
  BY DEF TurnState
<1>2. FinishTurn(t, ms) = res
  BY DEF FinishTurn
<1> HIDE DEF u
<1>3. Placed(u, ms, res, {}) /\ (res.turn.owner = None => res.turn.queue = <<>>)
  BY <1>1, ReservePlaced DEF Queued
<1> HIDE DEF res
<1>4. Vacated(ms, res)
  BY <1>1, <1>3 DEF Placed, Vacated
<1> QED BY <1>1, <1>2, <1>3, <1>4 DEF Placed

LEMMA FinishIfIdlePlaced ==
  ASSUME NEW ms \in Seq(Message), NEW t \in TurnState, Queued(ms, t), NEW s, NEW without
  PROVE  /\ Placed(t, ms, FinishIfIdle(t, ms, s, without), {})
         /\ DOMAIN FinishIfIdle(t, ms, s, without).msgs = DOMAIN ms
         /\ \A m \in DOMAIN ms : Left(ms[m], FinishIfIdle(t, ms, s, without).msgs[m])
         /\ IF Idle(t, ms, s, without) THEN Vacated(ms, FinishIfIdle(t, ms, s, without))
            ELSE FinishIfIdle(t, ms, s, without).turn = t /\ FinishIfIdle(t, ms, s, without).start = 0
<1> DEFINE res == FinishIfIdle(t, ms, s, without)
           u == [t EXCEPT !.owner = None, !.submitting = 0, !.boundary = FALSE]
<1>1. CASE Idle(t, ms, s, without)
  <2>1. res = FinishTurn(t, ms) /\ res = Reserve(u, ms)
    BY <1>1 DEF FinishIfIdle, FinishTurn
  <2> HIDE DEF u, res
  <2> QED BY <1>1, <2>1, FinishPlaced, ReserveLeaves DEF res
<1>2. CASE ~Idle(t, ms, s, without)
  <2>1. res = [turn |-> t, msgs |-> ms, start |-> 0]
    BY <1>2 DEF FinishIfIdle
  <2>2. Placed(t, ms, res, {})
    BY <2>1, PlacedSame
  <2>3. res.turn = t /\ res.msgs = ms /\ res.start = 0
    BY <2>1
  <2> HIDE DEF res
  <2> QED BY <1>2, <2>2, <2>3 DEF Left, res
<1> QED BY <1>1, <1>2

-----------------------------------------------------------------------------
\* A parked message has crossed to a runtime, so nothing in the scheduler knows it.
LEMMA ParkedFacts ==
  ASSUME IInv, phase = "up", Correlated, NEW m \in Ids, Parked(m)
  PROVE  /\ crossed[m] # 0 /\ ~InFifo(msgs[m]) /\ ~AtNative(msgs[m]) /\ ~Awaiting(msgs[m])
         /\ m # routing.msg /\ m # 0
<1>1. crossed[m] # 0 /\ ~InFifo(msgs[m]) /\ ~AtNative(msgs[m])
  BY DEF Correlated, Crossings, Parked, InFifo, AtNative
<1>2. m # 0 /\ (routing.msg # 0 => crossed[routing.msg] = 0)
  BY Facts, NumberFacts DEF Core, Admitted
<1> QED BY <1>1, <1>2 DEF Awaiting

\* The scheduler and the records pass over a parked message.
Unmoved(m) ==
  /\ msgs'[m] = msgs[m] /\ task'[m].pc = "none" /\ m \notin routing'.cancelled /\ m \notin ToSet(turn'.queue)
LEMMA StayingFrom ==
  ASSUME NEW s \in Slots, crashed' = crashed, Ids \subseteq DOMAIN msgs',
         \A m \in Ids : msgs[m].to = s /\ Stuck(m) => Unmoved(m),
         native'[s] \in {native[s], IdleRuntime},
         \A e \in Told(s)' : \/ e \in Told(s)
                             \/ e.msg \in Has(native[s]) /\ e.turn \in {0, native[s].turn}
  PROVE  Staying(s)
<1>1. SUFFICES ASSUME NEW m \in Ids, msgs[m].to = s, Stuck(m) PROVE Stuck(m)'
  BY DEF Staying
<1>2. /\ crashed /\ Parked(m) /\ msgs[m].turn # 0
      /\ m \notin Has(native[s]) /\ msgs[m].turn \notin {native[s].turn, native[s].staged}
  BY <1>1 DEF Stuck, Parked
<1>3. m \notin Has(native'[s]) /\ msgs[m].turn \notin {native'[s].turn, native'[s].staged}
  BY <1>2 DEF Has, IdleRuntime
<1>4. \A e \in Told(msgs[m].to)' : e \in Told(msgs[m].to) \/ (e.msg # m /\ e.turn # msgs[m].turn)
  <2>1. msgs'[m] = msgs[m]
    BY <1>1 DEF Unmoved
  <2>2. Told(msgs[m].to)' = Told(s)'
    BY <1>1, <2>1 DEF Told
  <2> QED BY <1>1, <1>2, <2>2
<1>5. Has(native[msgs[m].to])' = Has(native'[s])
  BY <1>1 DEF Unmoved, Has
<1> QED BY <1>1, <1>2, <1>3, <1>4, <1>5, StuckKept DEF Unmoved

LEMMA PlacedAccepted ==
  ASSUME NEW tk \in [Numbers -> Goroutine], NEW k, NEW st, NEW m \in Numbers
  PROVE  Begun(tk, k, st)[m].pc \in {tk[m].pc, "wait"}
<1>1. CASE k = 0
  BY <1>1 DEF Begun
<1>2. CASE k # 0
  <2> DEFINE g == [pc |-> "wait", steer |-> st]
  <2>1. Begun(tk, k, st) = [tk EXCEPT ![k] = g] /\ g.pc = "wait"
    BY <1>2 DEF Begun
  <2> HIDE DEF g
  <2> QED BY <2>1
<1> QED BY <1>1, <1>2

LEMMA KeepsMild ==
  ASSUME Correlated, NEW m \in Ids, Keeps(msgs[m], msgs'[m])
  PROVE  Mild(m)
<1>1. crossed[m] = 0 => Unsent(msgs[m])
  BY DEF Correlated, Crossings, Unsent
<1> QED BY <1>1 DEF Keeps, Mild, Unsent

\* A step that hands nothing to a runtime and hears nothing of one but the news of
\* an input that has ended.
Softly ==
  /\ native' = native /\ current' = current /\ crossed' = crossed /\ crashed' = crashed /\ phase' = phase
  /\ \A s \in Slots : /\ Told(s)' \subseteq Told(s)
                      /\ \A e \in Told(s) : e.kind = "boundary" /\ Timely(s, e) => e \in Told(s)' \/ Unended(s)
                      /\ control'[s] = "stop" <=> control[s] = "stop"
  /\ \A m \in Ids : Stuck(m) => Unmoved(m)
  /\ \A m \in Ids : task'[m].pc = "accepted" => task[m].pc = "accepted"
  /\ \A m \in DOMAIN msgs' \ Ids : task'[m].pc # "accepted"
  /\ turn'.boundary = FALSE \/ (turn'.owner = turn.owner /\ turn'.boundary = turn.boundary)
LEMMA SoftlyCorrelated ==
  ASSUME IInv, IInv', phase = "up", Correlated, Softly, Grown, \A m \in Ids : Mild(m)
  PROVE  Correlated'
<1>1. Mildly /\ \A s \in Slots : MildIn(s)
  BY DEF Mildly, MildIn
<1>2. Crossings'
  BY <1>1, CrossingsKept DEF Softly
<1>3. ASSUME NEW s \in Slots PROVE InSlot(s)'
  <2>1. Staying(s)
    BY StayingFrom DEF Softly, Grown
  <2>2. SameSlot(s) /\ Further
    BY DEF SameSlot, Softly, Further
  <2> QED BY <1>1, <2>1, <2>2, SlotKept
<1> QED BY <1>2, <1>3 DEF Correlated

-----------------------------------------------------------------------------
\* What may have become of a message that scheduleDeliveryMode places.
Queues(r, q) == Left(r, q) \/ Left(Delivered(r, "queued"), q)
LEMMA QueuesQuiet ==
  ASSUME NEW r \in Message, NEW q, Queues(r, q)
  PROVE  Quiet(r, q) /\ q.turn = r.turn
<1>1. CASE Left(r, q)
  BY <1>1, LeftQuiet
<1>2. CASE Left(Delivered(r, "queued"), q)
  <2> DEFINE p == Delivered(r, "queued")
  <2>1. /\ Keeps(r, p) /\ (Open(p) /\ p.del \in Over => r.del \in Over) /\ (AtNative(p) => AtNative(r))
        /\ p.turn = r.turn
    BY QueuedFields
  <2>2. p \in Message /\ Quiet(r, p)
    BY <2>1 DEF Keeps, Quiet
  <2>3. Left(p, q)
    BY <1>2
  <2> HIDE DEF p
  <2>4. Quiet(p, q) /\ q.turn = p.turn
    BY <2>2, <2>3, LeftQuiet
  <2> QED BY <2>1, <2>2, <2>4, QuietTransitive
<1> QED BY <1>1, <1>2 DEF Queues

LEMMA SchedulePlaced ==
  ASSUME NEW ms \in Seq(Message), NEW t \in TurnState, Queued(ms, t), NEW m \in DOMAIN ms, m \in Numbers,
         m \notin ToSet(t.queue), ~AtNative(ms[m])
  PROVE  LET res == Schedule(t, ms, m)
         IN /\ Placed(t, ms, res, {m}) /\ DOMAIN res.msgs = DOMAIN ms
            /\ \A i \in DOMAIN ms : IF i = m THEN Queues(ms[i], res.msgs[i]) ELSE Left(ms[i], res.msgs[i])
<1> DEFINE r == ms[m]
           queues == [t EXCEPT !.queue = Enqueued(t.queue, m)]
           queued == Each(ms, {m}, LAMBDA x : Delivered(x, "queued"))
           res == Schedule(t, ms, m)
           Good == /\ Placed(t, ms, res, {m}) /\ DOMAIN res.msgs = DOMAIN ms
                   /\ \A i \in DOMAIN ms : IF i = m THEN Queues(ms[i], res.msgs[i]) ELSE Left(ms[i], res.msgs[i])
<1> SUFFICES Good
  OBVIOUS
<1>0. r \in Message
  OBVIOUS
<1>1. /\ r \in Message /\ r.to \in Slots /\ r.to # None /\ t.submitting \in Nat /\ t.queue \in Seq(Numbers) /\ t.boundary \in BOOLEAN
      /\ t.owner \in Slots \cup {None}
  <2> HIDE DEF r
  <2>1. r.to \in Slots /\ r.to # None
    BY <1>0, TwoSlots DEF Message
  <2> QED BY <1>0, <2>1 DEF TurnState
<1>2. \A i \in DOMAIN ms : Left(ms[i], ms[i]) /\ Queues(ms[i], ms[i])
  BY DEF Left, Queues
<1>3. CASE t.owner = None /\ t.queue = <<>>
  <2> DEFINE u == [ owner |-> r.to, queue |-> <<>>, submitting |-> t.submitting + 1, boundary |-> FALSE ]
  <2>1. res.turn = u /\ res.msgs = ms /\ res.start = m
    BY <1>3, <1>1 DEF Schedule
  <2>2. u \in TurnState /\ u.owner = r.to /\ u.queue = t.queue /\ u.boundary = FALSE
    BY <1>3, <1>1 DEF TurnState
  <2> HIDE DEF u, res
  <2>3. Placed(t, ms, res, {m})
    BY <2>1, <2>2, <1>1, NumberFacts DEF Placed
  <2> QED BY <2>1, <2>3, <1>2 DEF Good
<1>4. CASE ~(t.owner = None /\ t.queue = <<>>) /\ t.owner = r.to /\ r.steer
  <2> DEFINE u == [t EXCEPT !.submitting = @ + 1]
  <2>1. res.turn = u /\ res.msgs = ms /\ res.start = m
    BY <1>4 DEF Schedule
  <2>2. u \in TurnState /\ u.owner = t.owner /\ u.queue = t.queue /\ u.boundary = t.boundary
    BY <1>1 DEF TurnState
  <2> HIDE DEF u, res
  <2>3. Placed(t, ms, res, {m})
    BY <2>1, <2>2, <1>1, NumberFacts DEF Placed
  <2> QED BY <2>1, <2>3, <1>2 DEF Good
<1>5. CASE ~(t.owner = None /\ t.queue = <<>>) /\ ~(t.owner = r.to /\ r.steer)
  <2>1. /\ Enqueued(t.queue, m) \in Seq(Numbers) /\ ToSet(Enqueued(t.queue, m)) = ToSet(t.queue) \cup {m}
        /\ Increasing(Enqueued(t.queue, m))
    BY <1>1, EnqueuedElements DEF Queued
  <2>2. /\ queues \in TurnState /\ queues.owner = t.owner /\ queues.boundary = t.boundary
        /\ ToSet(queues.queue) = ToSet(t.queue) \cup {m}
    BY <2>1 DEF TurnState
  <2>3. Increasing(queues.queue)
    BY <2>1 DEF TurnState
  <2>4. /\ Calm(ms, queued)
        /\ \A i \in DOMAIN ms : queued[i] = IF i = m THEN Delivered(r, "queued") ELSE ms[i]
    <3> DEFINE q == Delivered(r, "queued")
    <3>1. Tame(r, q)
      BY <1>1, QueuedTame
    <3>2. Calm(ms, [ms EXCEPT ![m] = q])
      BY <3>1, CalmExcept
    <3>3. queued = [ms EXCEPT ![m] = q]
      BY DEF Each
    <3> HIDE DEF q, queued
    <3> QED BY <3>2, <3>3 DEF q
  <2>5. queued \in Seq(Message) /\ DOMAIN queued = DOMAIN ms /\ \A i \in DOMAIN ms : queued[i].to = ms[i].to
    BY <2>4 DEF Calm, Tame
  <2>6. Queued(queued, queues)
    BY <2>2, <2>3, <2>5 DEF Queued
  <2>7. \A i \in DOMAIN ms : \A q : Left(queued[i], q) => IF i = m THEN Queues(ms[i], q) ELSE Left(ms[i], q)
    BY <2>4 DEF Queues
  <2>8. CASE ~DeliveryAllowed(r.del, "queued")
    <3>1. res = [turn |-> t, msgs |-> ms, start |-> 0, steer |-> FALSE]
      BY <2>8, <1>5 DEF Schedule
    <3>2. res.turn = t /\ res.msgs = ms /\ res.start = 0
      BY <3>1
    <3> HIDE DEF res
    <3>3. Placed(t, ms, res, {m})
      BY <3>2 DEF Placed
    <3> QED BY <3>2, <3>3, <1>2 DEF Good
  <2>9. CASE DeliveryAllowed(r.del, "queued") /\ t.owner # None
    <3>1. res = [turn |-> queues, msgs |-> queued, start |-> 0, steer |-> FALSE]
      BY <2>9, <1>5 DEF Schedule
    <3>2. res.turn = queues /\ res.msgs = queued /\ res.start = 0
      BY <3>1
    <3> HIDE DEF res, queues, queued
    <3>3. Placed(t, ms, res, {m})
      BY <3>2, <2>2, <2>9 DEF Placed
    <3>4. \A i \in DOMAIN ms : Left(queued[i], queued[i])
      BY DEF Left
    <3> QED BY <3>2, <3>3, <3>4, <2>5, <2>7 DEF Good
  <2>10. CASE DeliveryAllowed(r.del, "queued") /\ t.owner = None
    <3> DEFINE next == Reserve(queues, queued)
    <3>1. /\ res.turn = next.turn /\ res.msgs = next.msgs /\ res.start = next.start
      BY <2>10, <1>5 DEF Schedule
    <3> HIDE DEF res, queues, queued
    <3>2. /\ Placed(queues, queued, next, {})
          /\ next.turn.owner = None => next.turn.queue = <<>>
      BY <2>2, <2>5, <2>6, <2>10, ReservePlaced
    <3>3. DOMAIN next.msgs = DOMAIN queued /\ \A i \in DOMAIN queued : Left(queued[i], next.msgs[i])
      BY <2>5, ReserveLeaves
    <3> HIDE DEF next
    <3>4. /\ next.start # 0 => queued[next.start].to = ms[next.start].to
          /\ next.start \notin {m, 0} => Awaiting(ms[next.start])
      <4>1. next.start # 0 => next.start \in DOMAIN ms /\ Awaiting(queued[next.start])
        BY <3>2, <2>5, <2>6 DEF Placed, Queued
      <4> QED BY <4>1, <2>4, <2>5
    <3>5. Placed(t, ms, res, {m})
      BY <3>1, <3>2, <3>4, <2>2 DEF Placed
    <3> QED BY <3>1, <3>3, <3>5, <2>5, <2>7 DEF Good
  <2> QED BY <2>8, <2>9, <2>10
<1> HIDE DEF Good
<1> QED BY <1>3, <1>4, <1>5

\* What a step takes over from a scheduler operation.
Taken(t, ms, tk, new) ==
  /\ turn' \in TurnState /\ DOMAIN msgs' = DOMAIN ms
  /\ \A i \in DOMAIN ms : IF i \in new THEN Queues(ms[i], msgs'[i]) ELSE Left(ms[i], msgs'[i])
  /\ ToSet(turn'.queue) \subseteq ToSet(t.queue) \cup new
  /\ \A i \in Numbers : /\ task'[i].pc \in {tk[i].pc, "wait"}
                        /\ i \notin ToSet(t.queue) \cup new => task'[i] = tk[i]
                        /\ i \in new \/ task'[i] = tk[i] \/ Awaiting(ms[i])
  /\ \/ turn'.owner = t.owner /\ turn'.boundary = t.boundary
     \/ /\ turn'.boundary = FALSE
        /\ \/ turn'.owner = None
           \/ \E i \in ToSet(t.queue) \cup new : task'[i].pc = "wait" /\ ms[i].to = turn'.owner
  /\ (t.owner = None => t.queue = <<>>) => (turn'.owner = None => turn'.queue = <<>>)
LEMMA TakenFrom ==
  ASSUME NEW tk \in [Numbers -> Goroutine], NEW t, NEW ms, NEW res, NEW new, NEW st,
         ToSet(t.queue) \cup new \subseteq Numbers,
         Placed(t, ms, res, new), Take(res, tk, st), DOMAIN res.msgs = DOMAIN ms,
         \A i \in DOMAIN ms : IF i \in new THEN Queues(ms[i], res.msgs[i]) ELSE Left(ms[i], res.msgs[i])
  PROVE  Taken(t, ms, tk, new)
<1>1. msgs' = res.msgs /\ turn' = res.turn /\ task' = Begun(tk, res.start, st)
  BY DEF Take
<1>2. \A i \in Numbers : /\ task'[i].pc \in {tk[i].pc, "wait"}
                         /\ i \notin ToSet(t.queue) \cup new => task'[i] = tk[i]
                         /\ i \in new \/ task'[i] = tk[i] \/ Awaiting(ms[i])
  <2> SUFFICES ASSUME NEW i \in Numbers
      PROVE  /\ task'[i].pc \in {tk[i].pc, "wait"}
             /\ i \notin ToSet(t.queue) \cup new => task'[i] = tk[i]
             /\ i \in new \/ task'[i] = tk[i] \/ Awaiting(ms[i])
    OBVIOUS
  <2>1. Begun(tk, res.start, st)[i].pc \in {tk[i].pc, "wait"}
    BY PlacedAccepted
  <2>2. ASSUME i \notin ToSet(t.queue) \cup new PROVE Begun(tk, res.start, st)[i] = tk[i]
    <3>1. i # res.start
      BY <2>2, NumberFacts DEF Placed
    <3> QED BY <3>1 DEF Begun
  <2>3. ASSUME i \notin new, Begun(tk, res.start, st)[i] # tk[i] PROVE Awaiting(ms[i])
    <3>1. i = res.start /\ i # 0
      BY <2>3, NumberFacts DEF Begun
    <3> QED BY <2>3, <3>1 DEF Placed
  <2> QED BY <1>1, <2>1, <2>2, <2>3
<1>3. res.start # 0 => res.start \in ToSet(t.queue) \cup new /\ task'[res.start].pc = "wait"
  <2> SUFFICES ASSUME res.start # 0 PROVE res.start \in ToSet(t.queue) \cup new /\ task'[res.start].pc = "wait"
    OBVIOUS
  <2>1. res.start \in ToSet(t.queue) \cup new /\ res.start \in Numbers
    BY DEF Placed
  <2> DEFINE g == [pc |-> "wait", steer |-> st]
  <2>2. task' = [tk EXCEPT ![res.start] = g] /\ g.pc = "wait"
    BY <1>1 DEF Begun
  <2> HIDE DEF g
  <2> QED BY <2>1, <2>2
<1> QED BY <1>1, <1>2, <1>3 DEF Placed, Taken

\* Either nobody has the Turn after a step, or a goroutine is about to deliver for it.
Freed(ms) ==
  /\ turn'.owner = None => turn'.queue = <<>>
  /\ turn'.owner = None \/ \E i \in DOMAIN ms : task'[i].pc = "wait" /\ ms[i].to = turn'.owner
LEMMA VacatedFreed ==
  ASSUME NEW tk \in [Numbers -> Goroutine], NEW t, NEW ms, Queued(ms, t), ToSet(t.queue) \cup {} \subseteq Numbers,
         NEW res, NEW st, Placed(t, ms, res, {}), Vacated(ms, res), Take(res, tk, st)
  PROVE  Freed(ms)
<1>1. turn' = res.turn /\ task' = Begun(tk, res.start, st)
  BY DEF Take
<1>2. CASE res.turn.owner = None
  BY <1>1, <1>2 DEF Vacated, Freed
<1>3. CASE res.turn.owner # None
  <2>1. res.start # 0 /\ ms[res.start].to = res.turn.owner /\ res.start \in DOMAIN ms /\ res.start \in Numbers
    BY <1>3 DEF Vacated, Placed, Queued
  <2> DEFINE g == [pc |-> "wait", steer |-> st]
  <2>2. task' = [tk EXCEPT ![res.start] = g] /\ g.pc = "wait"
    BY <1>1, <2>1 DEF Begun
  <2> HIDE DEF g
  <2>3. task'[res.start].pc = "wait"
    BY <2>1, <2>2
  <2> QED BY <1>1, <1>3, <2>1, <2>3 DEF Freed
<1> QED BY <1>2, <1>3

LEMMA TakenFinishIfIdle ==
  ASSUME NEW tk \in [Numbers -> Goroutine], NEW ms \in Seq(Message), Len(ms) <= MaxMessages,
         NEW t \in TurnState, Queued(ms, t), NEW s, NEW without, NEW st,
         Take(FinishIfIdle(t, ms, s, without), tk, st)
  PROVE  /\ Taken(t, ms, tk, {})
         /\ IF Idle(t, ms, s, without) THEN Freed(ms) ELSE turn' = t /\ task' = tk
<1> DEFINE res == FinishIfIdle(t, ms, s, without)
<1>1. /\ Placed(t, ms, res, {}) /\ DOMAIN res.msgs = DOMAIN ms
      /\ \A m \in DOMAIN ms : Left(ms[m], res.msgs[m])
      /\ IF Idle(t, ms, s, without) THEN Vacated(ms, res) ELSE res.turn = t /\ res.start = 0
  BY FinishIfIdlePlaced
<1>2. Take(res, tk, st)
  OBVIOUS
<1> HIDE DEF res
<1>3. ToSet(t.queue) \cup {} \subseteq Numbers
  BY DEF TurnState, ToSet
<1>4. Taken(t, ms, tk, {})
  BY <1>1, <1>2, <1>3, TakenFrom
<1>5. CASE Idle(t, ms, s, without)
  <2>1. Freed(ms)
    BY <1>1, <1>2, <1>3, <1>5, VacatedFreed
  <2> QED BY <1>4, <1>5, <2>1
<1>6. CASE ~Idle(t, ms, s, without)
  BY <1>1, <1>2, <1>4, <1>6 DEF Take, Begun
<1> QED BY <1>5, <1>6

-----------------------------------------------------------------------------
LEMMA MildGrown ==
  ASSUME DOMAIN msgs' = Ids, \A m \in Ids : Mild(m)
  PROVE  Grown
BY DEF Mild, Grown

LEMMA SameTold ==
  ASSUME events' = events
  PROVE  \A s \in Slots : /\ Told(s)' \subseteq Told(s)
                          /\ \A e \in Told(s) : e.kind = "boundary" /\ Timely(s, e) => e \in Told(s)' \/ Unended(s)
BY DEF Told

LEMMA MildSame ==
  ASSUME IInv, phase = "up", Correlated, NEW m \in Ids, msgs'[m] = msgs[m]
  PROVE  Mild(m)
<1>1. msgs[m] \in Message
  BY Facts
<1> QED BY <1>1, QuietSame, KeepsMild

\* A step of the scheduler and the records alone.
LEMMA ScheduledCorrelated ==
  ASSUME IInv, IInv', phase = "up", Correlated,
         UNCHANGED <<control, native, events, current, crossed, phase, crashed>>,
         Grown, \A m \in Ids : Keeps(msgs[m], msgs'[m]) \/ Mild(m),
         \A m \in Ids : Parked(m) => Unmoved(m),
         \A m \in Ids : task'[m].pc = "accepted" => task[m].pc = "accepted",
         \A m \in DOMAIN msgs' \ Ids : task'[m].pc # "accepted",
         turn'.boundary = FALSE \/ (turn'.owner = turn.owner /\ turn'.boundary = turn.boundary)
  PROVE  Correlated'
<1>1. \A m \in Ids : Mild(m)
  BY KeepsMild
<1>2. \A m \in Ids : Stuck(m) => Parked(m)
  BY DEF Stuck
<1>3. Softly
  BY <1>2, SameTold DEF Softly
<1> QED BY <1>1, <1>3, SoftlyCorrelated

LEMMA ArrivesCorrelated ==
  ASSUME IInv, IInv', phase = "up", Correlated, NEW r \in Message, msgs' = Append(msgs, r), Len(msgs) < MaxMessages,
         r.del = "pending", r.turn = 0, r.unsure = FALSE, routing'.cancelled = {},
         UNCHANGED <<turn, task, control, native, events, current, crossed, phase, crashed>>
  PROVE  Correlated'
<1>1. /\ msgs \in Seq(Message) /\ \A m \in Ids : msgs[m] \in Message
      /\ Core(msgs, turn, task, routing, crossed, stopped, crashed)
  BY Facts
<1>2. /\ DOMAIN msgs' = Ids \cup {Len(msgs) + 1} /\ Len(msgs) + 1 \notin Ids /\ msgs'[Len(msgs) + 1] = r
      /\ \A i \in Ids : msgs'[i] = msgs[i]
  BY <1>1, Appended DEF Ids
<1>3. task[Len(msgs) + 1].pc = "none"
  <2>1. Len(msgs) + 1 \in Numbers
    BY <1>1, NumberFacts
  <2> QED BY <2>1, <1>1, <1>2 DEF Core, Fresh, Ids
<1>4. Grown
  BY <1>2 DEF Grown, InFifo
<1>5. \A m \in Ids : Keeps(msgs[m], msgs'[m])
  BY <1>1, <1>2, QuietSame
<1>6. \A m \in Ids : Parked(m) => Unmoved(m)
  BY <1>2 DEF Parked, Unmoved
<1> QED BY <1>2, <1>3, <1>4, <1>5, <1>6, ScheduledCorrelated

LEMMA SendCorrelated ==
  ASSUME IInv, IInv', Correlated, NEW to \in Slots, NEW steer \in BOOLEAN, Send(to, steer)
  PROVE  Correlated'
<1> DEFINE r == NewMessage(User, to, steer, 0)
<1>1. /\ r \in Message /\ r.del = "pending" /\ r.turn = 0 /\ r.unsure = FALSE
  BY NumberFacts DEF NewMessage, Message
<1>2. /\ phase = "up" /\ Len(msgs) < MaxMessages /\ msgs' = Append(msgs, r) /\ routing'.cancelled = {}
      /\ UNCHANGED <<turn, task, control, native, events, current, crossed, phase, crashed>>
  BY DEF Send, RoomToAdmit, MayAdd, NoRouting
<1> HIDE DEF r
<1> QED BY <1>1, <1>2, ArrivesCorrelated

LEMMA RetryCorrelated ==
  ASSUME IInv, IInv', Correlated, NEW m \in Numbers, Retry(m)
  PROVE  Correlated'
<1> DEFINE r == NewMessage(msgs[m].from, msgs[m].to, msgs[m].steer, m)
<1>1. phase = "up" /\ m \in Ids /\ msgs[m] \in Message
  BY Facts DEF Retry, RoomToAdmit
<1>2. /\ r \in Message /\ r.del = "pending" /\ r.turn = 0 /\ r.unsure = FALSE
  BY <1>1, NumberFacts DEF NewMessage, Message
<1>3. /\ phase = "up" /\ Len(msgs) < MaxMessages /\ msgs' = Append(msgs, r) /\ routing'.cancelled = {}
      /\ UNCHANGED <<turn, task, control, native, events, current, crossed, phase, crashed>>
  BY DEF Retry, RoomToAdmit, MayAdd, NoRouting
<1> HIDE DEF r
<1> QED BY <1>2, <1>3, ArrivesCorrelated

LEMMA SweepCorrelated == ASSUME IInv, IInv', Correlated, Sweep PROVE Correlated'
<1> DEFINE S == Overtaken(routing.msg)
<1>1. /\ phase = "up" /\ msgs' = Each(msgs, S, Skipped) /\ turn' = [turn EXCEPT !.queue = Kept(@, Numbers \ S)]
      /\ routing' = [routing EXCEPT !.step = "place", !.cancelled = S]
      /\ UNCHANGED <<task, tails, control, native, events, current, crossed, phase, crashed>>
  BY DEF Sweep
<1>2. /\ turn \in TurnState /\ Queued(msgs, turn) /\ routing \in Admission /\ \A m \in Ids : msgs[m] \in Message
  BY <1>1, Facts DEF Core
<1>3. DOMAIN msgs' = Ids /\ \A m \in Ids : msgs'[m] = IF m \in S THEN Skipped(msgs[m]) ELSE msgs[m]
  BY <1>1 DEF Each, Ids
<1>4. \A m \in S : Awaiting(msgs[m])
  BY DEF Overtaken
<1>5. routing'.cancelled = S
  BY <1>1, <1>2 DEF Admission
<1>6. turn'.owner = turn.owner /\ turn'.boundary = turn.boundary /\ ToSet(turn'.queue) \subseteq ToSet(turn.queue)
  <2>1. Kept(turn.queue, Numbers \ S) \in Seq(Numbers) /\ ToSet(Kept(turn.queue, Numbers \ S)) \subseteq ToSet(turn.queue)
    BY <1>2, KeptElements, NumberFacts DEF TurnState, Queued
  <2> HIDE DEF S
  <2> QED BY <1>1, <1>2, <2>1 DEF TurnState
<1> HIDE DEF S
<1>7. \A m \in Ids : Keeps(msgs[m], msgs'[m])
  BY <1>2, <1>3, QuietSame, SkippedFields
<1>8. \A m \in Ids : Parked(m) => Unmoved(m)
  <2> SUFFICES ASSUME NEW m \in Ids, Parked(m) PROVE Unmoved(m)
    OBVIOUS
  <2>1. ~Awaiting(msgs[m])
    BY <1>1, ParkedFacts
  <2> QED BY <2>1, <1>1, <1>3, <1>4, <1>5, <1>6 DEF Parked, Unmoved
<1>9. Grown
  BY <1>3, <1>7 DEF Grown, Keeps
<1> QED BY <1>1, <1>3, <1>6, <1>7, <1>8, <1>9, ScheduledCorrelated

LEMMA DeliveredKeeps ==
  ASSUME NEW r \in Message, NEW d \in {"queued", "submitting", "failed", "skipped"}
  PROVE  Keeps(r, Delivered(r, d))
<1> DEFINE q == Delivered(r, d)
<1>1. /\ q \in Message /\ q.to = r.to /\ q.steer = r.steer
      /\ q.proc = r.proc /\ q.turn = r.turn /\ q.unsure = r.unsure /\ q.del \in {r.del, d}
  BY DeliveredFields
<1> HIDE DEF q
<1> QED BY <1>1 DEF Keeps, Open, Unsent, q

\* A goroutine goes on and records what became of its message.
LEMMA MovedCorrelated ==
  ASSUME IInv, IInv', Correlated, NEW m \in Numbers, NEW a, At(m, a), a # "none",
         NEW pc \in Pcs \ {"accepted"}, Goes(m, pc),
         DOMAIN msgs' = Ids, \A i \in Ids \ {m} : msgs'[i] = msgs[i],
         Keeps(msgs[m], msgs'[m]) \/ Mild(m),
         UNCHANGED <<turn, routing, control, native, events, current, crossed, phase, crashed>>
  PROVE  Correlated'
<1>1. /\ phase = "up" /\ m \in Ids /\ task[m].pc # "none" /\ task \in [Numbers -> Goroutine] /\ Ids \subseteq Numbers
      /\ \A i \in Ids : msgs[i] \in Message
  BY Facts DEF At
<1>2. task'[m].pc = pc /\ \A i \in Numbers \ {m} : task'[i] = task[i]
  BY <1>1, TaskMoved DEF Goes
<1>3. \A i \in Ids : Keeps(msgs[i], msgs'[i]) \/ Mild(i)
  BY <1>1, QuietSame
<1>4. \A i \in Ids : Parked(i) => Unmoved(i)
  BY <1>1, <1>2 DEF Parked, Unmoved
<1>5. Grown
  BY <1>3 DEF Grown, Keeps, Mild
<1> QED BY <1>1, <1>2, <1>3, <1>4, <1>5, ScheduledCorrelated

LEMMA OneRecord ==
  ASSUME IInv, phase = "up", NEW m \in Ids, NEW q, msgs' = [msgs EXCEPT ![m] = q]
  PROVE  DOMAIN msgs' = Ids /\ msgs'[m] = q /\ \A i \in Ids \ {m} : msgs'[i] = msgs[i]
BY Facts DEF Ids

LEMMA TooLateCorrelated == ASSUME IInv, IInv', Correlated, NEW m \in Numbers, TooLate(m) PROVE Correlated'
<1>1. /\ At(m, "wait") /\ Goes(m, "over") /\ m \in Ids /\ phase = "up"
      /\ UNCHANGED <<msgs, turn, routing, control, native, events, current, crossed, phase, crashed>>
  BY DEF TooLate, At
<1>2. msgs[m] \in Message /\ "over" \in Pcs \ {"accepted"}
  BY <1>1, Facts DEF Pcs
<1>3. Keeps(msgs[m], msgs'[m]) /\ DOMAIN msgs' = Ids
  BY <1>1, <1>2, QuietSame DEF Ids
<1> QED BY <1>1, <1>2, <1>3, MovedCorrelated

LEMMA RecordedCorrelated ==
  ASSUME IInv, IInv', Correlated, NEW m \in Numbers, NEW a, At(m, a), a # "none",
         NEW pc \in Pcs \ {"accepted"}, Goes(m, pc),
         NEW q, msgs' = [msgs EXCEPT ![m] = q], Keeps(msgs[m], q),
         UNCHANGED <<turn, routing, control, native, events, current, crossed, phase, crashed>>
  PROVE  Correlated'
<1>1. m \in Ids /\ phase = "up"
  BY DEF At
<1>2. DOMAIN msgs' = Ids /\ msgs'[m] = q /\ \A i \in Ids \ {m} : msgs'[i] = msgs[i]
  BY <1>1, OneRecord
<1> QED BY <1>1, <1>2, MovedCorrelated

LEMMA SubmitCorrelated == ASSUME IInv, IInv', Correlated, NEW m \in Numbers, Submit(m) PROVE Correlated'
<1> DEFINE q == Delivered(msgs[m], "submitting")
<1>1. /\ At(m, "wait") /\ Goes(m, "native") /\ m \in Ids /\ phase = "up" /\ msgs' = [msgs EXCEPT ![m] = q]
      /\ UNCHANGED <<turn, routing, control, native, events, current, crossed, phase, crashed>>
  BY DEF Submit, At
<1>2. Keeps(msgs[m], q) /\ "native" \in Pcs \ {"accepted"}
  BY <1>1, Facts, DeliveredKeeps DEF Pcs
<1> HIDE DEF q
<1> QED BY <1>1, <1>2, RecordedCorrelated

LEMMA FailDeliveryCorrelated == ASSUME IInv, IInv', Correlated, NEW m \in Numbers, FailDelivery(m) PROVE Correlated'
<1> DEFINE q == Delivered(msgs[m], "failed")
<1>1. /\ At(m, "wait") \/ At(m, "native")
      /\ Goes(m, "failing") /\ m \in Ids /\ phase = "up" /\ msgs' = [msgs EXCEPT ![m] = q]
      /\ UNCHANGED <<turn, routing, control, native, events, current, crossed, phase, crashed>>
  BY DEF FailDelivery, At
<1>2. Keeps(msgs[m], q) /\ "failing" \in Pcs \ {"accepted"}
  BY <1>1, Facts, DeliveredKeeps DEF Pcs
<1> HIDE DEF q
<1> QED BY <1>1, <1>2, RecordedCorrelated

LEMMA FailProcessingCorrelated == ASSUME IInv, IInv', Correlated, NEW m \in Numbers, FailProcessing(m) PROVE Correlated'
<1> DEFINE q == Failed(msgs[m])
<1>1. /\ At(m, "failing") /\ Goes(m, "over") /\ m \in Ids /\ phase = "up" /\ msgs' = [msgs EXCEPT ![m] = q]
      /\ UNCHANGED <<turn, routing, control, native, events, current, crossed, phase, crashed>>
  BY DEF FailProcessing, At
<1>2. Keeps(msgs[m], q) /\ "over" \in Pcs \ {"accepted"}
  BY <1>1, Facts, FailedQuiet DEF Pcs, Quiet
<1> HIDE DEF q
<1> QED BY <1>1, <1>2, RecordedCorrelated

LEMMA SteerRefusedCorrelated == ASSUME IInv, IInv', Correlated, NEW m \in Numbers, SteerRefused(m) PROVE Correlated'
<1> DEFINE q == Delivered(msgs[m], "queued")
<1>1. /\ At(m, "native") /\ m \in Ids /\ phase = "up"
      /\ \/ msgs' = [msgs EXCEPT ![m] = q] /\ Goes(m, "fellback")
         \/ msgs' = msgs /\ Goes(m, "over")
      /\ UNCHANGED <<turn, routing, control, native, events, current, crossed, phase, crashed>>
  BY DEF SteerRefused, At
<1>2. /\ Keeps(msgs[m], q) /\ Keeps(msgs[m], msgs[m])
      /\ "over" \in Pcs \ {"accepted"} /\ "fellback" \in Pcs \ {"accepted"}
  BY <1>1, Facts, DeliveredKeeps, QuietSame DEF Pcs
<1> HIDE DEF q
<1>3. CASE msgs' = [msgs EXCEPT ![m] = q] /\ Goes(m, "fellback")
  BY <1>1, <1>2, <1>3, RecordedCorrelated
<1>4. CASE msgs' = msgs /\ Goes(m, "over")
  <2>1. DOMAIN msgs' = Ids /\ Keeps(msgs[m], msgs'[m])
    BY <1>2, <1>4 DEF Ids
  <2> QED BY <1>1, <1>2, <1>4, <2>1, MovedCorrelated
<1> QED BY <1>1, <1>3, <1>4

LEMMA AcceptedFields ==
  ASSUME NEW r \in Message, NEW d \in {"started", "injected"}
  PROVE  LET q == FallbackWorking(Delivered(r, d))
         IN /\ q \in Message /\ q.to = r.to /\ q.steer = r.steer /\ q.turn \in {0, r.turn}
            /\ Open(q) <=> Open(r)
            /\ r.del \in Over => q.del = r.del
            /\ q.del \in Over => r.del \in Over
<1> DEFINE e == Delivered(r, d)
<1>1. /\ e \in Message /\ e.to = r.to /\ e.steer = r.steer /\ e.proc = r.proc /\ e.turn = r.turn
      /\ e.unsure = r.unsure /\ e.del = IF DeliveryAllowed(r.del, d) THEN d ELSE r.del
  BY DeliveredFields
<1>2. r.del \in Over => ~DeliveryAllowed(r.del, d)
  BY DEF DeliveryAllowed, Over
<1> HIDE DEF e
<1> DEFINE q == FallbackWorking(e)
<1>3. CASE e.proc = "waiting"
  <2>1. q = [e EXCEPT !.proc = "working", !.turn = 0]
    BY <1>3 DEF FallbackWorking
  <2>2. /\ q \in Message /\ q.to = e.to /\ q.steer = e.steer /\ q.proc = "working" /\ q.turn = 0 /\ q.del = e.del
    <3> DEFINE w == [e EXCEPT !.proc = "working", !.turn = 0]
    <3>1. e \in Message /\ 0 \in 0..MaxMessages
      BY <1>1, NumberFacts
    <3>2. /\ w \in Message /\ w.to = e.to /\ w.steer = e.steer /\ w.proc = "working" /\ w.turn = 0 /\ w.del = e.del
      BY <3>1 DEF Message
    <3> HIDE DEF q, w
    <3> QED BY <2>1, <3>2 DEF w
  <2> HIDE DEF q
  <2>3. Open(q) /\ Open(r)
    BY <2>2, <1>1, <1>3 DEF Open, Settled
  <2> QED BY <1>1, <1>2, <2>2, <2>3 DEF e, q, Over
<1>4. CASE e.proc # "waiting"
  <2>1. q = e
    BY <1>4 DEF FallbackWorking
  <2> QED BY <1>1, <1>2, <2>1 DEF Open, e, q, Over
<1> QED BY <1>3, <1>4

LEMMA AcceptedCorrelated == ASSUME IInv, IInv', Correlated, NEW m \in Numbers, Accepted(m) PROVE Correlated'
<1> DEFINE q == FallbackWorking(Delivered(msgs[m], IF task[m].steer THEN "injected" ELSE "started"))
<1>1. /\ At(m, "accepted") /\ Goes(m, "over") /\ m \in Ids /\ phase = "up" /\ msgs' = [msgs EXCEPT ![m] = q]
      /\ task[m].pc = "accepted"
      /\ UNCHANGED <<turn, routing, control, native, events, current, crossed, phase, crashed>>
  BY DEF Accepted, At
<1>2. /\ q \in Message /\ q.to = msgs[m].to /\ q.steer = msgs[m].steer /\ q.turn \in {0, msgs[m].turn}
      /\ Open(q) <=> Open(msgs[m])
  BY <1>1, Facts, AcceptedFields
<1> HIDE DEF q
<1>3. DOMAIN msgs' = Ids /\ msgs'[m] = q /\ \A i \in Ids \ {m} : msgs'[i] = msgs[i]
  BY <1>1, OneRecord
<1>4. crossed[m] > 0 /\ crossed[m] # 0
  BY <1>1 DEF Correlated, Crossings
<1>5. Mild(m) /\ "over" \in Pcs \ {"accepted"}
  BY <1>2, <1>3, <1>4 DEF Mild, Pcs
<1> QED BY <1>1, <1>3, <1>5, MovedCorrelated

LEMMA CancelWaitingCorrelated == ASSUME IInv, IInv', Correlated, NEW m \in Numbers, CancelWaiting(m) PROVE Correlated'
<1> DEFINE q == Failed(Skipped(msgs[m]))
           k == Kept(turn.queue, Numbers \ {m})
<1>1. /\ phase = "up" /\ m \in Ids /\ turn' = [turn EXCEPT !.queue = k] /\ msgs' = [msgs EXCEPT ![m] = q]
      /\ m \in ToSet(turn.queue) \/ InFifo(msgs[m])
      /\ UNCHANGED <<task, routing, control, native, events, current, crossed, phase, crashed>>
  BY DEF CancelWaiting
<1>2. /\ turn \in TurnState /\ Queued(msgs, turn) /\ \A i \in Ids : msgs[i] \in Message
  BY <1>1, Facts DEF Core
<1>3. turn'.owner = turn.owner /\ turn'.boundary = turn.boundary /\ ToSet(turn'.queue) \subseteq ToSet(turn.queue)
  <2>1. k \in Seq(Numbers) /\ ToSet(k) \subseteq ToSet(turn.queue)
    BY <1>2, KeptElements, NumberFacts DEF TurnState, Queued
  <2> HIDE DEF k
  <2> QED BY <1>1, <1>2, <2>1 DEF TurnState
<1>4. Keeps(msgs[m], q)
  <2> DEFINE p == Skipped(msgs[m])
  <2>1. Keeps(msgs[m], p) /\ p \in Message
    BY <1>1, <1>2, SkippedFields DEF Keeps
  <2> HIDE DEF p
  <2>2. Keeps(p, Failed(p))
    BY <2>1, FailedQuiet DEF Quiet
  <2> QED BY <2>1, <2>2 DEF Keeps, p
<1> HIDE DEF q
<1>5. DOMAIN msgs' = Ids /\ msgs'[m] = q /\ \A i \in Ids \ {m} : msgs'[i] = msgs[i]
  BY <1>1, OneRecord
<1>6. \A i \in Ids : Keeps(msgs[i], msgs'[i])
  BY <1>2, <1>4, <1>5, QuietSame
<1>7. \A i \in Ids : Parked(i) => Unmoved(i)
  <2> SUFFICES ASSUME NEW i \in Ids, Parked(i) PROVE Unmoved(i)
    OBVIOUS
  <2>1. i # m
    BY <1>1, ParkedFacts DEF Parked
  <2> QED BY <2>1, <1>1, <1>3, <1>5 DEF Parked, Unmoved
<1>8. Grown
  BY <1>5, <1>6 DEF Grown, Keeps
<1> QED BY <1>1, <1>3, <1>5, <1>6, <1>7, <1>8, ScheduledCorrelated

-----------------------------------------------------------------------------
\* Mild, step by step.
MildTo(m, q) ==
  /\ q.to = msgs[m].to /\ q.steer = msgs[m].steer
  /\ Open(q) => Open(msgs[m])
  /\ crossed[m] = 0 => Unsent(q)
  /\ \/ q.turn \in {0, msgs[m].turn}
     \/ ~Open(q) /\ \E e \in Told(msgs[m].to) : e.msg = m /\ e.turn = q.turn
LEMMA KeepsMildTo ==
  ASSUME Correlated, NEW m \in Ids, NEW q, Keeps(msgs[m], q)
  PROVE  MildTo(m, q)
<1>1. crossed[m] = 0 => Unsent(msgs[m])
  BY DEF Correlated, Crossings, Unsent
<1> QED BY <1>1 DEF Keeps, MildTo

LEMMA TakenMild ==
  ASSUME NEW t, NEW ms, NEW tk, NEW new, Taken(t, ms, tk, new), NEW m \in Ids, m \in DOMAIN ms,
         ms[m] \in Message, MildTo(m, ms[m])
  PROVE  Mild(m)
<1>1. Quiet(ms[m], msgs'[m]) /\ msgs'[m].turn = ms[m].turn
  BY LeftQuiet, QueuesQuiet DEF Taken
<1> QED BY <1>1 DEF Quiet, Keeps, MildTo, Mild, Unsent

LEMMA TakenUnmoved ==
  ASSUME NEW t, NEW ms, NEW tk, NEW new, Taken(t, ms, tk, new), NEW m \in Ids, m \in Numbers, m \in DOMAIN ms,
         ms[m] = msgs[m], Parked(m), tk[m].pc = "none", m \notin ToSet(t.queue) \cup new,
         m \notin routing'.cancelled
  PROVE  Unmoved(m)
<1>1. Left(ms[m], msgs'[m]) /\ task'[m] = tk[m] /\ m \notin ToSet(turn'.queue)
  BY DEF Taken
<1> QED BY <1>1 DEF Left, Parked, Unmoved

\* A scheduler operation on what a step has recorded first.
Recorded(t, ms, tk, new) ==
  /\ ms \in Seq(Message) /\ Ids \subseteq DOMAIN ms /\ DOMAIN ms \subseteq Numbers
  /\ \A n \in DOMAIN ms \ Ids : Awaiting(ms[n]) /\ ms[n].turn = 0 /\ ms[n].unsure = FALSE /\ tk[n].pc = "none"
  /\ \A m \in Ids : MildTo(m, ms[m]) /\ (tk[m].pc = "accepted" => task[m].pc = "accepted")
  /\ \A m \in Ids : Stuck(m) => /\ ms[m] = msgs[m] /\ tk[m].pc = "none"
                                 /\ m \notin ToSet(t.queue) /\ m \notin new /\ m \notin routing'.cancelled
  /\ t.owner = turn.owner /\ t.boundary = turn.boundary
Heard ==
  \A s \in Slots : /\ Told(s)' \subseteq Told(s)
                   /\ \A e \in Told(s) : e.kind = "boundary" /\ Timely(s, e) => e \in Told(s)' \/ Unended(s)
LEMMA TakenCorrelated ==
  ASSUME IInv, IInv', phase = "up", Correlated, NEW t, NEW ms, NEW tk, NEW new,
         Taken(t, ms, tk, new), Recorded(t, ms, tk, new), Heard,
         UNCHANGED <<native, current, crossed, phase, crashed>>,
         \A s \in Slots : control'[s] = "stop" <=> control[s] = "stop"
  PROVE  Correlated'
<1>r. /\ ms \in Seq(Message) /\ Ids \subseteq DOMAIN ms /\ DOMAIN ms \subseteq Numbers
      /\ \A n \in DOMAIN ms \ Ids : Awaiting(ms[n]) /\ ms[n].turn = 0 /\ ms[n].unsure = FALSE /\ tk[n].pc = "none"
      /\ \A m \in Ids : MildTo(m, ms[m]) /\ (tk[m].pc = "accepted" => task[m].pc = "accepted")
      /\ \A m \in Ids : Stuck(m) => /\ ms[m] = msgs[m] /\ tk[m].pc = "none"
                                     /\ m \notin ToSet(t.queue) /\ m \notin new /\ m \notin routing'.cancelled
      /\ t.owner = turn.owner /\ t.boundary = turn.boundary
  BY DEF Recorded
<1>1. \A m \in Ids : m \in Numbers /\ ms[m] \in Message
  BY <1>r, Facts
<1>2. \A m \in Ids : Mild(m)
  BY <1>r, <1>1, TakenMild
<1>3. DOMAIN msgs' = DOMAIN ms
  BY DEF Taken
<1>4. /\ Grown /\ \A n \in DOMAIN msgs' \ Ids : task'[n].pc # "accepted"
  <2>1. ASSUME NEW n \in DOMAIN ms \ Ids
        PROVE  InFifo(msgs'[n]) /\ msgs'[n].turn = 0 /\ msgs'[n].unsure = FALSE /\ task'[n].pc # "accepted"
    <3>1. Queues(ms[n], msgs'[n]) /\ task'[n].pc \in {"none", "wait"} /\ Awaiting(ms[n]) /\ ms[n] \in Message
      BY <1>r DEF Taken, Queues
    <3>2. Open(Delivered(ms[n], "queued")) /\ InFifo(Delivered(ms[n], "queued"))
          /\ Delivered(ms[n], "queued").turn = ms[n].turn /\ Delivered(ms[n], "queued").unsure = ms[n].unsure
      <4> DEFINE q == Delivered(ms[n], "queued")
      <4>1. /\ q.proc = ms[n].proc /\ q.turn = ms[n].turn /\ q.unsure = ms[n].unsure
            /\ q.del \in {"queued", ms[n].del}
        BY <3>1, DeliveredFields
      <4> HIDE DEF q
      <4> QED BY <4>1, <3>1 DEF q, Awaiting, Open, InFifo
    <3> QED BY <1>r, <3>1, <3>2 DEF Queues, Left, Awaiting
  <2> QED BY <1>r, <1>2, <1>3, <2>1 DEF Grown, Mild
<1>5. \A m \in Ids : Stuck(m) => Unmoved(m)
  <2> SUFFICES ASSUME NEW m \in Ids, Stuck(m) PROVE Unmoved(m)
    OBVIOUS
  <2>1. /\ ms[m] = msgs[m] /\ tk[m].pc = "none" /\ m \notin ToSet(t.queue) \cup new /\ m \notin routing'.cancelled
        /\ Parked(m)
    BY <1>r DEF Stuck
  <2> QED BY <1>r, <1>1, <2>1, TakenUnmoved
<1>6. \A m \in Ids : task'[m].pc = "accepted" => task[m].pc = "accepted"
  <2> SUFFICES ASSUME NEW m \in Ids, task'[m].pc = "accepted" PROVE task[m].pc = "accepted"
    OBVIOUS
  <2>1. task'[m].pc \in {tk[m].pc, "wait"}
    BY <1>1 DEF Taken
  <2> QED BY <1>r, <2>1
<1>7. turn'.boundary = FALSE \/ (turn'.owner = turn.owner /\ turn'.boundary = turn.boundary)
  BY <1>r DEF Taken
<1>8. Softly
  BY <1>4, <1>5, <1>6, <1>7 DEF Softly, Heard
<1> QED BY <1>2, <1>4, <1>8, SoftlyCorrelated

LEMMA SameHeard == ASSUME events' = events PROVE Heard
BY SameTold DEF Heard

LEMMA StuckFacts ==
  ASSUME IInv, phase = "up", Correlated, NEW m \in Ids, Stuck(m)
  PROVE  /\ Parked(m) /\ Open(msgs[m]) /\ task[m].pc = "none" /\ m \notin routing.cancelled
         /\ m \notin ToSet(turn.queue) /\ ~Awaiting(msgs[m]) /\ ~AtNative(msgs[m]) /\ m # routing.msg
BY ParkedFacts DEF Stuck, Parked

LEMMA ReleaseCheckCorrelated == ASSUME IInv, IInv', Correlated, NEW m \in Numbers, ReleaseCheck(m) PROVE Correlated'
<1>1. /\ phase = "up" /\ Take(FinishIfIdle(turn, msgs, msgs[m].to, TRUE), task, FALSE)
      /\ UNCHANGED <<routing, control, native, events, current, crossed, phase, crashed>>
  BY DEF ReleaseCheck
<1>2. /\ msgs \in Seq(Message) /\ Len(msgs) <= MaxMessages /\ task \in [Numbers -> Goroutine]
      /\ turn \in TurnState /\ Queued(msgs, turn)
  BY <1>1, Facts DEF Core
<1>3. Taken(turn, msgs, task, {})
  BY <1>1, <1>2, TakenFinishIfIdle
<1>4. \A i \in Ids : MildTo(i, msgs[i])
  BY <1>2, KeepsMildTo, QuietSame DEF Ids
<1>5. \A i \in Ids : Stuck(i) => task[i].pc = "none" /\ i \notin ToSet(turn.queue) \cup {} /\ i \notin routing'.cancelled
  BY <1>1, StuckFacts
<1>6. Ids \subseteq Numbers /\ DOMAIN msgs = Ids
  BY <1>1, Facts DEF Ids
<1>7. Recorded(turn, msgs, task, {}) /\ Heard
  BY <1>1, <1>2, <1>4, <1>5, <1>6, SameHeard DEF Recorded
<1> QED BY <1>1, <1>3, <1>7, TakenCorrelated

LEMMA CancelSettlesTaken ==
  ASSUME IInv, NEW s \in Slots, CancelSettles(s)
  PROVE  \E ms \in Seq(Message) :
           /\ DOMAIN ms = Ids /\ Taken(turn, ms, task, {})
           /\ \A i \in Ids : ms[i] = msgs[i] \/ (AtNative(msgs[i]) /\ ms[i] = Failed(msgs[i]))
           /\ IF Idle(turn, ms, s, FALSE) THEN Freed(ms) ELSE turn' = turn /\ task' = task
<1> DEFINE S == {m \in Ids : msgs[m].to = s /\ Open(msgs[m]) /\ AtNative(msgs[m])}
           ms == Each(msgs, S, Failed)
<1>1. phase = "up" /\ Take(FinishIfIdle(turn, ms, s, FALSE), task, FALSE)
  BY DEF CancelSettles
<1>2. /\ msgs \in Seq(Message) /\ Len(msgs) <= MaxMessages /\ task \in [Numbers -> Goroutine]
      /\ turn \in TurnState /\ Queued(msgs, turn)
  BY <1>1, Facts DEF Core
<1>3. DOMAIN ms = Ids /\ \A i \in Ids : ms[i] = msgs[i] \/ (AtNative(msgs[i]) /\ ms[i] = Failed(msgs[i]))
  BY DEF Each, Ids
<1>4. Calm(msgs, ms)
  BY <1>2, EachFailed
<1> HIDE DEF S, ms
<1>5. ms \in Seq(Message) /\ Len(ms) <= MaxMessages /\ Queued(ms, turn)
  BY <1>2, <1>4 DEF Calm, Queued
<1>6. Taken(turn, ms, task, {}) /\ IF Idle(turn, ms, s, FALSE) THEN Freed(ms) ELSE turn' = turn /\ task' = task
  BY <1>1, <1>2, <1>5, TakenFinishIfIdle
<1> QED BY <1>3, <1>5, <1>6

LEMMA CancelSettlesCorrelated == ASSUME IInv, IInv', Correlated, NEW s \in Slots, CancelSettles(s) PROVE Correlated'
<1>1. /\ phase = "up" /\ control[s] = "cancel" /\ control' = [control EXCEPT ![s] = "none"]
      /\ UNCHANGED <<routing, native, events, current, crossed, phase, crashed>>
  BY DEF CancelSettles
<1>2. control \in [Slots -> {"none", "cancel", "stop"}] /\ \A i \in Ids : i \in Numbers /\ msgs[i] \in Message
  BY <1>1, Facts DEF Around
<1>3. PICK ms \in Seq(Message) :
         /\ DOMAIN ms = Ids /\ Taken(turn, ms, task, {})
         /\ \A i \in Ids : ms[i] = msgs[i] \/ (AtNative(msgs[i]) /\ ms[i] = Failed(msgs[i]))
  BY CancelSettlesTaken
<1>4. \A i \in Ids : Keeps(msgs[i], ms[i])
  BY <1>2, <1>3, FailedQuiet, QuietSame DEF Quiet
<1>5. \A i \in Ids : MildTo(i, ms[i])
  BY <1>4, KeepsMildTo
<1>6. \A i \in Ids : Stuck(i) => /\ ms[i] = msgs[i] /\ task[i].pc = "none"
                                 /\ i \notin ToSet(turn.queue) \cup {} /\ i \notin routing'.cancelled
  BY <1>1, <1>3, StuckFacts
<1>7. \A i \in Slots : control'[i] = "stop" <=> control[i] = "stop"
  BY <1>1, <1>2
<1>8. /\ Ids \subseteq DOMAIN ms /\ DOMAIN ms \subseteq Numbers
      /\ \A n \in DOMAIN ms \ Ids : Awaiting(ms[n]) /\ ms[n].turn = 0 /\ ms[n].unsure = FALSE /\ task[n].pc = "none"
  BY <1>1, <1>3, Facts
<1>9. Recorded(turn, ms, task, {}) /\ Heard
  BY <1>1, <1>5, <1>6, <1>8, SameHeard DEF Recorded
<1> QED BY <1>1, <1>3, <1>7, <1>9, TakenCorrelated

LEMMA PlaceTaken ==
  ASSUME IInv, Place
  PROVE  \E ms \in Seq(Message) :
           /\ DOMAIN ms = Ids /\ routing.msg \in Ids /\ Taken(turn, ms, task, {routing.msg})
           /\ \A i \in Ids : ms[i] = IF i \in routing.cancelled THEN Failed(msgs[i]) ELSE msgs[i]
<1> DEFINE S == routing.cancelled
           n == routing.msg
           ms == Each(msgs, S, Failed)
           res == Schedule(turn, ms, n)
<1>1. phase = "up" /\ routing.step = "place" /\ Take(res, task, res.steer)
  BY DEF Place
<1>2. /\ msgs \in Seq(Message) /\ Len(msgs) <= MaxMessages /\ task \in [Numbers -> Goroutine]
      /\ turn \in TurnState /\ Queued(msgs, turn) /\ Ids \subseteq Numbers
      /\ \A i \in Ids : i \in Numbers /\ msgs[i] \in Message
      /\ Core(msgs, turn, task, routing, crossed, stopped, crashed)
  BY <1>1, Facts DEF Core
<1>3. DOMAIN ms = Ids /\ \A i \in Ids : ms[i] = IF i \in S THEN Failed(msgs[i]) ELSE msgs[i]
  BY DEF Each, Ids
<1>4. n # 0 /\ n = Len(msgs) /\ n \notin ToSet(turn.queue) /\ ~AtNative(msgs[n])
  BY <1>1, <1>2 DEF Core, Admitted, NoRouting
<1>5. Calm(msgs, ms)
  BY <1>2, EachFailed
<1>6. n \in Ids /\ n \in Numbers
  BY <1>2, <1>4, DomainFacts DEF Core, Ids
<1>7. ms \in Seq(Message) /\ Queued(ms, turn) /\ ~AtNative(ms[n])
  BY <1>2, <1>4, <1>5, <1>6 DEF Calm, Queued, Tame, Ids
<1> HIDE DEF ms
<1>8. /\ Placed(turn, ms, res, {n}) /\ DOMAIN res.msgs = DOMAIN ms
      /\ \A i \in DOMAIN ms : IF i = n THEN Queues(ms[i], res.msgs[i]) ELSE Left(ms[i], res.msgs[i])
  BY <1>2, <1>3, <1>4, <1>6, <1>7, SchedulePlaced
<1>9. ToSet(turn.queue) \cup {n} \subseteq Numbers
  BY <1>2, <1>6 DEF Queued, Ids
<1>10. Take(res, task, res.steer)
  BY <1>1
<1> HIDE DEF res
<1>11. Taken(turn, ms, task, {n})
  BY <1>2, <1>8, <1>9, <1>10, TakenFrom
<1> QED BY <1>3, <1>6, <1>7, <1>11

LEMMA PlaceCorrelated == ASSUME IInv, IInv', Correlated, Place PROVE Correlated'
<1> DEFINE n == routing.msg
<1>1. /\ phase = "up" /\ routing' = NoRouting
      /\ UNCHANGED <<control, native, events, current, crossed, phase, crashed>>
  BY DEF Place
<1>2. Ids \subseteq Numbers /\ \A i \in Ids : msgs[i] \in Message
  BY <1>1, Facts
<1>3. PICK ms \in Seq(Message) :
         /\ DOMAIN ms = Ids /\ Taken(turn, ms, task, {n})
         /\ \A i \in Ids : ms[i] = IF i \in routing.cancelled THEN Failed(msgs[i]) ELSE msgs[i]
  BY PlaceTaken
<1>4. \A i \in Ids : MildTo(i, ms[i])
  <2>1. \A i \in Ids : Keeps(msgs[i], ms[i])
    BY <1>2, <1>3, FailedQuiet, QuietSame DEF Quiet
  <2> QED BY <2>1, KeepsMildTo
<1>5. \A i \in Ids : Stuck(i) => /\ ms[i] = msgs[i] /\ task[i].pc = "none"
                                 /\ i \notin ToSet(turn.queue) \cup {n} /\ i \notin routing'.cancelled
  BY <1>1, <1>3, StuckFacts DEF NoRouting
<1>6. /\ Ids \subseteq DOMAIN ms /\ DOMAIN ms \subseteq Numbers
      /\ \A i \in DOMAIN ms \ Ids : Awaiting(ms[i]) /\ ms[i].turn = 0 /\ ms[i].unsure = FALSE /\ task[i].pc = "none"
  BY <1>2, <1>3
<1>7. Recorded(turn, ms, task, {n}) /\ Heard
  BY <1>1, <1>3, <1>4, <1>5, <1>6, SameHeard DEF Recorded
<1> QED BY <1>1, <1>3, <1>7, TakenCorrelated

LEMMA PlainTaken ==
  ASSUME NEW tk \in [Numbers -> Goroutine], NEW ms \in Seq(Message), NEW t \in TurnState,
         Take([turn |-> t, msgs |-> ms, start |-> 0], tk, FALSE)
  PROVE  Taken(t, ms, tk, {})
<1> DEFINE res == [turn |-> t, msgs |-> ms, start |-> 0]
<1>1. Placed(t, ms, res, {}) /\ DOMAIN res.msgs = DOMAIN ms /\ \A i \in DOMAIN ms : Left(ms[i], res.msgs[i])
  BY PlacedSame DEF Left
<1>2. ToSet(t.queue) \cup {} \subseteq Numbers
  BY DEF TurnState, ToSet
<1>3. Take(res, tk, FALSE)
  OBVIOUS
<1> HIDE DEF res
<1> QED BY <1>1, <1>2, <1>3, TakenFrom

LEMMA ReturnTaken ==
  ASSUME IInv, NEW m \in Numbers, Return(m)
  PROVE  \E t, tk :
           /\ tk = [task EXCEPT ![m].pc = "none"] /\ Taken(t, msgs, tk, {})
           /\ t.owner = turn.owner /\ t.boundary = turn.boundary
           /\ ToSet(t.queue) \subseteq ToSet(turn.queue) \cup {m}
           /\ \/ turn' = t /\ t.queue = turn.queue /\ ~(task[m].pc = "fellback" /\ Awaiting(msgs[m]))
              \/ turn' = t /\ turn.owner # None
              \/ turn.owner = None /\ (turn'.owner = None => turn'.queue = <<>>)
<1> DEFINE n == IF turn.owner = msgs[m].to /\ turn.submitting > 0 THEN turn.submitting - 1 ELSE turn.submitting
           counted == [turn EXCEPT !.submitting = n]
           q == IF m \in ToSet(turn.queue) THEN turn.queue ELSE Enqueued(turn.queue, m)
           queues == IF m \in ToSet(turn.queue) THEN counted
                     ELSE [counted EXCEPT !.queue = Enqueued(counted.queue, m)]
           ended == [task EXCEPT ![m].pc = "none"]
           back == task[m].pc = "fellback" /\ Awaiting(msgs[m])
           plain(t) == [turn |-> t, msgs |-> msgs, start |-> 0]
           res == IF back THEN IF turn.owner = None THEN Reserve(queues, msgs) ELSE plain(queues)
                  ELSE plain(counted)
           Good(t) == /\ Taken(t, msgs, ended, {})
                      /\ t.owner = turn.owner /\ t.boundary = turn.boundary
                      /\ ToSet(t.queue) \subseteq ToSet(turn.queue) \cup {m}
                      /\ \/ turn' = t /\ t.queue = turn.queue /\ ~back
                         \/ turn' = t /\ turn.owner # None
                         \/ turn.owner = None /\ (turn'.owner = None => turn'.queue = <<>>)
<1>1. /\ phase = "up" /\ m \in Ids /\ Take(res, ended, FALSE)
  BY DEF Return, At
<1>2. /\ turn \in TurnState /\ task \in [Numbers -> Goroutine] /\ Ids \subseteq Numbers
      /\ msgs \in Seq(Message) /\ Queued(msgs, turn) /\ turn.submitting \in Nat /\ turn.queue \in Seq(Numbers)
  BY <1>1, Facts DEF Core, TurnState
<1>3. ended \in [Numbers -> Goroutine]
  <2>1. "none" \in Pcs
    BY DEF Pcs
  <2> QED BY <1>2, <2>1, TaskMoved
<1>4. n \in Nat
  BY <1>2
<1>5. q \in Seq(Numbers) /\ ToSet(q) \subseteq ToSet(turn.queue) \cup {m} /\ Increasing(q) /\ ToSet(q) \subseteq Ids
  <2>1. CASE m \in ToSet(turn.queue)
    BY <2>1, <1>2 DEF Queued, Ids
  <2>2. CASE m \notin ToSet(turn.queue)
    <3>1. /\ Enqueued(turn.queue, m) \in Seq(Numbers) /\ ToSet(Enqueued(turn.queue, m)) = ToSet(turn.queue) \cup {m}
          /\ Increasing(Enqueued(turn.queue, m))
      BY <1>2, <2>2, EnqueuedElements DEF Queued
    <3> QED BY <3>1, <2>2, <1>1, <1>2 DEF Queued, Ids
  <2> QED BY <2>1, <2>2
<1> HIDE DEF n
<1>6. /\ counted \in TurnState /\ counted.owner = turn.owner /\ counted.boundary = turn.boundary
      /\ counted.queue = turn.queue
  BY <1>2, <1>4 DEF TurnState
<1>7. queues = [counted EXCEPT !.queue = q]
  <2>1. counted = [counted EXCEPT !.queue = counted.queue]
    BY <1>6 DEF TurnState
  <2> HIDE DEF counted
  <2> QED BY <1>6, <2>1
<1>8. /\ queues \in TurnState /\ queues.owner = turn.owner /\ queues.boundary = turn.boundary /\ queues.queue = q
  <2> HIDE DEF counted, queues, q
  <2> QED BY <1>5, <1>6, <1>7 DEF TurnState
<1>9. Queued(msgs, queues)
  <2> HIDE DEF queues, q
  <2> QED BY <1>5, <1>8 DEF Queued, Ids
<1> HIDE DEF queues, q, ended, counted
<1>10. CASE back /\ turn.owner = None
  <2> DEFINE w == Reserve(queues, msgs)
  <2>1. /\ Placed(queues, msgs, w, {}) /\ (w.turn.owner = None => w.turn.queue = <<>>)
        /\ DOMAIN w.msgs = DOMAIN msgs /\ \A i \in DOMAIN msgs : Left(msgs[i], w.msgs[i])
    BY <1>2, <1>8, <1>9, <1>10, ReservePlaced, ReserveLeaves
  <2>2. Take(w, ended, FALSE)
    BY <1>1, <1>10
  <2> HIDE DEF w
  <2>3. ToSet(queues.queue) \cup {} \subseteq Numbers
    BY <1>8 DEF TurnState, ToSet
  <2>4. Taken(queues, msgs, ended, {})
    BY <2>1, <2>2, <2>3, <1>3, TakenFrom
  <2>5. Good(queues)
    BY <2>1, <2>2, <2>4, <1>5, <1>8, <1>10 DEF Take
  <2> QED BY <2>5 DEF ended
<1>11. CASE back /\ turn.owner # None
  <2>1. Take(plain(queues), ended, FALSE)
    BY <1>1, <1>11
  <2>2. Taken(queues, msgs, ended, {}) /\ turn' = queues
    BY <2>1, <1>2, <1>3, <1>8, PlainTaken DEF Take
  <2>3. Good(queues)
    BY <2>2, <1>5, <1>8, <1>11
  <2> QED BY <2>3 DEF ended
<1>12. CASE ~back
  <2>1. Take(plain(counted), ended, FALSE)
    BY <1>1, <1>12
  <2>2. Taken(counted, msgs, ended, {}) /\ turn' = counted
    BY <2>1, <1>2, <1>3, <1>6, PlainTaken DEF Take
  <2>3. Good(counted)
    BY <2>2, <1>6, <1>12
  <2> QED BY <2>3 DEF ended
<1> QED BY <1>10, <1>11, <1>12

LEMMA ReturnCorrelated == ASSUME IInv, IInv', Correlated, NEW m \in Numbers, Return(m) PROVE Correlated'
<1>1. /\ phase = "up" /\ m \in Ids /\ task[m].pc \in {"over", "fellback"}
      /\ UNCHANGED <<routing, control, native, events, current, crossed, phase, crashed>>
  BY DEF Return, At
<1>2. PICK t, tk :
        /\ tk = [task EXCEPT ![m].pc = "none"] /\ Taken(t, msgs, tk, {})
        /\ t.owner = turn.owner /\ t.boundary = turn.boundary
        /\ ToSet(t.queue) \subseteq ToSet(turn.queue) \cup {m}
  BY ReturnTaken
<1>3. /\ msgs \in Seq(Message) /\ task \in [Numbers -> Goroutine] /\ Ids \subseteq Numbers /\ DOMAIN msgs = Ids
      /\ \A i \in Ids : msgs[i] \in Message
  BY <1>1, Facts DEF Ids
<1>4. tk[m].pc = "none" /\ \A i \in Numbers \ {m} : tk[i] = task[i]
  <2>1. "none" \in Pcs
    BY DEF Pcs
  <2> QED BY <1>2, <1>3, <2>1, TaskMoved
<1>5. \A i \in Ids : MildTo(i, msgs[i])
  BY <1>3, KeepsMildTo, QuietSame
<1>6. \A i \in Ids : Stuck(i) => /\ msgs[i] = msgs[i] /\ tk[i].pc = "none"
                                 /\ i \notin ToSet(t.queue) \cup {} /\ i \notin routing'.cancelled
  <2> SUFFICES ASSUME NEW i \in Ids, Stuck(i)
      PROVE tk[i].pc = "none" /\ i \notin ToSet(t.queue) \cup {} /\ i \notin routing'.cancelled
    OBVIOUS
  <2>1. task[i].pc = "none" /\ i \notin ToSet(turn.queue) /\ i \notin routing.cancelled
    BY <1>1, StuckFacts
  <2> QED BY <2>1, <1>1, <1>2, <1>3, <1>4
<1>7. \A i \in Ids : tk[i].pc = "accepted" => task[i].pc = "accepted"
  BY <1>3, <1>4
<1>8. Recorded(t, msgs, tk, {}) /\ Heard
  BY <1>1, <1>2, <1>3, <1>5, <1>6, <1>7, SameHeard DEF Recorded
<1> QED BY <1>1, <1>2, <1>8, TakenCorrelated

-----------------------------------------------------------------------------
\* An event is taken off its queue.
LEMMA HeadTold ==
  ASSUME Around, NEW s \in Slots, events[s] # <<>>, events' = [events EXCEPT ![s] = Tail(@)]
  PROVE  /\ Head(events[s]) \in Told(s) /\ Head(events[s]) \in Report
         /\ \A q \in Slots : /\ Told(q)' \subseteq Told(q)
                             /\ \A f \in Told(q) : f \in Told(q)' \/ (q = s /\ f = Head(events[s]))
<1> DEFINE es == events[s]
<1>1. events \in [Slots -> Seq(Report)] /\ es \in Seq(Report) /\ es # <<>>
  BY DEF Around
<1> HIDE DEF es
<1>2. /\ Len(es) \in Nat \ {0} /\ DOMAIN es = 1..Len(es) /\ Head(es) = es[1] /\ es[1] \in Report
      /\ Tail(es) \in Seq(Report) /\ Len(Tail(es)) = Len(es) - 1
      /\ \A i \in 1..(Len(es) - 1) : Tail(es)[i] = es[i + 1]
  BY <1>1, EmptySeq, HeadTailProperties
<1>3. DOMAIN Tail(es) = 1..(Len(es) - 1)
  BY <1>2
<1>4. events'[s] = Tail(es) /\ \A q \in Slots \ {s} : events'[q] = events[q]
  BY <1>1 DEF es
<1>5. \A i \in DOMAIN Tail(es) : i + 1 \in DOMAIN es /\ Tail(es)[i] = es[i + 1]
  BY <1>2, <1>3
<1>6. \A i \in DOMAIN es : i = 1 \/ (i - 1 \in DOMAIN Tail(es) /\ Tail(es)[i - 1] = es[i])
  BY <1>2, <1>3
<1>7. Told(s)' \subseteq Told(s)
  BY <1>4, <1>5 DEF Told, es
<1>8. ASSUME NEW f \in Told(s), f # Head(es) PROVE f \in Told(s)'
  <2>1. PICK i \in DOMAIN es : f = es[i]
    BY DEF Told, es
  <2>2. i - 1 \in DOMAIN Tail(es) /\ Tail(es)[i - 1] = f
    BY <1>2, <1>6, <1>8, <2>1
  <2>3. Told(s)' = {Tail(es)[j] : j \in DOMAIN Tail(es)}
    BY <1>4 DEF Told
  <2> QED BY <2>2, <2>3
<1>9. \A q \in Slots \ {s} : Told(q)' = Told(q)
  BY <1>4 DEF Told
<1>10. Head(es) \in Told(s)
  <2>1. 1 \in DOMAIN es
    BY <1>2
  <2> QED BY <1>2, <2>1 DEF Told, es
<1> QED BY <1>2, <1>7, <1>8, <1>9, <1>10 DEF es

LEMMA PoppedHeard ==
  ASSUME Around, NEW s \in Slots, events[s] # <<>>, events' = [events EXCEPT ![s] = Tail(@)],
         Head(events[s]).kind # "boundary" \/ ~Timely(s, Head(events[s]))
  PROVE  Heard
BY HeadTold DEF Heard

LEMMA PoppedCorrelated ==
  ASSUME IInv, IInv', phase = "up", Correlated, Heard,
         UNCHANGED <<msgs, turn, task, routing, control, native, current, crossed, phase, crashed>>
  PROVE  Correlated'
<1>1. DOMAIN msgs' = Ids /\ \A m \in Ids : Mild(m)
  BY MildSame DEF Ids
<1>2. \A m \in Ids : Stuck(m) => Unmoved(m)
  BY DEF Stuck, Parked, Unmoved
<1>3. Softly
  BY <1>1, <1>2 DEF Softly, Heard
<1> QED BY <1>1, <1>3, MildGrown, SoftlyCorrelated

LEMMA ToldFacts ==
  ASSUME IInv, phase = "up", Correlated, NEW s \in Slots, NEW e \in Told(s)
  PROVE  /\ e \in Report /\ e.msg \in Ids /\ msgs[e.msg].to = s /\ crossed[e.msg] > 0
         /\ ~Stuck(e.msg) /\ e.turn \in 0..MaxMessages /\ e.outcome \in Settled
<1>1. e \in Report /\ e.msg \in Ids /\ msgs[e.msg].to = s /\ crossed[e.msg] > 0
  BY ToldTyped DEF Correlated, InSlot, Reports
<1>2. ~Stuck(e.msg)
  BY <1>1 DEF Stuck
<1> QED BY <1>1, <1>2 DEF Report

LEMMA ClosesMildTo ==
  ASSUME IInv, phase = "up", Correlated, NEW m \in Ids, NEW p \in Settled, NEW t \in 0..MaxMessages,
         t \in {0, msgs[m].turn} \/ \E e \in Told(msgs[m].to) : e.msg = m /\ e.turn = t
  PROVE  LET q == Processed(msgs[m], p, t) IN MildTo(m, q) /\ q \in Message /\ ~Open(q)
<1> DEFINE q == Processed(msgs[m], p, t)
<1>1. msgs[m] \in Message
  BY Facts
<1>2. /\ q \in Message /\ q.to = msgs[m].to /\ q.steer = msgs[m].steer /\ ~Open(q)
      /\ Unsent(msgs[m]) => Unsent(q)
      /\ q.turn \in {msgs[m].turn, t}
  BY <1>1, Closes
<1>3. crossed[m] = 0 => Unsent(msgs[m])
  BY DEF Correlated, Crossings, Unsent
<1> HIDE DEF q
<1>4. MildTo(m, q)
  BY <1>2, <1>3 DEF MildTo
<1> QED BY <1>2, <1>4 DEF q

LEMMA HandleInputTaken ==
  ASSUME IInv, Correlated, NEW s \in Slots, HandleInput(s), TurnMatches(msgs, s, Head(events[s]).msg, Head(events[s]).turn)
  PROVE  LET m == Head(events[s]).msg IN
         \E ms \in Seq(Message) :
           /\ DOMAIN ms = Ids /\ m \in Ids /\ ~Stuck(m) /\ Taken(turn, ms, task, {})
           /\ MildTo(m, ms[m]) /\ ms[m] \in Message /\ ~Open(ms[m])
           /\ \A i \in Ids \ {m} : ms[i] = msgs[i]
           /\ IF Idle(turn, ms, s, FALSE) THEN Freed(ms) ELSE turn' = turn /\ task' = task
<1> DEFINE e == Head(events[s])
           q == Processed(msgs[e.msg], e.kind, e.turn)
           done == [msgs EXCEPT ![e.msg] = q]
<1>1. /\ phase = "up" /\ events[s] # <<>> /\ e.kind \in Settled
      /\ events' = [events EXCEPT ![s] = Tail(@)]
      /\ Take(FinishIfIdle(turn, done, s, FALSE), task, FALSE)
  BY DEF HandleInput
<1>2. /\ msgs \in Seq(Message) /\ Len(msgs) <= MaxMessages /\ task \in [Numbers -> Goroutine]
      /\ turn \in TurnState /\ Queued(msgs, turn) /\ Around /\ Ids \subseteq Numbers
      /\ \A i \in Ids : i \in Numbers /\ msgs[i] \in Message
  BY <1>1, Facts DEF Core
<1>4. e \in Told(s)
  BY <1>1, <1>2, HeadTold
<1>9. e = Head(events[s])
  OBVIOUS
<1> HIDE DEF e
<1>5. e \in Report /\ e.msg \in Ids /\ msgs[e.msg].to = s /\ ~Stuck(e.msg) /\ e.turn \in 0..MaxMessages
  BY <1>1, <1>4, ToldFacts
<1>6. MildTo(e.msg, q) /\ q \in Message /\ ~Open(q)
  BY <1>1, <1>4, <1>5, ClosesMildTo
<1>7. Tame(msgs[e.msg], q)
  <2>1. msgs[e.msg] \in Message /\ e.kind \in {"waiting", "working"} \cup Settled
    BY <1>1, <1>2, <1>5
  <2> QED BY <2>1, <1>5, ProcessedTame
<1> HIDE DEF q
<1>8. Calm(msgs, done)
  BY <1>2, <1>5, <1>7, CalmExcept DEF Ids
<1>10. DOMAIN done = Ids /\ done[e.msg] = q /\ \A i \in Ids \ {e.msg} : done[i] = msgs[i]
  BY <1>2, <1>5 DEF Ids
<1> HIDE DEF done
<1>11. done \in Seq(Message) /\ Len(done) <= MaxMessages /\ Queued(done, turn)
  BY <1>2, <1>8 DEF Calm, Queued
<1>12. Taken(turn, done, task, {}) /\ IF Idle(turn, done, s, FALSE) THEN Freed(done) ELSE turn' = turn /\ task' = task
  BY <1>1, <1>2, <1>11, TakenFinishIfIdle
<1> QED BY <1>5, <1>6, <1>9, <1>10, <1>11, <1>12

LEMMA HandleInputCorrelated == ASSUME IInv, IInv', Correlated, NEW s \in Slots, HandleInput(s) PROVE Correlated'
<1> DEFINE m == Head(events[s]).msg
<1>1. /\ phase = "up" /\ events[s] # <<>> /\ Head(events[s]).kind \in Settled
      /\ events' = [events EXCEPT ![s] = Tail(@)]
      /\ UNCHANGED <<tails, routing, control, native, current, crossed, phase, crashed>>
      /\ \/ TurnMatches(msgs, s, Head(events[s]).msg, Head(events[s]).turn)
         \/ UNCHANGED <<turn, msgs, task>>
  BY DEF HandleInput
<1>2. Ids \subseteq Numbers /\ \A i \in Ids : msgs[i] \in Message
  BY <1>1, Facts
<1>3. Heard
  BY <1>1, PoppedHeard DEF Settled, IInv
<1>4. CASE UNCHANGED <<turn, msgs, task>>
  BY <1>1, <1>3, <1>4, PoppedCorrelated
<1>5. CASE TurnMatches(msgs, s, Head(events[s]).msg, Head(events[s]).turn)
  <2>1. PICK ms \in Seq(Message) :
           /\ DOMAIN ms = Ids /\ m \in Ids /\ ~Stuck(m) /\ Taken(turn, ms, task, {})
           /\ MildTo(m, ms[m]) /\ ms[m] \in Message /\ ~Open(ms[m])
           /\ \A i \in Ids \ {m} : ms[i] = msgs[i]
    BY <1>5, HandleInputTaken
  <2> HIDE DEF m
  <2>2. \A i \in Ids : MildTo(i, ms[i])
    BY <1>2, <2>1, KeepsMildTo, QuietSame
  <2>3. \A i \in Ids : Stuck(i) => /\ ms[i] = msgs[i] /\ task[i].pc = "none"
                                   /\ i \notin ToSet(turn.queue) /\ i \notin {} /\ i \notin routing'.cancelled
    BY <1>1, <2>1, StuckFacts
  <2>4. Recorded(turn, ms, task, {})
    BY <1>2, <2>1, <2>2, <2>3 DEF Recorded
  <2> QED BY <1>1, <1>3, <2>1, <2>4, TakenCorrelated
<1> QED BY <1>1, <1>4, <1>5

LEMMA HandleFinalTaken ==
  ASSUME IInv, NEW s \in Slots, HandleFinal(s), ~(UNCHANGED <<turn, msgs, task>>)
  PROVE  \E ms \in Seq(Message), m \in Numbers :
           /\ Taken(turn, ms, task, {m})
           /\ DOMAIN ms = Ids \cup {m} /\ m \notin Ids /\ \A i \in Ids : ms[i] = msgs[i]
           /\ Awaiting(ms[m]) /\ ms[m].turn = 0 /\ ms[m].unsure = FALSE /\ task[m].pc = "none"
<1> DEFINE r == NewMessage(s, Peer(s), FALSE, 0)
           ms == Append(msgs, r)
           m == Len(msgs) + 1
           res == Schedule(turn, ms, m)
<1>1. phase = "up" /\ Take(res, task, FALSE) /\ MayAdd
  BY DEF HandleFinal
<1>2. /\ Core(msgs, turn, task, routing, crossed, stopped, crashed) /\ msgs \in Seq(Message)
      /\ task \in [Numbers -> Goroutine] /\ turn \in TurnState /\ Queued(msgs, turn)
      /\ Len(msgs) < MaxMessages /\ Ids \subseteq Numbers
  BY <1>1, Facts DEF MayAdd, Core
<1>3. r \in Message /\ r.del = "pending" /\ r.proc = "waiting" /\ r.turn = 0 /\ r.unsure = FALSE
  BY PeerIsSlot, NumberFacts DEF NewMessage, Message
<1> HIDE DEF r
<1>4. /\ ms[m] = r /\ DOMAIN ms = Ids \cup {m} /\ m \notin Ids /\ m \in Numbers /\ ms \in Seq(Message)
      /\ \A i \in Ids : ms[i] = msgs[i]
  BY <1>2, <1>3, Appended, NumberFacts DEF Ids
<1> HIDE DEF ms, m
<1>5. task[m].pc = "none"
  BY <1>2, <1>4 DEF Core, Fresh, Ids
<1>6. Queued(ms, turn) /\ m \notin ToSet(turn.queue) /\ ~AtNative(ms[m]) /\ Awaiting(ms[m])
  BY <1>2, <1>3, <1>4 DEF Queued, Ids, AtNative, Awaiting, Open, InFifo, Settled
<1>7. /\ Placed(turn, ms, res, {m}) /\ DOMAIN res.msgs = DOMAIN ms
      /\ \A i \in DOMAIN ms : IF i = m THEN Queues(ms[i], res.msgs[i]) ELSE Left(ms[i], res.msgs[i])
  BY <1>2, <1>4, <1>6, SchedulePlaced
<1>8. ToSet(turn.queue) \cup {m} \subseteq Numbers
  BY <1>2, <1>4 DEF Queued, Ids
<1>9. Take(res, task, FALSE)
  BY <1>1
<1> HIDE DEF res
<1>10. Taken(turn, ms, task, {m})
  BY <1>2, <1>7, <1>8, <1>9, TakenFrom
<1> QED BY <1>3, <1>4, <1>5, <1>6, <1>10

LEMMA HandleFinalCorrelated == ASSUME IInv, IInv', Correlated, NEW s \in Slots, HandleFinal(s) PROVE Correlated'
<1>1. /\ phase = "up" /\ events[s] # <<>> /\ Head(events[s]).kind # "boundary"
      /\ events' = [events EXCEPT ![s] = Tail(@)]
      /\ UNCHANGED <<tails, routing, control, native, current, crossed, phase, crashed>>
  BY DEF HandleFinal
<1>2. Heard
  BY <1>1, PoppedHeard DEF IInv
<1>3. CASE UNCHANGED <<turn, msgs, task>>
  BY <1>1, <1>2, <1>3, PoppedCorrelated
<1>4. CASE ~(UNCHANGED <<turn, msgs, task>>)
  <2>1. PICK ms \in Seq(Message), m \in Numbers :
           /\ Taken(turn, ms, task, {m})
           /\ DOMAIN ms = Ids \cup {m} /\ m \notin Ids /\ \A i \in Ids : ms[i] = msgs[i]
           /\ Awaiting(ms[m]) /\ ms[m].turn = 0 /\ ms[m].unsure = FALSE /\ task[m].pc = "none"
    BY <1>4, HandleFinalTaken
  <2>2. Ids \subseteq Numbers /\ \A i \in Ids : msgs[i] \in Message
    BY <1>1, Facts
  <2>3. \A i \in Ids : MildTo(i, ms[i])
    BY <2>1, <2>2, KeepsMildTo, QuietSame
  <2>4. \A i \in Ids : Stuck(i) => /\ ms[i] = msgs[i] /\ task[i].pc = "none"
                                   /\ i \notin ToSet(turn.queue) /\ i \notin {m} /\ i \notin routing'.cancelled
    BY <1>1, <2>1, StuckFacts
  <2>5. Recorded(turn, ms, task, {m})
    BY <2>1, <2>2, <2>3, <2>4 DEF Recorded
  <2> QED BY <1>1, <1>2, <2>1, <2>5, TakenCorrelated
<1> QED BY <1>3, <1>4

LEMMA MatchesTimely ==
  ASSUME NEW s, NEW e, TurnMatches(msgs, s, e.msg, e.turn)
  PROVE  Timely(s, e)
BY DEF TurnMatches, Timely

\* What a runtime reports of the current Turn matches it, unless a stuck message is in
\* the way; then no Turn matches any more.
LEMMA TimelyMatches ==
  ASSUME IInv, phase = "up", Correlated, NEW s \in Slots, NEW e \in Told(s), Timely(s, e), ~Blocked(s)
  PROVE  TurnMatches(msgs, s, e.msg, e.turn)
<1>1. SUFFICES ASSUME e.turn # 0
      PROVE  /\ current[s] \in {0, e.turn}
             /\ msgs[e.msg].turn \in {0, e.turn}
             /\ msgs[e.msg].turn = 0 => \A j \in DOMAIN msgs : msgs[j].to = s /\ Open(msgs[j]) => msgs[j].turn \in {0, e.turn}
  BY DEF TurnMatches
<1>2. Reports(s) /\ Numbered(s)
  BY DEF Correlated, InSlot
<1>3. current[s] \in {0, e.turn} /\ msgs[e.msg].turn \in {0, e.turn}
  BY <1>1, <1>2 DEF Timely, Reports
<1>4. ASSUME NEW j \in DOMAIN msgs, msgs[j].to = s, Open(msgs[j]), msgs[j].turn # 0 PROVE msgs[j].turn = e.turn
  <2>1. msgs[j].turn = current[s] \/ Stuck(j)
    BY <1>2, <1>4 DEF Numbered, Ids
  <2>2. ~Stuck(j)
    BY <1>4 DEF Blocked, Ids
  <2> QED BY <2>1, <2>2, <1>3, <1>4
<1> QED BY <1>3, <1>4

LEMMA UnmatchedHeard ==
  ASSUME IInv, phase = "up", Correlated, NEW s \in Slots, events[s] # <<>>,
         events' = [events EXCEPT ![s] = Tail(@)],
         ~TurnMatches(msgs, s, Head(events[s]).msg, Head(events[s]).turn)
  PROVE  Heard /\ (Timely(s, Head(events[s])) => Blocked(s))
<1> DEFINE e == Head(events[s])
<1>1. /\ e \in Told(s)
      /\ \A q \in Slots : /\ Told(q)' \subseteq Told(q)
                          /\ \A f \in Told(q) : f \in Told(q)' \/ (q = s /\ f = e)
  BY HeadTold DEF IInv
<1>t. ~TurnMatches(msgs, s, e.msg, e.turn)
  OBVIOUS
<1> HIDE DEF e
<1>2. Timely(s, e) => Blocked(s)
  BY <1>1, <1>t, TimelyMatches
<1>3. Blocked(s) => Unended(s)
  BY DEF Correlated, InSlot, Unmarked, Unended
<1> QED BY <1>1, <1>2, <1>3 DEF Heard, e

\* The boundary of the current Turn: no message of that Turn is open any more.
BoundaryHandled(s, e, ms) ==
  /\ ms \in Seq(Message) /\ DOMAIN ms = Ids /\ Calm(msgs, ms)
  /\ \A m \in Ids : MildTo(m, ms[m]) /\ ms[m] \in Message
  /\ \A m \in Ids : msgs[m].to # s => ms[m] = msgs[m]
  /\ \A m \in Ids : Stuck(m) => ms[m] = msgs[m]
  /\ \A m \in Ids : \/ ms[m] = msgs[m]
                    \/ msgs[m].to = s /\ ~Open(ms[m])
  /\ \A m \in Ids : msgs[m].to = s /\ (m = e.msg \/ (e.turn # 0 /\ msgs[m].turn = e.turn)) => ~Open(ms[m])
LEMMA BoundaryLeaves ==
  ASSUME IInv, phase = "up", Correlated, NEW s \in Slots, NEW e \in Told(s), NEW ms,
         ms = Each(msgs, {m \in Ids : /\ msgs[m].to = s /\ Open(msgs[m])
                                      /\ m = e.msg \/ (e.turn # 0 /\ msgs[m].turn = e.turn)},
                   LAMBDA r : Processed(r, e.outcome, e.turn))
  PROVE  BoundaryHandled(s, e, ms)
<1> DEFINE left == {m \in Ids : /\ msgs[m].to = s /\ Open(msgs[m])
                                /\ m = e.msg \/ (e.turn # 0 /\ msgs[m].turn = e.turn)}
<1>1. DOMAIN ms = Ids /\ \A m \in Ids : ms[m] = IF m \in left THEN Processed(msgs[m], e.outcome, e.turn) ELSE msgs[m]
  BY DEF Each, Ids
<1>2. /\ msgs \in Seq(Message) /\ \A m \in Ids : msgs[m] \in Message
  BY Facts
<1>3. e.msg \in Ids /\ msgs[e.msg].to = s /\ e.turn \in 0..MaxMessages /\ e.outcome \in Settled
  BY ToldFacts
<1>4. Calm(msgs, ms)
  <2>1. e.outcome \in {"waiting", "working"} \cup Settled
    BY <1>3
  <2> QED BY <1>2, <1>3, <2>1, EachProcessed
<1>5. \A m \in left : m \in Ids /\ (e.turn \in {0, msgs[m].turn} \/ m = e.msg) /\ msgs[m].to = s
  OBVIOUS
<1>6. \A m \in Ids : Stuck(m) => m \notin left
  BY <1>3, ToldFacts DEF Stuck, Parked
<1>7. \A m \in Ids : m \notin left /\ msgs[m].to = s /\ (m = e.msg \/ (e.turn # 0 /\ msgs[m].turn = e.turn)) => ~Open(msgs[m])
  OBVIOUS
<1>8. ASSUME NEW m \in left PROVE MildTo(m, ms[m]) /\ ms[m] \in Message /\ ~Open(ms[m])
  <2>1. e.turn \in {0, msgs[m].turn} \/ \E f \in Told(msgs[m].to) : f.msg = m /\ f.turn = e.turn
    BY <1>5
  <2>2. m \in Ids /\ ms[m] = Processed(msgs[m], e.outcome, e.turn)
    BY <1>1, <1>5
  <2> DEFINE o == e.outcome
             u == e.turn
  <2>3. /\ o \in Settled /\ u \in 0..MaxMessages /\ ms[m] = Processed(msgs[m], o, u)
        /\ u \in {0, msgs[m].turn} \/ \E f \in Told(msgs[m].to) : f.msg = m /\ f.turn = u
    BY <1>3, <2>1, <2>2
  <2> HIDE DEF o, u, left
  <2> QED BY <2>2, <2>3, ClosesMildTo
<1> HIDE DEF left
<1>9. \A m \in Ids \ left : MildTo(m, ms[m]) /\ ms[m] \in Message
  BY <1>1, <1>2, KeepsMildTo, QuietSame
<1>10. ms \in Seq(Message)
  BY <1>4 DEF Calm
<1> QED BY <1>1, <1>4, <1>5, <1>6, <1>7, <1>8, <1>9, <1>10 DEF BoundaryHandled

LEMMA HandleBoundaryTaken ==
  ASSUME IInv, Correlated, NEW s \in Slots, HandleBoundary(s),
         TurnMatches(msgs, s, Head(events[s]).msg, Head(events[s]).turn)
  PROVE  LET e == Head(events[s]) IN
         /\ current' = [current EXCEPT ![s] = IF e.turn \in {0, @} THEN 0 ELSE @]
         /\ \E t \in TurnState : \E ms :
              /\ BoundaryHandled(s, e, ms)
              /\ t.owner = turn.owner /\ t.queue = turn.queue /\ t.submitting = turn.submitting
              /\ t.boundary = (turn.boundary \/ turn.owner = s)
              /\ Taken(t, ms, task, {})
              /\ IF Idle(t, ms, s, FALSE) THEN Freed(ms) ELSE turn' = t /\ task' = task
<1> DEFINE e == Head(events[s])
           left == {m \in Ids : /\ msgs[m].to = s /\ Open(msgs[m])
                                /\ m = e.msg \/ (e.turn # 0 /\ msgs[m].turn = e.turn)}
           ms == Each(msgs, left, LAMBDA r : Processed(r, e.outcome, e.turn))
           b == turn.boundary \/ turn.owner = s
           t == [turn EXCEPT !.boundary = b]
<1>1. /\ phase = "up" /\ events[s] # <<>> /\ events' = [events EXCEPT ![s] = Tail(@)]
      /\ Take(FinishIfIdle(t, ms, s, FALSE), task, FALSE)
      /\ current' = [current EXCEPT ![s] = IF e.turn \in {0, @} THEN 0 ELSE @]
  BY DEF HandleBoundary
<1>2. /\ msgs \in Seq(Message) /\ Len(msgs) <= MaxMessages /\ task \in [Numbers -> Goroutine]
      /\ turn \in TurnState /\ Queued(msgs, turn)
  BY <1>1, Facts DEF Core
<1>3. e \in Told(s)
  BY <1>1, HeadTold DEF IInv
<1>4. BoundaryHandled(s, e, ms)
  BY <1>1, <1>3, BoundaryLeaves
<1> HIDE DEF left, ms
<1>5. b \in BOOLEAN
  BY <1>2 DEF TurnState
<1> HIDE DEF b
<1>6. t \in TurnState /\ t.owner = turn.owner /\ t.queue = turn.queue /\ t.submitting = turn.submitting /\ t.boundary = b
  BY <1>2, <1>5 DEF TurnState
<1> HIDE DEF t
<1>7. ms \in Seq(Message) /\ Len(ms) <= MaxMessages /\ Queued(ms, t)
  BY <1>2, <1>4, <1>6 DEF BoundaryHandled, Calm, Queued
<1>8. Taken(t, ms, task, {}) /\ IF Idle(t, ms, s, FALSE) THEN Freed(ms) ELSE turn' = t /\ task' = task
  BY <1>1, <1>2, <1>6, <1>7, TakenFinishIfIdle
<1>9. t.boundary = (turn.boundary \/ turn.owner = s)
  BY <1>6 DEF b
<1> QED BY <1>1, <1>4, <1>6, <1>8, <1>9

LEMMA HandleBoundaryCorrelated == ASSUME IInv, IInv', Correlated, NEW s \in Slots, HandleBoundary(s) PROVE Correlated'
<1> DEFINE e == Head(events[s])
<1>1. /\ phase = "up" /\ events[s] # <<>> /\ e.kind = "boundary"
      /\ events' = [events EXCEPT ![s] = Tail(@)]
      /\ UNCHANGED <<tails, routing, control, native, crossed, phase, crashed>>
      /\ ~TurnMatches(msgs, s, e.msg, e.turn) => UNCHANGED <<turn, msgs, task, current>>
  BY DEF HandleBoundary
<1>2. CASE ~TurnMatches(msgs, s, e.msg, e.turn)
  <2>1. Heard
    BY <1>1, <1>2, UnmatchedHeard
  <2> QED BY <1>1, <1>2, <2>1, PoppedCorrelated
<1>3. CASE TurnMatches(msgs, s, e.msg, e.turn)
  <2>1. /\ e \in Told(s)
        /\ \A q \in Slots : /\ Told(q)' \subseteq Told(q)
                            /\ \A f \in Told(q) : f \in Told(q)' \/ (q = s /\ f = e)
    BY <1>1, HeadTold DEF IInv
  <2>2. current' = [current EXCEPT ![s] = IF e.turn \in {0, @} THEN 0 ELSE @]
    BY <1>3, HandleBoundaryTaken
  <2>3. PICK t, ms :
              /\ t \in TurnState
              /\ BoundaryHandled(s, e, ms)
              /\ t.owner = turn.owner /\ t.queue = turn.queue
              /\ t.boundary = (turn.boundary \/ turn.owner = s)
              /\ Taken(t, ms, task, {})
    BY <1>3, HandleBoundaryTaken
  <2>4. Timely(s, e)
    BY <1>3, MatchesTimely
  <2> HIDE DEF e
  <2>5. /\ Ids \subseteq Numbers /\ current \in [Slots -> 0..MaxMessages] /\ DOMAIN msgs' = Ids
        /\ ms \in Seq(Message) /\ DOMAIN ms = Ids /\ \A m \in Ids : MildTo(m, ms[m]) /\ ms[m] \in Message
    BY <1>1, <2>3, Facts DEF Around, Taken, BoundaryHandled
  <2>6. current'[s] = 0 /\ \A q \in Slots \ {s} : current'[q] = current[q]
    BY <2>2, <2>4, <2>5 DEF Timely
  <2>7. \A m \in Ids : Mild(m)
    BY <2>3, <2>5, TakenMild
  <2>8. Grown /\ Mildly /\ Further /\ \A q \in Slots : MildIn(q)
    BY <1>1, <2>5, <2>7, MildGrown DEF Mildly, MildIn, Further
  <2>9. \A m \in Ids : Stuck(m) => Unmoved(m)
    <3> SUFFICES ASSUME NEW m \in Ids, Stuck(m) PROVE Unmoved(m)
      OBVIOUS
    <3>1. /\ Parked(m) /\ task[m].pc = "none" /\ m \notin ToSet(turn.queue) /\ m \notin routing.cancelled
      BY <1>1, StuckFacts
    <3>2. ms[m] = msgs[m] /\ m \in Numbers /\ m \notin ToSet(t.queue) \cup {} /\ m \notin routing'.cancelled
      BY <1>1, <2>3, <2>5, <3>1 DEF BoundaryHandled
    <3> QED BY <2>3, <2>5, <3>1, <3>2, TakenUnmoved
  <2>10. ASSUME NEW m \in Ids, task'[m].pc = "accepted" PROVE task[m].pc = "accepted"
    <3>1. task'[m].pc \in {task[m].pc, "wait"}
      BY <2>3, <2>5 DEF Taken
    <3> QED BY <2>10, <3>1
  <2>11. Crossings'
    BY <1>1, <2>5, <2>8, <2>10, CrossingsKept
  <2>12. \A q \in Slots : Staying(q)
    BY <1>1, <2>1, <2>5, <2>9, StayingFrom
  <2>13. ASSUME NEW q \in Slots \ {s} PROVE InSlot(q)'
    <3>1. turn'.owner = q => turn'.boundary = FALSE \/ (turn.owner = q /\ turn'.boundary = turn.boundary)
      BY <2>3 DEF Taken
    <3>2. SameSlot(q)
      BY <1>1, <2>1, <2>6, <3>1 DEF SameSlot
    <3> QED BY <1>1, <2>8, <2>12, <3>2, SlotKept
  <2>14. InSlot(s)'
    <3>1. Inputs(s) /\ Turning(s) /\ Unmarked(s)
      BY <1>1 DEF Correlated, InSlot
    <3>2. Reports(s)'
      BY <1>1, <2>1, <2>8, ReportsKept
    <3>3. Inputs(s)'
      BY <1>1, <2>1, <2>8, <3>1, InputsKept DEF Inputs
    <3>4. Numbered(s)'
      <4>1. ASSUME NEW m \in Ids, msgs[m].to = s, Open(msgs'[m]), msgs[m].turn = current[s], msgs[m].turn # 0
            PROVE  FALSE
        <5>1. e.turn = current[s]
          BY <1>1, <2>1, <2>4, <3>1, <4>1 DEF Timely, Unmarked
        <5>2. ~Open(ms[m])
          BY <2>3, <4>1, <5>1 DEF BoundaryHandled
        <5>3. Left(ms[m], msgs'[m])
          BY <2>3, <2>5, <4>1 DEF Taken
        <5>4. Quiet(ms[m], msgs'[m])
          BY <2>5, <5>3, LeftQuiet
        <5> QED BY <4>1, <5>2, <5>4 DEF Quiet, Keeps
      <4> QED BY <1>1, <2>8, <2>12, <4>1, NumberedKept
    <3>5. native[s].turn # 0 => Blocked(s)
      <4> SUFFICES ASSUME native[s].turn # 0, ~Blocked(s) PROVE FALSE
        OBVIOUS
      <4>1. current[s] = native[s].turn /\ native[s] # IdleRuntime
        BY <3>1 DEF Turning, IdleRuntime
      <4>2. e.turn \notin {0, native[s].turn}
        BY <1>1, <2>1, <3>1, <4>1 DEF Inputs
      <4> QED BY <2>4, <4>1, <4>2 DEF Timely
    <3>6. Turning(s)'
      BY <1>1, <2>8, <2>12, <3>5, BlockedKept DEF Turning
    <3>7. Ending(s)' /\ Unmarked(s)'
      BY <2>6 DEF Ending, Unmarked
    <3> QED BY <3>2, <3>3, <3>4, <3>6, <3>7 DEF InSlot
  <2> QED BY <1>1, <2>11, <2>13, <2>14 DEF Correlated
<1> QED BY <1>2, <1>3

-----------------------------------------------------------------------------
\* What a step at one slot leaves alone at the other.
Elsewhere(s) ==
  /\ \A i \in Ids : msgs[i].to # s => msgs'[i] = msgs[i]
  /\ \A i \in Ids : msgs[i].to # s /\ Stuck(i) => Unmoved(i)
  /\ \A q \in Slots \ {s} :
       /\ native'[q] = native[q] /\ events'[q] = events[q] /\ current'[q] = current[q]
       /\ control'[q] = control[q]
       /\ turn'.owner = q => turn'.boundary = FALSE \/ (turn.owner = q /\ turn'.boundary = turn.boundary)
LEMMA ElsewhereKept ==
  ASSUME IInv, phase = "up", Correlated, NEW s \in Slots, Grown, Further, crashed' = crashed, Elsewhere(s)
  PROVE  \A q \in Slots \ {s} : InSlot(q)'
<1> SUFFICES ASSUME NEW q \in Slots \ {s} PROVE InSlot(q)'
  OBVIOUS
<1>1. native'[q] = native[q] /\ Told(q)' = Told(q) /\ current'[q] = current[q] /\ control'[q] = control[q]
  BY DEF Elsewhere, Told
<1>2. \A i \in Ids : msgs[i].to = q => msgs'[i] = msgs[i]
  BY DEF Elsewhere
<1>3. MildIn(q)
  BY <1>2, MildSame DEF MildIn
<1>4. Staying(q)
  <2>1. \A i \in Ids : msgs[i].to = q /\ Stuck(i) => Unmoved(i)
    BY DEF Elsewhere
  <2> QED BY <1>1, <2>1, StayingFrom DEF Grown
<1>5. SameSlot(q)
  BY <1>1 DEF SameSlot, Elsewhere
<1> QED BY <1>3, <1>4, <1>5, SlotKept

\* One message has crossed, or its record says more of its Turn.
LEMMA CrossingsMore ==
  ASSUME IInv, phase = "up", Correlated, NEW m \in Ids, DOMAIN msgs' = Ids,
         \A i \in Ids \ {m} : msgs'[i] = msgs[i], Further, crossed'[m] > 0,
         \A k \in Numbers \ {m} : crossed'[k] = crossed[k],
         msgs'[m].turn # 0 => crossed'[msgs'[m].turn] > 0,
         msgs'[m].turn \in {0, m} \/ msgs'[m].steer = TRUE,
         \A i \in Ids \ {m} : task'[i].pc = "accepted" => task[i].pc = "accepted"
  PROVE  Crossings'
<1>1. Crossings /\ Ids \subseteq Numbers /\ crossed \in [Numbers -> 0..2] /\ m \in Numbers
      /\ \A i \in Ids : msgs[i].turn \in 0..MaxMessages
  <2>1. \A i \in Ids : msgs[i] \in Message
    BY Facts
  <2> QED BY <2>1, Facts DEF Correlated, Typed, Message
<1>2. crossed'[m] # 0
  OBVIOUS
<1>3. ASSUME NEW i \in Ids \ {m}
      PROVE  /\ crossed'[i] = 0 =>
                  msgs'[i].turn = 0 /\ msgs'[i].unsure = FALSE /\ msgs'[i].del \notin {"started", "injected"}
             /\ msgs'[i].turn # 0 => crossed'[msgs'[i].turn] > 0
             /\ msgs'[i].turn \in {0, i} \/ msgs'[i].steer = TRUE
             /\ task'[i].pc = "accepted" => crossed'[i] > 0
  <2>1. msgs'[i] = msgs[i] /\ crossed'[i] = crossed[i]
    BY <1>1
  <2>2. msgs[i].turn # 0 => msgs[i].turn \in Numbers
    BY <1>1, NumberFacts
  <2> QED BY <1>1, <2>1, <2>2 DEF Crossings, Further
<1> QED BY <1>2, <1>3 DEF Crossings, Ids

\* A runtime that is in no Turn begins one with m, and says so.
Starting(s, m) ==
  /\ phase = "up" /\ m \in Ids /\ m \in Numbers /\ msgs[m].to = s /\ msgs[m].turn = 0
  /\ events[s] = <<>> /\ native[s].turn = 0 /\ control[s] # "stop"
  /\ Further /\ crossed'[m] > 0 /\ \A k \in Numbers \ {m} : crossed'[k] = crossed[k]
  /\ \A k \in Ids : Stuck(k) => k # m /\ task'[k].pc = "none" /\ (msgs[k].to = s => msgs[k].turn # m)
  /\ \A i \in Ids \ {m} : task'[i].pc = "accepted" => task[i].pc = "accepted"
  /\ UNCHANGED <<routing, control, events, phase, crashed>>
LEMMA StartingFacts ==
  ASSUME IInv, Correlated, NEW s \in Slots, NEW m, Starting(s, m)
  PROVE  /\ Told(s) = {} /\ Told(s)' = {} /\ current[s] = 0 /\ m # 0 /\ msgs[m] \in Message
         /\ \A j \in Ids : msgs[j].to = s /\ Open(msgs[j]) /\ msgs[j].turn # 0 => Stuck(j)
<1>1. Told(s) = {} /\ Told(s)' = {}
  BY DEF Told, Starting
<1>2. Ending(s) /\ Numbered(s)
  BY DEF Correlated, InSlot, Starting
<1>3. current[s] = 0
  BY <1>1, <1>2 DEF Ending, Starting
<1>4. m # 0 /\ msgs[m] \in Message
  BY NumberFacts, Facts DEF Starting
<1> QED BY <1>1, <1>2, <1>3, <1>4 DEF Numbered

LEMMA StartingElsewhere ==
  ASSUME IInv, Correlated, NEW s \in Slots, NEW m, Starting(s, m), DOMAIN msgs' = Ids,
         \A i \in Ids \ {m} : msgs'[i] = msgs[i], msgs'[m].to = s,
         native' = [native EXCEPT ![s] = [turn |-> m, inputs |-> {m}, staged |-> 0]],
         turn'.queue = turn.queue, turn'.owner = turn.owner,
         turn'.boundary = turn.boundary \/ (turn.owner = s /\ turn'.boundary = FALSE),
         \A q \in Slots \ {s} : current'[q] = current[q]
  PROVE  Grown /\ \A q \in Slots \ {s} : InSlot(q)'
<1>1. Grown
  BY DEF Grown, Starting
<1>2. \A i \in Ids : Stuck(i) => Unmoved(i)
  <2> SUFFICES ASSUME NEW i \in Ids, Stuck(i) PROVE Unmoved(i)
    OBVIOUS
  <2>1. i # m /\ task'[i].pc = "none" /\ i \notin routing.cancelled /\ i \notin ToSet(turn.queue)
    BY StuckFacts DEF Starting
  <2> QED BY <2>1 DEF Unmoved, Starting
<1>3. native \in [Slots -> Runtime]
  BY DEF IInv, Around
<1>4. \A q \in Slots \ {s} :
        turn'.owner = q => turn'.boundary = FALSE \/ (turn.owner = q /\ turn'.boundary = turn.boundary)
  OBVIOUS
<1>5. Elsewhere(s)
  BY <1>2, <1>3, <1>4 DEF Elsewhere, Starting
<1> QED BY <1>1, <1>5, ElsewhereKept DEF Starting

LEMMA StartUnmatched ==
  ASSUME IInv, Correlated, NEW s \in Slots, NEW m, Starting(s, m), ~TurnMatches(msgs, s, m, m), TurnStarts(s, m)
  PROVE  Correlated'
<1>1. /\ UNCHANGED <<msgs, turn, current>>
      /\ native' = [native EXCEPT ![s] = [turn |-> m, inputs |-> {m}, staged |-> 0]]
  BY DEF TurnStarts
<1>2. /\ Told(s) = {} /\ Told(s)' = {} /\ current[s] = 0 /\ m # 0 /\ msgs[m] \in Message
      /\ \A j \in Ids : msgs[j].to = s /\ Open(msgs[j]) /\ msgs[j].turn # 0 => Stuck(j)
  BY StartingFacts
<1>3. Grown /\ \A q \in Slots \ {s} : InSlot(q)'
  <2>1. /\ DOMAIN msgs' = Ids /\ \A i \in Ids \ {m} : msgs'[i] = msgs[i]
        /\ turn'.queue = turn.queue /\ turn'.owner = turn.owner /\ turn'.boundary = turn.boundary
        /\ \A q \in Slots \ {s} : current'[q] = current[q]
    BY <1>1 DEF Ids
  <2>2. msgs'[m].to = s
    BY <1>1 DEF Starting
  <2>3. turn'.boundary = turn.boundary \/ (turn.owner = s /\ turn'.boundary = FALSE)
    BY <2>1
  <2> QED BY <1>1, <2>1, <2>2, <2>3, StartingElsewhere
<1>4. Crossings'
  <2>1. msgs'[m].turn = 0 /\ DOMAIN msgs' = Ids
    BY <1>1 DEF Starting, Ids
  <2> QED BY <1>1, <2>1, CrossingsMore DEF Starting
<1>5. native \in [Slots -> Runtime]
  BY DEF IInv, Around
<1> DEFINE n == [turn |-> m, inputs |-> {m}, staged |-> 0]
<1>6. native'[s] = n /\ n.turn = m /\ n.inputs = {m} /\ n.staged = 0 /\ Has(n) = {m}
  BY <1>1, <1>5 DEF Has
<1> HIDE DEF n
<1>7. ASSUME NEW k \in Ids, msgs[k].to = s, Stuck(k) PROVE Stuck(k)' /\ Blocked(s)'
  <2>1. k # m /\ task'[k].pc = "none" /\ msgs[k].turn # m /\ msgs[k].turn # 0
    BY <1>7 DEF Starting, Stuck, Parked
  <2>2. k \notin routing'.cancelled /\ k \notin ToSet(turn'.queue)
    BY <1>1, <1>7, StuckFacts DEF Starting
  <2>3. native'[msgs[k].to] = n /\ msgs'[k].to = s /\ msgs[k].to = s
    BY <1>1, <1>6, <1>7
  <2>4. k \notin Has(native[msgs[k].to])' /\ msgs[k].turn \notin {native'[msgs[k].to].turn, native'[msgs[k].to].staged}
    BY <1>6, <2>1, <2>3 DEF Has
  <2>5. \A e \in Told(msgs[k].to)' : e \in Told(msgs[k].to) \/ (e.msg # k /\ e.turn # msgs[k].turn)
    BY <1>2, <2>3
  <2> QED BY <1>1, <1>7, <2>1, <2>2, <2>4, <2>5, StuckKept DEF Starting, Ids
<1>8. PICK j \in Ids : msgs[j].to = s /\ Open(msgs[j]) /\ msgs[j].turn \notin {0, m}
  BY <1>2 DEF TurnMatches, Starting, Ids
<1>9. Blocked(s)'
  BY <1>2, <1>7, <1>8
<1>10. InSlot(s)'
  <2>1. Reports(s)'
    BY <1>2 DEF Reports
  <2>2. Inputs(s)'
    <3>1. \A k \in Has(n) : /\ k \in Ids' /\ msgs'[k].to = s /\ crossed'[k] > 0
                            /\ \A e \in Told(s)' : e.msg # k
      BY <1>1, <1>2, <1>6 DEF Starting, Ids
    <3>2. \A k \in n.inputs : msgs'[k].turn \in {0, n.turn} /\ (k = n.turn \/ msgs'[k].steer = TRUE)
      BY <1>1, <1>6 DEF Starting
    <3> QED BY <1>1, <1>2, <1>6, <3>1, <3>2 DEF Inputs, Has, Starting
  <2>3. Numbered(s)'
    BY <1>1, <1>2, <1>7 DEF Numbered, Ids
  <2>4. Ending(s)' /\ Turning(s)' /\ Unmarked(s)'
    BY <1>1, <1>2, <1>6, <1>9 DEF Ending, Turning, Unmarked
  <2> QED BY <2>1, <2>2, <2>3, <2>4 DEF InSlot
<1> QED BY <1>3, <1>4, <1>10 DEF Correlated

LEMMA StartMatched ==
  ASSUME IInv, Correlated, NEW s \in Slots, NEW m, Starting(s, m), TurnMatches(msgs, s, m, m), TurnStarts(s, m)
  PROVE  Correlated'
<1> DEFINE p == Processed(msgs[m], "working", m)
           n == [turn |-> m, inputs |-> {m}, staged |-> 0]
<1>1. /\ native' = [native EXCEPT ![s] = n] /\ msgs' = [msgs EXCEPT ![m] = p]
      /\ turn' = [turn EXCEPT !.boundary = turn.boundary /\ turn.owner # s]
      /\ current' = [current EXCEPT ![s] = m]
  BY DEF TurnStarts
<1>2. /\ Told(s) = {} /\ Told(s)' = {} /\ current[s] = 0 /\ m # 0 /\ msgs[m] \in Message
  BY StartingFacts
<1>3. p.to = s /\ p.steer = msgs[m].steer /\ p.turn \in {0, m} /\ (Open(p) => Open(msgs[m]))
  <2>1. m \in 0..MaxMessages
    BY NumberFacts DEF Starting
  <2>2. /\ p.to = msgs[m].to /\ p.steer = msgs[m].steer
        /\ IF ProcessingAllowed(msgs[m].proc, "working") THEN p.proc = "working" /\ p.turn = m ELSE p = msgs[m]
    <3>1. "working" \in {"working"} \cup Settled
      OBVIOUS
    <3> HIDE DEF p
    <3>2. ASSUME NEW r \in Message, r = msgs[m]
          PROVE  LET q == Processed(r, "working", m) IN
                 /\ q.to = r.to /\ q.steer = r.steer
                 /\ IF ProcessingAllowed(r.proc, "working") THEN q.proc = "working" /\ q.turn = m ELSE q = r
      BY <2>1, <3>1, ProcessedFields
    <3> QED BY <1>2, <3>2 DEF p
  <2> HIDE DEF p
  <2> QED BY <2>2 DEF Starting, ProcessingAllowed, Open, Settled
<1> HIDE DEF p
<1>4. DOMAIN msgs' = Ids /\ msgs'[m] = p /\ \A i \in Ids \ {m} : msgs'[i] = msgs[i]
  BY <1>1, OneRecord DEF Starting
<1>5. /\ native \in [Slots -> Runtime] /\ current \in [Slots -> 0..MaxMessages]
      /\ turn \in TurnState
  BY Facts DEF IInv, Around, Starting
<1>6. native'[s] = n /\ n.turn = m /\ n.inputs = {m} /\ n.staged = 0 /\ Has(n) = {m}
  BY <1>1, <1>5 DEF Has
<1>7. /\ turn'.queue = turn.queue /\ turn'.owner = turn.owner
      /\ turn'.boundary = turn.boundary \/ (turn.owner = s /\ turn'.boundary = FALSE)
      /\ turn.owner = s => turn'.boundary = FALSE
  BY <1>1, <1>5 DEF TurnState
<1>8. Grown /\ \A q \in Slots \ {s} : InSlot(q)'
  BY <1>1, <1>3, <1>4, <1>5, <1>7, StartingElsewhere
<1>9. Crossings'
  BY <1>3, <1>4, CrossingsMore DEF Starting
<1>10. current'[s] = m
  BY <1>1, <1>5
<1> HIDE DEF n
<1>11. ASSUME NEW j \in Ids', msgs'[j].to = s, Open(msgs'[j]) PROVE msgs'[j].turn \in {0, m}
  <2>1. CASE j = m
    BY <2>1, <1>3, <1>4
  <2>2. CASE j # m
    <3>1. j \in Ids /\ msgs'[j] = msgs[j]
      BY <2>2, <1>4 DEF Ids
    <3>2. j \in DOMAIN msgs /\ msgs[j].to = s /\ Open(msgs[j])
      BY <3>1, <1>11 DEF Ids
    <3>3. msgs[m].turn = 0
      BY DEF Starting
    <3> QED BY <3>1, <3>2, <3>3, <1>2 DEF TurnMatches
  <2> QED BY <2>1, <2>2
<1>12. ~Blocked(s)'
  <2> SUFFICES ASSUME NEW j \in Ids', msgs'[j].to = s, Stuck(j)' PROVE FALSE
    BY DEF Blocked
  <2>1. Open(msgs'[j]) /\ msgs'[j].turn # 0 /\ msgs'[j].turn # native'[msgs'[j].to].turn
    BY DEF Stuck, Parked
  <2> QED BY <2>1, <1>6, <1>11
<1>13. InSlot(s)'
  <2>1. Reports(s)'
    BY <1>2 DEF Reports
  <2>2. Inputs(s)'
    <3>1. \A k \in Has(n) : /\ k \in Ids' /\ msgs'[k].to = s /\ crossed'[k] > 0
                            /\ \A e \in Told(s)' : e.msg # k
      BY <1>2, <1>3, <1>4, <1>6 DEF Starting, Ids
    <3>2. \A k \in n.inputs : msgs'[k].turn \in {0, n.turn} /\ (k = n.turn \/ msgs'[k].steer = TRUE)
      BY <1>3, <1>4, <1>6
    <3> QED BY <1>2, <1>6, <3>1, <3>2 DEF Inputs, Has, Starting
  <2>3. Numbered(s)'
    BY <1>10, <1>11 DEF Numbered
  <2>4. Ending(s)' /\ Turning(s)' /\ Unmarked(s)'
    BY <1>2, <1>6, <1>7, <1>10, <1>12 DEF Ending, Turning, Unmarked
  <2> QED BY <2>1, <2>2, <2>3, <2>4 DEF InSlot
<1> QED BY <1>8, <1>9, <1>13 DEF Correlated, Starting

\* What a goroutine in the native call has handed to no runtime yet.
LEMMA NativeFacts ==
  ASSUME IInv, Correlated, NEW m \in Numbers, At(m, "native")
  PROVE  /\ phase = "up" /\ m \in Ids /\ msgs[m] \in Message /\ msgs[m].to \in Slots /\ task[m].pc = "native"
         /\ crossed[m] = 0 /\ msgs[m].turn = 0 /\ msgs[m].unsure = FALSE /\ msgs[m].del \notin {"started", "injected"}
         /\ control[msgs[m].to] = "none" /\ ~Stuck(m)
         /\ \A k \in Ids : Stuck(k) => k # m /\ task[k].pc = "none" /\ msgs[k].turn # m
<1>1. /\ phase = "up" /\ m \in Ids /\ msgs[m] \in Message /\ msgs[m].to \in Slots /\ task[m].pc = "native"
  BY Facts DEF At
<1>2. crossed[m] = 0
  BY <1>1, Facts DEF Core, Once, Ids
<1>3. msgs[m].turn = 0 /\ msgs[m].unsure = FALSE /\ msgs[m].del \notin {"started", "injected"}
  BY <1>1, <1>2 DEF Correlated, Crossings
<1>4. control[msgs[m].to] = "none"
  BY <1>1, Facts DEF Excluded, Locking
<1>5. ASSUME NEW k \in Ids, Stuck(k) PROVE k # m /\ task[k].pc = "none" /\ msgs[k].turn # m
  <2>1. task[k].pc = "none" /\ msgs[k].turn # 0
    BY <1>5 DEF Stuck, Parked
  <2>2. crossed[msgs[k].turn] > 0
    BY <2>1 DEF Correlated, Crossings
  <2>3. msgs[k].turn # m
    BY <2>2, <1>2
  <2> QED BY <2>1, <2>3, <1>1
<1> QED BY <1>1, <1>2, <1>3, <1>4, <1>5

LEMMA CrossingMore ==
  ASSUME IInv, phase = "up", NEW m \in Numbers, Crossing(m)
  PROVE  Further /\ crossed'[m] > 0 /\ \A k \in Numbers \ {m} : crossed'[k] = crossed[k]
<1>1. crossed \in [Numbers -> 0..2]
  BY Facts DEF Typed
<1> DEFINE v == Min({2, crossed[m] + 1})
<1>2. v \in Nat /\ v > 0
  <2>1. {2, crossed[m] + 1} \subseteq Nat /\ {2, crossed[m] + 1} # {} /\ crossed[m] + 1 > 0
    BY <1>1
  <2>2. v \in {2, crossed[m] + 1}
    BY <2>1, MinOf
  <2> QED BY <2>1, <2>2
<1>3. crossed' = [crossed EXCEPT ![m] = v]
  BY DEF Crossing
<1> HIDE DEF v
<1> QED BY <1>1, <1>2, <1>3 DEF Further

\* A start that the runtime does not answer: it has the message, or will not.
LEMMA StagedCorrelated ==
  ASSUME IInv, Correlated, NEW m \in Numbers, At(m, "native"), NEW s, s = msgs[m].to,
         native[s] = IdleRuntime, events[s] = <<>>, Crossing(m), Goes(m, "over"),
         native' = [native EXCEPT ![s].staged = m],
         msgs' = [msgs EXCEPT ![m] = Processed([@ EXCEPT !.unsure = TRUE], "waiting", 0)],
         UNCHANGED <<turn, current, routing, control, events, phase, crashed>>
  PROVE  Correlated'
<1> DEFINE p == Processed([msgs[m] EXCEPT !.unsure = TRUE], "waiting", 0)
           n == [native[s] EXCEPT !.staged = m]
<1>1. /\ phase = "up" /\ m \in Ids /\ msgs[m] \in Message /\ s \in Slots /\ task[m].pc = "native"
      /\ crossed[m] = 0 /\ msgs[m].turn = 0 /\ msgs[m].unsure = FALSE /\ msgs[m].del \notin {"started", "injected"}
      /\ control[s] = "none" /\ ~Stuck(m) /\ m # 0
      /\ \A k \in Ids : Stuck(k) => k # m /\ task[k].pc = "none" /\ msgs[k].turn # m
  BY NativeFacts, NumberFacts
<1>2. p.to = s /\ p.steer = msgs[m].steer /\ p.turn = 0 /\ (Open(p) => Open(msgs[m]))
  <2> DEFINE w == [msgs[m] EXCEPT !.unsure = TRUE]
  <2>1. w.to = s /\ w.steer = msgs[m].steer /\ w.turn = 0 /\ w.proc = msgs[m].proc /\ w \in Message
    BY <1>1 DEF Message
  <2> HIDE DEF w
  <2>2. p = IF ProcessingAllowed(w.proc, "waiting") THEN [w EXCEPT !.turn = 0] ELSE w
    BY DEF Processed, w
  <2> HIDE DEF p
  <2> QED BY <2>1, <2>2 DEF Open, Message
<1> HIDE DEF p
<1>3. DOMAIN msgs' = Ids /\ msgs'[m] = p /\ \A i \in Ids \ {m} : msgs'[i] = msgs[i]
  <2>1. msgs' = [msgs EXCEPT ![m] = p]
    BY DEF p
  <2> QED BY <1>1, <2>1, OneRecord
<1>4. Further /\ crossed'[m] > 0 /\ \A k \in Numbers \ {m} : crossed'[k] = crossed[k]
  BY <1>1, CrossingMore
<1>5. /\ native \in [Slots -> Runtime] /\ task \in [Numbers -> Goroutine] /\ Ids \subseteq Numbers
  BY <1>1, Facts DEF IInv, Around
<1>6. task'[m].pc = "over" /\ \A i \in Numbers \ {m} : task'[i] = task[i]
  BY <1>5 DEF Goes, Goroutine
<1>7. native'[s] = n /\ n.turn = 0 /\ n.inputs = {} /\ n.staged = m /\ Has(n) = {m}
      /\ \A q \in Slots \ {s} : native'[q] = native[q]
  <2>1. n.turn = 0 /\ n.inputs = {} /\ n.staged = m
    BY <1>5, <1>1 DEF IdleRuntime
  <2>2. native'[s] = n /\ \A q \in Slots \ {s} : native'[q] = native[q]
    BY <1>1, <1>5
  <2> HIDE DEF n
  <2> QED BY <1>1, <2>1, <2>2 DEF Has
<1> HIDE DEF n
<1>8. Told(s) = {} /\ Told(s)' = {} /\ current[s] = 0 /\ Numbered(s) /\ native[s].turn = 0
  <2>1. Told(s) = {} /\ Told(s)' = {}
    BY DEF Told
  <2>2. Ending(s) /\ Numbered(s)
    BY <1>1 DEF Correlated, InSlot
  <2>3. native[s].turn = 0
    BY DEF IdleRuntime
  <2> QED BY <1>1, <2>1, <2>2, <2>3 DEF Ending
<1>9. Grown
  BY <1>2, <1>3 DEF Grown
<1>10. ASSUME NEW k \in Ids, Stuck(k) PROVE Unmoved(k)
  <2>1. k # m /\ k \notin routing.cancelled /\ k \notin ToSet(turn.queue) /\ task[k].pc = "none"
    BY <1>1, <1>10, StuckFacts
  <2> QED BY <2>1, <1>3, <1>5, <1>6 DEF Unmoved
<1>11. \A q \in Slots \ {s} : InSlot(q)'
  <2>1. Elsewhere(s)
    <3>1. \A i \in Ids : msgs[i].to # s => msgs'[i] = msgs[i]
      BY <1>3
    <3>2. \A q \in Slots : turn'.owner = q => turn'.boundary = FALSE \/ (turn.owner = q /\ turn'.boundary = turn.boundary)
      OBVIOUS
    <3> QED BY <1>7, <1>10, <3>1, <3>2 DEF Elsewhere
  <2> QED BY <1>1, <1>4, <1>9, <2>1, ElsewhereKept
<1>12. Crossings'
  <2>1. \A i \in Ids \ {m} : task'[i].pc = "accepted" => task[i].pc = "accepted"
    BY <1>5, <1>6
  <2>2. msgs'[m].turn = 0
    BY <1>2, <1>3
  <2> QED BY <1>1, <1>3, <1>4, <2>1, <2>2, CrossingsMore
<1>13. ASSUME NEW k \in Ids, msgs[k].to = s, Stuck(k) PROVE Stuck(k)'
  <2>1. k # m /\ msgs[k].turn # m /\ msgs[k].turn # 0 /\ Unmoved(k)
    BY <1>1, <1>10, <1>13 DEF Stuck, Parked
  <2>2. native'[msgs[k].to] = n /\ msgs'[k].to = s /\ msgs[k].to = s /\ msgs'[k] = msgs[k]
    BY <1>7, <1>13, <2>1 DEF Unmoved
  <2>3. k \notin Has(native[msgs[k].to])' /\ msgs[k].turn \notin {native'[msgs[k].to].turn, native'[msgs[k].to].staged}
    BY <1>7, <2>1, <2>2 DEF Has
  <2>4. \A e \in Told(msgs[k].to)' : e \in Told(msgs[k].to) \/ (e.msg # k /\ e.turn # msgs[k].turn)
    BY <1>8, <2>2
  <2> QED BY <1>3, <1>13, <2>1, <2>3, <2>4, StuckKept DEF Unmoved
<1>14. InSlot(s)'
  <2>1. Reports(s)'
    BY <1>8 DEF Reports
  <2>2. Inputs(s)'
    <3>1. \A k \in Has(n) : /\ k \in Ids' /\ msgs'[k].to = s /\ crossed'[k] > 0
                            /\ \A e \in Told(s)' : e.msg # k
      BY <1>1, <1>2, <1>3, <1>4, <1>7, <1>8 DEF Ids
    <3>2. control'[s] # "stop" /\ msgs'[n.staged].turn = 0
      BY <1>1, <1>2, <1>3, <1>7
    <3> QED BY <1>7, <1>8, <3>1, <3>2 DEF Inputs, Has
  <2>3. Numbered(s)'
    <3> SUFFICES ASSUME NEW k \in Ids', msgs'[k].to = s, Open(msgs'[k]), msgs'[k].turn # 0 PROVE Stuck(k)'
      BY DEF Numbered
    <3>1. k # m /\ k \in Ids /\ msgs'[k] = msgs[k]
      BY <1>2, <1>3 DEF Ids
    <3>2. Stuck(k)
      BY <3>1, <1>8 DEF Numbered
    <3> QED BY <3>1, <3>2, <1>13
  <2>4. Ending(s)' /\ Turning(s)' /\ Unmarked(s)'
    BY <1>7, <1>8 DEF Ending, Turning, Unmarked
  <2> QED BY <2>1, <2>2, <2>3, <2>4 DEF InSlot
<1> QED BY <1>1, <1>11, <1>12, <1>14 DEF Correlated

LEMMA StartTurnCorrelated == ASSUME IInv, IInv', Correlated, NEW m \in Numbers, StartTurn(m) PROVE Correlated'
<1> DEFINE s == msgs[m].to
<1>1. /\ At(m, "native") /\ native[s] = IdleRuntime /\ events[s] = <<>> /\ Crossing(m)
      /\ \/ TurnStarts(s, m) /\ Goes(m, "accepted")
         \/ /\ native' = [native EXCEPT ![s].staged = m]
            /\ msgs' = [msgs EXCEPT ![m] = Processed([@ EXCEPT !.unsure = TRUE], "waiting", 0)]
            /\ Goes(m, "over") /\ UNCHANGED <<turn, current>>
      /\ UNCHANGED <<routing, control, events, phase, crashed>>
  BY DEF StartTurn
<1>2. CASE TurnStarts(s, m) /\ Goes(m, "accepted")
  <2>1. /\ phase = "up" /\ m \in Ids /\ s \in Slots /\ task[m].pc = "native" /\ msgs[m].turn = 0
        /\ control[s] = "none"
        /\ \A k \in Ids : Stuck(k) => k # m /\ task[k].pc = "none" /\ msgs[k].turn # m
    BY <1>1, NativeFacts
  <2>2. Further /\ crossed'[m] > 0 /\ \A k \in Numbers \ {m} : crossed'[k] = crossed[k]
    BY <1>1, <2>1, CrossingMore
  <2>3. task \in [Numbers -> Goroutine] /\ Ids \subseteq Numbers
    BY <2>1, Facts
  <2>4. \A i \in Numbers \ {m} : task'[i] = task[i]
    BY <1>2, <2>3 DEF Goes
  <2>5. native[s].turn = 0
    BY <1>1 DEF IdleRuntime
  <2>6. Starting(s, m)
    <3>1. \A k \in Ids : Stuck(k) => k # m /\ task'[k].pc = "none" /\ (msgs[k].to = s => msgs[k].turn # m)
      BY <2>1, <2>3, <2>4
    <3>2. \A i \in Ids \ {m} : task'[i].pc = "accepted" => task[i].pc = "accepted"
      BY <2>3, <2>4
    <3> QED BY <1>1, <2>1, <2>2, <2>5, <3>1, <3>2 DEF Starting
  <2> HIDE DEF s
  <2> QED BY <1>2, <2>1, <2>6, StartMatched, StartUnmatched
<1>3. CASE /\ native' = [native EXCEPT ![s].staged = m]
           /\ msgs' = [msgs EXCEPT ![m] = Processed([@ EXCEPT !.unsure = TRUE], "waiting", 0)]
           /\ Goes(m, "over") /\ UNCHANGED <<turn, current>>
  BY <1>1, <1>3, StagedCorrelated
<1> QED BY <1>1, <1>2, <1>3

\* What the runtime does not hold, it does not lose: facts of a slot whose runtime is busy.
LEMMA BusyFacts ==
  ASSUME IInv, phase = "up", Correlated, NEW s \in Slots, native[s] # IdleRuntime
  PROVE  /\ control[s] # "stop" /\ Inputs(s) /\ native[s] \in Runtime
         /\ \A k \in Ids : msgs[k].to = s /\ Stuck(k) =>
              k \notin Has(native[s]) /\ msgs[k].turn \notin {0, native[s].turn, native[s].staged}
<1>1. Inputs(s)
  BY DEF Correlated, InSlot
<1>2. native[s] \in Runtime
  BY DEF IInv, Around
<1> QED BY <1>1, <1>2 DEF Inputs, Stuck, Parked

\* The last answer to a start: the Turn began after all.
LEMMA AnswersStart ==
  ASSUME IInv, IInv', phase = "up", Correlated, NEW s \in Slots, native[s].staged # 0, events[s] = <<>>,
         TurnStarts(s, native[s].staged),
         UNCHANGED <<events, task, routing, control, crossed, phase, crashed>>
  PROVE  Correlated'
<1> DEFINE m == native[s].staged
<1>1. native[s] # IdleRuntime
  BY DEF IdleRuntime
<1>2. /\ control[s] # "stop" /\ Inputs(s) /\ native[s] \in Runtime
      /\ \A k \in Ids : msgs[k].to = s /\ Stuck(k) =>
           k \notin Has(native[s]) /\ msgs[k].turn \notin {0, native[s].turn, native[s].staged}
  BY <1>1, BusyFacts
<1>3. m \in Has(native[s])
  BY DEF Has
<1>4. m \in Ids /\ m \in Numbers /\ msgs[m].to = s /\ crossed[m] > 0 /\ msgs[m].turn = 0 /\ native[s].turn = 0
  BY <1>2, <1>3, Facts DEF Inputs
<1> HIDE DEF m
<1>5. Further /\ crossed'[m] > 0 /\ \A k \in Numbers \ {m} : crossed'[k] = crossed[k]
  BY <1>4 DEF Further
<1>6. \A k \in Ids : Stuck(k) => k # m /\ task'[k].pc = "none" /\ (msgs[k].to = s => msgs[k].turn # m)
  BY <1>2, <1>4 DEF Stuck, Parked, m
<1>7. Starting(s, m)
  BY <1>2, <1>4, <1>5, <1>6 DEF Starting
<1>8. TurnStarts(s, m)
  BY DEF m
<1> QED BY <1>7, <1>8, StartMatched, StartUnmatched

\* A steer whose answer was lost.
LEMMA SteerLost ==
  ASSUME IInv, IInv', Correlated, NEW m \in Numbers, At(m, "native"), Crossing(m), Goes(m, "failing"),
         msgs' = [msgs EXCEPT ![m] = Delivered(@, "failed")],
         UNCHANGED <<native, turn, routing, control, events, current, phase, crashed>>
  PROVE  Correlated'
<1> DEFINE p == Delivered(msgs[m], "failed")
<1>1. /\ phase = "up" /\ m \in Ids /\ msgs[m] \in Message /\ task[m].pc = "native"
      /\ crossed[m] = 0 /\ msgs[m].turn = 0 /\ msgs[m].unsure = FALSE /\ msgs[m].del \notin {"started", "injected"}
      /\ ~Stuck(m)
  BY NativeFacts
<1>2. Keeps(msgs[m], p)
  BY <1>1, DeliveredKeeps
<1> HIDE DEF p
<1>3. DOMAIN msgs' = Ids /\ msgs'[m] = p /\ \A i \in Ids \ {m} : msgs'[i] = msgs[i]
  <2>1. msgs' = [msgs EXCEPT ![m] = p]
    BY DEF p
  <2> QED BY <1>1, <2>1, OneRecord
<1>4. Further /\ crossed'[m] > 0 /\ \A k \in Numbers \ {m} : crossed'[k] = crossed[k]
  BY <1>1, CrossingMore
<1>5. task \in [Numbers -> Goroutine] /\ Ids \subseteq Numbers
  BY <1>1, Facts
<1>6. \A i \in Numbers \ {m} : task'[i] = task[i]
  BY <1>5 DEF Goes
<1>7. \A i \in Ids : Mild(i)
  BY <1>1, <1>2, <1>3, MildSame, KeepsMild
<1>8. Grown /\ \A q \in Slots : MildIn(q)
  BY <1>3, <1>7, MildGrown DEF MildIn
<1>9. \A i \in Ids : Stuck(i) => Unmoved(i)
  <2> SUFFICES ASSUME NEW i \in Ids, Stuck(i) PROVE Unmoved(i)
    OBVIOUS
  <2>1. task[i].pc = "none" /\ i \notin routing.cancelled /\ i \notin ToSet(turn.queue)
    BY <1>1, StuckFacts
  <2>2. i # m
    BY <1>1
  <2> QED BY <2>1, <2>2, <1>3, <1>5, <1>6 DEF Unmoved
<1>10. \A q \in Slots : Told(q)' = Told(q)
  BY DEF Told
<1>11. \A q \in Slots : Staying(q)
  BY <1>3, <1>9, <1>10, StayingFrom
<1>12. \A q \in Slots : SameSlot(q)
  BY <1>10 DEF SameSlot
<1>13. \A q \in Slots : InSlot(q)'
  BY <1>1, <1>4, <1>8, <1>11, <1>12, SlotKept
<1>14. Crossings'
  <2>1. msgs'[m].turn = 0
    BY <1>1, <1>2, <1>3 DEF Keeps
  <2>2. \A i \in Ids \ {m} : task'[i].pc = "accepted" => task[i].pc = "accepted"
    BY <1>5, <1>6
  <2> QED BY <1>1, <1>3, <1>4, <2>1, <2>2, CrossingsMore
<1> QED BY <1>1, <1>13, <1>14 DEF Correlated

\* A steer that the running Turn takes.
Steered(s, m, p) ==
  /\ p.to = s /\ p.steer = TRUE /\ (Open(p) => Open(msgs[m]))
  /\ p.turn = 0 \/ (p.turn = native[s].turn /\ current[s] = native[s].turn)
LEMMA SteerTaken ==
  ASSUME IInv, IInv', Correlated, NEW m \in Numbers, At(m, "native"), Crossing(m), Goes(m, "accepted"),
         NEW s, s = msgs[m].to, native[s].turn # 0, NEW p, Steered(s, m, p), msgs' = [msgs EXCEPT ![m] = p],
         native' = [native EXCEPT ![s].inputs = @ \cup {m}],
         UNCHANGED <<turn, routing, control, events, current, phase, crashed>>
  PROVE  Correlated'
<1> DEFINE n == [native[s] EXCEPT !.inputs = @ \cup {m}]
<1>1. /\ phase = "up" /\ m \in Ids /\ msgs[m] \in Message /\ s \in Slots /\ task[m].pc = "native"
      /\ crossed[m] = 0 /\ msgs[m].turn = 0 /\ control[s] = "none" /\ ~Stuck(m) /\ m # 0
      /\ \A k \in Ids : Stuck(k) => k # m /\ task[k].pc = "none" /\ msgs[k].turn # m
  BY NativeFacts, NumberFacts
<1>2. p.to = s /\ p.steer = TRUE /\ (Open(p) => Open(msgs[m]))
      /\ (p.turn = 0 \/ (p.turn = native[s].turn /\ current[s] = native[s].turn))
  BY DEF Steered
<1>3. DOMAIN msgs' = Ids /\ msgs'[m] = p /\ \A i \in Ids \ {m} : msgs'[i] = msgs[i]
  BY <1>1, OneRecord
<1>4. Further /\ crossed'[m] > 0 /\ \A k \in Numbers \ {m} : crossed'[k] = crossed[k]
  BY <1>1, CrossingMore
<1>5. /\ native \in [Slots -> Runtime] /\ task \in [Numbers -> Goroutine] /\ Ids \subseteq Numbers
  BY <1>1, Facts DEF IInv, Around
<1>6. task'[m].pc = "accepted" /\ \A i \in Numbers \ {m} : task'[i] = task[i]
  BY <1>5 DEF Goes, Goroutine
<1>7. native'[s] = n /\ n.turn = native[s].turn /\ n.inputs = native[s].inputs \cup {m} /\ n.staged = native[s].staged
      /\ \A q \in Slots \ {s} : native'[q] = native[q]
  <2>1. native[s] \in Runtime
    BY <1>1, <1>5
  <2>2. n.turn = native[s].turn /\ n.inputs = native[s].inputs \cup {m} /\ n.staged = native[s].staged
    BY <2>1 DEF Runtime
  <2> QED BY <1>1, <1>5, <2>2
<1> HIDE DEF n
<1>8. native[s] # IdleRuntime
  BY DEF IdleRuntime
<1>9. /\ Reports(s) /\ Inputs(s) /\ Numbered(s) /\ Ending(s) /\ Turning(s) /\ Unmarked(s)
  BY <1>1 DEF Correlated, InSlot
<1>10. Grown
  BY <1>2, <1>3 DEF Grown
<1>11. ASSUME NEW k \in Ids, Stuck(k) PROVE Unmoved(k)
  <2>1. k # m /\ k \notin routing.cancelled /\ k \notin ToSet(turn.queue) /\ task[k].pc = "none"
    BY <1>1, <1>11, StuckFacts
  <2> QED BY <2>1, <1>3, <1>5, <1>6 DEF Unmoved
<1>12. \A q \in Slots \ {s} : InSlot(q)'
  <2>1. Elsewhere(s)
    <3>1. \A i \in Ids : msgs[i].to # s => msgs'[i] = msgs[i]
      BY <1>3
    <3>2. \A q \in Slots : turn'.owner = q => turn'.boundary = FALSE \/ (turn.owner = q /\ turn'.boundary = turn.boundary)
      OBVIOUS
    <3> QED BY <1>7, <1>11, <3>1, <3>2 DEF Elsewhere
  <2> QED BY <1>1, <1>4, <1>10, <2>1, ElsewhereKept
<1>13. native[s].turn \in Ids /\ crossed[native[s].turn] > 0 /\ native[s].staged = 0 /\ native[s].turn \in native[s].inputs
  BY <1>9 DEF Inputs, Has
<1>14. Crossings'
  <2>1. \A i \in Ids \ {m} : task'[i].pc = "accepted" => task[i].pc = "accepted"
    BY <1>5, <1>6
  <2>2. crossed'[native[s].turn] > 0
    BY <1>4, <1>5, <1>13 DEF Further
  <2>3. msgs'[m].turn # 0 => crossed'[msgs'[m].turn] > 0
    BY <1>2, <1>3, <2>2
  <2> QED BY <1>1, <1>2, <1>3, <1>4, <2>1, <2>3, CrossingsMore
<1>15. Told(s)' = Told(s) /\ \A e \in Told(s) : e.msg # m
  <2>1. \A e \in Told(s) : crossed[e.msg] > 0
    BY <1>9 DEF Reports
  <2> QED BY <2>1, <1>1 DEF Told
<1>16. ASSUME NEW k \in Ids, msgs[k].to = s, Stuck(k) PROVE Stuck(k)' /\ Blocked(s)'
  <2>1. k # m /\ Unmoved(k) /\ k \notin Has(native[s]) /\ msgs[k].turn \notin {native[s].turn, native[s].staged}
    BY <1>1, <1>11, <1>16 DEF Stuck
  <2>2. native'[msgs[k].to] = n /\ msgs'[k].to = s /\ msgs[k].to = s /\ msgs'[k] = msgs[k]
    BY <1>7, <1>16, <2>1 DEF Unmoved
  <2>3. k \notin Has(native[msgs[k].to])' /\ msgs[k].turn \notin {native'[msgs[k].to].turn, native'[msgs[k].to].staged}
    BY <1>7, <2>1, <2>2 DEF Has
  <2>4. \A e \in Told(msgs[k].to)' : e \in Told(msgs[k].to) \/ (e.msg # k /\ e.turn # msgs[k].turn)
    BY <1>15, <2>2
  <2>5. k \in DOMAIN msgs'
    BY <1>3
  <2> QED BY <1>16, <2>1, <2>2, <2>3, <2>4, <2>5, StuckKept DEF Unmoved
<1>17. InSlot(s)'
  <2>1. Reports(s)'
    <3> SUFFICES ASSUME NEW e \in Told(s)'
        PROVE  /\ e.msg \in DOMAIN msgs' /\ msgs'[e.msg].to = s /\ crossed'[e.msg] > 0
               /\ e.turn # 0 =>
                    /\ crossed'[e.turn] > 0 /\ msgs'[e.msg].turn \in {0, e.turn}
                    /\ e.turn = e.msg \/ msgs'[e.msg].steer = TRUE
                    /\ \A f \in Told(s)' : f.msg = e.msg => f.turn \in {0, e.turn}
      BY DEF Reports, Ids
    <3>0. e \in Told(s) /\ Told(s)' = Told(s)
      BY <1>15
    <3>1. /\ e.msg \in Ids /\ msgs[e.msg].to = s /\ crossed[e.msg] > 0
          /\ e.turn # 0 =>
               /\ crossed[e.turn] > 0 /\ msgs[e.msg].turn \in {0, e.turn}
               /\ e.turn = e.msg \/ msgs[e.msg].steer = TRUE
               /\ \A f \in Told(s) : f.msg = e.msg => f.turn \in {0, e.turn}
      BY <3>0, <1>9 DEF Reports
    <3>2. msgs'[e.msg] = msgs[e.msg] /\ e.msg \in Numbers /\ (e.turn # 0 => e.turn \in Numbers)
      <4>1. e \in Report
        BY <1>1, <3>0, ToldTyped
      <4> QED BY <3>0, <4>1, <1>3, <1>5, <1>15, <3>1, NumberFacts DEF Report
    <3> QED BY <3>0, <3>1, <3>2, <1>3, <1>4 DEF Further
  <2>2. Inputs(s)'
    <3>1. ASSUME NEW k \in Has(n)
          PROVE  k \in Ids' /\ msgs'[k].to = s /\ crossed'[k] > 0 /\ \A e \in Told(s)' : e.msg # k
      <4>1. k = m \/ k \in Has(native[s])
        BY <1>7, <3>1 DEF Has
      <4>2. CASE k = m
        BY <4>2, <1>1, <1>2, <1>3, <1>4, <1>15 DEF Ids
      <4>3. CASE k # m /\ k \in Has(native[s])
        BY <4>3, <1>3, <1>4, <1>5, <1>9, <1>15 DEF Inputs, Ids, Further
      <4> QED BY <4>1, <4>2, <4>3
    <3>2. ASSUME NEW k \in n.inputs PROVE msgs'[k].turn \in {0, n.turn} /\ (k = n.turn \/ msgs'[k].steer = TRUE)
      <4>1. CASE k = m
        BY <4>1, <1>2, <1>3, <1>7
      <4>2. CASE k # m
        <5>1. k \in native[s].inputs /\ k \in Has(native[s])
          BY <4>2, <1>7, <3>2 DEF Has
        <5>2. k \in Ids /\ msgs'[k] = msgs[k]
          BY <5>1, <4>2, <1>3, <1>9 DEF Inputs
        <5> QED BY <5>1, <5>2, <1>7, <1>9 DEF Inputs
      <4> QED BY <4>1, <4>2
    <3>3. n.turn # 0 /\ n.turn \in n.inputs /\ n.staged = 0 /\ control'[s] # "stop"
      BY <1>1, <1>7, <1>13
    <3>4. \A e \in Told(s)' : e.kind = "boundary" => e.turn \notin {0, n.turn}
      BY <1>7, <1>8, <1>9, <1>15 DEF Inputs
    <3> QED BY <1>7, <3>1, <3>2, <3>3, <3>4 DEF Inputs, Has
  <2>3. Numbered(s)'
    <3> SUFFICES ASSUME NEW k \in Ids', msgs'[k].to = s, Open(msgs'[k]), msgs'[k].turn # 0
                 PROVE  msgs'[k].turn = current[s] \/ Stuck(k)'
      BY DEF Numbered
    <3>1. CASE k = m
      BY <3>1, <1>2, <1>3
    <3>2. CASE k # m
      <4>1. k \in Ids /\ msgs'[k] = msgs[k]
        BY <3>2, <1>3 DEF Ids
      <4> QED BY <4>1, <1>9, <1>16 DEF Numbered
    <3> QED BY <3>1, <3>2
  <2>4. Blocked(s) => Blocked(s)'
    BY <1>16 DEF Blocked
  <2>5. Ending(s)' /\ Turning(s)'
    BY <1>1, <1>7, <1>9, <1>15, <2>4 DEF Ending, Turning, Timely
  <2>6. Blocked(s)' => current[s] = 0
    <3> SUFFICES ASSUME NEW k \in Ids', msgs'[k].to = s, Stuck(k)' PROVE current[s] = 0
      BY DEF Blocked
    <3>1. task'[k].pc = "none" /\ Open(msgs'[k]) /\ msgs'[k].turn # 0 /\ msgs'[k].turn # native'[s].turn
      BY DEF Stuck, Parked
    <3>2. k # m /\ k \in Ids /\ msgs'[k] = msgs[k]
      BY <1>3, <1>6, <3>1 DEF Ids
    <3>3. msgs[k].turn = current[s] \/ Stuck(k)
      BY <1>9, <3>1, <3>2 DEF Numbered
    <3>4. Blocked(s) => current[s] = 0
      BY <1>1, <1>9 DEF Unmarked
    <3>5. Stuck(k) => current[s] = 0
      BY <3>2, <3>4 DEF Blocked
    <3> QED BY <1>7, <1>9, <3>1, <3>2, <3>3, <3>4, <3>5 DEF Turning
  <2>7. Unmarked(s)'
    BY <1>7, <1>9, <1>15, <2>6 DEF Unmarked
  <2> QED BY <2>1, <2>2, <2>3, <2>5, <2>7 DEF InSlot
<1> QED BY <1>1, <1>12, <1>14, <1>17 DEF Correlated

LEMMA SteerAcceptedCorrelated == ASSUME IInv, IInv', Correlated, NEW m \in Numbers, SteerAccepted(m) PROVE Correlated'
<1> DEFINE s == msgs[m].to
           k == native[s].turn
           q == Processed(msgs[m], "working", k)
           p == IF TurnMatches(msgs, s, m, k) THEN q ELSE msgs[m]
<1>1. /\ At(m, "native") /\ task[m].steer /\ native[s].turn # 0 /\ Crossing(m)
      /\ \/ /\ native' = [native EXCEPT ![s].inputs = @ \cup {m}]
            /\ msgs' = IF TurnMatches(msgs, s, m, k) THEN [msgs EXCEPT ![m] = q] ELSE msgs
            /\ Goes(m, "accepted")
         \/ /\ msgs' = [msgs EXCEPT ![m] = Delivered(@, "failed")]
            /\ Goes(m, "failing") /\ UNCHANGED native
      /\ UNCHANGED <<turn, routing, control, events, current, phase, crashed>>
  BY DEF SteerAccepted
<1>2. /\ phase = "up" /\ m \in Ids /\ msgs[m] \in Message /\ s \in Slots /\ task[m].pc = "native" /\ msgs[m].turn = 0
  BY <1>1, NativeFacts
<1>3. msgs[m].steer = TRUE /\ k \in 0..MaxMessages /\ msgs \in Seq(Message)
  <2>1. msgs[m].steer
    BY <1>1, <1>2, Facts DEF Core, Relays, Ids
  <2>2. native[s] \in Runtime
    BY <1>2 DEF IInv, Around
  <2> QED BY <1>2, <2>1, <2>2, Facts DEF Message, Runtime
<1>4. q.to = s /\ q.steer = TRUE /\ q.turn \in {0, k} /\ (Open(q) => Open(msgs[m]))
  <2> HIDE DEF k
  <2>1. "working" \in {"working"} \cup Settled
    OBVIOUS
  <2>2. /\ q.to = msgs[m].to /\ q.steer = msgs[m].steer
        /\ IF ProcessingAllowed(msgs[m].proc, "working") THEN q.proc = "working" /\ q.turn = k ELSE q = msgs[m]
    BY <1>2, <1>3, <2>1, ProcessedFields
  <2> HIDE DEF q
  <2> QED BY <1>2, <1>3, <2>2 DEF ProcessingAllowed, Open, Settled
<1> HIDE DEF q
<1>5. ASSUME TurnMatches(msgs, s, m, k) PROVE current[s] = k
  <2>1. Turning(s) /\ Reports(s)
    BY <1>2 DEF Correlated, InSlot
  <2>2. ~Blocked(s)
    <3> SUFFICES ASSUME NEW j \in Ids, msgs[j].to = s, Stuck(j) PROVE FALSE
      BY DEF Blocked
    <3>1. Open(msgs[j]) /\ msgs[j].turn # 0 /\ msgs[j].turn # k
      BY DEF Stuck, Parked
    <3> HIDE DEF s, k
    <3>2. k # 0
      BY <1>1 DEF s, k
    <3> QED BY <1>2, <1>5, <3>1, <3>2 DEF TurnMatches, Ids
  <2> QED BY <1>1, <2>1, <2>2 DEF Turning
<1>6. Steered(s, m, p)
  BY <1>2, <1>3, <1>4, <1>5 DEF Steered
<1>7. CASE /\ native' = [native EXCEPT ![s].inputs = @ \cup {m}]
           /\ msgs' = IF TurnMatches(msgs, s, m, k) THEN [msgs EXCEPT ![m] = q] ELSE msgs
           /\ Goes(m, "accepted")
  <2>1. msgs' = [msgs EXCEPT ![m] = p]
    <3>1. CASE TurnMatches(msgs, s, m, k)
      BY <1>7, <3>1
    <3>2. CASE ~TurnMatches(msgs, s, m, k)
      <4>1. msgs' = msgs /\ p = msgs[m]
        BY <1>7, <3>2
      <4>2. msgs = [msgs EXCEPT ![m] = msgs[m]]
        BY <1>3
      <4> QED BY <4>1, <4>2
    <3> QED BY <3>1, <3>2
  <2> HIDE DEF p
  <2> QED BY <1>1, <1>6, <1>7, <2>1, SteerTaken
<1>8. CASE /\ msgs' = [msgs EXCEPT ![m] = Delivered(@, "failed")]
           /\ Goes(m, "failing") /\ UNCHANGED native
  BY <1>1, <1>8, SteerLost
<1> QED BY <1>1, <1>7, <1>8

-----------------------------------------------------------------------------
\* The runtime of a slot gives up what it has and says so.
Closing(s) ==
  /\ native' = [native EXCEPT ![s] = IdleRuntime] /\ control[s] # "stop"
  /\ \A q \in Slots \ {s} : events'[q] = events[q] /\ control'[q] = control[q]
  /\ Told(s) \subseteq Told(s)'
  /\ \A e \in Told(s)' :
       \/ e \in Told(s)
       \/ /\ e.msg \in Has(native[s]) /\ e.turn \in {0, native[s].turn}
          /\ e.kind = "boundary" => e.turn = native[s].turn
  /\ native[s].turn # 0 /\ control'[s] # "stop" =>
       \E e \in Told(s)' : e.kind = "boundary" /\ e.turn = native[s].turn
LEMMA ClosingReports ==
  ASSUME IInv, phase = "up", Correlated, NEW s \in Slots, Closing(s), DOMAIN msgs' = Ids,
         \A i \in Ids : Mild(i), crossed' = crossed
  PROVE  Reports(s)'
<1>1. Reports(s) /\ Inputs(s)
  BY DEF Correlated, InSlot
<1>2. SUFFICES ASSUME NEW e \in Told(s)'
      PROVE  /\ e.msg \in DOMAIN msgs' /\ msgs'[e.msg].to = s /\ crossed'[e.msg] > 0
             /\ e.turn # 0 =>
                  /\ crossed'[e.turn] > 0 /\ msgs'[e.msg].turn \in {0, e.turn}
                  /\ e.turn = e.msg \/ msgs'[e.msg].steer = TRUE
                  /\ \A f \in Told(s)' : f.msg = e.msg => f.turn \in {0, e.turn}
  BY DEF Reports, Ids
<1>3. \A k \in Has(native[s]) : k \in Ids /\ msgs[k].to = s /\ crossed[k] > 0 /\ \A f \in Told(s) : f.msg # k
  BY <1>1 DEF Inputs
<1>4. \A f \in Told(s)' : f \in Told(s) \/ (f.msg \in Has(native[s]) /\ f.turn \in {0, native[s].turn})
  BY DEF Closing
<1>5. CASE e \in Told(s)
  <2>1. /\ e.msg \in Ids /\ msgs[e.msg].to = s /\ crossed[e.msg] > 0
        /\ e.turn # 0 =>
             /\ crossed[e.turn] > 0 /\ msgs[e.msg].turn \in {0, e.turn}
             /\ e.turn = e.msg \/ msgs[e.msg].steer = TRUE
             /\ \A f \in Told(s) : f.msg = e.msg => f.turn \in {0, e.turn}
    BY <1>1, <1>5 DEF Reports
  <2>2. \A f \in Told(s)' : f.msg = e.msg => f \in Told(s)
    BY <1>3, <1>4, <1>5
  <2>3. Mild(e.msg)
    BY <2>1
  <2>4. ASSUME e.turn # 0 PROVE msgs'[e.msg].turn \in {0, e.turn}
    <3>1. CASE msgs'[e.msg].turn \in {0, msgs[e.msg].turn}
      BY <3>1, <2>1, <2>4
    <3>2. CASE \E f \in Told(s) : f.msg = e.msg /\ f.turn = msgs'[e.msg].turn
      BY <3>2, <2>1, <2>4
    <3> QED BY <2>1, <2>3, <3>1, <3>2 DEF Mild
  <2> QED BY <2>1, <2>2, <2>3, <2>4 DEF Mild
<1>6. CASE e \notin Told(s)
  <2> DEFINE k == e.msg
  <2>1. k \in Has(native[s]) /\ e.turn \in {0, native[s].turn}
    BY <1>4, <1>6
  <2>2. k \in Ids /\ msgs[k].to = s /\ crossed[k] > 0 /\ Mild(k) /\ \A f \in Told(s) : f.msg # k
    BY <1>3, <2>1
  <2>3. ASSUME e.turn # 0
        PROVE  /\ crossed[e.turn] > 0 /\ msgs'[k].turn \in {0, e.turn}
               /\ e.turn = k \/ msgs'[k].steer = TRUE
               /\ \A f \in Told(s)' : f.msg = k => f.turn \in {0, e.turn}
    <3>1. e.turn = native[s].turn /\ native[s].turn # 0
      BY <2>1, <2>3
    <3>2. native[s].turn \in native[s].inputs /\ native[s].staged = 0
      BY <1>1, <3>1 DEF Inputs
    <3>3. k \in native[s].inputs /\ native[s].turn \in Has(native[s])
      BY <2>1, <3>2 DEF Has
    <3>4. msgs[k].turn \in {0, e.turn} /\ (k = e.turn \/ msgs[k].steer = TRUE) /\ crossed[e.turn] > 0
      BY <1>1, <1>3, <3>1, <3>3 DEF Inputs
    <3>5. msgs'[k].turn \in {0, msgs[k].turn} /\ msgs'[k].steer = msgs[k].steer
      BY <2>2 DEF Mild
    <3>6. \A f \in Told(s)' : f.msg = k => f.turn \in {0, native[s].turn}
      BY <1>4, <2>2
    <3> QED BY <3>1, <3>4, <3>5, <3>6
  <2> QED BY <2>2, <2>3 DEF Mild
<1> QED BY <1>5, <1>6

LEMMA ClosingCorrelated ==
  ASSUME IInv, IInv', phase = "up", Correlated, NEW s \in Slots, Closing(s), DOMAIN msgs' = Ids,
         \A i \in Ids : Mild(i), \A i \in Ids : Stuck(i) => Unmoved(i),
         \A i \in Ids : task'[i].pc = "accepted" => task[i].pc = "accepted",
         \A i \in Ids : msgs[i].to # s => msgs'[i] = msgs[i],
         UNCHANGED <<turn, current, crossed, phase, crashed>>
  PROVE  Correlated'
<1>1. Grown /\ Mildly /\ MildIn(s) /\ Further
  BY MildGrown DEF Mildly, MildIn, Further
<1>2. Crossings'
  BY <1>1, CrossingsKept
<1>3. native \in [Slots -> Runtime] /\ native'[s] = IdleRuntime /\ \A q \in Slots \ {s} : native'[q] = native[q]
  BY DEF IInv, Around, Closing
<1>4. \A q \in Slots \ {s} : InSlot(q)'
  <2>1. Elsewhere(s)
    BY <1>3 DEF Elsewhere, Closing
  <2> QED BY <1>1, <2>1, ElsewhereKept
<1>5. Reports(s)'
  BY ClosingReports
<1>6. /\ Inputs(s) /\ Numbered(s) /\ Ending(s) /\ Unmarked(s)
  BY DEF Correlated, InSlot
<1>7. Staying(s)
  <2>1. \A e \in Told(s)' : e \in Told(s) \/ (e.msg \in Has(native[s]) /\ e.turn \in {0, native[s].turn})
    BY DEF Closing
  <2> QED BY <1>1, <1>3, <2>1, StayingFrom DEF Grown
<1>8. Inputs(s)'
  <2>1. IdleRuntime.turn = 0 /\ IdleRuntime.inputs = {} /\ IdleRuntime.staged = 0 /\ Has(IdleRuntime) = {}
    BY DEF IdleRuntime, Has
  <2> QED BY <1>3, <2>1 DEF Inputs, Has
<1>9. Numbered(s)'
  BY <1>1, <1>7, NumberedKept
<1>10. Ending(s)'
  <2> SUFFICES ASSUME current[s] # 0, control'[s] # "stop"
               PROVE  \E e \in Told(s)' : e.kind = "boundary" /\ e.turn \in {0, current[s]}
    BY DEF Ending, Timely
  <2>1. CASE native[s].turn = current[s]
    <3>1. PICK e \in Told(s)' : e.kind = "boundary" /\ e.turn = native[s].turn
      BY <2>1 DEF Closing
    <3> QED BY <2>1, <3>1
  <2>2. CASE \E e \in Told(s) : e.kind = "boundary" /\ Timely(s, e)
    BY <2>2 DEF Timely, Closing
  <2> QED BY <1>6, <2>1, <2>2 DEF Ending, Closing
<1>11. Turning(s)'
  BY <1>3 DEF Turning, IdleRuntime
<1>12. (\E e \in Told(s)' : e.kind = "boundary" /\ e.turn = 0) => current[s] = 0
  <2> SUFFICES ASSUME NEW e \in Told(s)', e.kind = "boundary", e.turn = 0 PROVE current[s] = 0
    OBVIOUS
  <2>1. CASE e \in Told(s)
    BY <1>6, <2>1 DEF Unmarked
  <2>2. CASE e \notin Told(s)
    <3>1. e.msg \in Has(native[s]) /\ native[s].turn = 0
      BY <2>2 DEF Closing
    <3>2. native[s].inputs = {}
      BY <1>6, <3>1 DEF Inputs
    <3>3. native[s].staged # 0
      BY <3>1, <3>2 DEF Has
    <3> QED BY <1>6, <3>3 DEF Unmarked
  <2> QED BY <2>1, <2>2
<1>13. control'[s] # "stop" /\ Blocked(s)' => current'[s] = 0
  BY <1>1, <1>10, <1>12, BlockedFrom DEF Closing
<1>14. Unmarked(s)'
  BY <1>3, <1>12, <1>13 DEF Unmarked, IdleRuntime
<1> QED BY <1>2, <1>4, <1>5, <1>8, <1>9, <1>10, <1>11, <1>14 DEF Correlated, InSlot

LEMMA Joined ==
  ASSUME NEW X, NEW a \in Seq(X), NEW b \in Seq(X)
  PROVE  /\ a \o b \in Seq(X) /\ Len(a \o b) = Len(a) + Len(b)
         /\ DOMAIN (a \o b) = 1..(Len(a) + Len(b)) /\ DOMAIN a = 1..Len(a) /\ DOMAIN b = 1..Len(b)
         /\ Len(a) \in Nat /\ Len(b) \in Nat
         /\ \A i \in DOMAIN a : i \in DOMAIN (a \o b) /\ (a \o b)[i] = a[i]
         /\ \A i \in DOMAIN b : i + Len(a) \in DOMAIN (a \o b) /\ (a \o b)[i + Len(a)] = b[i]
         /\ \A i \in DOMAIN (a \o b) : \/ i \in DOMAIN a /\ (a \o b)[i] = a[i]
                                       \/ i - Len(a) \in DOMAIN b /\ (a \o b)[i] = b[i - Len(a)]
OBVIOUS

\* Reports of kind k and Turn t, one for each message of S at least.
InputReports(v, S, k, t) ==
  /\ v \in Seq(Report)
  /\ \A i \in DOMAIN v : v[i].msg \in S /\ v[i].turn = t /\ v[i].kind = k
  /\ \A m \in S : \E i \in DOMAIN v : v[i].msg = m

LEMMA InputEventsElements ==
  ASSUME NEW S, S \subseteq Numbers, NEW k \in Settled, NEW t \in 0..MaxMessages, NEW v, v = InputEvents(S, k, t)
  PROVE  InputReports(v, S, k, t)
<1> DEFINE q == InLogOrder(S)
<1>1. q \in Seq(Numbers) /\ ToSet(q) = S
  BY InLogOrderElements
<1>2. v = [i \in DOMAIN q |-> Event(k, q[i], t, k)] /\ v \in Seq(Report)
  BY InputEventsTyped DEF InputEvents
<1> HIDE DEF q
<1>3. \A i \in DOMAIN v : i \in DOMAIN q /\ v[i].msg = q[i] /\ v[i].turn = t /\ v[i].kind = k
  BY <1>2 DEF Event
<1>4. \A i \in DOMAIN q : q[i] \in S /\ i \in DOMAIN v
  BY <1>1, <1>2 DEF ToSet
<1>5. ASSUME NEW m \in S PROVE \E i \in DOMAIN q : q[i] = m
  BY <1>1 DEF ToSet
<1>6. \A m \in S : \E i \in DOMAIN v : v[i].msg = m
  BY <1>3, <1>4, <1>5
<1>7. \A i \in DOMAIN v : v[i].msg \in S
  BY <1>3, <1>4
<1> QED BY <1>2, <1>3, <1>6, <1>7 DEF InputReports

LEMMA EndEventsElements ==
  ASSUME NEW n \in Runtime, NEW o \in Settled, Has(n) # {}
  PROVE  LET v == EndEvents(n, o)
         IN /\ v \in Seq(Report) /\ Len(v) \in Nat /\ Len(v) > 0 /\ DOMAIN v = 1..Len(v)
            /\ v[Len(v)].kind = "boundary" /\ v[Len(v)].turn = n.turn
            /\ \A i \in DOMAIN v : v[i].msg \in Has(n) /\ v[i].turn = n.turn
            /\ \A m \in Has(n) : \E i \in DOMAIN v : v[i].kind \in Settled /\ v[i].msg = m
<1> DEFINE S == Has(n)
           ea == Event("final", Max(S), n.turn, o)
           ec == Event("boundary", Max(S), n.turn, o)
           a == IF o = "completed" THEN <<ea>> ELSE <<>>
           b == InputEvents(S, o, n.turn)
           c == <<ec>>
           v == EndEvents(n, o)
<1>1. S \subseteq Numbers /\ S # {} /\ n.turn \in 0..MaxMessages
  BY NumberFacts DEF Runtime, Has
<1>2. Max(S) \in S
  <2>1. S \subseteq 0..MaxMessages /\ MaxMessages \in Nat
    BY <1>1, NumberFacts
  <2> HIDE DEF S
  <2> QED BY <1>1, <2>1, MaxOf
<1>3. v = (a \o b) \o c
  BY DEF EndEvents, Has
<1> HIDE DEF S, v
<1>4. ea \in Report /\ ec \in Report /\ ea.msg \in S /\ ec.msg \in S /\ ea.turn = n.turn /\ ec.turn = n.turn /\ ec.kind = "boundary"
  BY <1>1, <1>2 DEF Event, Report, EventKinds
<1> HIDE DEF ea, ec
<1>5. /\ a \in Seq(Report) /\ \A i \in DOMAIN a : a[i].msg \in S /\ a[i].turn = n.turn
      /\ c \in Seq(Report) /\ Len(c) = 1 /\ 1 \in DOMAIN c /\ c[1] = ec /\ \A i \in DOMAIN c : i = 1
  BY <1>4
<1>6. /\ b \in Seq(Report)
      /\ \A i \in DOMAIN b : b[i].msg \in S /\ b[i].turn = n.turn /\ b[i].kind = o
      /\ \A m \in S : \E i \in DOMAIN b : b[i].msg = m
  <2>1. S \subseteq Numbers /\ n.turn \in 0..MaxMessages /\ b = InputEvents(S, o, n.turn)
    BY <1>1
  <2> HIDE DEF a, b, c
  <2>2. InputReports(b, S, o, n.turn)
    BY <2>1, InputEventsElements
  <2> QED BY <2>2 DEF InputReports
<1> HIDE DEF a, b, c
<1> DEFINE w == a \o b
<1>7. /\ w \in Seq(Report) /\ Len(w) \in Nat
      /\ \A i \in DOMAIN w : w[i].msg \in S /\ w[i].turn = n.turn
      /\ \A m \in S : \E i \in DOMAIN w : w[i].msg = m /\ w[i].kind = o
  <2>1. /\ w \in Seq(Report) /\ Len(w) \in Nat
        /\ \A i \in DOMAIN b : i + Len(a) \in DOMAIN w /\ w[i + Len(a)] = b[i]
        /\ \A i \in DOMAIN w : \/ i \in DOMAIN a /\ w[i] = a[i]
                               \/ i - Len(a) \in DOMAIN b /\ w[i] = b[i - Len(a)]
    BY <1>5, <1>6, Joined
  <2> HIDE DEF w
  <2>2. ASSUME NEW m \in S PROVE \E i \in DOMAIN w : w[i].msg = m /\ w[i].kind = o
    <3>1. PICK i \in DOMAIN b : b[i].msg = m
      BY <1>6
    <3> QED BY <3>1, <2>1, <1>6
  <2>3. ASSUME NEW i \in DOMAIN w PROVE w[i].msg \in S /\ w[i].turn = n.turn
    <3>1. CASE i \in DOMAIN a /\ w[i] = a[i]
      BY <3>1, <1>5
    <3>2. CASE i - Len(a) \in DOMAIN b /\ w[i] = b[i - Len(a)]
      BY <3>2, <1>6
    <3> QED BY <2>1, <3>1, <3>2
  <2> QED BY <2>1, <2>2, <2>3
<1> HIDE DEF w
<1>8. /\ v \in Seq(Report) /\ Len(v) = Len(w) + 1 /\ DOMAIN v = 1..Len(v)
      /\ \A i \in DOMAIN w : i \in DOMAIN v /\ v[i] = w[i]
      /\ v[Len(v)] = ec
      /\ \A i \in DOMAIN v : (i \in DOMAIN w /\ v[i] = w[i]) \/ v[i] = ec
  <2>1. v = w \o c
    BY <1>3 DEF w
  <2>a. w \in Seq(Report) /\ c \in Seq(Report)
    BY <1>5, <1>7
  <2>b. /\ w \o c \in Seq(Report) /\ Len(w \o c) = Len(w) + Len(c) /\ DOMAIN (w \o c) = 1..(Len(w) + Len(c))
        /\ \A i \in DOMAIN w : i \in DOMAIN (w \o c) /\ (w \o c)[i] = w[i]
        /\ \A i \in DOMAIN c : (w \o c)[i + Len(w)] = c[i]
        /\ \A i \in DOMAIN (w \o c) : \/ i \in DOMAIN w /\ (w \o c)[i] = w[i]
                                      \/ i - Len(w) \in DOMAIN c /\ (w \o c)[i] = c[i - Len(w)]
    BY <2>a, Joined
  <2>2. /\ w \o c \in Seq(Report) /\ Len(w \o c) = Len(w) + 1 /\ DOMAIN (w \o c) = 1..(Len(w) + 1)
        /\ \A i \in DOMAIN w : i \in DOMAIN (w \o c) /\ (w \o c)[i] = w[i]
        /\ \A i \in DOMAIN c : (w \o c)[i + Len(w)] = c[i]
        /\ \A i \in DOMAIN (w \o c) : \/ i \in DOMAIN w /\ (w \o c)[i] = w[i]
                                      \/ i - Len(w) \in DOMAIN c /\ (w \o c)[i] = c[i - Len(w)]
    BY <2>b, <1>5
  <2>3. (w \o c)[Len(w) + 1] = ec
    BY <2>2, <1>5, <1>7
  <2> QED BY <2>1, <2>2, <2>3, <1>5, <1>7
<1>9. Len(v) \in Nat /\ Len(v) > 0 /\ v[Len(v)].kind = "boundary" /\ v[Len(v)].turn = n.turn
  BY <1>4, <1>7, <1>8
<1>10. \A i \in DOMAIN v : v[i].msg \in S /\ v[i].turn = n.turn
  BY <1>4, <1>7, <1>8
<1>11. \A m \in S : \E i \in DOMAIN v : v[i].kind \in Settled /\ v[i].msg = m
  BY <1>7, <1>8
<1> QED BY <1>8, <1>9, <1>10, <1>11 DEF S, v

LEMMA ToldJoined ==
  ASSUME Around, NEW s \in Slots, NEW v \in Seq(Report), events' = [events EXCEPT ![s] = @ \o v]
  PROVE  /\ \A q \in Slots \ {s} : events'[q] = events[q]
         /\ Told(s) \subseteq Told(s)'
         /\ \A i \in DOMAIN v : v[i] \in Told(s)'
         /\ \A e \in Told(s)' : e \in Told(s) \/ \E i \in DOMAIN v : e = v[i]
<1>1. events \in [Slots -> Seq(Report)]
  BY DEF Around
<1> DEFINE u == events[s]
           w == u \o v
<1>2. u \in Seq(Report) /\ events'[s] = w /\ \A q \in Slots \ {s} : events'[q] = events[q]
  BY <1>1
<1>3. /\ \A i \in DOMAIN u : i \in DOMAIN w /\ w[i] = u[i]
      /\ \A i \in DOMAIN v : i + Len(u) \in DOMAIN w /\ w[i + Len(u)] = v[i]
      /\ \A i \in DOMAIN w : \/ i \in DOMAIN u /\ w[i] = u[i]
                             \/ i - Len(u) \in DOMAIN v /\ w[i] = v[i - Len(u)]
  BY <1>2, Joined
<1>4. Told(s)' = {w[i] : i \in DOMAIN w} /\ Told(s) = {u[i] : i \in DOMAIN u}
  BY <1>2 DEF Told
<1> HIDE DEF u, w
<1> QED BY <1>2, <1>3, <1>4

LEMMA EndsClosing ==
  ASSUME IInv, phase = "up", Correlated, NEW s \in Slots, NEW o \in Settled, Ends(s, o), control[s] # "stop",
         \A q \in Slots \ {s} : control'[q] = control[q]
  PROVE  Closing(s)
<1>1. native \in [Slots -> Runtime] /\ Around
  BY DEF IInv, Around
<1>2. CASE native[s] = IdleRuntime
  <2>1. native' = native /\ events' = events
    BY <1>2 DEF Ends
  <2>2. native' = [native EXCEPT ![s] = IdleRuntime] /\ native[s].turn = 0
    BY <1>1, <1>2, <2>1 DEF IdleRuntime
  <2>3. Told(s)' = Told(s)
    BY <2>1 DEF Told
  <2> QED BY <2>1, <2>2, <2>3 DEF Closing
<1>3. CASE native[s] # IdleRuntime
  <2> DEFINE n == native[s]
             v == EndEvents(n, o)
  <2>1. native' = [native EXCEPT ![s] = IdleRuntime] /\ events' = [events EXCEPT ![s] = @ \o v]
    BY <1>3 DEF Ends
  <2>2. n \in Runtime /\ Has(n) # {}
    BY <1>1, <1>3, RuntimeFacts DEF Has
  <2> HIDE DEF n
  <2>3. /\ v \in Seq(Report) /\ Len(v) \in DOMAIN v
        /\ v[Len(v)].kind = "boundary" /\ v[Len(v)].turn = n.turn
        /\ \A i \in DOMAIN v : v[i].msg \in Has(n) /\ v[i].turn = n.turn
    BY <2>2, EndEventsElements
  <2> HIDE DEF v
  <2>4. /\ \A q \in Slots \ {s} : events'[q] = events[q]
        /\ Told(s) \subseteq Told(s)'
        /\ \A i \in DOMAIN v : v[i] \in Told(s)'
        /\ \A e \in Told(s)' : e \in Told(s) \/ \E i \in DOMAIN v : e = v[i]
    BY <1>1, <2>1, <2>3, ToldJoined
  <2>5. \A e \in Told(s)' : e \in Told(s) \/ (e.msg \in Has(n) /\ e.turn = n.turn)
    BY <2>3, <2>4
  <2>6. \E e \in Told(s)' : e.kind = "boundary" /\ e.turn = n.turn
    BY <2>3, <2>4
  <2> QED BY <2>1, <2>4, <2>5, <2>6 DEF Closing, n
<1> QED BY <1>2, <1>3

\* A runtime ends what it has; nothing else happens.
LEMMA OnlyEnds ==
  ASSUME IInv, IInv', phase = "up", Correlated, NEW s \in Slots, NEW o \in Settled, Ends(s, o), control[s] # "stop",
         \A q \in Slots \ {s} : control'[q] = control[q],
         UNCHANGED <<msgs, turn, task, routing, current, crossed, phase, crashed>>
  PROVE  Correlated'
<1>1. Closing(s)
  BY EndsClosing
<1>2. DOMAIN msgs' = Ids /\ \A i \in Ids : msgs'[i] = msgs[i] /\ Mild(i)
  BY MildSame DEF Ids
<1>3. \A i \in Ids : Stuck(i) => Unmoved(i)
  BY StuckFacts DEF Unmoved
<1> QED BY <1>1, <1>2, <1>3, ClosingCorrelated

\* A step that only turns a slot's lock, or asks a runtime to stop.
LEMMA OnlyAsks ==
  ASSUME IInv, IInv', phase = "up", Correlated,
         \A q \in Slots : control'[q] = "stop" <=> control[q] = "stop",
         UNCHANGED <<msgs, turn, task, routing, native, events, current, crossed, phase, crashed>>
  PROVE  Correlated'
<1>1. \A i \in Ids : Mild(i)
  BY MildSame
<1>2. Softly
  BY SameTold, StuckFacts DEF Softly, Unmoved, Ids
<1>3. Grown
  BY <1>1, MildGrown DEF Ids
<1> QED BY <1>1, <1>2, <1>3, SoftlyCorrelated

LEMMA TurnEndsCorrelated ==
  ASSUME IInv, IInv', Correlated, NEW s \in Slots, NEW o \in Settled, TurnEnds(s, o) PROVE Correlated'
<1>1. /\ phase = "up" /\ native[s].turn # 0 /\ Ends(s, o)
      /\ UNCHANGED <<msgs, turn, task, routing, control, current, crossed, phase, crashed>>
  BY DEF TurnEnds
<1>2. control[s] # "stop"
  BY <1>1, BusyFacts DEF IdleRuntime
<1> QED BY <1>1, <1>2, OnlyEnds

LEMMA AnswersLateCorrelated ==
  ASSUME IInv, IInv', Correlated, NEW s \in Slots, AnswersLate(s) PROVE Correlated'
<1>1. /\ phase = "up" /\ native[s].staged # 0 /\ events[s] = <<>>
      /\ \/ TurnStarts(s, native[s].staged) /\ UNCHANGED events
         \/ Ends(s, "failed") /\ UNCHANGED <<msgs, turn, current>>
      /\ UNCHANGED <<task, routing, control, crossed, phase, crashed>>
  BY DEF AnswersLate
<1>2. control[s] # "stop" /\ "failed" \in Settled
  BY <1>1, BusyFacts DEF IdleRuntime, Settled
<1>3. CASE TurnStarts(s, native[s].staged) /\ UNCHANGED events
  BY <1>1, <1>3, AnswersStart
<1>4. CASE Ends(s, "failed") /\ UNCHANGED <<msgs, turn, current>>
  BY <1>1, <1>2, <1>4, OnlyEnds
<1> QED BY <1>1, <1>3, <1>4

LEMMA CancelAcceptedCorrelated ==
  ASSUME IInv, IInv', Correlated, NEW m \in Numbers, CancelAccepted(m) PROVE Correlated'
<1> DEFINE s == msgs[m].to
<1>1. /\ phase = "up" /\ m \in Ids /\ control[s] = "none"
      /\ Interrupts(s) /\ control' = [control EXCEPT ![s] = "cancel"]
      /\ UNCHANGED <<msgs, turn, task, routing, current, crossed, phase, crashed>>
  BY DEF CancelAccepted, LockFree
<1>2. s \in Slots /\ control \in [Slots -> {"none", "cancel", "stop"}] /\ "failed" \in Settled
  BY <1>1, Facts DEF Around, Settled
<1> HIDE DEF s
<1>3. control'[s] = "cancel" /\ \A q \in Slots \ {s} : control'[q] = control[q]
  BY <1>1, <1>2
<1>4. CASE s \in Steering
  <2>1. UNCHANGED <<native, events>>
    BY <1>1, <1>4 DEF Interrupts
  <2>2. \A q \in Slots : control'[q] = "stop" <=> control[q] = "stop"
    BY <1>1, <1>3
  <2> QED BY <1>1, <2>1, <2>2, OnlyAsks
<1>5. CASE s \notin Steering
  <2>1. Ends(s, "failed")
    BY <1>1, <1>5 DEF Interrupts
  <2> QED BY <1>1, <1>2, <1>3, <2>1, OnlyEnds
<1> QED BY <1>4, <1>5

LEMMA MaterializeFailsCorrelated ==
  ASSUME IInv, IInv', Correlated, NEW m \in Numbers, MaterializeFails(m) PROVE Correlated'
<1> DEFINE s == msgs[m].to
           d == Delivered(msgs[m], "started")
           q == Failed(d)
<1>1. /\ At(m, "accepted") /\ phase = "up" /\ m \in Ids /\ task[m].pc = "accepted" /\ Interrupts(s)
      /\ msgs' = [msgs EXCEPT ![m] = q] /\ Goes(m, "over")
      /\ UNCHANGED <<turn, routing, control, current, crossed, phase, crashed>>
  BY DEF MaterializeFails, At
<1>2. /\ msgs[m] \in Message /\ s \in Slots /\ control[s] = "none" /\ "failed" \in Settled
      /\ task \in [Numbers -> Goroutine] /\ Ids \subseteq Numbers
  BY <1>1, Facts DEF Excluded, Locking, Settled
<1>3. /\ d \in Message /\ d.to = s /\ d.steer = msgs[m].steer /\ d.proc = msgs[m].proc /\ d.turn = msgs[m].turn
  BY <1>2, DeliveredFields
<1>4. q.to = s /\ q.steer = msgs[m].steer /\ ~Open(q) /\ q.turn \in {0, msgs[m].turn}
  <2> HIDE DEF d
  <2> QED BY <1>3, FailedQuiet DEF Quiet, Keeps
<1> HIDE DEF q, d
<1>5. DOMAIN msgs' = Ids /\ msgs'[m] = q /\ \A i \in Ids \ {m} : msgs'[i] = msgs[i]
  BY <1>1, OneRecord
<1>6. crossed[m] # 0
  BY <1>1 DEF Correlated, Crossings
<1>7. Mild(m)
  BY <1>4, <1>5, <1>6 DEF Mild
<1>8. CASE s \in Steering
  <2>1. UNCHANGED <<native, events>> /\ "over" \in Pcs \ {"accepted"}
    BY <1>1, <1>8 DEF Interrupts, Pcs
  <2> QED BY <1>1, <1>5, <1>7, <2>1, MovedCorrelated
<1>9. CASE s \notin Steering
  <2>1. Ends(s, "failed")
    BY <1>1, <1>9 DEF Interrupts
  <2>2. Closing(s)
    BY <1>1, <1>2, <2>1, EndsClosing
  <2>3. task'[m].pc = "over" /\ \A i \in Numbers \ {m} : task'[i] = task[i]
    BY <1>1, <1>2 DEF Goes, Goroutine
  <2>4. \A i \in Ids : Mild(i)
    BY <1>1, <1>5, <1>7, MildSame
  <2>5. ASSUME NEW i \in Ids, Stuck(i) PROVE Unmoved(i)
    <3>1. task[i].pc = "none" /\ i \notin routing.cancelled /\ i \notin ToSet(turn.queue)
      BY <1>1, <2>5, StuckFacts
    <3>2. i # m
      BY <1>1, <3>1
    <3> QED BY <1>1, <1>2, <1>5, <2>3, <3>1, <3>2 DEF Unmoved
  <2>6. \A i \in Ids : task'[i].pc = "accepted" => task[i].pc = "accepted"
    BY <1>2, <2>3
  <2> QED BY <1>1, <1>2, <1>5, <2>2, <2>4, <2>5, <2>6, ClosingCorrelated
<1> QED BY <1>8, <1>9

LEMMA StopBeginsCorrelated == ASSUME IInv, IInv', Correlated, NEW s \in Slots, StopBegins(s) PROVE Correlated'
<1>1. /\ phase = "up" /\ control[s] = "none" /\ control' = [control EXCEPT ![s] = "stop"]
      /\ IF s \in Steering
         THEN /\ native' = [native EXCEPT ![s] = IdleRuntime]
              /\ events' = [events EXCEPT ![s] = @ \o InputEvents(Has(native[s]), "failed", 0)]
         ELSE Ends(s, "failed")
      /\ UNCHANGED <<msgs, turn, task, routing, current, crossed, phase, crashed>>
  BY DEF StopBegins, LockFree, Has
<1>2. /\ control \in [Slots -> {"none", "cancel", "stop"}] /\ "failed" \in Settled /\ Around
      /\ native \in [Slots -> Runtime]
  BY DEF IInv, Around, Settled
<1>3. control'[s] = "stop" /\ \A q \in Slots \ {s} : control'[q] = control[q]
  BY <1>1, <1>2
<1>4. CASE s \notin Steering
  BY <1>1, <1>2, <1>3, <1>4, OnlyEnds
<1>5. CASE s \in Steering
  <2> DEFINE v == InputEvents(Has(native[s]), "failed", 0)
  <2>1. Has(native[s]) \subseteq Numbers /\ 0 \in 0..MaxMessages
    BY <1>2, NumberFacts DEF Has, Runtime
  <2>2. v \in Seq(Report) /\ \A i \in DOMAIN v : v[i].msg \in Has(native[s]) /\ v[i].turn = 0 /\ v[i].kind = "failed"
    <3> DEFINE S == Has(native[s])
               k == "failed"
    <3>1. S \subseteq Numbers /\ k \in Settled /\ v = InputEvents(S, k, 0)
      BY <1>2, <2>1
    <3> HIDE DEF S, k, v
    <3>2. InputReports(v, S, k, 0)
      BY <2>1, <3>1, InputEventsElements
    <3> QED BY <3>2 DEF S, k, InputReports
  <2>3. native' = [native EXCEPT ![s] = IdleRuntime] /\ events' = [events EXCEPT ![s] = @ \o v]
    BY <1>1, <1>5
  <2> HIDE DEF v
  <2>4. /\ \A q \in Slots \ {s} : events'[q] = events[q]
        /\ Told(s) \subseteq Told(s)'
        /\ \A e \in Told(s)' : e \in Told(s) \/ \E i \in DOMAIN v : e = v[i]
    BY <1>2, <2>2, <2>3, ToldJoined
  <2>5. \A e \in Told(s)' : e \in Told(s) \/ (e.msg \in Has(native[s]) /\ e.turn = 0 /\ e.kind # "boundary")
    BY <2>2, <2>4
  <2>6. Closing(s)
    BY <1>1, <1>3, <2>3, <2>4, <2>5 DEF Closing
  <2>7. DOMAIN msgs' = Ids /\ \A i \in Ids : msgs'[i] = msgs[i] /\ Mild(i)
    BY <1>1, MildSame DEF Ids
  <2>8. \A i \in Ids : Stuck(i) => Unmoved(i)
    BY <1>1, StuckFacts DEF Unmoved
  <2> QED BY <1>1, <2>6, <2>7, <2>8, ClosingCorrelated
<1> QED BY <1>4, <1>5

LEMMA LateBoundaryCorrelated ==
  ASSUME IInv, IInv', Correlated, NEW s \in Slots, NEW m \in Numbers, LateBoundary(s, m) PROVE Correlated'
<1> DEFINE b == Event("boundary", m, m, "failed")
           v == <<b>>
<1>1. /\ phase = "up" /\ ~crashed /\ m \in Ids /\ msgs[m].to = s /\ ~msgs[m].steer
      /\ crossed[m] > 0 /\ m \notin {native[s].turn, native[s].staged}
      /\ events' = [events EXCEPT ![s] = Append(@, b)]
      /\ UNCHANGED <<msgs, turn, task, tails, routing, control, native, current, crossed, phase, crashed>>
  BY DEF LateBoundary
<1>2. /\ b \in Report /\ b.kind = "boundary" /\ b.msg = m /\ b.turn = m /\ m # 0
  BY NumberFacts DEF Event, Report, EventKinds, Settled
<1> HIDE DEF b
<1>3. /\ \A q \in Slots \ {s} : events'[q] = events[q]
      /\ Told(s) \subseteq Told(s)'
      /\ \A e \in Told(s)' : e \in Told(s) \/ e = b
  <2>1. Around /\ events \in [Slots -> Seq(Report)]
    BY DEF IInv, Around
  <2>2. Append(events[s], b) = events[s] \o v
    BY <2>1, <1>2, AppendIsConcat
  <2>3. v \in Seq(Report) /\ \A i \in DOMAIN v : v[i] = b
    BY <1>2
  <2> HIDE DEF v
  <2>4. events' = [events EXCEPT ![s] = @ \o v]
    BY <1>1, <2>2
  <2>5. /\ \A q \in Slots \ {s} : events'[q] = events[q]
        /\ Told(s) \subseteq Told(s)'
        /\ \A e \in Told(s)' : e \in Told(s) \/ \E i \in DOMAIN v : e = v[i]
    BY <2>1, <2>3, <2>4, ToldJoined
  <2> QED BY <2>3, <2>5
<1>4. \A k \in Ids : ~Stuck(k)
  BY <1>1 DEF Stuck
<1>5. DOMAIN msgs' = Ids /\ \A i \in Ids : msgs'[i] = msgs[i] /\ Mild(i)
  BY <1>1, MildSame DEF Ids
<1>6. Grown /\ Mildly /\ MildIn(s) /\ Further
  BY <1>1, <1>5, MildGrown DEF Mildly, MildIn, Further
<1>7. Crossings'
  BY <1>1, <1>5, <1>6, CrossingsKept
<1>8. \A q \in Slots \ {s} : InSlot(q)'
  <2>1. Elsewhere(s)
    BY <1>1, <1>3, <1>4, <1>5 DEF Elsewhere
  <2> QED BY <1>1, <1>6, <2>1, ElsewhereKept
<1>9. Reports(s) /\ Inputs(s) /\ Numbered(s) /\ Ending(s) /\ Turning(s) /\ Unmarked(s)
  BY <1>1 DEF Correlated, InSlot
<1>10. msgs[m].turn \in {0, m} /\ msgs[m] \in Message /\ ~(msgs[m].steer = TRUE)
  BY <1>1, Facts DEF Correlated, Crossings, Message
<1>11. \A f \in Told(s) : f.msg = m => f.turn \in {0, m}
  BY <1>9, <1>10 DEF Reports
<1>12. Reports(s)'
  <2> SUFFICES ASSUME NEW e \in Told(s)'
      PROVE  /\ e.msg \in DOMAIN msgs' /\ msgs'[e.msg].to = s /\ crossed'[e.msg] > 0
             /\ e.turn # 0 =>
                  /\ crossed'[e.turn] > 0 /\ msgs'[e.msg].turn \in {0, e.turn}
                  /\ e.turn = e.msg \/ msgs'[e.msg].steer = TRUE
                  /\ \A f \in Told(s)' : f.msg = e.msg => f.turn \in {0, e.turn}
    BY DEF Reports, Ids
  <2>1. CASE e \in Told(s)
    <3>1. /\ e.msg \in Ids /\ msgs[e.msg].to = s /\ crossed[e.msg] > 0
          /\ e.turn # 0 =>
               /\ crossed[e.turn] > 0 /\ msgs[e.msg].turn \in {0, e.turn}
               /\ e.turn = e.msg \/ msgs[e.msg].steer = TRUE
               /\ \A f \in Told(s) : f.msg = e.msg => f.turn \in {0, e.turn}
      BY <1>9, <2>1 DEF Reports
    <3>2. ASSUME e.turn # 0, NEW f \in Told(s)', f.msg = e.msg PROVE f.turn \in {0, e.turn}
      BY <1>2, <1>3, <1>11, <2>1, <3>1, <3>2
    <3> QED BY <1>1, <1>5, <3>1, <3>2
  <2>2. CASE e = b
    <3>1. \A f \in Told(s)' : f.msg = m => f.turn \in {0, m}
      BY <1>2, <1>3, <1>11
    <3> QED BY <1>1, <1>2, <1>5, <1>10, <2>2, <3>1
  <2> QED BY <1>3, <2>1, <2>2
<1>13. Inputs(s)'
  <2>1. m \notin Has(native[s])
    BY <1>1, <1>9, <1>10 DEF Inputs, Has
  <2>2. \A k \in Has(native[s]) : k \in Ids /\ msgs[k].to = s /\ crossed[k] > 0 /\ \A e \in Told(s)' : e.msg # k
    BY <1>2, <1>3, <1>9, <2>1 DEF Inputs
  <2>3. native[s] # IdleRuntime => \A e \in Told(s)' : e.kind = "boundary" => e.turn \notin {0, native[s].turn}
    BY <1>1, <1>2, <1>3, <1>9 DEF Inputs
  <2>4. Has(native[s])' = Has(native[s]) /\ Ids' = Ids
    BY <1>1, <1>5 DEF Has, Ids
  <2> QED BY <1>1, <1>5, <1>9, <2>2, <2>3, <2>4 DEF Inputs
<1>14. ~Blocked(s) /\ ~Blocked(s)'
  <2>1. ~Blocked(s)'
    BY <1>1 DEF Blocked, Stuck
  <2> QED BY <1>4, <2>1 DEF Blocked
<1>15. Numbered(s)'
  BY <1>1, <1>4, <1>6, NumberedKept DEF Staying
<1>16. Ending(s)' /\ Turning(s)' /\ Unmarked(s)'
  BY <1>1, <1>2, <1>3, <1>9, <1>14 DEF Ending, Turning, Unmarked, Timely
<1> QED BY <1>1, <1>7, <1>8, <1>12, <1>13, <1>15, <1>16 DEF Correlated, InSlot

-----------------------------------------------------------------------------
LEMMA TakenFinish ==
  ASSUME NEW tk \in [Numbers -> Goroutine], NEW ms \in Seq(Message), Len(ms) <= MaxMessages,
         NEW t \in TurnState, Queued(ms, t), Take(FinishTurn(t, ms), tk, FALSE)
  PROVE  /\ Taken(t, ms, tk, {}) /\ turn'.boundary = FALSE
         /\ Freed(ms)
<1> DEFINE res == FinishTurn(t, ms)
<1>1. Placed(t, ms, res, {}) /\ Vacated(ms, res) /\ res.turn.boundary = FALSE
  BY FinishPlaced DEF Vacated
<1>2. DOMAIN res.msgs = DOMAIN ms /\ \A i \in DOMAIN ms : Left(ms[i], res.msgs[i])
  <2> DEFINE u == [t EXCEPT !.owner = None, !.submitting = 0, !.boundary = FALSE]
  <2>1. res = Reserve(u, ms)
    BY DEF FinishTurn
  <2> HIDE DEF u, res
  <2> QED BY <2>1, ReserveLeaves
<1>3. ToSet(t.queue) \cup {} \subseteq Numbers
  BY DEF TurnState, ToSet
<1>4. Take(res, tk, FALSE) /\ turn' = res.turn
  BY DEF Take
<1> HIDE DEF res
<1>5. Taken(t, ms, tk, {})
  BY <1>1, <1>2, <1>3, <1>4, TakenFrom
<1>6. Freed(ms)
  BY <1>1, <1>3, <1>4, VacatedFreed
<1> QED BY <1>1, <1>4, <1>5, <1>6

\* A stop is over: nothing of its slot is open any more.
Cancelled(s, ms) ==
  /\ ms \in Seq(Message) /\ DOMAIN ms = Ids /\ Len(ms) <= MaxMessages /\ Queued(ms, turn)
  /\ \A m \in Ids : MildTo(m, ms[m]) /\ ms[m] \in Message
  /\ \A m \in Ids : IF msgs[m].to = s THEN ~Open(ms[m]) ELSE ms[m] = msgs[m]
LEMMA StopCancels ==
  ASSUME IInv, phase = "up", Correlated, NEW s \in Slots, NEW ms,
         ms = Each(msgs, {m \in Ids : msgs[m].to = s /\ Open(msgs[m])}, LAMBDA r : Processed(r, "failed", r.turn))
  PROVE  Cancelled(s, ms)
<1> DEFINE S == {m \in Ids : msgs[m].to = s /\ Open(msgs[m])}
<1>1. DOMAIN ms = Ids /\ \A m \in Ids : ms[m] = IF m \in S THEN Processed(msgs[m], "failed", msgs[m].turn) ELSE msgs[m]
  BY DEF Each, Ids
<1>2. /\ msgs \in Seq(Message) /\ Len(msgs) <= MaxMessages /\ Queued(msgs, turn)
      /\ \A m \in Ids : msgs[m] \in Message /\ msgs[m].turn \in 0..MaxMessages
  BY Facts DEF Core, Message
<1>3. Calm(msgs, ms)
  BY <1>2, EachCancelled
<1>4. ASSUME NEW m \in S PROVE MildTo(m, ms[m]) /\ ms[m] \in Message /\ ~Open(ms[m])
  <2> DEFINE q == Processed(msgs[m], "failed", msgs[m].turn)
  <2>1. "failed" \in Settled /\ m \in Ids /\ msgs[m].turn \in {0, msgs[m].turn}
    BY DEF Settled
  <2>2. MildTo(m, q) /\ q \in Message /\ ~Open(q)
    <3> DEFINE k == "failed"
               t == msgs[m].turn
    <3>1. k \in Settled /\ t \in 0..MaxMessages /\ t \in {0, msgs[m].turn} /\ q = Processed(msgs[m], k, t)
      BY <1>2, <2>1
    <3> HIDE DEF k, t, q
    <3> QED BY <2>1, <3>1, ClosesMildTo
  <2> HIDE DEF q
  <2>3. ms[m] = q
    BY <1>1 DEF q
  <2> QED BY <2>2, <2>3
<1>5. \A m \in Ids \ S : ms[m] = msgs[m] /\ MildTo(m, ms[m]) /\ ms[m] \in Message
  BY <1>1, <1>2, KeepsMildTo, QuietSame
<1>6. \A m \in Ids : IF msgs[m].to = s THEN ~Open(ms[m]) ELSE ms[m] = msgs[m]
  BY <1>4, <1>5
<1>7. ms \in Seq(Message) /\ Len(ms) <= MaxMessages /\ Queued(ms, turn)
  BY <1>2, <1>3 DEF Calm, Queued
<1> HIDE DEF S
<1> QED BY <1>1, <1>4, <1>5, <1>6, <1>7 DEF Cancelled

LEMMA StopSettlesTaken ==
  ASSUME IInv, Correlated, NEW s \in Slots, StopSettles(s)
  PROVE  \E ms : /\ Cancelled(s, ms) /\ Taken(turn, ms, task, {})
                 /\ IF turn.owner = s THEN Freed(ms) ELSE turn' = turn /\ task' = task
<1> DEFINE ms == Each(msgs, {m \in Ids : msgs[m].to = s /\ Open(msgs[m])}, LAMBDA r : Processed(r, "failed", r.turn))
<1>1. /\ phase = "up"
      /\ Take(IF turn.owner = s THEN FinishTurn(turn, ms) ELSE [turn |-> turn, msgs |-> ms, start |-> 0], task, FALSE)
  BY DEF StopSettles
<1>2. Cancelled(s, ms)
  BY <1>1, StopCancels
<1> HIDE DEF ms
<1>3. turn \in TurnState /\ task \in [Numbers -> Goroutine]
  BY <1>1, Facts
<1>4. ms \in Seq(Message) /\ Len(ms) <= MaxMessages /\ Queued(ms, turn)
  BY <1>2 DEF Cancelled
<1>5. CASE turn.owner = s
  <2>1. Take(FinishTurn(turn, ms), task, FALSE)
    BY <1>1, <1>5
  <2>2. Taken(turn, ms, task, {}) /\ Freed(ms)
    BY <1>3, <1>4, <2>1, TakenFinish
  <2> QED BY <1>2, <1>5, <2>2
<1>6. CASE turn.owner # s
  <2>1. Take([turn |-> turn, msgs |-> ms, start |-> 0], task, FALSE)
    BY <1>1, <1>6
  <2>2. Taken(turn, ms, task, {})
    BY <1>3, <1>4, <2>1, PlainTaken
  <2>3. turn' = turn /\ task' = task
    BY <2>1 DEF Take, Begun
  <2> QED BY <1>2, <1>6, <2>2, <2>3
<1> QED BY <1>5, <1>6

LEMMA StopSettlesCorrelated == ASSUME IInv, IInv', Correlated, NEW s \in Slots, StopSettles(s) PROVE Correlated'
<1>1. /\ phase = "up" /\ control[s] = "stop" /\ events[s] = <<>>
      /\ control' = [control EXCEPT ![s] = "none"] /\ current' = [current EXCEPT ![s] = 0]
      /\ UNCHANGED <<routing, native, events, crossed, phase, crashed>>
  BY DEF StopSettles
<1>2. PICK ms : Cancelled(s, ms) /\ Taken(turn, ms, task, {})
  BY StopSettlesTaken
<1>3. /\ Ids \subseteq Numbers /\ current \in [Slots -> 0..MaxMessages] /\ control \in [Slots -> {"none", "cancel", "stop"}]
      /\ DOMAIN msgs' = Ids /\ ms \in Seq(Message) /\ DOMAIN ms = Ids
      /\ \A m \in Ids : MildTo(m, ms[m]) /\ ms[m] \in Message
      /\ \A m \in Ids : IF msgs[m].to = s THEN ~Open(ms[m]) ELSE ms[m] = msgs[m]
  BY <1>1, <1>2, Facts DEF Around, Taken, Cancelled
<1>4. \A m \in Ids : Mild(m)
  BY <1>2, <1>3, TakenMild
<1>5. Grown /\ Mildly /\ Further /\ \A q \in Slots : MildIn(q)
  BY <1>1, <1>3, <1>4, MildGrown DEF Mildly, MildIn, Further
<1>6. ASSUME NEW m \in Ids, msgs[m].to # s, Stuck(m) PROVE Unmoved(m)
  <2>1. /\ Parked(m) /\ task[m].pc = "none" /\ m \notin ToSet(turn.queue) /\ m \notin routing.cancelled
    BY <1>1, <1>6, StuckFacts
  <2>2. ms[m] = msgs[m] /\ m \in Numbers /\ m \notin ToSet(turn.queue) \cup {} /\ m \notin routing'.cancelled
    BY <1>1, <1>3, <1>6, <2>1
  <2> QED BY <1>2, <1>3, <2>1, <2>2, TakenUnmoved
<1>7. Crossings'
  <2>1. ASSUME NEW m \in Ids, task'[m].pc = "accepted" PROVE task[m].pc = "accepted"
    <3>1. task'[m].pc \in {task[m].pc, "wait"}
      BY <1>2, <1>3 DEF Taken
    <3> QED BY <2>1, <3>1
  <2> QED BY <1>1, <1>3, <1>5, <2>1, CrossingsKept
<1>8. \A q \in Slots \ {s} : InSlot(q)'
  <2> SUFFICES ASSUME NEW q \in Slots \ {s} PROVE InSlot(q)'
    OBVIOUS
  <2>1. Told(q)' = Told(q) /\ native'[q] = native[q] /\ current'[q] = current[q] /\ control'[q] = control[q]
    BY <1>1, <1>3 DEF Told
  <2>2. turn'.owner = q => turn'.boundary = FALSE \/ (turn.owner = q /\ turn'.boundary = turn.boundary)
    BY <1>2 DEF Taken
  <2>3. SameSlot(q)
    BY <2>1, <2>2 DEF SameSlot
  <2>4. Staying(q)
    BY <1>1, <1>3, <1>6, <2>1, StayingFrom
  <2> QED BY <1>1, <1>5, <2>3, <2>4, SlotKept
<1>9. InSlot(s)'
  <2>1. native[s] = IdleRuntime /\ Told(s)' = {} /\ current'[s] = 0 /\ control'[s] = "none"
    BY <1>1, <1>3 DEF Correlated, InSlot, Inputs, Told
  <2>2. \A m \in Ids : msgs'[m].to = s => ~Open(msgs'[m])
    <3> SUFFICES ASSUME NEW m \in Ids, msgs'[m].to = s PROVE ~Open(msgs'[m])
      OBVIOUS
    <3>1. ~Open(ms[m])
      BY <1>3, <1>5 DEF Grown
    <3>2. Left(ms[m], msgs'[m])
      BY <1>2, <1>3 DEF Taken
    <3>3. Quiet(ms[m], msgs'[m])
      BY <1>3, <3>2, LeftQuiet
    <3> QED BY <3>1, <3>3 DEF Quiet, Keeps
  <2>3. IdleRuntime.turn = 0 /\ IdleRuntime.inputs = {} /\ IdleRuntime.staged = 0 /\ Has(IdleRuntime) = {}
    BY DEF IdleRuntime, Has
  <2>4. native'[s] = IdleRuntime
    BY <1>1, <2>1
  <2>5. Reports(s)' /\ Inputs(s)'
    BY <2>1, <2>3, <2>4 DEF Reports, Inputs, Has
  <2>6. Numbered(s)'
    BY <1>3, <2>2 DEF Numbered, Ids
  <2>7. Ending(s)' /\ Turning(s)' /\ Unmarked(s)'
    BY <2>1, <2>3, <2>4 DEF Ending, Turning, Unmarked
  <2> QED BY <2>5, <2>6, <2>7 DEF InSlot
<1> QED BY <1>1, <1>7, <1>8, <1>9 DEF Correlated

-----------------------------------------------------------------------------
LEMMA CrossingsRecorded ==
  ASSUME Crossings, DOMAIN msgs' = Ids, \A m \in Ids : Keeps(msgs[m], msgs'[m]), crossed' = crossed,
         \A m \in Ids : task'[m].pc = "accepted" => task[m].pc = "accepted"
  PROVE  Crossings'
<1> SUFFICES ASSUME NEW m \in Ids
    PROVE  /\ crossed[m] = 0 =>
                msgs'[m].turn = 0 /\ msgs'[m].unsure = FALSE /\ msgs'[m].del \notin {"started", "injected"}
           /\ msgs'[m].turn # 0 => crossed[msgs'[m].turn] > 0
           /\ msgs'[m].turn \in {0, m} \/ msgs'[m].steer = TRUE
           /\ task'[m].pc = "accepted" => crossed[m] > 0
  BY DEF Crossings, Ids
<1>1. Keeps(msgs[m], msgs'[m])
  OBVIOUS
<1> QED BY <1>1 DEF Crossings, Keeps, Unsent

LEMMA CrashCorrelated == ASSUME IInv, Correlated, Crash PROVE Correlated'
<1>1. /\ phase' = "down" /\ msgs' = [m \in Ids |-> [msgs[m] EXCEPT !.unsure = FALSE]]
      /\ task' = [m \in Numbers |-> NoTask] /\ crossed' = crossed
  BY DEF Crash
<1>2. \A m \in Ids : msgs[m] \in Message /\ m \in Numbers
  BY DomainFacts DEF IInv, Delivering, Core, Ids
<1>3. ASSUME NEW m \in Ids PROVE Keeps(msgs[m], msgs'[m])
  <2> DEFINE r == msgs[m]
             q == [r EXCEPT !.unsure = FALSE]
  <2>1. r \in Message /\ msgs'[m] = q
    BY <1>1, <1>2
  <2>2. q \in Message /\ q.to = r.to /\ q.steer = r.steer /\ q.proc = r.proc /\ q.del = r.del
        /\ q.turn = r.turn /\ q.unsure = FALSE
    BY <2>1 DEF Message
  <2> HIDE DEF r, q
  <2> QED BY <2>1, <2>2 DEF Keeps, Open, Unsent, r
<1>4. DOMAIN msgs' = Ids /\ \A m \in Ids : task'[m].pc # "accepted"
  BY <1>1, <1>2 DEF NoTask
<1>5. Crossings'
  BY <1>1, <1>3, <1>4, CrossingsRecorded DEF Correlated
<1> QED BY <1>1, <1>5 DEF Correlated

LEMMA RestoreCorrelated == ASSUME IInv, Correlated, Restore PROVE Correlated'
<1>1. /\ phase' = "expiring" /\ msgs' = Each(msgs, expiring', LAMBDA r : Delivered(r, "failed"))
      /\ crossed' = crossed /\ task' = task
  BY DEF Restore
<1>2. \A m \in Ids : msgs[m] \in Message
  BY DomainFacts DEF IInv, Delivering, Core, Ids
<1>3. DOMAIN msgs' = Ids /\ \A m \in Ids : msgs'[m] \in {msgs[m], Delivered(msgs[m], "failed")}
  BY <1>1 DEF Each, Ids
<1>4. \A m \in Ids : Keeps(msgs[m], msgs'[m])
  BY <1>2, <1>3, DeliveredKeeps, QuietSame
<1>5. Crossings'
  BY <1>1, <1>3, <1>4, CrossingsRecorded DEF Correlated
<1> QED BY <1>1, <1>5 DEF Correlated

LEMMA QueuedQuiet ==
  ASSUME NEW r \in Message PROVE Quiet(r, Delivered(r, "queued"))
BY QueuedFields DEF Quiet
LEMMA ResumedQuiet ==
  ASSUME NEW ms \in Seq(Message), NEW X, NEW Y, NEW Q
  PROVE  LET ended == Each(Each(ms, X, Failed), Y, Failed)
             ns == Each(ended, Q, LAMBDA r : Delivered(r, "queued"))
         IN /\ DOMAIN ended = DOMAIN ms /\ DOMAIN ns = DOMAIN ms
            /\ \A m \in DOMAIN ms : Quiet(ms[m], ended[m]) /\ Quiet(ms[m], ns[m])
<1> DEFINE a == Each(ms, X, Failed)
           b == Each(a, Y, Failed)
           c == Each(b, Q, LAMBDA r : Delivered(r, "queued"))
<1>1. DOMAIN a = DOMAIN ms /\ \A m \in DOMAIN ms : a[m] = IF m \in X THEN Failed(ms[m]) ELSE ms[m]
  BY DEF Each
<1> HIDE DEF a
<1>2. DOMAIN b = DOMAIN ms /\ \A m \in DOMAIN ms : b[m] = IF m \in Y THEN Failed(a[m]) ELSE a[m]
  BY <1>1 DEF Each
<1> HIDE DEF b
<1>3. DOMAIN c = DOMAIN ms /\ \A m \in DOMAIN ms : c[m] = IF m \in Q THEN Delivered(b[m], "queued") ELSE b[m]
  BY <1>2 DEF Each
<1> HIDE DEF c
<1>4. ASSUME NEW m \in DOMAIN ms PROVE Quiet(ms[m], b[m]) /\ Quiet(ms[m], c[m])
  <2>1. ms[m] \in Message
    OBVIOUS
  <2>2. Quiet(ms[m], a[m]) /\ a[m] \in Message
    BY <1>1, <2>1, FailedQuiet, QuietSame DEF Quiet, Keeps
  <2>3. Quiet(a[m], b[m]) /\ b[m] \in Message
    BY <1>2, <2>2, FailedQuiet, QuietSame DEF Quiet, Keeps
  <2>4. Quiet(b[m], c[m])
    BY <1>3, <2>3, QueuedQuiet, QuietSame
  <2>5. Quiet(ms[m], b[m])
    BY <2>1, <2>2, <2>3, QuietTransitive
  <2>6. Quiet(ms[m], c[m])
    BY <2>1, <2>4, <2>5, QuietTransitive
  <2> QED BY <2>5, <2>6
<1> QED BY <1>2, <1>3, <1>4 DEF a, b, c

LEMMA ResumeFacts ==
  ASSUME IInv, Crossings, Resume
  PROVE  /\ DOMAIN msgs' = Ids /\ phase' = "up" /\ crashed' = TRUE /\ crossed' = crossed
         /\ \A s \in Slots : /\ control'[s] = "none" /\ native'[s] = IdleRuntime
                             /\ events'[s] = <<>> /\ current'[s] = 0
         /\ routing' = NoRouting
         /\ \A m \in Ids : /\ Quiet(msgs[m], msgs'[m]) /\ ~(Open(msgs'[m]) /\ AtNative(msgs'[m]))
                           /\ task'[m].pc # "accepted"
                           /\ m \in ToSet(turn'.queue) \/ task'[m].pc # "none" => msgs[m].turn = 0
         /\ turn'.owner = None => turn'.queue = <<>>
         /\ turn'.owner # None => \E m \in Ids : msgs'[m].to = turn'.owner /\ task'[m].pc # "none"
<1> DEFINE lost == {m \in Ids : Open(msgs[m]) /\ msgs[m].del \in {"started", "injected"}}
           ended == Each(Each(msgs, expiring, Failed), lost, Failed)
           waiting == {m \in Ids : Awaiting(msgs[m])}
           fifo == InLogOrder(waiting)
           Q == ToSet(Tail(fifo))
           ns == Each(ended, Q, LAMBDA r : Delivered(r, "queued"))
<1>1. /\ phase = "expiring" /\ phase' = "up"
      /\ IF fifo = <<>> THEN msgs' = ended /\ UNCHANGED <<turn, task>>
         ELSE /\ msgs' = ns
              /\ turn' = [ owner |-> msgs[Head(fifo)].to, queue |-> Tail(fifo),
                           submitting |-> 1, boundary |-> FALSE ]
              /\ task' = Begun(task, Head(fifo), FALSE)
      /\ UNCHANGED <<tails, routing, control, native, events, current, crossed, faults, stopped, crashed>>
  BY DEF Resume
<1>2. /\ turn = FreeTurn /\ task = NoTasks /\ routing = NoRouting
      /\ control = [s \in Slots |-> "none"] /\ native = [s \in Slots |-> IdleRuntime]
      /\ events = [s \in Slots |-> <<>>] /\ current = [s \in Slots |-> 0] /\ crashed
      /\ \A m \in Ids : msgs[m].del # "submitting"
  BY <1>1 DEF IInv, Down, NoTasks
<1>3. /\ msgs \in Seq(Message) /\ Ids \subseteq Numbers /\ Ids = DOMAIN msgs
      /\ \A m \in Ids : msgs[m] \in Message /\ (InFifo(msgs[m]) => crossed[m] = 0)
  <2>1. Resting(msgs, crossed) /\ Ids \subseteq Numbers
    BY CoreResting, DomainFacts DEF IInv, Delivering, Core, Ids
  <2> QED BY <2>1 DEF Resting, Ids
<1>4. crashed = TRUE
  BY <1>2 DEF IInv, Around
<1>5. fifo \in Seq(Numbers) /\ ToSet(fifo) = waiting
  <2>1. waiting \in SUBSET Numbers
    BY <1>3
  <2> HIDE DEF waiting
  <2> QED BY <2>1, InLogOrderElements
<1>6. \A m \in waiting : msgs[m].turn = 0
  BY <1>3 DEF Awaiting, Crossings
<1>7. ASSUME NEW X, \A m \in X \cap Ids : InFifo(msgs[m])
      PROVE  LET n == Each(ended, X, LAMBDA r : Delivered(r, "queued"))
             IN /\ DOMAIN n = Ids /\ DOMAIN ended = Ids
                /\ \A m \in Ids : /\ Quiet(msgs[m], n[m]) /\ ~(Open(n[m]) /\ AtNative(n[m]))
                                  /\ Quiet(msgs[m], ended[m]) /\ ~(Open(ended[m]) /\ AtNative(ended[m]))
  <2> DEFINE n == Each(ended, X, LAMBDA r : Delivered(r, "queued"))
  <2>1. /\ DOMAIN n = Ids /\ DOMAIN ended = Ids
        /\ \A m \in Ids : Quiet(msgs[m], n[m]) /\ Quiet(msgs[m], ended[m])
    BY <1>3, ResumedQuiet
  <2>2. \A m \in Ids : ~(Open(n[m]) /\ AtNative(n[m])) /\ ~(Open(ended[m]) /\ AtNative(ended[m]))
    BY <1>2, <1>3, <1>7, Resumed DEF Ids
  <2> HIDE DEF n, ended
  <2>3. /\ DOMAIN n = Ids /\ DOMAIN ended = Ids
        /\ \A m \in Ids : /\ Quiet(msgs[m], n[m]) /\ ~(Open(n[m]) /\ AtNative(n[m]))
                          /\ Quiet(msgs[m], ended[m]) /\ ~(Open(ended[m]) /\ AtNative(ended[m]))
    BY <2>1, <2>2
  <2> QED BY <2>3 DEF n
<1>8. CASE fifo = <<>>
  <2>1. DOMAIN ended = Ids /\ \A m \in Ids : Quiet(msgs[m], ended[m]) /\ ~(Open(ended[m]) /\ AtNative(ended[m]))
    <3> DEFINE E == {}
    <3>1. \A m \in E \cap Ids : InFifo(msgs[m])
      OBVIOUS
    <3> HIDE DEF E, ended
    <3> QED BY <3>1, <1>7
  <2>2. msgs' = ended /\ turn' = FreeTurn /\ task' = NoTasks
    BY <1>1, <1>2, <1>8
  <2> HIDE DEF ended
  <2>3. \A m \in Ids : task'[m].pc = "none"
    BY <2>2, <1>3, NobodyRuns
  <2>4. turn'.owner = None /\ turn'.queue = <<>> /\ ToSet(turn'.queue) = {}
    BY <2>2 DEF FreeTurn, ToSet
  <2> QED BY <1>1, <1>2, <1>4, <2>1, <2>2, <2>3, <2>4
<1>9. CASE fifo # <<>>
  <2> DEFINE h == Head(fifo)
  <2>1. Q \subseteq waiting /\ h \in waiting
    <3>1. fifo \in Seq(Numbers) /\ fifo # <<>>
      BY <1>5, <1>9
    <3> HIDE DEF fifo, waiting
    <3>2. ToSet(Tail(fifo)) \subseteq ToSet(fifo) /\ Head(fifo) \in ToSet(fifo)
      <4>1. 1 \in DOMAIN fifo /\ Head(fifo) = fifo[1]
        BY <3>1
      <4> QED BY <3>1, <4>1, TailElements DEF ToSet
    <3> QED BY <1>5, <3>2
  <2>2. DOMAIN ns = Ids /\ \A m \in Ids : Quiet(msgs[m], ns[m]) /\ ~(Open(ns[m]) /\ AtNative(ns[m]))
    <3>1. \A m \in Q \cap Ids : InFifo(msgs[m])
      BY <2>1 DEF Awaiting
    <3> HIDE DEF Q, ended
    <3> QED BY <3>1, <1>7
  <2>3. /\ msgs' = ns /\ task' = Begun(NoTasks, h, FALSE) /\ turn'.owner = msgs[h].to
        /\ turn'.queue = Tail(fifo)
    BY <1>1, <1>2, <1>9
  <2>4. h \in Ids /\ h \in Numbers /\ msgs[h].to # None
    BY <2>1, <1>3, TwoSlots DEF Message
  <2>5. ToSet(turn'.queue) = Q
    BY <2>3
  <2> HIDE DEF h, fifo, Q, ns, waiting
  <2>6. /\ task'[h].pc = "wait" /\ \A m \in Numbers \ {h} : task'[m].pc = "none"
    <3>1. h # 0 /\ NoTasks \in [Numbers -> Goroutine] /\ \A m \in Numbers : NoTasks[m].pc = "none"
      BY <2>4, NobodyRuns, NumberFacts
    <3> DEFINE n == NoTasks
    <3>2. n \in [Numbers -> Goroutine] /\ \A m \in Numbers : n[m].pc = "none"
      BY <3>1
    <3> HIDE DEF n
    <3>3. /\ Begun(n, h, FALSE)[h].pc = "wait"
          /\ \A i \in Numbers \ {h} : Begun(n, h, FALSE)[i] = n[i]
      BY <2>4, <3>2, BegunMoved
    <3>4. task' = Begun(n, h, FALSE)
      BY <2>3 DEF n
    <3> QED BY <3>2, <3>3, <3>4
  <2>7. \A m \in Ids : task'[m].pc # "accepted" /\ (m \in ToSet(turn'.queue) \/ task'[m].pc # "none" => msgs[m].turn = 0)
    BY <2>1, <2>5, <2>6, <1>3, <1>6
  <2>8. msgs'[h].to = turn'.owner /\ task'[h].pc # "none" /\ turn'.owner # None
    BY <2>2, <2>3, <2>4, <2>6 DEF Quiet, Keeps
  <2> QED BY <1>1, <1>2, <1>4, <2>2, <2>3, <2>4, <2>7, <2>8
<1> QED BY <1>8, <1>9

LEMMA ResumeCorrelated == ASSUME IInv, IInv', Correlated, Resume PROVE Correlated'
<1>1. Crossings
  BY DEF Correlated
<1>2. /\ DOMAIN msgs' = Ids /\ phase' = "up" /\ crashed' = TRUE /\ crossed' = crossed
      /\ \A s \in Slots : /\ control'[s] = "none" /\ native'[s] = IdleRuntime
                          /\ events'[s] = <<>> /\ current'[s] = 0
      /\ routing' = NoRouting
      /\ \A m \in Ids : /\ Quiet(msgs[m], msgs'[m]) /\ ~(Open(msgs'[m]) /\ AtNative(msgs'[m]))
                        /\ task'[m].pc # "accepted"
                        /\ m \in ToSet(turn'.queue) \/ task'[m].pc # "none" => msgs[m].turn = 0
  BY <1>1, ResumeFacts
<1>3. Crossings'
  BY <1>1, <1>2, CrossingsRecorded DEF Quiet
<1>4. /\ Ids' \subseteq Numbers
      /\ \A m \in Ids' : msgs'[m] \in Message /\ msgs'[m].to \in Slots /\ (InFifo(msgs'[m]) => crossed'[m] = 0)
  <2>1. Resting(msgs, crossed)' /\ Ids' \subseteq Numbers
    BY CoreResting, DomainFacts DEF IInv, Delivering, Core, Ids
  <2>2. /\ msgs' \in Seq(Message) /\ \A m \in DOMAIN msgs' : InFifo(msgs'[m]) => crossed'[m] = 0
    BY <2>1 DEF Resting
  <2>3. \A m \in DOMAIN msgs' : msgs'[m] \in Message
    BY <2>2
  <2>4. \A r \in Message : r.to \in Slots
    BY DEF Message
  <2>5. \A m \in DOMAIN msgs' : msgs'[m].to \in Slots
    BY <2>3, <2>4
  <2> QED BY <2>1, <2>2, <2>3, <2>5 DEF Ids
<1>5. IdleRuntime.turn = 0 /\ IdleRuntime.inputs = {} /\ IdleRuntime.staged = 0 /\ Has(IdleRuntime) = {}
  BY DEF IdleRuntime, Has
<1>6. \A s \in Slots : Told(s)' = {}
  BY <1>2 DEF Told
<1>7. ASSUME NEW m \in Ids', Open(msgs'[m]), msgs'[m].turn # 0 PROVE Stuck(m)'
  <2>1. m \in Ids /\ msgs'[m].turn = msgs[m].turn /\ msgs'[m] \in Message
    BY <1>2, <1>4, <1>7 DEF Ids, Quiet, Keeps
  <2>2. m \notin ToSet(turn'.queue) /\ task'[m].pc = "none" /\ m \notin routing'.cancelled
    BY <1>2, <1>7, <2>1 DEF NoRouting
  <2>3. ~InFifo(msgs'[m]) /\ ~AtNative(msgs'[m])
    BY <1>2, <1>3, <1>4, <1>7, <2>1 DEF Crossings
  <2>4. msgs'[m].del \in {"failed", "skipped"}
    BY <2>1, <2>3 DEF Message, InFifo, AtNative
  <2>5. Parked(m)'
    BY <1>7, <2>2, <2>4 DEF Parked
  <2>6. events'[msgs'[m].to] = <<>> /\ native'[msgs'[m].to] = IdleRuntime
    BY <1>2, <1>4, <1>7
  <2>7. Told(msgs[m].to)' = {}
    BY <2>6 DEF Told
  <2> QED BY <1>2, <1>5, <1>7, <2>5, <2>6, <2>7 DEF Stuck
<1>8. ASSUME NEW s \in Slots PROVE InSlot(s)'
  <2>1. /\ control'[s] = "none" /\ native'[s] = IdleRuntime /\ current'[s] = 0 /\ Told(s)' = {}
    BY <1>2, <1>6
  <2>2. Reports(s)' /\ Inputs(s)'
    BY <1>5, <2>1 DEF Reports, Inputs
  <2>3. Numbered(s)'
    BY <1>7 DEF Numbered
  <2>4. Ending(s)' /\ Turning(s)' /\ Unmarked(s)'
    BY <1>5, <2>1 DEF Ending, Turning, Unmarked
  <2> QED BY <2>2, <2>3, <2>4 DEF InSlot
<1> QED BY <1>2, <1>3, <1>8 DEF Correlated

-----------------------------------------------------------------------------
LEMMA StutterCorrelated == ASSUME Correlated, UNCHANGED vars PROVE Correlated'
<1>1. UNCHANGED <<msgs, turn, task, tails, routing, control, native, events, current,
                  crossed, phase, expiring, faults, stopped, crashed>>
  BY DEF vars
<1>2. Ids' = Ids /\ \A s : Told(s)' = Told(s)
  BY <1>1 DEF Ids, Told
<1>3. Crossings => Crossings'
  BY <1>1, <1>2 DEF Crossings
<1>4. \A m : Stuck(m)' <=> Stuck(m)
  BY <1>1, <1>2 DEF Stuck, Parked
<1>5. \A s : Blocked(s)' <=> Blocked(s)
  BY <1>1, <1>2, <1>4 DEF Blocked
<1>6. ASSUME NEW s \in Slots, InSlot(s) PROVE InSlot(s)'
  <2>1. Reports(s)' /\ Inputs(s)'
    BY <1>1, <1>2, <1>6 DEF InSlot, Reports, Inputs
  <2>2. Numbered(s)'
    BY <1>1, <1>2, <1>4, <1>6 DEF InSlot, Numbered
  <2>3. Ending(s)' /\ Turning(s)' /\ Unmarked(s)'
    BY <1>1, <1>2, <1>5, <1>6 DEF InSlot, Ending, Turning, Unmarked, Timely
  <2> QED BY <2>1, <2>2, <2>3 DEF InSlot
<1> QED BY <1>1, <1>3, <1>6 DEF Correlated

LEMMA InitCorrelated == Init => Correlated
<1> SUFFICES ASSUME Init PROVE Correlated
  OBVIOUS
<1>1. /\ msgs = <<>> /\ DOMAIN msgs = {} /\ Ids = {}
      /\ \A s \in Slots : /\ control[s] = "none" /\ native[s] = IdleRuntime /\ events[s] = <<>> /\ current[s] = 0
                          /\ Told(s) = {}
  BY DEF Init, Ids, Told
<1>2. IdleRuntime.turn = 0 /\ IdleRuntime.inputs = {} /\ IdleRuntime.staged = 0 /\ Has(IdleRuntime) = {}
  BY DEF IdleRuntime, Has
<1>3. ASSUME NEW s \in Slots PROVE InSlot(s)
  <2>1. Reports(s) /\ Inputs(s) /\ Numbered(s)
    BY <1>1, <1>2 DEF Reports, Inputs, Numbered
  <2>2. Ending(s) /\ Turning(s) /\ Unmarked(s)
    BY <1>1, <1>2 DEF Ending, Turning, Unmarked
  <2> QED BY <2>1, <2>2 DEF InSlot
<1> QED BY <1>1, <1>3 DEF Correlated, Crossings

LEMMA NextCorrelated == ASSUME IInv, IInv', Correlated, [Next]_vars PROVE Correlated'
<1>1. ASSUME NEW i \in Intents, Send(i[1], i[2]) PROVE Correlated'
  <2>1. i[1] \in Slots /\ i[2] \in BOOLEAN
    BY TwoSlots
  <2> QED BY <1>1, <2>1, SendCorrelated
<1>2. ASSUME Sweep \/ Place \/ Crash \/ Restore \/ Resume PROVE Correlated'
  BY <1>2, SweepCorrelated, PlaceCorrelated, CrashCorrelated, RestoreCorrelated, ResumeCorrelated
<1>3. ASSUME NEW m \in Numbers,
             \/ Retry(m) \/ (\E s \in Slots : LateBoundary(s, m)) \/ TooLate(m) \/ Submit(m)
             \/ FailDelivery(m) \/ FailProcessing(m)
      PROVE Correlated'
  BY <1>3, RetryCorrelated, LateBoundaryCorrelated, TooLateCorrelated, SubmitCorrelated,
     FailDeliveryCorrelated, FailProcessingCorrelated
<1>4. ASSUME NEW m \in Numbers,
             \/ StartTurn(m) \/ SteerAccepted(m) \/ SteerRefused(m) \/ Accepted(m)
             \/ MaterializeFails(m) \/ Return(m) \/ ReleaseCheck(m)
             \/ CancelWaiting(m) \/ CancelAccepted(m)
      PROVE Correlated'
  BY <1>4, StartTurnCorrelated, SteerAcceptedCorrelated, SteerRefusedCorrelated, AcceptedCorrelated,
     MaterializeFailsCorrelated, ReturnCorrelated, ReleaseCheckCorrelated, CancelWaitingCorrelated,
     CancelAcceptedCorrelated
<1>5. ASSUME NEW s \in Slots,
             \/ HandleInput(s) \/ HandleBoundary(s) \/ HandleFinal(s)
             \/ AnswersLate(s) \/ CancelSettles(s) \/ StopBegins(s) \/ StopSettles(s)
             \/ \E o \in Settled : TurnEnds(s, o)
      PROVE Correlated'
  BY <1>5, HandleInputCorrelated, HandleBoundaryCorrelated, HandleFinalCorrelated, AnswersLateCorrelated,
     CancelSettlesCorrelated, StopBeginsCorrelated, StopSettlesCorrelated, TurnEndsCorrelated
<1>6. CASE UNCHANGED vars
  BY <1>6, StutterCorrelated
<1>7. CASE Next
  BY <1>1, <1>2, <1>3, <1>4, <1>5, <1>7 DEF Next
<1> QED BY <1>6, <1>7

\* What the Room has recorded of an input, what its runtime holds of it and what is
\* still to be taken of it agree: no delivery, refusal, end of a Turn, stop or restart
\* leaves two of them telling different stories (HandleRuntime, applyInputAccepted).
THEOREM Correlation == Spec => [](IInv /\ Correlated)
<1>1. Init => IInv /\ Correlated
  BY InitIInv, InitCorrelated
<1>2. IInv /\ Correlated /\ [Next]_vars => IInv' /\ Correlated'
  <2> SUFFICES ASSUME IInv, Correlated, [Next]_vars PROVE IInv' /\ Correlated'
    OBVIOUS
  <2>1. IInv'
    BY NextIInv
  <2> QED BY <2>1, NextCorrelated
<1> QED BY <1>1, <1>2, PTL DEF Spec

-----------------------------------------------------------------------------
\* What leaves the owner of a Turn in place.
Retains(t, u) == t.owner # None => u.owner = t.owner
LEMMA ScheduleRetains ==
  ASSUME NEW t \in TurnState, NEW ms, NEW m PROVE Retains(t, Schedule(t, ms, m).turn)
<1>1. \A q, k : [t EXCEPT !.queue = q].owner = t.owner /\ [t EXCEPT !.submitting = k].owner = t.owner
  BY DEF TurnState
<1>2. CASE t.owner = None
  BY <1>2 DEF Retains
<1>3. CASE t.owner # None
  BY <1>1, <1>3 DEF Schedule, Retains
<1> QED BY <1>2, <1>3

LEMMA IdleRetains ==
  ASSUME NEW t \in TurnState, NEW ms, NEW s, NEW without, ~Idle(t, ms, s, without)
  PROVE  Retains(t, FinishIfIdle(t, ms, s, without).turn)
BY DEF FinishIfIdle, Retains

\* The owner's runtime is in the Turn the Room takes for the current one, and its end
\* has not been heard.
LEMMA InTurn ==
  ASSUME IInv, phase = "up", Correlated, turn.owner # None, native[turn.owner].turn # 0, ~Deaf(turn.owner)
  PROVE  /\ turn.owner \in Slots /\ turn.boundary = FALSE
         /\ current[turn.owner] = native[turn.owner].turn
         /\ control[turn.owner] # "stop"
         /\ \A e \in Told(turn.owner) : e.kind = "boundary" => ~TurnMatches(msgs, turn.owner, e.msg, e.turn)
<1> DEFINE o == turn.owner
<1>1. o \in Slots
  BY Facts DEF TurnState
<1>2. InSlot(o)
  BY <1>1 DEF Correlated
<1> HIDE DEF o
<1>3. native[o].turn # 0 /\ ~Deaf(o) /\ turn.owner = o
  BY DEF o
<1>4. ~Blocked(o)
  BY <1>3 DEF Blocked, Stuck, Parked, Deaf
<1>5. current[o] = native[o].turn /\ turn.boundary = FALSE
  BY <1>2, <1>3, <1>4 DEF InSlot, Turning
<1>6. IdleRuntime.turn = 0
  BY DEF IdleRuntime
<1>7. control[o] # "stop"
  BY <1>2, <1>3, <1>6 DEF InSlot, Inputs
<1>8. \A e \in Told(o) : e.kind = "boundary" => e.turn \notin {0, native[o].turn}
  BY <1>2, <1>3, <1>6 DEF InSlot, Inputs
<1>9. \A e \in Told(o) : e.kind = "boundary" => ~TurnMatches(msgs, o, e.msg, e.turn)
  BY <1>3, <1>5, <1>8 DEF TurnMatches
<1> QED BY <1>1, <1>5, <1>7, <1>9 DEF o

LEMMA OwnerRetained ==
  ASSUME IInv, Correlated, [Next]_vars, phase = "up", phase' = "up", tails \subseteq tails',
         turn.owner # None, native[turn.owner].turn # 0, ~Deaf(turn.owner)
  PROVE  Retains(turn, turn')
<1>1. /\ turn \in TurnState /\ turn.owner \in Slots /\ turn.boundary = FALSE /\ control[turn.owner] # "stop"
      /\ \A e \in Told(turn.owner) : e.kind = "boundary" => ~TurnMatches(msgs, turn.owner, e.msg, e.turn)
  BY InTurn, Facts
<1>2. turn' = turn => Retains(turn, turn')
  BY DEF Retains
<1>3. ~Restore /\ ~Resume /\ ~Crash
  BY DEF Restore, Resume, Crash
<1>4. \A m \in Numbers : ~ReleaseCheck(m)
  BY DEF ReleaseCheck
<1>5. \A q, k, b : /\ Retains(turn, [turn EXCEPT !.queue = q]) /\ Retains(turn, [turn EXCEPT !.submitting = k])
                   /\ Retains(turn, [turn EXCEPT !.boundary = b])
  BY <1>1 DEF TurnState, Retains
<1>6. \A ms, s : ~Idle(turn, ms, s, FALSE)
  BY <1>1 DEF Idle
<1>7. \A ms, s : Retains(turn, FinishIfIdle(turn, ms, s, FALSE).turn)
  BY <1>1, <1>6, IdleRetains
<1>8. \A ms, m : Retains(turn, Schedule(turn, ms, m).turn)
  BY <1>1, ScheduleRetains
<1>9. ASSUME NEW i \in Intents, Send(i[1], i[2]) PROVE Retains(turn, turn')
  BY <1>2, <1>9 DEF Send
<1>10. ASSUME Sweep \/ Place PROVE Retains(turn, turn')
  <2>1. CASE Sweep
    BY <1>5, <2>1 DEF Sweep
  <2>2. CASE Place
    <3>1. turn' = Schedule(turn, Each(msgs, routing.cancelled, Failed), routing.msg).turn
      BY <2>2 DEF Place, Take
    <3> DEFINE ms == Each(msgs, routing.cancelled, Failed)
    <3> HIDE DEF ms
    <3>2. turn' = Schedule(turn, ms, routing.msg).turn
      BY <3>1 DEF ms
    <3> QED BY <3>2, <1>8
  <2> QED BY <1>10, <2>1, <2>2
<1>11. ASSUME NEW m \in Numbers,
              \/ Retry(m) \/ (\E s \in Slots : LateBoundary(s, m)) \/ TooLate(m) \/ Submit(m)
              \/ FailDelivery(m) \/ FailProcessing(m)
       PROVE Retains(turn, turn')
  BY <1>2, <1>11 DEF Retry, LateBoundary, TooLate, Submit, FailDelivery, FailProcessing
<1>12. \A s, m : TurnStarts(s, m) => Retains(turn, turn')
  BY <1>2, <1>5 DEF TurnStarts
<1>13. ASSUME NEW m \in Numbers, Return(m) PROVE Retains(turn, turn')
  <2> DEFINE k == IF turn.owner = msgs[m].to /\ turn.submitting > 0 THEN turn.submitting - 1 ELSE turn.submitting
             counted == [turn EXCEPT !.submitting = k]
             queues == IF m \in ToSet(turn.queue) THEN counted
                       ELSE [counted EXCEPT !.queue = Enqueued(turn.queue, m)]
  <2>1. turn.owner # None => turn' \in {counted, queues}
    BY <1>13, <1>1 DEF Return, Take, TurnState
  <2>2. counted.owner = turn.owner /\ queues.owner = turn.owner
    BY <1>1 DEF TurnState
  <2> HIDE DEF counted, queues
  <2> QED BY <2>1, <2>2 DEF Retains
<1>14. ASSUME NEW m \in Numbers,
              \/ StartTurn(m) \/ SteerAccepted(m) \/ SteerRefused(m) \/ Accepted(m)
              \/ MaterializeFails(m) \/ Return(m) \/ ReleaseCheck(m)
              \/ CancelWaiting(m) \/ CancelAccepted(m)
       PROVE Retains(turn, turn')
  BY <1>2, <1>4, <1>5, <1>12, <1>13, <1>14
     DEF StartTurn, SteerAccepted, SteerRefused, Accepted, MaterializeFails, CancelWaiting, CancelAccepted
<1>15. ASSUME NEW s \in Slots, HandleBoundary(s) PROVE Retains(turn, turn')
  <2>1. Head(events[s]) \in Told(s) /\ Head(events[s]).kind = "boundary"
    <3>1. events[s] # <<>> /\ events[s] \in Seq(Report) /\ Head(events[s]).kind = "boundary"
      BY <1>15 DEF HandleBoundary, IInv, Around
    <3>2. 1 \in DOMAIN events[s] /\ Head(events[s]) = events[s][1]
      BY <3>1
    <3> QED BY <3>1, <3>2 DEF Told
  <2>2. CASE ~TurnMatches(msgs, s, Head(events[s]).msg, Head(events[s]).turn)
    BY <1>2, <1>15, <2>2 DEF HandleBoundary
  <2>3. CASE TurnMatches(msgs, s, Head(events[s]).msg, Head(events[s]).turn)
    <3>1. turn.owner # s
      BY <1>1, <2>1, <2>3
    <3> DEFINE seen == [turn EXCEPT !.boundary = turn.boundary \/ turn.owner = s]
    <3>2. seen \in TurnState /\ seen.owner = turn.owner
      BY <1>1 DEF TurnState
    <3>3. \E ms : turn' = FinishIfIdle(seen, ms, s, FALSE).turn
      BY <1>15, <2>3 DEF HandleBoundary, Take
    <3> HIDE DEF seen
    <3>4. \A ms : ~Idle(seen, ms, s, FALSE)
      BY <3>1, <3>2 DEF Idle
    <3>5. \A ms : Retains(seen, FinishIfIdle(seen, ms, s, FALSE).turn)
      BY <3>2, <3>4, IdleRetains
    <3> QED BY <3>2, <3>3, <3>5 DEF Retains
  <2> QED BY <2>2, <2>3
<1>16. ASSUME NEW s \in Slots, StopSettles(s) PROVE Retains(turn, turn')
  <2>1. turn.owner # s
    BY <1>1, <1>16 DEF StopSettles
  <2> QED BY <1>2, <1>16, <2>1 DEF StopSettles, Take
<1>17. ASSUME NEW s \in Slots, HandleInput(s) \/ HandleFinal(s) \/ CancelSettles(s) PROVE Retains(turn, turn')
  <2>1. CASE HandleInput(s)
    <3>1. turn' = turn \/ \E ms : turn' = FinishIfIdle(turn, ms, s, FALSE).turn
      BY <2>1 DEF HandleInput, Take
    <3> QED BY <3>1, <1>2, <1>7
  <2>2. CASE HandleFinal(s)
    <3>1. turn' = turn \/ \E ms, k : turn' = Schedule(turn, ms, k).turn
      BY <2>2 DEF HandleFinal, Take
    <3> QED BY <3>1, <1>2, <1>8
  <2>3. CASE CancelSettles(s)
    <3>1. \E ms : turn' = FinishIfIdle(turn, ms, s, FALSE).turn
      BY <2>3 DEF CancelSettles, Take
    <3> QED BY <3>1, <1>7
  <2> QED BY <1>17, <2>1, <2>2, <2>3
<1>18. ASSUME NEW s \in Slots, AnswersLate(s) \/ StopBegins(s) \/ \E o \in Settled : TurnEnds(s, o)
       PROVE Retains(turn, turn')
  BY <1>2, <1>12, <1>18 DEF AnswersLate, StopBegins, TurnEnds
<1>19. CASE UNCHANGED vars
  BY <1>2, <1>19 DEF vars
<1>20. CASE Next
  BY <1>3, <1>9, <1>10, <1>11, <1>14, <1>15, <1>16, <1>17, <1>18, <1>20 DEF Next
<1> QED BY <1>19, <1>20

\* While the runtime of the owner is in a Turn the Room heard begin, no late or repeated
\* end of an earlier one, no input's end, cancellation or new message releases it:
\* only the last check of a delivery does (runtimeTurnMatches, turnBoundarySeen).
THEOREM OneOwner == Spec => SingleOwner
<1> DEFINE Keeps1 == /\ phase = "up" /\ phase' = "up" /\ tails \subseteq tails'
                     /\ turn.owner # None /\ native[turn.owner].turn # 0 /\ ~Deaf(turn.owner)
                     => turn'.owner = turn.owner
<1>1. IInv /\ Correlated /\ [Next]_vars => Keeps1
  BY OwnerRetained DEF Retains
<1>2. IInv /\ Correlated /\ [Next]_vars => [Keeps1]_vars
  BY <1>1
<1>3. Spec => []OwnedBySlot
  BY NativeInputsAreTheOwners
<1>4. Spec => [](IInv /\ Correlated)
  BY Correlation
<1>5. Spec => BoundaryReleases
  BY <1>2, <1>4, PTL DEF Spec, BoundaryReleases, Keeps1
<1> QED BY <1>3, <1>5, PTL DEF SingleOwner

-----------------------------------------------------------------------------
(***************************************************************************)
(* Nothing stalls.  Attended: what is open at a runtime has a goroutine, a *)
(* runtime or an event that will end it, and after the end of an input     *)
(* comes the end of its Turn.  Owned: the owner of the Turn has something  *)
(* that will release it.                                                   *)
(***************************************************************************)
FollowedIn(s) ==
  \A j \in DOMAIN events[s] : events[s][j].kind \in Settled =>
    \/ control[s] = "stop"
    \/ \E i \in DOMAIN events[s] : /\ i > j /\ events[s][i].kind = "boundary"
                                   /\ events[s][i].turn = events[s][j].turn
\* A runtime has the message, or has said of it what the Room will take.
Minded(m) ==
  LET s == msgs[m].to
  IN \/ m \in Has(native[s]) \/ control[s] = "stop"
     \/ \E e \in Told(s) : e.kind \in Settled /\ e.msg = m /\ Timely(s, e)
Attended ==
  phase = "up" =>
    /\ \A s \in Slots : FollowedIn(s)
    /\ \A m \in Ids : Open(msgs[m]) /\ AtNative(msgs[m]) =>
                        task[m].pc = "native" \/ Minded(m) \/ Blocked(msgs[m].to)
    /\ ~crashed => \A m \in Ids : Open(msgs[m]) /\ msgs[m].del \in Over =>
                     task[m].pc = "failing" \/ m \in routing.cancelled
    /\ routing.step = "sweep" => routing.cancelled = {}

\* Something goes on at the slot, be it in a goroutine or in the runtime.
Working(s) == \E m \in Ids : msgs[m].to = s /\ (task[m].pc # "none" \/ m \in tails)
Stirs(s) ==
  \/ native[s] # IdleRuntime \/ control[s] = "stop"
  \/ \E e \in Told(s) : e.kind = "boundary" /\ Timely(s, e)
Owned ==
  phase = "up" =>
    /\ turn.owner = None => turn.queue = <<>>
    /\ turn.owner # None => Working(turn.owner) \/ Stirs(turn.owner) \/ Blocked(turn.owner)

\* What a step does to what goes on at a slot: it leaves it, a stop has taken it, or
\* a stuck message blocks the slot from now on.
Lasts(s, e) == e \in Told(s)' /\ Timely(s, e)'
Steady(s) ==
  /\ Has(native[s]) \subseteq Has(native[s])'
  /\ control[s] = "stop" => control'[s] = "stop"
  /\ \A e \in Told(s) : e.kind \in Settled /\ Timely(s, e) => Lasts(s, e) \/ ~Open(msgs'[e.msg])
Minds(s) ==
  \/ Blocked(s)' \/ control'[s] = "stop"
  \/ \A m \in DOMAIN msgs' : msgs'[m].to = s => ~(Open(msgs'[m]) /\ AtNative(msgs'[m]))
  \/ /\ ~Blocked(s)
     /\ \A m \in Ids : msgs[m].to = s /\ Open(msgs'[m]) /\ Minded(m) => Minded(m)'
Stirring(s) ==
  \/ Blocked(s)' \/ control'[s] = "stop"
  \/ ~Blocked(s) /\ (Stirs(s) => Stirs(s)')
\* What a step does to one message.
Eases(r, q) ==
  /\ q.to = r.to
  /\ Open(q) => Open(r) /\ (AtNative(q) => AtNative(r)) /\ (q.del \in Over => r.del \in Over)
Tended(m) ==
  /\ msgs'[m].to = msgs[m].to
  /\ Open(msgs'[m]) /\ AtNative(msgs'[m]) =>
       \/ task'[m].pc = "native" \/ Minded(m)'
       \/ Open(msgs[m]) /\ AtNative(msgs[m]) /\ task[m].pc # "native"
  /\ Open(msgs'[m]) /\ msgs'[m].del \in Over =>
       \/ crashed \/ task'[m].pc = "failing" \/ m \in routing'.cancelled
       \/ Open(msgs[m]) /\ msgs[m].del \in Over /\ task[m].pc # "failing" /\ m \notin routing.cancelled

LEMMA AttendedKept ==
  ASSUME phase = "up", crashed' = crashed, Attended, Ids \subseteq DOMAIN msgs',
         \A m \in Ids : msgs[m].to \in Slots,
         \A m \in DOMAIN msgs' \ Ids : Awaiting(msgs'[m]),
         \A s \in Slots : FollowedIn(s)' /\ Minds(s),
         \A m \in Ids : Tended(m),
         routing'.step = "sweep" => routing'.cancelled = {}
  PROVE  Attended'
<1>1. ASSUME NEW m \in DOMAIN msgs', Open(msgs'[m]), AtNative(msgs'[m])
      PROVE  task'[m].pc = "native" \/ Minded(m)' \/ Blocked(msgs[m].to)'
  <2>1. m \in Ids
    BY <1>1 DEF Awaiting, InFifo, AtNative
  <2>2. PICK s \in Slots : msgs[m].to = s /\ msgs'[m].to = s
    BY <2>1 DEF Tended
  <2>3. SUFFICES ASSUME ~Minded(m)', task'[m].pc # "native" PROVE Blocked(s)'
    BY <2>2 DEF Blocked
  <2>4. Open(msgs[m]) /\ AtNative(msgs[m]) /\ task[m].pc # "native"
    BY <1>1, <2>1, <2>3 DEF Tended
  <2>5. Minded(m) \/ Blocked(s)
    BY <2>1, <2>2, <2>4 DEF Attended
  <2>6. control'[s] # "stop"
    BY <2>2, <2>3 DEF Minded
  <2>7. Minds(s)
    OBVIOUS
  <2> QED BY <1>1, <2>1, <2>2, <2>3, <2>5, <2>6, <2>7 DEF Minds
<1>2. ASSUME ~crashed, NEW m \in DOMAIN msgs', Open(msgs'[m]), msgs'[m].del \in Over
      PROVE  task'[m].pc = "failing" \/ m \in routing'.cancelled
  <2>1. m \in Ids
    BY <1>2 DEF Awaiting, InFifo, Over
  <2>2. Tended(m)
    BY <2>1
  <2> QED BY <1>2, <2>1, <2>2 DEF Tended, Attended
<1> QED BY <1>1, <1>2 DEF Attended, Ids

LEMMA EasedTended ==
  ASSUME NEW m, Eases(msgs[m], msgs'[m]), task[m].pc \in {"native", "failing"} => task'[m].pc = task[m].pc,
         m \in routing.cancelled => m \in routing'.cancelled
  PROVE  Tended(m)
BY DEF Eases, Tended

LEMMA QuietEases ==
  ASSUME NEW r, NEW q, Quiet(r, q) \/ (q.to = r.to /\ ~Open(q))
  PROVE  Eases(r, q)
BY DEF Quiet, Keeps, Eases

LEMMA SameTended ==
  ASSUME NEW m, msgs'[m] = msgs[m], task'[m] = task[m], routing' = routing
  PROVE  Tended(m)
BY EasedTended DEF Eases

\* A stuck message that a step does not record stays stuck.
LEMMA BlockedStays ==
  ASSUME IInv, phase = "up", phase' = "up", Correlated, Correlated', NEW s \in Slots, Blocked(s), control[s] # "stop",
         Ids \subseteq DOMAIN msgs',
         \A m \in Ids : msgs[m].to = s /\ Stuck(m) => msgs'[m] = msgs[m] /\ msgs[m].turn # current'[s]
  PROVE  Blocked(s)'
<1>1. PICK m \in Ids : msgs[m].to = s /\ Stuck(m)
  BY DEF Blocked
<1>2. msgs'[m] = msgs[m] /\ msgs[m].turn # current'[s] /\ Open(msgs[m]) /\ msgs[m].turn # 0 /\ m \in DOMAIN msgs'
  BY <1>1 DEF Stuck, Parked
<1>3. Numbered(s)'
  BY DEF Correlated, InSlot
<1>4. Stuck(m)'
  BY <1>1, <1>2, <1>3 DEF Numbered, Ids
<1> QED BY <1>1, <1>2, <1>4 DEF Blocked, Ids

LEMMA StuckElsewhere ==
  ASSUME IInv, phase = "up", Correlated, NEW s \in Slots, control[s] # "stop", NEW m \in Ids, msgs[m].to = s, Stuck(m)
  PROVE  current[s] = 0 /\ msgs[m].turn # current[s]
<1>1. Blocked(s) /\ msgs[m].turn # 0
  BY DEF Blocked, Stuck, Parked
<1> QED BY <1>1 DEF Correlated, InSlot, Unmarked

\* The step records none of the stuck messages, and starts no Turn of theirs.
Passed(s) ==
  control[s] # "stop" =>
    \A m \in Ids : msgs[m].to = s /\ Stuck(m) => msgs'[m] = msgs[m] /\ msgs[m].turn # current'[s]
Bounded(s) == \A e \in Told(s) : e.kind = "boundary" /\ Timely(s, e) => Lasts(s, e)
LEMMA PassedFrom ==
  ASSUME IInv, phase = "up", Correlated, NEW s \in Slots, current'[s] \in {0, current[s]},
         \A m \in Ids : msgs[m].to = s /\ Stuck(m) => msgs'[m] = msgs[m]
  PROVE  Passed(s)
<1>1. SUFFICES ASSUME control[s] # "stop", NEW m \in Ids, msgs[m].to = s, Stuck(m)
               PROVE  msgs[m].turn # current'[s]
  BY DEF Passed
<1>2. current[s] = 0 /\ msgs[m].turn # current[s]
  BY <1>1, StuckElsewhere
<1> QED BY <1>2

LEMMA SteadyMinds ==
  ASSUME IInv, phase = "up", phase' = "up", Correlated, Correlated', NEW s \in Slots, Ids \subseteq DOMAIN msgs',
         \A m \in Ids : msgs'[m].to = msgs[m].to, Steady(s), Passed(s)
  PROVE  Minds(s)
<1>1. CASE control[s] = "stop"
  BY <1>1 DEF Steady, Minds
<1>2. CASE control[s] # "stop" /\ Blocked(s)
  BY <1>2, BlockedStays DEF Passed, Minds
<1>3. CASE control[s] # "stop" /\ ~Blocked(s)
  <2>1. SUFFICES ASSUME NEW m \in Ids, msgs[m].to = s, Open(msgs'[m]), Minded(m) PROVE Minded(m)'
    BY <1>3 DEF Minds
  <2>2. msgs'[m].to = s
    BY <2>1
  <2>3. CASE m \in Has(native[s])
    <3>1. m \in Has(native[s])'
      BY <2>3 DEF Steady
    <3> QED BY <2>2, <3>1 DEF Minded, Has
  <2>4. CASE \E e \in Told(s) : e.kind \in Settled /\ e.msg = m /\ Timely(s, e)
    <3>1. PICK e \in Told(s) : e.kind \in Settled /\ e.msg = m /\ Timely(s, e)
      BY <2>4
    <3>2. e \in Told(s)' /\ Timely(s, e)'
      BY <2>1, <3>1 DEF Steady, Lasts
    <3> QED BY <2>2, <3>1, <3>2 DEF Minded, Told, Timely
  <2> QED BY <1>3, <2>1, <2>3, <2>4 DEF Minded
<1> QED BY <1>1, <1>2, <1>3

LEMMA SteadyStirs ==
  ASSUME IInv, phase = "up", phase' = "up", Correlated, Correlated', NEW s \in Slots, Ids \subseteq DOMAIN msgs',
         Steady(s), Passed(s), Bounded(s)
  PROVE  Stirring(s)
<1>1. CASE control[s] = "stop"
  BY <1>1 DEF Steady, Stirring
<1>2. CASE control[s] # "stop" /\ Blocked(s)
  BY <1>2, BlockedStays DEF Passed, Stirring
<1>3. CASE control[s] # "stop" /\ ~Blocked(s)
  <2>1. SUFFICES ASSUME Stirs(s) PROVE Stirs(s)'
    BY <1>3 DEF Stirring
  <2>2. CASE native[s] # IdleRuntime
    <3>1. Has(native[s]) # {}
      BY <2>2, RuntimeFacts DEF Has, IInv
    <3>2. Has(native'[s]) # {}
      BY <3>1 DEF Steady, Has
    <3>3. native'[s] # IdleRuntime
      BY <3>2 DEF Has, IdleRuntime
    <3> QED BY <3>3 DEF Stirs
  <2>3. CASE \E e \in Told(s) : e.kind = "boundary" /\ Timely(s, e)
    <3>1. PICK e \in Told(s) : e.kind = "boundary" /\ Timely(s, e)
      BY <2>3
    <3>2. e \in Told(s)' /\ Timely(s, e)'
      BY <3>1 DEF Bounded, Lasts
    <3> QED BY <3>1, <3>2 DEF Stirs
  <2> QED BY <1>3, <2>1, <2>2, <2>3 DEF Stirs
<1> QED BY <1>1, <1>2, <1>3

\* A step that leaves the slot alone: its runtime, its events, its stop, its stuck messages.
Unhurt(s) == FollowedIn(s)' /\ Minds(s) /\ Stirring(s)
LeftAlone(s) ==
  /\ native'[s] = native[s] /\ events'[s] = events[s] /\ current'[s] = current[s]
  /\ control'[s] = "stop" <=> control[s] = "stop"
  /\ \A m \in Ids : msgs[m].to = s /\ Stuck(m) => msgs'[m] = msgs[m]
Grows == Ids \subseteq DOMAIN msgs' /\ \A m \in Ids : msgs'[m].to = msgs[m].to
LEMMA LeftAloneUnhurt ==
  ASSUME IInv, phase = "up", phase' = "up", Correlated, Correlated', Attended, Grows, NEW s \in Slots, LeftAlone(s)
  PROVE  Unhurt(s)
<1>1. FollowedIn(s)'
  <2>1. FollowedIn(s)
    BY DEF Attended
  <2> QED BY <2>1 DEF FollowedIn, LeftAlone
<1>2. Told(s)' = Told(s) /\ Has(native[s])' = Has(native[s])
  BY DEF Told, Has, LeftAlone
<1>3. \A e \in Told(s) : Timely(s, e) => Lasts(s, e)
  BY <1>2 DEF Lasts, Timely, LeftAlone
<1>4. Steady(s) /\ Bounded(s) /\ Passed(s)
  BY <1>2, <1>3, PassedFrom DEF Steady, Bounded, LeftAlone
<1> QED BY <1>1, <1>4, SteadyMinds, SteadyStirs DEF Grows, Unhurt

\* What a step leaves the owner of the Turn.
Occupied(s) ==
  \/ Blocked(s)' \/ turn'.submitting # 0
  \/ \E i \in DOMAIN msgs' : msgs'[i].to = s /\ (task'[i].pc # "none" \/ (Open(msgs'[i]) /\ AtNative(msgs'[i])))
  \/ /\ turn.owner = s /\ Stirring(s)
     /\ \A m \in Ids : msgs[m].to = s /\ (task[m].pc # "none" \/ m \in tails) => task'[m].pc # "none" \/ m \in tails'

LEMMA OwnedKept ==
  ASSUME IInv, IInv', phase = "up", phase' = "up", Attended', Owned, Ids \subseteq DOMAIN msgs',
         \A m \in Ids : msgs'[m].to = msgs[m].to,
         turn'.owner = None => turn'.queue = <<>>,
         \A s \in Slots : s = turn'.owner => Occupied(s)
  PROVE  Owned'
<1>0. turn'.owner \in Slots \cup {None}
  <2>1. turn' \in TurnState
    BY DEF IInv, Delivering, Core, Typed
  <2> QED BY <2>1 DEF TurnState
<1>1. SUFFICES ASSUME NEW s \in Slots, s = turn'.owner PROVE Working(s)' \/ Stirs(s)' \/ Blocked(s)'
  BY <1>0 DEF Owned, Working, Stirs, Blocked, Told, Timely
<1>2. s \in Slots /\ s # None
  BY TwoSlots
<1>3. CASE turn'.submitting # 0
  <2>1. /\ turn'.submitting <= Cardinality({m \in Running(task') : msgs'[m].to = turn'.owner})
        /\ \A m \in Numbers \ DOMAIN msgs' : task'[m].pc = "none"
        /\ turn'.submitting \in Nat
    BY DEF IInv, Delivering, Core, Counts, Fresh, Typed, TurnState
  <2> DEFINE R == {m \in Running(task') : msgs'[m].to = turn'.owner}
  <2>2. R # {}
    <3>1. SUFFICES ASSUME R = {} PROVE FALSE
      OBVIOUS
    <3>2. Cardinality(R) = 0
      BY <3>1, FS_EmptySet
    <3>3. turn'.submitting <= Cardinality(R) /\ turn'.submitting \in Nat
      BY <2>1
    <3> HIDE DEF R
    <3> QED BY <1>3, <3>2, <3>3
  <2>3. PICK m \in Running(task') : msgs'[m].to = s
    BY <1>1, <2>2
  <2>4. m \in DOMAIN msgs' /\ task'[m].pc # "none"
    BY <2>1, <2>3 DEF Running
  <2> QED BY <2>3, <2>4 DEF Working, Ids
<1>4. CASE \E i \in DOMAIN msgs' : msgs'[i].to = s /\ task'[i].pc # "none"
  BY <1>4 DEF Working, Ids
<1>5. CASE \E i \in DOMAIN msgs' : msgs'[i].to = s /\ Open(msgs'[i]) /\ AtNative(msgs'[i])
  <2>1. PICK i \in DOMAIN msgs' : msgs'[i].to = s /\ Open(msgs'[i]) /\ AtNative(msgs'[i])
    BY <1>5
  <2>2. task'[i].pc = "native" \/ Minded(i)' \/ Blocked(s)'
    BY <2>1 DEF Attended, Ids, Blocked
  <2>3. CASE i \in Has(native'[s])
    <3>1. native'[s] # IdleRuntime
      BY <2>3 DEF Has, IdleRuntime
    <3> QED BY <3>1 DEF Stirs
  <2>4. CASE \E e \in Told(s)' : e.kind \in Settled /\ e.msg = i /\ Timely(s, e)'
    <3>1. PICK e \in Told(s)' : e.kind \in Settled /\ e.msg = i /\ Timely(s, e)'
      BY <2>4
    <3>2. PICK j \in DOMAIN events'[s] : e = events'[s][j]
      BY DEF Told
    <3>3. FollowedIn(s)'
      BY <1>2 DEF Attended
    <3>4. CASE \E k \in DOMAIN events'[s] : events'[s][k].kind = "boundary" /\ events'[s][k].turn = e.turn
      <4>1. PICK f \in Told(s)' : f.kind = "boundary" /\ f.turn = e.turn
        BY <3>4 DEF Told
      <4>2. Timely(s, f)'
        BY <3>1, <4>1 DEF Timely
      <4> QED BY <4>1, <4>2 DEF Stirs
    <3> QED BY <3>1, <3>2, <3>3, <3>4 DEF FollowedIn, Stirs
  <2>5. CASE task'[i].pc = "native"
    BY <2>1, <2>5 DEF Working, Ids
  <2>6. CASE Minded(i)'
    <3>1. i \in Has(native'[s]) \/ control'[s] = "stop" \/ \E e \in Told(s)' : e.kind \in Settled /\ e.msg = i /\ Timely(s, e)'
      BY <2>1, <2>6 DEF Minded, Has, Told, Timely
    <3> QED BY <2>3, <2>4, <3>1 DEF Stirs
  <2> QED BY <2>2, <2>5, <2>6
<1>6. CASE /\ turn.owner = s /\ Stirring(s)
           /\ \A m \in Ids : msgs[m].to = s /\ (task[m].pc # "none" \/ m \in tails) => task'[m].pc # "none" \/ m \in tails'
  <2>1. Working(s) \/ Stirs(s) \/ Blocked(s)
    BY <1>1, <1>2, <1>6 DEF Owned
  <2>2. CASE Working(s)
    <3>1. PICK m \in Ids : msgs[m].to = s /\ (task[m].pc # "none" \/ m \in tails)
      BY <2>2 DEF Working
    <3>2. m \in DOMAIN msgs' /\ msgs'[m].to = s /\ (task'[m].pc # "none" \/ m \in tails')
      BY <1>6, <3>1
    <3> QED BY <3>2 DEF Working, Ids
  <2> QED BY <1>6, <2>1, <2>2 DEF Stirring, Stirs
<1> QED BY <1>1, <1>3, <1>4, <1>5, <1>6 DEF Occupied

LEMMA NothingQueued == ASSUME NEW q \in Seq(Numbers), ToSet(q) \subseteq {} PROVE q = <<>>
<1>1. Len(q) \in Nat /\ \A i \in 1..Len(q) : q[i] \in ToSet(q)
  BY DEF ToSet
<1>2. Len(q) = 0
  <2>1. SUFFICES ASSUME Len(q) # 0 PROVE FALSE
    OBVIOUS
  <2>2. 1 \in 1..Len(q)
    BY <1>1, <2>1
  <2> QED BY <1>1, <2>2
<1> QED BY <1>2

-----------------------------------------------------------------------------
\* The owner of the Turn has something to do, and nothing waits for nobody.
Manned ==
  /\ turn'.owner = None => turn'.queue = <<>>
  /\ \A s \in Slots : s = turn'.owner => Occupied(s)
\* All that a step has to keep.
Upheld ==
  /\ phase = "up" /\ phase' = "up" /\ crashed' = crashed /\ Grows
  /\ \A m \in DOMAIN msgs' \ Ids : Awaiting(msgs'[m])
  /\ \A s \in Slots : FollowedIn(s)' /\ Minds(s)
  /\ \A m \in Ids : Tended(m)
  /\ routing'.step = "sweep" => routing'.cancelled = {}
  /\ Manned
LEMMA UpheldKept ==
  ASSUME IInv, IInv', Attended, Owned, Upheld
  PROVE  Attended' /\ Owned'
<1>1. \A m \in Ids : msgs[m].to \in Slots
  BY Facts DEF Upheld
<1>2. Attended'
  BY <1>1, AttendedKept DEF Upheld, Grows
<1>5. Owned'
  BY <1>2, OwnedKept DEF Upheld, Grows, Manned
<1> QED BY <1>2, <1>5

\* A step that leaves the Turn with its owner and every goroutine at work.
LEMMA OwnerKept ==
  ASSUME Owned, phase = "up", turn'.owner = turn.owner, ToSet(turn'.queue) \subseteq ToSet(turn.queue), turn' \in TurnState,
         \A s \in Slots : Stirring(s),
         \A m \in Ids : task[m].pc # "none" \/ m \in tails => task'[m].pc # "none" \/ m \in tails'
  PROVE  Manned
<1>1. ASSUME turn.owner = None PROVE turn'.queue = <<>>
  <2>1. turn.queue = <<>>
    BY <1>1 DEF Owned
  <2>2. ToSet(turn.queue) = {}
    BY <2>1 DEF ToSet
  <2> QED BY <2>2, NothingQueued DEF TurnState
<1> QED BY <1>1 DEF Occupied, Manned

LEMMA SomeSame ==
  ASSUME Attended, phase = "up", routing' = routing
  PROVE  routing'.step = "sweep" => routing'.cancelled = {}
BY DEF Attended

\* A goroutine moves on, and with it the delivery of its message.
LEMMA MovedAttended ==
  ASSUME IInv, IInv', Correlated, Correlated', Attended, Owned, NEW m \in Numbers, NEW a, At(m, a), a # "none",
         NEW pc \in Pcs \ {"none"}, Goes(m, pc),
         DOMAIN msgs' = Ids, \A i \in Ids \ {m} : msgs'[i] = msgs[i], Tended(m),
         UNCHANGED <<turn, tails, routing, control, native, events, current, phase, crashed>>
  PROVE  Attended' /\ Owned'
<1>1. /\ phase = "up" /\ m \in Ids /\ task[m].pc # "none" /\ task \in [Numbers -> Goroutine] /\ Ids \subseteq Numbers
      /\ turn \in TurnState
  BY Facts DEF At
<1>2. task'[m].pc = pc /\ \A i \in Numbers \ {m} : task'[i] = task[i]
  BY <1>1 DEF Goes, Goroutine
<1>3. Grows
  BY DEF Grows, Tended
<1>4. \A i \in Ids : Stuck(i) => msgs'[i] = msgs[i]
  BY <1>1 DEF Stuck, Parked
<1>5. \A s \in Slots : LeftAlone(s)
  BY <1>4 DEF LeftAlone
<1>6. \A s \in Slots : Unhurt(s)
  BY <1>1, <1>3, <1>5, LeftAloneUnhurt
<1>7. \A i \in Ids : Tended(i)
  BY <1>1, <1>2, SameTended
<1>8. Manned
  <2>1. \A i \in Ids : task[i].pc # "none" \/ i \in tails => task'[i].pc # "none" \/ i \in tails'
    BY <1>1, <1>2
  <2> QED BY <1>1, <1>6, <2>1, OwnerKept DEF Unhurt
<1>9. Upheld
  BY <1>1, <1>3, <1>6, <1>7, <1>8, SomeSame DEF Upheld, Unhurt
<1> QED BY <1>9, UpheldKept

LEMMA TooLateAttended ==
  ASSUME IInv, IInv', Correlated, Correlated', Attended, Owned, NEW m \in Numbers, TooLate(m)
  PROVE  Attended' /\ Owned'
<1>1. /\ At(m, "wait") /\ Goes(m, "over") /\ task[m].pc = "wait" /\ m \in Ids
      /\ UNCHANGED <<msgs, turn, tails, routing, control, native, events, current, phase, crashed>>
  BY DEF TooLate, At
<1>2. Tended(m)
  BY <1>1, EasedTended DEF Eases
<1>3. DOMAIN msgs' = Ids /\ \A i \in Ids \ {m} : msgs'[i] = msgs[i]
  BY <1>1 DEF Ids
<1> QED BY <1>1, <1>2, <1>3, MovedAttended DEF Pcs

\* What a record of the message itself leaves.
LEMMA RecordedAttended ==
  ASSUME IInv, IInv', Correlated, Correlated', Attended, Owned, NEW m \in Numbers, NEW a, At(m, a), a # "none",
         NEW pc \in Pcs \ {"none"}, Goes(m, pc),
         NEW q, msgs' = [msgs EXCEPT ![m] = q], q.to = msgs[m].to,
         Open(q) /\ AtNative(q) => pc = "native" \/ (a # "native" /\ Open(msgs[m]) /\ AtNative(msgs[m])),
         Open(q) /\ q.del \in Over =>
           pc = "failing" \/ m \in routing.cancelled \/ (a # "failing" /\ Open(msgs[m]) /\ msgs[m].del \in Over),
         UNCHANGED <<turn, tails, routing, control, native, events, current, phase, crashed>>
  PROVE  Attended' /\ Owned'
<1>1. phase = "up" /\ m \in Ids /\ task[m].pc = a /\ task \in [Numbers -> Goroutine]
  BY Facts DEF At
<1>2. DOMAIN msgs' = Ids /\ msgs'[m] = q /\ \A i \in Ids \ {m} : msgs'[i] = msgs[i]
  BY <1>1, OneRecord
<1>3. task'[m].pc = pc
  BY <1>1 DEF Goes, Goroutine
<1>4. Tended(m)
  BY <1>1, <1>2, <1>3 DEF Tended
<1> QED BY <1>2, <1>4, MovedAttended

LEMMA SubmitAttended ==
  ASSUME IInv, IInv', Correlated, Correlated', Attended, Owned, NEW m \in Numbers, Submit(m)
  PROVE  Attended' /\ Owned'
<1> DEFINE q == Delivered(msgs[m], "submitting")
<1>1. /\ At(m, "wait") /\ Goes(m, "native") /\ phase = "up" /\ m \in Ids /\ Awaiting(msgs[m]) /\ msgs' = [msgs EXCEPT ![m] = q]
      /\ UNCHANGED <<turn, tails, routing, control, native, events, current, phase, crashed>>
  BY DEF Submit, At
<1>2. q.to = msgs[m].to /\ q.del = IF DeliveryAllowed(msgs[m].del, "submitting") THEN "submitting" ELSE msgs[m].del
  BY <1>1, Facts, DeliveredFields
<1>3. q.del \notin Over
  BY <1>1, <1>2 DEF Awaiting, InFifo, Over
<1> HIDE DEF q
<1> QED BY <1>1, <1>2, <1>3, RecordedAttended DEF Pcs

LEMMA FailDeliveryAttended ==
  ASSUME IInv, IInv', Correlated, Correlated', Attended, Owned, NEW m \in Numbers, FailDelivery(m)
  PROVE  Attended' /\ Owned'
<1> DEFINE q == Delivered(msgs[m], "failed")
<1>1. PICK a \in {"wait", "native"} : At(m, a)
  BY DEF FailDelivery
<1>2. /\ Goes(m, "failing") /\ phase = "up" /\ m \in Ids /\ msgs' = [msgs EXCEPT ![m] = q]
      /\ UNCHANGED <<turn, tails, routing, control, native, events, current, phase, crashed>>
  BY <1>1 DEF FailDelivery, At
<1>3. q.to = msgs[m].to /\ q.del = IF DeliveryAllowed(msgs[m].del, "failed") THEN "failed" ELSE msgs[m].del
  BY <1>2, Facts, DeliveredFields
<1>4. ~AtNative(q)
  BY <1>3 DEF AtNative, DeliveryAllowed
<1> HIDE DEF q
<1> QED BY <1>1, <1>2, <1>3, <1>4, RecordedAttended DEF Pcs

LEMMA FailProcessingAttended ==
  ASSUME IInv, IInv', Correlated, Correlated', Attended, Owned, NEW m \in Numbers, FailProcessing(m)
  PROVE  Attended' /\ Owned'
<1> DEFINE q == Failed(msgs[m])
<1>1. /\ At(m, "failing") /\ Goes(m, "over") /\ phase = "up" /\ m \in Ids /\ msgs' = [msgs EXCEPT ![m] = q]
      /\ UNCHANGED <<turn, tails, routing, control, native, events, current, phase, crashed>>
  BY DEF FailProcessing, At
<1>2. q.to = msgs[m].to /\ ~Open(q)
  BY <1>1, Facts, FailedQuiet DEF Quiet, Keeps
<1> HIDE DEF q
<1> QED BY <1>1, <1>2, RecordedAttended DEF Pcs

LEMMA SteerRefusedAttended ==
  ASSUME IInv, IInv', Correlated, Correlated', Attended, Owned, NEW m \in Numbers, SteerRefused(m)
  PROVE  Attended' /\ Owned'
<1>1. /\ At(m, "native") /\ phase = "up" /\ m \in Ids /\ task[m].pc = "native"
      /\ UNCHANGED <<turn, tails, routing, control, native, events, current, phase, crashed>>
  BY DEF SteerRefused, At
<1>2. CASE Open(msgs[m]) /\ (InFifo(msgs[m]) \/ msgs[m].del = "submitting")
  <2> DEFINE q == Delivered(msgs[m], "queued")
  <2>1. msgs' = [msgs EXCEPT ![m] = q] /\ Goes(m, "fellback")
    BY <1>2 DEF SteerRefused
  <2>2. q.to = msgs[m].to /\ q.del = IF DeliveryAllowed(msgs[m].del, "queued") THEN "queued" ELSE msgs[m].del
    BY <1>1, Facts, DeliveredFields
  <2>3. q.del = "queued"
    BY <1>2, <2>2 DEF DeliveryAllowed, InFifo
  <2> HIDE DEF q
  <2>4. ~AtNative(q) /\ q.del \notin Over
    BY <2>3 DEF AtNative, Over
  <2> QED BY <1>1, <2>1, <2>2, <2>4, RecordedAttended DEF Pcs
<1>3. CASE ~(Open(msgs[m]) /\ (InFifo(msgs[m]) \/ msgs[m].del = "submitting"))
  <2>1. msgs' = msgs /\ Goes(m, "over") /\ DOMAIN msgs' = Ids
    BY <1>3 DEF SteerRefused, Ids
  <2>2. msgs[m].del \notin {"started", "injected"}
    BY <1>1, NativeFacts
  <2>3. Tended(m)
    BY <1>1, <1>3, <2>1, <2>2 DEF Tended, AtNative
  <2> QED BY <1>1, <2>1, <2>3, MovedAttended DEF Pcs
<1> QED BY <1>2, <1>3

LEMMA AcceptedAttended ==
  ASSUME IInv, IInv', Correlated, Correlated', Attended, Owned, NEW m \in Numbers, Accepted(m)
  PROVE  Attended' /\ Owned'
<1>1. /\ At(m, "accepted") /\ Goes(m, "over") /\ phase = "up" /\ m \in Ids /\ task[m].pc = "accepted"
      /\ UNCHANGED <<turn, tails, routing, control, native, events, current, phase, crashed>>
  BY DEF Accepted, At
<1>2. PICK d \in {"started", "injected"} : msgs' = [msgs EXCEPT ![m] = FallbackWorking(Delivered(@, d))]
  BY DEF Accepted
<1> DEFINE q == FallbackWorking(Delivered(msgs[m], d))
<1>3. /\ q.to = msgs[m].to /\ (Open(q) <=> Open(msgs[m]))
      /\ msgs[m].del \in Over => q.del = msgs[m].del
      /\ q.del \in Over => msgs[m].del \in Over
  BY <1>1, Facts, AcceptedFields
<1>4. msgs' = [msgs EXCEPT ![m] = q]
  BY <1>2
<1> HIDE DEF q
<1>5. AtNative(q) => AtNative(msgs[m])
  <2>1. ~InFifo(msgs[m]) /\ msgs[m] \in Message
    BY <1>1, Facts DEF Core, Once, Locking, Ids
  <2>2. msgs[m].del \in Over \/ AtNative(msgs[m])
    BY <2>1 DEF Message, InFifo, AtNative, Over
  <2> QED BY <1>3, <2>2 DEF AtNative, Over
<1> QED BY <1>1, <1>3, <1>4, <1>5, RecordedAttended DEF Pcs

-----------------------------------------------------------------------------
\* What a step records before it asks the scheduler: messages close, or stay.
Filed(ms, tk, new) ==
  /\ ms \in Seq(Message) /\ Ids \subseteq DOMAIN ms /\ DOMAIN ms \subseteq Numbers
  /\ \A n \in DOMAIN ms \ Ids : Awaiting(ms[n])
  /\ \A m \in Ids : /\ ms[m].to = msgs[m].to
                    /\ ~Open(ms[m]) \/ (ms[m] = msgs[m] /\ (m \in routing.cancelled => m \in routing'.cancelled))
                    /\ task[m].pc \in {"native", "failing"} => m \notin new /\ tk[m].pc = task[m].pc
LEMMA TakenTended ==
  ASSUME IInv, phase = "up", NEW t, NEW ms, NEW tk, NEW new, Taken(t, ms, tk, new), Filed(ms, tk, new)
  PROVE  /\ Grows /\ \A m \in DOMAIN msgs' \ Ids : Awaiting(msgs'[m])
         /\ \A m \in Ids : Tended(m)
         /\ \A m \in DOMAIN ms : msgs'[m].to = ms[m].to
         /\ \A m \in Ids : ms[m] = msgs[m] /\ Open(msgs[m]) /\ m \notin new => msgs'[m] = msgs[m]
         /\ \A m \in Ids : ~Open(ms[m]) => ~Open(msgs'[m])
<1>1. /\ ms \in Seq(Message) /\ DOMAIN msgs' = DOMAIN ms /\ \A m \in DOMAIN ms : ms[m] \in Message
      /\ Ids \subseteq DOMAIN ms /\ DOMAIN ms \subseteq Numbers
      /\ \A n \in DOMAIN ms \ Ids : Awaiting(ms[n])
      /\ \A m \in DOMAIN ms : IF m \in new THEN Queues(ms[m], msgs'[m]) ELSE Left(ms[m], msgs'[m])
  BY DEF Taken, Filed
<1>2. ASSUME NEW m \in DOMAIN ms PROVE Quiet(ms[m], msgs'[m])
  BY <1>1, LeftQuiet, QueuesQuiet
<1>3. \A m \in DOMAIN ms : msgs'[m].to = ms[m].to /\ (Open(msgs'[m]) => Open(ms[m]))
  BY <1>2 DEF Quiet, Keeps
<1>4. ASSUME NEW m \in DOMAIN ms, Awaiting(ms[m]) PROVE Awaiting(msgs'[m])
  <2> DEFINE q == Delivered(ms[m], "queued")
  <2>1. q.proc = ms[m].proc /\ q.del \in {"queued", ms[m].del}
    BY <1>1, DeliveredFields
  <2>2. Left(ms[m], msgs'[m]) \/ Left(q, msgs'[m])
    BY <1>1 DEF Queues
  <2> HIDE DEF q
  <2> QED BY <1>4, <2>1, <2>2 DEF Left, Awaiting, Open, InFifo
<1>5. ASSUME NEW m \in Ids PROVE Tended(m)
  <2>1. /\ ms[m].to = msgs[m].to /\ m \in DOMAIN ms /\ m \in Numbers
        /\ ~Open(ms[m]) \/ (ms[m] = msgs[m] /\ (m \in routing.cancelled => m \in routing'.cancelled))
        /\ task[m].pc \in {"native", "failing"} => m \notin new /\ tk[m].pc = task[m].pc
    BY <1>1 DEF Filed
  <2>2. CASE ~Open(ms[m])
    BY <1>3, <2>1, <2>2 DEF Tended
  <2>3. CASE ms[m] = msgs[m] /\ (m \in routing.cancelled => m \in routing'.cancelled)
    <3>1. Eases(msgs[m], msgs'[m])
      BY <1>2, <2>1, <2>3, QuietEases
    <3>2. task[m].pc \in {"native", "failing"} => task'[m].pc = task[m].pc
      <4>1. SUFFICES ASSUME task[m].pc \in {"native", "failing"} PROVE task'[m].pc = task[m].pc
        OBVIOUS
      <4>2. ~Awaiting(ms[m])
        BY <2>3, <4>1, Facts DEF Core, Once, Locking, Awaiting, Ids
      <4>3. m \in new \/ task'[m] = tk[m] \/ Awaiting(ms[m])
        BY <2>1 DEF Taken
      <4> QED BY <2>1, <4>1, <4>2, <4>3
    <3> QED BY <2>3, <3>1, <3>2, EasedTended
  <2> QED BY <2>1, <2>2, <2>3
<1>6. ASSUME NEW m \in Ids, ms[m] = msgs[m], Open(msgs[m]), m \notin new PROVE msgs'[m] = msgs[m]
  BY <1>1, <1>6 DEF Left
<1>7. Grows
  BY <1>1, <1>3 DEF Grows, Filed
<1> QED BY <1>1, <1>3, <1>4, <1>5, <1>6, <1>7

LEMMA FreedManned ==
  ASSUME NEW ms, Freed(ms), DOMAIN msgs' = DOMAIN ms, \A m \in DOMAIN ms : msgs'[m].to = ms[m].to
  PROVE  Manned
<1>1. ASSUME NEW s \in Slots, s = turn'.owner PROVE Occupied(s)
  <2>1. PICK i \in DOMAIN ms : task'[i].pc = "wait" /\ ms[i].to = s
    BY <1>1, TwoSlots DEF Freed
  <2>2. i \in DOMAIN msgs' /\ msgs'[i].to = s /\ task'[i].pc # "none"
    BY <2>1
  <2> QED BY <2>2 DEF Occupied
<1> QED BY <1>1 DEF Manned, Freed

\* The scheduler has left the Turn with its owner, or has given it to who delivers.
LEMMA TakenManned ==
  ASSUME NEW t, NEW ms, NEW tk, NEW new, Taken(t, ms, tk, new), t.owner = turn.owner,
         turn'.owner = None => turn'.queue = <<>>,
         ToSet(t.queue) \cup new \subseteq DOMAIN ms, \A m \in DOMAIN ms : msgs'[m].to = ms[m].to,
         \A s \in Slots : turn.owner = s /\ turn'.owner = s => Occupied(s)
  PROVE  Manned
<1>1. ASSUME NEW s \in Slots, s = turn'.owner PROVE Occupied(s)
  <2>1. CASE turn'.owner = t.owner
    BY <1>1, <2>1
  <2>2. CASE turn'.owner # t.owner
    <3>1. PICK i \in ToSet(t.queue) \cup new : task'[i].pc = "wait" /\ ms[i].to = s
      BY <1>1, <2>2, TwoSlots DEF Taken
    <3>2. i \in DOMAIN msgs' /\ msgs'[i].to = s /\ task'[i].pc # "none"
      BY <3>1 DEF Taken
    <3> QED BY <3>2 DEF Occupied
  <2> QED BY <2>1, <2>2
<1> QED BY <1>1 DEF Manned

-----------------------------------------------------------------------------
\* The actions that leave the runtimes alone.
LEMMA ArrivesAttended ==
  ASSUME IInv, IInv', phase = "up", Correlated, Correlated', Attended, Owned, NEW r \in Message, msgs' = Append(msgs, r),
         Len(msgs) < MaxMessages, Awaiting(r), routing.cancelled = {}, routing'.cancelled = {},
         UNCHANGED <<turn, task, tails, control, native, events, current, phase, crashed>>
  PROVE  Attended' /\ Owned'
<1>1. msgs \in Seq(Message) /\ turn \in TurnState
  BY Facts
<1>2. /\ DOMAIN msgs' = Ids \cup {Len(msgs) + 1} /\ Len(msgs) + 1 \notin Ids
      /\ \A i \in Ids : msgs'[i] = msgs[i]
      /\ msgs'[Len(msgs) + 1] = r
  BY <1>1, Appended DEF Ids
<1>4. Grows /\ \A m \in DOMAIN msgs' \ Ids : Awaiting(msgs'[m])
  BY <1>2 DEF Grows
<1>5. \A s \in Slots : Unhurt(s)
  BY <1>2, <1>4, LeftAloneUnhurt DEF LeftAlone
<1>6. \A m \in Ids : Tended(m)
  BY <1>2, EasedTended DEF Eases
<1>7. Manned
  BY <1>1, <1>5, OwnerKept DEF Unhurt
<1>8. Upheld
  BY <1>4, <1>5, <1>6, <1>7 DEF Upheld, Unhurt
<1> QED BY <1>8, UpheldKept

LEMMA SendAttended ==
  ASSUME IInv, IInv', Correlated, Correlated', Attended, Owned, NEW to \in Slots, NEW steer \in BOOLEAN, Send(to, steer)
  PROVE  Attended' /\ Owned'
<1> DEFINE r == NewMessage(User, to, steer, 0)
<1>1. /\ phase = "up" /\ routing = NoRouting /\ Len(msgs) < MaxMessages /\ msgs' = Append(msgs, r)
      /\ routing' = [NoRouting EXCEPT !.msg = Len(msgs) + 1, !.step = "sweep"]
      /\ UNCHANGED <<turn, task, tails, control, native, events, current, phase, crashed>>
  BY DEF Send, RoomToAdmit, MayAdd
<1>2. r \in Message /\ Awaiting(r)
  BY NumberFacts DEF NewMessage, Message, Awaiting, Open, InFifo, Settled
<1>3. routing.cancelled = {} /\ routing'.cancelled = {}
  BY <1>1 DEF NoRouting
<1> HIDE DEF r
<1> QED BY <1>1, <1>2, <1>3, ArrivesAttended

LEMMA RetryAttended ==
  ASSUME IInv, IInv', Correlated, Correlated', Attended, Owned, NEW m \in Numbers, Retry(m)
  PROVE  Attended' /\ Owned'
<1> DEFINE r == NewMessage(msgs[m].from, msgs[m].to, msgs[m].steer, m)
<1>1. /\ phase = "up" /\ routing = NoRouting /\ Len(msgs) < MaxMessages /\ msgs' = Append(msgs, r) /\ m \in Ids
      /\ routing' = [NoRouting EXCEPT !.msg = Len(msgs) + 1, !.step = "place"]
      /\ UNCHANGED <<turn, task, tails, control, native, events, current, phase, crashed>>
  BY DEF Retry, RoomToAdmit, MayAdd
<1>2. r \in Message /\ Awaiting(r)
  <2>1. msgs[m] \in Message
    BY <1>1, Facts
  <2> QED BY <2>1, NumberFacts DEF NewMessage, Message, Awaiting, Open, InFifo, Settled
<1>3. routing.cancelled = {} /\ routing'.cancelled = {}
  BY <1>1 DEF NoRouting
<1> HIDE DEF r
<1> QED BY <1>1, <1>2, <1>3, ArrivesAttended

LEMMA SweepAttended ==
  ASSUME IInv, IInv', Correlated, Correlated', Attended, Owned, Sweep
  PROVE  Attended' /\ Owned'
<1> DEFINE older == Overtaken(routing.msg)
<1>1. /\ phase = "up" /\ routing.step = "sweep" /\ msgs' = Each(msgs, older, Skipped)
      /\ turn' = [turn EXCEPT !.queue = Kept(turn.queue, Numbers \ older)]
      /\ routing' = [routing EXCEPT !.step = "place", !.cancelled = older]
      /\ UNCHANGED <<task, tails, control, native, events, current, phase, crashed>>
  BY DEF Sweep
<1>2. /\ turn \in TurnState /\ turn.queue \in Seq(Numbers) /\ routing \in Admission
      /\ \A m \in Ids : msgs[m] \in Message
  BY <1>1, Facts DEF TurnState
<1>3. DOMAIN msgs' = Ids /\ \A m \in Ids : msgs'[m] = IF m \in older THEN Skipped(msgs[m]) ELSE msgs[m]
  BY <1>1 DEF Each, Ids
<1>4. \A m \in older : m \in Ids /\ Awaiting(msgs[m])
  BY DEF Overtaken
<1> HIDE DEF older
<1>5. routing'.step = "place" /\ routing'.cancelled = older /\ routing.cancelled = {}
  BY <1>1, <1>2 DEF Admission, Attended
<1>6. ASSUME NEW m \in Ids PROVE Tended(m)
  <2>1. CASE m \in older
    <3>1. msgs'[m].to = msgs[m].to /\ ~AtNative(msgs'[m])
      <4>1. Keeps(msgs[m], Skipped(msgs[m])) /\ (AtNative(Skipped(msgs[m])) => AtNative(msgs[m]))
        BY <1>2, SkippedFields
      <4> QED BY <1>3, <1>4, <2>1, <4>1 DEF Keeps, Awaiting, InFifo, AtNative
    <3> QED BY <1>5, <2>1, <3>1 DEF Tended
  <2>2. CASE m \notin older
    BY <1>1, <1>3, <1>5, <2>2, EasedTended DEF Eases
  <2> QED BY <2>1, <2>2
<1>7. Grows
  BY <1>3, <1>6 DEF Grows, Tended
<1>8. \A s \in Slots : Unhurt(s)
  <2>1. \A m \in Ids : Stuck(m) => msgs'[m] = msgs[m]
    BY <1>1, <1>3, <1>4, StuckFacts
  <2> QED BY <1>1, <1>7, <2>1, LeftAloneUnhurt DEF LeftAlone
<1>9. Manned
  <2> DEFINE q == Kept(turn.queue, Numbers \ older)
  <2>1. q \in Seq(Numbers) /\ ToSet(q) \subseteq ToSet(turn.queue)
    <3>1. Numbers \in SUBSET Nat
      BY NumberFacts
    <3> QED BY <1>2, <3>1, KeptElements
  <2>2. turn' = [turn EXCEPT !.queue = q]
    BY <1>1
  <2> HIDE DEF q
  <2>3. turn'.owner = turn.owner /\ turn'.queue = q /\ turn' \in TurnState
    BY <1>2, <2>1, <2>2 DEF TurnState
  <2> QED BY <1>1, <1>8, <2>1, <2>3, OwnerKept DEF Unhurt
<1>10. Upheld
  BY <1>1, <1>3, <1>5, <1>6, <1>7, <1>8, <1>9 DEF Upheld, Unhurt
<1> QED BY <1>10, UpheldKept

LEMMA CancelWaitingAttended ==
  ASSUME IInv, IInv', Correlated, Correlated', Attended, Owned, NEW m \in Numbers, CancelWaiting(m)
  PROVE  Attended' /\ Owned'
<1> DEFINE p == Skipped(msgs[m])
           q == Failed(p)
<1>1. /\ phase = "up" /\ m \in Ids /\ msgs' = [msgs EXCEPT ![m] = q]
      /\ turn' = [turn EXCEPT !.queue = Kept(turn.queue, Numbers \ {m})]
      /\ m \in ToSet(turn.queue) \/ InFifo(msgs[m])
      /\ UNCHANGED <<task, tails, routing, control, native, events, current, phase, crashed>>
  BY DEF CancelWaiting
<1>2. /\ turn \in TurnState /\ turn.queue \in Seq(Numbers) /\ msgs[m] \in Message
  BY <1>1, Facts DEF TurnState
<1>3. DOMAIN msgs' = Ids /\ msgs'[m] = q /\ \A i \in Ids \ {m} : msgs'[i] = msgs[i]
  BY <1>1, OneRecord
<1>4. q.to = msgs[m].to /\ ~Open(q)
  <2>1. Keeps(msgs[m], p)
    BY <1>2, SkippedFields
  <2>2. p \in Message /\ p.to = msgs[m].to
    BY <2>1 DEF Keeps
  <2> HIDE DEF p
  <2>3. Quiet(p, q) /\ ~Open(q)
    BY <2>2, FailedQuiet
  <2> QED BY <2>2, <2>3 DEF Quiet, Keeps
<1> HIDE DEF p, q
<1>5. \A i \in Ids : Tended(i)
  <2>1. Tended(m)
    BY <1>3, <1>4 DEF Tended
  <2> QED BY <1>1, <1>3, <2>1, SameTended
<1>6. Grows
  BY <1>3, <1>5 DEF Grows, Tended
<1>7. ~Stuck(m)
  BY <1>1, StuckFacts DEF Awaiting
<1>8. \A s \in Slots : Unhurt(s)
  BY <1>1, <1>3, <1>6, <1>7, LeftAloneUnhurt DEF LeftAlone
<1>9. Manned
  <2> DEFINE k == Kept(turn.queue, Numbers \ {m})
  <2>1. k \in Seq(Numbers) /\ ToSet(k) \subseteq ToSet(turn.queue)
    <3>1. Numbers \in SUBSET Nat
      BY NumberFacts
    <3> QED BY <1>2, <3>1, KeptElements
  <2>2. turn' = [turn EXCEPT !.queue = k]
    BY <1>1
  <2> HIDE DEF k
  <2>3. turn'.owner = turn.owner /\ turn'.queue = k /\ turn' \in TurnState
    BY <1>2, <2>1, <2>2 DEF TurnState
  <2> QED BY <1>1, <1>8, <2>1, <2>3, OwnerKept DEF Unhurt
<1>10. Upheld
  BY <1>1, <1>3, <1>5, <1>6, <1>8, <1>9, SomeSame DEF Upheld, Unhurt
<1> QED BY <1>10, UpheldKept

\* Every goroutine that was at work still is.
Persists(s) == \A m \in Ids : msgs[m].to = s /\ (task[m].pc # "none" \/ m \in tails) => task'[m].pc # "none" \/ m \in tails'
LEMMA TakenPersists ==
  ASSUME IInv, phase = "up", NEW t, NEW ms, NEW new, Taken(t, ms, task, new), tails' = tails
  PROVE  \A s : Persists(s)
<1>1. \A i \in Numbers : task'[i].pc \in {task[i].pc, "wait"}
  BY DEF Taken
<1>2. Ids \subseteq Numbers
  BY Facts
<1> QED BY <1>1, <1>2 DEF Persists

\* The scheduler has moved; the runtimes have not.
LEMMA TakenUnhurt ==
  ASSUME IInv, phase = "up", phase' = "up", Correlated, Correlated', Attended,
         NEW t, NEW ms, NEW tk, NEW new, Taken(t, ms, tk, new), Filed(ms, tk, new),
         \A m \in Ids : Stuck(m) => ms[m] = msgs[m] /\ m \notin new,
         NEW s \in Slots, native'[s] = native[s], events'[s] = events[s], current'[s] = current[s],
         control'[s] = "stop" <=> control[s] = "stop"
  PROVE  Unhurt(s)
<1>1. Grows /\ \A m \in Ids : ms[m] = msgs[m] /\ Open(msgs[m]) /\ m \notin new => msgs'[m] = msgs[m]
  BY TakenTended
<1>2. \A m \in Ids : Stuck(m) => msgs'[m] = msgs[m]
  BY <1>1 DEF Stuck, Parked
<1> QED BY <1>1, <1>2, LeftAloneUnhurt DEF LeftAlone

LEMMA TakenAttended ==
  ASSUME IInv, IInv', Attended, Owned, phase = "up",
         NEW t, NEW ms, NEW tk, NEW new, Taken(t, ms, tk, new), Filed(ms, tk, new),
         \A s \in Slots : FollowedIn(s)' /\ Minds(s), Manned, routing'.step = "sweep" => routing'.cancelled = {},
         UNCHANGED <<phase, crashed>>
  PROVE  Attended' /\ Owned'
<1>1. /\ Grows /\ \A m \in DOMAIN msgs' \ Ids : Awaiting(msgs'[m])
      /\ \A m \in Ids : Tended(m)
  BY TakenTended
<1>2. Upheld
  BY <1>1 DEF Upheld
<1> QED BY <1>2, UpheldKept

LEMMA ReleaseCheckAttended ==
  ASSUME IInv, IInv', Correlated, Correlated', Attended, Owned, NEW m \in Numbers, ReleaseCheck(m)
  PROVE  Attended' /\ Owned'
<1> DEFINE p == msgs[m].to
<1>1. /\ phase = "up" /\ m \in tails /\ tails' = tails \ {m} /\ Take(FinishIfIdle(turn, msgs, p, TRUE), task, FALSE)
      /\ UNCHANGED <<routing, control, native, events, current, phase, crashed>>
  BY DEF ReleaseCheck
<1>2. /\ msgs \in Seq(Message) /\ Len(msgs) <= MaxMessages /\ task \in [Numbers -> Goroutine]
      /\ turn \in TurnState /\ Queued(msgs, turn) /\ Ids \subseteq Numbers /\ DOMAIN msgs = Ids /\ tails \subseteq Ids
  BY <1>1, Facts DEF Core, Ids, Around
<1> HIDE DEF p
<1>3. /\ Taken(turn, msgs, task, {})
      /\ IF Idle(turn, msgs, p, TRUE) THEN Freed(msgs) ELSE turn' = turn /\ task' = task
  BY <1>1, <1>2, TakenFinishIfIdle
<1>4. Filed(msgs, task, {})
  BY <1>1, <1>2 DEF Filed
<1>5. \A s \in Slots : Unhurt(s)
  BY <1>1, <1>3, <1>4, TakenUnhurt
<1>6. /\ DOMAIN msgs' = Ids /\ \A i \in Ids : msgs'[i].to = msgs[i].to
      /\ \A i \in Ids : Open(msgs[i]) => msgs'[i] = msgs[i]
  <2>1. DOMAIN msgs' = DOMAIN msgs
    BY <1>3 DEF Taken
  <2> QED BY <1>1, <1>2, <1>3, <1>4, <2>1, TakenTended
<1>7. Manned
  <2>1. CASE Idle(turn, msgs, p, TRUE)
    BY <1>2, <1>3, <1>6, <2>1, FreedManned
  <2>2. CASE ~Idle(turn, msgs, p, TRUE)
    <3>1. turn' = turn /\ task' = task
      BY <1>3, <2>2
    <3>2. turn'.owner = None => turn'.queue = <<>>
      BY <1>1, <3>1 DEF Owned
    <3>3. ASSUME NEW s \in Slots, s = turn'.owner PROVE Occupied(s)
      <4>1. CASE s = p
        <5>1. turn'.submitting # 0 \/ \E i \in DOMAIN msgs : msgs[i].to = s /\ Open(msgs[i]) /\ AtNative(msgs[i])
          BY <2>2, <3>1, <3>3, <4>1 DEF Idle
        <5> QED BY <1>2, <1>6, <5>1 DEF Occupied
      <4>2. CASE s # p
        BY <1>1, <1>5, <3>1, <3>3, <4>2 DEF Occupied, Unhurt, p
      <4> QED BY <4>1, <4>2
    <3> QED BY <3>2, <3>3 DEF Manned
  <2> QED BY <2>1, <2>2
<1>8. routing'.step = "sweep" => routing'.cancelled = {}
  BY <1>1, SomeSame
<1> QED BY <1>1, <1>3, <1>4, <1>5, <1>7, <1>8, TakenAttended DEF Unhurt

LEMMA CancelSettlesAttended ==
  ASSUME IInv, IInv', Correlated, Correlated', Attended, Owned, NEW s \in Slots, CancelSettles(s)
  PROVE  Attended' /\ Owned'
<1>1. /\ phase = "up" /\ control[s] = "cancel" /\ control' = [control EXCEPT ![s] = "none"]
      /\ UNCHANGED <<tails, routing, native, events, current, phase, crashed>>
  BY DEF CancelSettles
<1>2. /\ control \in [Slots -> {"none", "cancel", "stop"}] /\ Ids \subseteq Numbers
      /\ \A i \in Ids : i \in Numbers /\ msgs[i] \in Message
  BY <1>1, Facts DEF Around
<1>3. PICK ms \in Seq(Message) :
         /\ DOMAIN ms = Ids /\ Taken(turn, ms, task, {})
         /\ \A i \in Ids : ms[i] = msgs[i] \/ (AtNative(msgs[i]) /\ ms[i] = Failed(msgs[i]))
         /\ IF Idle(turn, ms, s, FALSE) THEN Freed(ms) ELSE turn' = turn /\ task' = task
  BY CancelSettlesTaken
<1>4. \A i \in Ids : ms[i].to = msgs[i].to /\ (ms[i] = msgs[i] \/ ~Open(ms[i]))
  BY <1>2, <1>3, FailedQuiet DEF Quiet, Keeps
<1>5. Filed(ms, task, {})
  BY <1>1, <1>2, <1>3, <1>4 DEF Filed
<1>6. \A q \in Slots : Unhurt(q)
  <2>1. \A i \in Ids : Stuck(i) => ms[i] = msgs[i]
    BY <1>1, <1>3, StuckFacts
  <2>2. \A q \in Slots : control'[q] = "stop" <=> control[q] = "stop"
    BY <1>1, <1>2
  <2> QED BY <1>1, <1>3, <1>5, <2>1, <2>2, TakenUnhurt
<1>7. Manned
  <2>a. DOMAIN msgs' = DOMAIN ms
    BY <1>3 DEF Taken
  <2>1. DOMAIN msgs' = DOMAIN ms /\ \A m \in DOMAIN ms : msgs'[m].to = ms[m].to
    BY <1>1, <1>3, <1>5, <2>a, TakenTended
  <2>2. CASE Idle(turn, ms, s, FALSE)
    BY <1>3, <2>1, <2>2, FreedManned
  <2>3. CASE ~Idle(turn, ms, s, FALSE)
    <3>1. turn' = turn /\ task' = task /\ turn' \in TurnState
      BY <1>3, <2>3 DEF Taken
    <3> QED BY <1>1, <1>6, <3>1, OwnerKept DEF Unhurt
  <2> QED BY <2>2, <2>3
<1>8. routing'.step = "sweep" => routing'.cancelled = {}
  BY <1>1, SomeSame
<1> QED BY <1>1, <1>3, <1>5, <1>6, <1>7, <1>8, TakenAttended DEF Unhurt

LEMMA PlaceAttended ==
  ASSUME IInv, IInv', Correlated, Correlated', Attended, Owned, Place
  PROVE  Attended' /\ Owned'
<1> DEFINE n == routing.msg
<1>1. /\ phase = "up" /\ routing' = NoRouting
      /\ UNCHANGED <<tails, control, native, events, current, phase, crashed>>
  BY DEF Place
<1>2. /\ Ids \subseteq Numbers /\ \A i \in Ids : msgs[i] \in Message
      /\ Admitted(msgs, turn, task, routing, crossed) /\ Queued(msgs, turn)
  BY <1>1, Facts DEF Core
<1>3. PICK ms \in Seq(Message) :
         /\ DOMAIN ms = Ids /\ n \in Ids /\ Taken(turn, ms, task, {n})
         /\ \A i \in Ids : ms[i] = IF i \in routing.cancelled THEN Failed(msgs[i]) ELSE msgs[i]
  BY PlaceTaken
<1>4. \A i \in Ids : ms[i].to = msgs[i].to /\ (~Open(ms[i]) \/ (ms[i] = msgs[i] /\ i \notin routing.cancelled))
  BY <1>2, <1>3, FailedQuiet DEF Quiet, Keeps
<1>5. task[n].pc = "none"
  BY <1>2, <1>3, NumberFacts DEF Admitted
<1>6. ToSet(turn.queue) \cup {n} \subseteq DOMAIN ms
  BY <1>2, <1>3 DEF Queued, Ids
<1>s. \A i \in Ids : Stuck(i) => ms[i] = msgs[i] /\ i \notin {n}
  BY <1>1, <1>3, StuckFacts
<1> HIDE DEF n
<1>7. Filed(ms, task, {n})
  BY <1>1, <1>2, <1>3, <1>4, <1>5 DEF Filed
<1>8. \A q \in Slots : Unhurt(q)
  BY <1>1, <1>3, <1>7, <1>s, TakenUnhurt
<1>9. Manned
  <2>1. \A m \in DOMAIN ms : msgs'[m].to = ms[m].to
    BY <1>1, <1>3, <1>7, TakenTended
  <2>2. \A s : Persists(s)
    BY <1>1, <1>3, TakenPersists
  <2>3. \A s \in Slots : turn.owner = s => Occupied(s)
    BY <1>8, <2>2 DEF Occupied, Persists, Unhurt
  <2>4. turn'.owner = None => turn'.queue = <<>>
    BY <1>1, <1>3 DEF Taken, Owned
  <2> QED BY <1>3, <1>6, <2>1, <2>3, <2>4, TakenManned
<1>10. routing'.step = "sweep" => routing'.cancelled = {}
  BY <1>1 DEF NoRouting
<1> QED BY <1>1, <1>3, <1>7, <1>8, <1>9, <1>10, TakenAttended DEF Unhurt

LEMMA ReturnAttended ==
  ASSUME IInv, IInv', Correlated, Correlated', Attended, Owned, NEW m \in Numbers, Return(m)
  PROVE  Attended' /\ Owned'
<1>1. /\ phase = "up" /\ m \in Ids /\ task[m].pc \in {"over", "fellback"} /\ tails' = tails \cup {m}
      /\ UNCHANGED <<routing, control, native, events, current, phase, crashed>>
  BY DEF Return, At
<1>2. PICK t, tk :
        /\ tk = [task EXCEPT ![m].pc = "none"] /\ Taken(t, msgs, tk, {})
        /\ t.owner = turn.owner /\ t.boundary = turn.boundary
        /\ ToSet(t.queue) \subseteq ToSet(turn.queue) \cup {m}
        /\ \/ turn' = t /\ t.queue = turn.queue /\ ~(task[m].pc = "fellback" /\ Awaiting(msgs[m]))
           \/ turn' = t /\ turn.owner # None
           \/ turn.owner = None /\ (turn'.owner = None => turn'.queue = <<>>)
  BY ReturnTaken
<1>3. /\ msgs \in Seq(Message) /\ task \in [Numbers -> Goroutine] /\ Ids \subseteq Numbers /\ DOMAIN msgs = Ids
      /\ ToSet(turn.queue) \subseteq Ids
  BY <1>1, Facts DEF Ids, Core, Queued
<1>4. tk[m].pc = "none" /\ \A i \in Numbers \ {m} : tk[i] = task[i]
  <2>1. "none" \in Pcs
    BY DEF Pcs
  <2> QED BY <1>2, <1>3, <2>1, TaskMoved
<1>5. Filed(msgs, tk, {})
  BY <1>1, <1>3, <1>4 DEF Filed
<1>6. \A q \in Slots : Unhurt(q)
  BY <1>1, <1>2, <1>5, TakenUnhurt
<1>7. Manned
  <2>1. \A i \in DOMAIN msgs : msgs'[i].to = msgs[i].to
    BY <1>1, <1>2, <1>5, TakenTended
  <2>2. \A s : Persists(s)
    <3>1. \A i \in Numbers : task'[i].pc \in {tk[i].pc, "wait"}
      BY <1>2 DEF Taken
    <3> QED BY <1>1, <1>3, <1>4, <3>1 DEF Persists
  <2>3. \A s \in Slots : turn.owner = s => Occupied(s)
    BY <1>6, <2>2 DEF Occupied, Persists, Unhurt
  <2>4. turn'.owner = None => turn'.queue = <<>>
    BY <1>1, <1>2 DEF Owned
  <2>5. ToSet(t.queue) \cup {} \subseteq DOMAIN msgs
    BY <1>1, <1>2, <1>3
  <2> QED BY <1>2, <2>1, <2>3, <2>4, <2>5, TakenManned
<1>8. routing'.step = "sweep" => routing'.cancelled = {}
  BY <1>1, SomeSame
<1> QED BY <1>1, <1>2, <1>5, <1>6, <1>7, <1>8, TakenAttended DEF Unhurt

-----------------------------------------------------------------------------
\* An event is handled.
LEMMA FollowedPopped ==
  ASSUME Around, NEW s \in Slots, events[s] # <<>>, events' = [events EXCEPT ![s] = Tail(@)],
         FollowedIn(s), control'[s] = control[s]
  PROVE  FollowedIn(s)' /\ \A q \in Slots \ {s} : events'[q] = events[q]
<1>1. events \in [Slots -> Seq(Report)] /\ events[s] \in Seq(Report)
  BY DEF Around
<1> DEFINE a == events[s]
           b == Tail(events[s])
<1>2. /\ Len(a) \in Nat /\ DOMAIN a = 1..Len(a) /\ Len(a) > 0
      /\ b \in Seq(Report) /\ Len(b) = Len(a) - 1 /\ DOMAIN b = 1..Len(b)
      /\ \A i \in 1..Len(b) : b[i] = a[i + 1]
  BY <1>1
<1>3. events'[s] = b /\ \A q \in Slots \ {s} : events'[q] = events[q]
  BY <1>1
<1>4. \A j \in DOMAIN a : a[j].kind \in Settled =>
        \/ control[s] = "stop"
        \/ \E i \in DOMAIN a : i > j /\ a[i].kind = "boundary" /\ a[i].turn = a[j].turn
  BY DEF FollowedIn
<1> HIDE DEF a, b
<1>5. ASSUME NEW j \in DOMAIN b, b[j].kind \in Settled, control[s] # "stop"
      PROVE  \E i \in DOMAIN b : i > j /\ b[i].kind = "boundary" /\ b[i].turn = b[j].turn
  <2>1. j + 1 \in DOMAIN a /\ b[j] = a[j + 1] /\ j \in Nat
    BY <1>2
  <2>2. PICK i \in DOMAIN a : i > j + 1 /\ a[i].kind = "boundary" /\ a[i].turn = a[j + 1].turn
    BY <1>4, <1>5, <2>1
  <2>3. i - 1 \in DOMAIN b /\ i - 1 > j /\ (i - 1) + 1 = i
    BY <1>2, <2>1, <2>2
  <2>4. b[i - 1] = a[i]
    BY <1>2, <2>3
  <2> QED BY <2>1, <2>2, <2>3, <2>4
<1> QED BY <1>3, <1>5 DEF FollowedIn

\* What the Room does with the head event leaves the slot as it was: the event was
\* stale, or the slot blocked, or its message is closed, or it ends nothing.
LEMMA PoppedUnhurt ==
  ASSUME IInv, phase = "up", phase' = "up", Correlated, Correlated', Attended, Grows,
         NEW s \in Slots, events[s] # <<>>, events' = [events EXCEPT ![s] = Tail(@)],
         native' = native, control' = control, current' = current,
         \A m \in Ids : Stuck(m) => msgs'[m] = msgs[m],
         LET e == Head(events[s])
         IN \/ Timely(s, e) => Blocked(s)
            \/ e.kind = "final"
            \/ e.kind \in Settled /\ ~Open(msgs'[e.msg])
  PROVE  \A q \in Slots : Unhurt(q)
<1> DEFINE e == Head(events[s])
<1>1. /\ e \in Told(s)
      /\ \A q \in Slots : /\ Told(q)' \subseteq Told(q)
                          /\ \A f \in Told(q) : f \in Told(q)' \/ (q = s /\ f = e)
  BY HeadTold DEF IInv
<1>2. \/ Timely(s, e) => Blocked(s)
      \/ e.kind = "final"
      \/ e.kind \in Settled /\ ~Open(msgs'[e.msg])
  OBVIOUS
<1> HIDE DEF e
<1>3. FollowedIn(s)' /\ \A q \in Slots \ {s} : events'[q] = events[q]
  BY FollowedPopped DEF IInv, Attended
<1>4. \A q \in Slots \ {s} : Unhurt(q)
  BY <1>3, LeftAloneUnhurt DEF LeftAlone
<1>5. Passed(s)
  BY PassedFrom
<1>6. CASE Blocked(s) /\ control[s] # "stop"
  <2>1. Blocked(s)'
    BY <1>5, <1>6, BlockedStays DEF Grows, Passed
  <2> QED BY <1>3, <1>4, <2>1 DEF Unhurt, Minds, Stirring
<1>7. CASE control[s] = "stop"
  BY <1>3, <1>4, <1>7 DEF Unhurt, Minds, Stirring
<1>8. CASE ~Blocked(s)
  <2>1. Has(native[s])' = Has(native[s])
    BY DEF Has
  <2>2. \A f \in Told(s) : Timely(s, f) => Lasts(s, f) \/ f = e
    BY <1>1 DEF Lasts, Timely
  <2>3. ~Timely(s, e) \/ e.kind = "final" \/ (e.kind \in Settled /\ ~Open(msgs'[e.msg]))
    BY <1>2, <1>8
  <2>4. "final" \notin Settled /\ "boundary" \notin Settled
    BY DEF Settled
  <2>5. Steady(s) /\ Bounded(s)
    BY <2>1, <2>2, <2>3, <2>4 DEF Steady, Bounded
  <2>6. Minds(s) /\ Stirring(s)
    BY <1>5, <2>5, SteadyMinds, SteadyStirs DEF Grows
  <2> QED BY <1>3, <1>4, <2>6 DEF Unhurt
<1> QED BY <1>6, <1>7, <1>8

LEMMA PoppedAttended ==
  ASSUME IInv, IInv', phase = "up", Correlated, Correlated', Attended, Owned,
         NEW s \in Slots, events[s] # <<>>, events' = [events EXCEPT ![s] = Tail(@)],
         (Timely(s, Head(events[s])) => Blocked(s)) \/ Head(events[s]).kind = "final",
         UNCHANGED <<msgs, turn, task, tails, routing, control, native, current, phase, crashed>>
  PROVE  Attended' /\ Owned'
<1>1. Grows /\ DOMAIN msgs' = Ids
  BY DEF Grows, Ids
<1>2. \A q \in Slots : Unhurt(q)
  BY <1>1, PoppedUnhurt
<1>3. \A m \in Ids : Tended(m)
  BY SameTended
<1>4. Manned
  <2>1. turn' \in TurnState
    BY Facts
  <2> QED BY <1>2, <2>1, OwnerKept DEF Unhurt
<1>5. Upheld
  BY <1>1, <1>2, <1>3, <1>4, SomeSame DEF Upheld, Unhurt
<1> QED BY <1>5, UpheldKept

LEMMA HandleInputAttended ==
  ASSUME IInv, IInv', Correlated, Correlated', Attended, Owned, NEW s \in Slots, HandleInput(s)
  PROVE  Attended' /\ Owned'
<1> DEFINE m == Head(events[s]).msg
<1>1. /\ phase = "up" /\ events[s] # <<>> /\ Head(events[s]).kind \in Settled
      /\ events' = [events EXCEPT ![s] = Tail(@)]
      /\ UNCHANGED <<tails, routing, control, native, current, phase, crashed>>
      /\ \/ TurnMatches(msgs, s, Head(events[s]).msg, Head(events[s]).turn)
         \/ UNCHANGED <<turn, msgs, task>> /\ ~TurnMatches(msgs, s, Head(events[s]).msg, Head(events[s]).turn)
  BY DEF HandleInput
<1>2. CASE UNCHANGED <<turn, msgs, task>> /\ ~TurnMatches(msgs, s, Head(events[s]).msg, Head(events[s]).turn)
  <2>1. Timely(s, Head(events[s])) => Blocked(s)
    BY <1>1, <1>2, UnmatchedHeard
  <2> QED BY <1>1, <1>2, <2>1, PoppedAttended
<1>3. CASE TurnMatches(msgs, s, Head(events[s]).msg, Head(events[s]).turn)
  <2>1. PICK ms \in Seq(Message) :
           /\ DOMAIN ms = Ids /\ m \in Ids /\ ~Stuck(m) /\ Taken(turn, ms, task, {})
           /\ MildTo(m, ms[m]) /\ ms[m] \in Message /\ ~Open(ms[m])
           /\ \A i \in Ids \ {m} : ms[i] = msgs[i]
           /\ IF Idle(turn, ms, s, FALSE) THEN Freed(ms) ELSE turn' = turn /\ task' = task
    BY <1>3, HandleInputTaken
  <2>m. m = Head(events[s]).msg
    OBVIOUS
  <2> HIDE DEF m
  <2>2. Filed(ms, task, {})
    <3>1. Ids \subseteq Numbers
      BY <1>1, Facts
    <3>2. ms[m].to = msgs[m].to
      BY <2>1 DEF MildTo
    <3> QED BY <1>1, <2>1, <3>1, <3>2 DEF Filed
  <2>3. /\ Grows /\ \A i \in Ids : Open(msgs[i]) /\ ms[i] = msgs[i] => msgs'[i] = msgs[i]
        /\ \A i \in DOMAIN ms : msgs'[i].to = ms[i].to
        /\ \A i \in Ids : ~Open(ms[i]) => ~Open(msgs'[i])
    BY <1>1, <2>1, <2>2, TakenTended
  <2>4. \A q \in Slots : Unhurt(q)
    <3>1. \A i \in Ids : Stuck(i) => msgs'[i] = msgs[i]
      BY <2>1, <2>3 DEF Stuck, Parked
    <3>2. ~Open(msgs'[Head(events[s]).msg])
      BY <2>1, <2>3, <2>m
    <3> QED BY <1>1, <2>3, <3>1, <3>2, PoppedUnhurt
  <2>5. Manned
    <3>1. CASE Idle(turn, ms, s, FALSE)
      <4>1. DOMAIN msgs' = DOMAIN ms
        BY <2>1 DEF Taken
      <4> QED BY <2>1, <2>3, <3>1, <4>1, FreedManned
    <3>2. CASE ~Idle(turn, ms, s, FALSE)
      <4>1. turn' = turn /\ task' = task /\ turn' \in TurnState
        BY <2>1, <3>2 DEF Taken
      <4> QED BY <1>1, <2>4, <4>1, OwnerKept DEF Unhurt
    <3> QED BY <3>1, <3>2
  <2>6. routing'.step = "sweep" => routing'.cancelled = {}
    BY <1>1, SomeSame
  <2> QED BY <1>1, <2>1, <2>2, <2>4, <2>5, <2>6, TakenAttended DEF Unhurt
<1> QED BY <1>1, <1>2, <1>3

LEMMA HandleFinalAttended ==
  ASSUME IInv, IInv', Correlated, Correlated', Attended, Owned, NEW s \in Slots, HandleFinal(s)
  PROVE  Attended' /\ Owned'
<1>1. /\ phase = "up" /\ events[s] # <<>> /\ Head(events[s]).kind = "final" /\ routing = NoRouting
      /\ events' = [events EXCEPT ![s] = Tail(@)]
      /\ UNCHANGED <<tails, routing, control, native, current, phase, crashed>>
  BY DEF HandleFinal
<1>2. CASE UNCHANGED <<turn, msgs, task>>
  BY <1>1, <1>2, PoppedAttended
<1>3. CASE ~(UNCHANGED <<turn, msgs, task>>)
  <2>1. PICK ms \in Seq(Message), m \in Numbers :
           /\ Taken(turn, ms, task, {m})
           /\ DOMAIN ms = Ids \cup {m} /\ m \notin Ids /\ \A i \in Ids : ms[i] = msgs[i]
           /\ Awaiting(ms[m]) /\ ms[m].turn = 0 /\ ms[m].unsure = FALSE /\ task[m].pc = "none"
    BY <1>3, HandleFinalTaken
  <2>2. Ids \subseteq Numbers /\ Queued(msgs, turn)
    BY <1>1, Facts DEF Core
  <2>3. Filed(ms, task, {m})
    BY <1>1, <2>1, <2>2 DEF Filed
  <2>4. /\ Grows /\ \A i \in Ids : Open(msgs[i]) => msgs'[i] = msgs[i]
        /\ \A i \in DOMAIN ms : msgs'[i].to = ms[i].to
    BY <1>1, <2>1, <2>3, TakenTended
  <2>5. \A q \in Slots : Unhurt(q)
    <3>1. \A i \in Ids : Stuck(i) => msgs'[i] = msgs[i]
      BY <2>4 DEF Stuck, Parked
    <3> QED BY <1>1, <2>4, <3>1, PoppedUnhurt
  <2>6. Manned
    <3>1. \A q : Persists(q)
      BY <1>1, <2>1, TakenPersists
    <3>2. \A q \in Slots : turn.owner = q => Occupied(q)
      BY <2>5, <3>1 DEF Occupied, Persists, Unhurt
    <3>3. turn'.owner = None => turn'.queue = <<>>
      BY <1>1, <2>1 DEF Taken, Owned
    <3>4. ToSet(turn.queue) \cup {m} \subseteq DOMAIN ms
      BY <2>1, <2>2 DEF Queued, Ids
    <3> QED BY <2>1, <2>4, <3>2, <3>3, <3>4, TakenManned
  <2>7. routing'.step = "sweep" => routing'.cancelled = {}
    BY <1>1, SomeSame
  <2> QED BY <1>1, <2>1, <2>3, <2>5, <2>6, <2>7, TakenAttended DEF Unhurt
<1> QED BY <1>2, <1>3

LEMMA HandleBoundaryAttended ==
  ASSUME IInv, IInv', Correlated, Correlated', Attended, Owned, NEW s \in Slots, HandleBoundary(s)
  PROVE  Attended' /\ Owned'
<1> DEFINE e == Head(events[s])
<1>1. /\ phase = "up" /\ events[s] # <<>> /\ e.kind = "boundary"
      /\ events' = [events EXCEPT ![s] = Tail(@)]
      /\ UNCHANGED <<tails, routing, control, native, phase, crashed>>
      /\ \/ TurnMatches(msgs, s, e.msg, e.turn)
         \/ UNCHANGED <<turn, msgs, task, current>> /\ ~TurnMatches(msgs, s, e.msg, e.turn)
  BY DEF HandleBoundary
<1>2. CASE UNCHANGED <<turn, msgs, task, current>> /\ ~TurnMatches(msgs, s, e.msg, e.turn)
  <2>1. Timely(s, Head(events[s])) => Blocked(s)
    BY <1>1, <1>2, UnmatchedHeard
  <2> QED BY <1>1, <1>2, <2>1, PoppedAttended
<1>3. CASE TurnMatches(msgs, s, e.msg, e.turn)
  <2>1. /\ current' = [current EXCEPT ![s] = IF e.turn \in {0, @} THEN 0 ELSE @]
        /\ \E t \in TurnState : \E ms :
              /\ BoundaryHandled(s, e, ms)
              /\ t.owner = turn.owner /\ t.queue = turn.queue /\ t.submitting = turn.submitting
              /\ t.boundary = (turn.boundary \/ turn.owner = s)
              /\ Taken(t, ms, task, {})
              /\ IF Idle(t, ms, s, FALSE) THEN Freed(ms) ELSE turn' = t /\ task' = task
    BY <1>3, HandleBoundaryTaken
  <2>2. PICK t \in TurnState : \E ms :
              /\ BoundaryHandled(s, e, ms)
              /\ t.owner = turn.owner /\ t.queue = turn.queue
              /\ t.boundary = (turn.boundary \/ turn.owner = s)
              /\ Taken(t, ms, task, {})
              /\ IF Idle(t, ms, s, FALSE) THEN Freed(ms) ELSE turn' = t /\ task' = task
    BY <2>1
  <2>3. PICK ms :
              /\ BoundaryHandled(s, e, ms)
              /\ Taken(t, ms, task, {})
              /\ IF Idle(t, ms, s, FALSE) THEN Freed(ms) ELSE turn' = t /\ task' = task
    BY <2>2
  <2>4. /\ ms \in Seq(Message) /\ DOMAIN ms = Ids
        /\ \A m \in Ids : Stuck(m) => ms[m] = msgs[m]
        /\ \A m \in Ids : ms[m].to = msgs[m].to /\ (ms[m] = msgs[m] \/ ~Open(ms[m]))
    BY <2>3 DEF BoundaryHandled, MildTo
  <2>5. Ids \subseteq Numbers /\ current \in [Slots -> 0..MaxMessages]
    BY <1>1, Facts DEF Around
  <2>6. \A q \in Slots : current'[q] = current[q] \/ (q = s /\ current'[q] = 0)
    BY <2>1, <2>5
  <2>e. /\ e \in Told(s)
        /\ \A q \in Slots : /\ Told(q)' \subseteq Told(q)
                            /\ \A f \in Told(q) : f \in Told(q)' \/ (q = s /\ f = e)
    BY <1>1, HeadTold DEF IInv
  <2>f. FollowedIn(s)' /\ \A q \in Slots \ {s} : events'[q] = events[q]
    BY <1>1, FollowedPopped DEF IInv, Attended
  <2> HIDE DEF e
  <2>7. Filed(ms, task, {})
    BY <1>1, <2>4, <2>5 DEF Filed
  <2>8. /\ Grows /\ \A i \in Ids : Open(msgs[i]) /\ ms[i] = msgs[i] => msgs'[i] = msgs[i]
        /\ \A i \in DOMAIN ms : msgs'[i].to = ms[i].to
        /\ \A i \in Ids : ~Open(ms[i]) => ~Open(msgs'[i])
    BY <1>1, <2>3, <2>7, TakenTended
  <2>9. \A i \in Ids : Stuck(i) => msgs'[i] = msgs[i]
    BY <2>4, <2>8 DEF Stuck, Parked
  <2>10. \A q \in Slots \ {s} : Unhurt(q)
    BY <1>1, <2>6, <2>8, <2>9, <2>f, LeftAloneUnhurt DEF LeftAlone
  <2>11. FollowedIn(s)' /\ Minds(s)
    <3>1. Passed(s)
      BY <1>1, <2>6, <2>9, PassedFrom
    <3>2. \A f \in Told(s) : Timely(s, f) => Lasts(s, f) \/ f = e
      BY <2>6, <2>e DEF Lasts, Timely
    <3>3. "boundary" \notin Settled
      BY DEF Settled
    <3>4. Steady(s)
      BY <1>1, <3>2, <3>3 DEF Steady, Has
    <3> QED BY <1>1, <2>8, <2>f, <3>1, <3>4, SteadyMinds DEF Grows
  <2>12. Manned
    <3>1. CASE Idle(t, ms, s, FALSE)
      <4>1. DOMAIN msgs' = DOMAIN ms
        BY <2>3 DEF Taken
      <4> QED BY <2>3, <2>8, <3>1, <4>1, FreedManned
    <3>2. CASE ~Idle(t, ms, s, FALSE)
      <4>1. turn' = t /\ task' = task /\ turn'.owner = turn.owner
        BY <2>2, <2>3, <3>2
      <4>2. turn'.owner = None => turn'.queue = <<>>
        BY <1>1, <2>2, <4>1 DEF Owned
      <4>3. ASSUME NEW q \in Slots, q = turn'.owner PROVE Occupied(q)
        <5>1. CASE q = s
          <6>1. t.boundary = TRUE /\ t.owner = s
            BY <2>2, <4>1, <4>3, <5>1
          <6>2. turn'.submitting # 0 \/ \E i \in DOMAIN ms : ms[i].to = s /\ Open(ms[i]) /\ AtNative(ms[i])
            BY <3>2, <4>1, <6>1 DEF Idle
          <6>3. \A i \in DOMAIN ms : Open(ms[i]) => i \in DOMAIN msgs' /\ msgs'[i] = ms[i]
            BY <2>4, <2>8 DEF Grows
          <6> QED BY <5>1, <6>2, <6>3 DEF Occupied
        <5>2. CASE q # s
          BY <1>1, <2>10, <4>1, <4>3, <5>2 DEF Occupied, Unhurt
        <5> QED BY <5>1, <5>2
      <4> QED BY <4>2, <4>3 DEF Manned
    <3> QED BY <3>1, <3>2
  <2>13. routing'.step = "sweep" => routing'.cancelled = {}
    BY <1>1, SomeSame
  <2>14. \A q \in Slots : FollowedIn(q)' /\ Minds(q)
    BY <2>10, <2>11 DEF Unhurt
  <2> QED BY <1>1, <2>3, <2>7, <2>12, <2>13, <2>14, TakenAttended
<1> QED BY <1>1, <1>2, <1>3

-----------------------------------------------------------------------------
\* The runtimes.
LEMMA StillAttended ==
  ASSUME IInv, IInv', phase = "up", Attended, Owned, DOMAIN msgs' = Ids,
         \A m \in Ids : Tended(m), \A s \in Slots : Unhurt(s),
         turn'.owner = turn.owner, turn'.queue = turn.queue,
         \A m \in Ids : task[m].pc # "none" \/ m \in tails => task'[m].pc # "none" \/ m \in tails',
         UNCHANGED <<routing, phase, crashed>>
  PROVE  Attended' /\ Owned'
<1>1. Manned
  BY DEF Manned, Occupied, Owned, Unhurt
<1>2. Grows
  BY DEF Grows, Tended
<1>3. Upheld
  BY <1>1, <1>2, SomeSame DEF Upheld, Unhurt
<1> QED BY <1>3, UpheldKept

\* Reports join the queue of a slot, each end of an input before a boundary of its Turn.
LEMMA FollowedJoined ==
  ASSUME Around, NEW s \in Slots, FollowedIn(s), control'[s] = "stop" \/ control[s] # "stop",
         NEW v \in Seq(Report), events'[s] = events[s] \o v,
         control'[s] = "stop" \/ \A j \in DOMAIN v : v[j].kind \in Settled =>
           \E i \in DOMAIN v : i > j /\ v[i].kind = "boundary" /\ v[i].turn = v[j].turn
  PROVE  FollowedIn(s)'
<1> DEFINE a == events[s]
           b == events[s] \o v
<1>1. a \in Seq(Report) /\ b = a \o v
  BY DEF Around
<1> HIDE DEF a, b
<1>2. /\ DOMAIN b = 1..(Len(a) + Len(v)) /\ DOMAIN a = 1..Len(a) /\ DOMAIN v = 1..Len(v)
      /\ Len(a) \in Nat /\ Len(v) \in Nat
      /\ \A i \in DOMAIN a : i \in DOMAIN b /\ b[i] = a[i]
      /\ \A i \in DOMAIN v : i + Len(a) \in DOMAIN b /\ b[i + Len(a)] = v[i]
      /\ \A i \in DOMAIN b : \/ i \in DOMAIN a /\ b[i] = a[i]
                             \/ i - Len(a) \in DOMAIN v /\ b[i] = v[i - Len(a)]
  BY <1>1, Joined
<1>3. \A j \in DOMAIN a : a[j].kind \in Settled =>
        \/ control[s] = "stop"
        \/ \E i \in DOMAIN a : i > j /\ a[i].kind = "boundary" /\ a[i].turn = a[j].turn
  BY DEF FollowedIn, a
<1>4. events'[s] = b
  BY DEF b
<1>5. ASSUME NEW j \in DOMAIN b, b[j].kind \in Settled, control'[s] # "stop"
      PROVE  \E i \in DOMAIN b : i > j /\ b[i].kind = "boundary" /\ b[i].turn = b[j].turn
  <2>1. CASE j \in DOMAIN a /\ b[j] = a[j]
    <3>1. PICK i \in DOMAIN a : i > j /\ a[i].kind = "boundary" /\ a[i].turn = a[j].turn
      BY <1>3, <1>5, <2>1
    <3>2. i \in DOMAIN b /\ b[i] = a[i]
      BY <1>2
    <3> QED BY <2>1, <3>1, <3>2
  <2>2. CASE j - Len(a) \in DOMAIN v /\ b[j] = v[j - Len(a)]
    <3>1. PICK i \in DOMAIN v : i > j - Len(a) /\ v[i].kind = "boundary" /\ v[i].turn = v[j - Len(a)].turn
      BY <1>5, <2>2
    <3>2. i + Len(a) \in DOMAIN b /\ b[i + Len(a)] = v[i] /\ i + Len(a) > j
      BY <1>2, <3>1
    <3> QED BY <2>2, <3>1, <3>2
  <2> QED BY <1>2, <2>1, <2>2
<1> QED BY <1>4, <1>5 DEF FollowedIn

\* What a runtime gives up it has told, in time for the Room to take it.
LEMMA EndsUnhurt ==
  ASSUME IInv, phase = "up", phase' = "up", Correlated, Correlated', Attended, Grows,
         NEW s \in Slots, NEW o \in Settled, Ends(s, o), control[s] # "stop",
         \A q \in Slots : control'[q] = "stop" <=> control[q] = "stop",
         current' = current, \A m \in Ids : Stuck(m) => msgs'[m] = msgs[m]
  PROVE  \A q \in Slots : Unhurt(q)
<1>1. CASE native[s] = IdleRuntime
  <2>1. native' = native /\ events' = events
    BY <1>1 DEF Ends
  <2> QED BY <2>1, LeftAloneUnhurt DEF LeftAlone
<1>2. CASE native[s] # IdleRuntime
  <2>v. PICK v : v = EndEvents(native[s], o)
    OBVIOUS
  <2>n. PICK n : n = native[s]
    OBVIOUS
  <2>1. native' = [native EXCEPT ![s] = IdleRuntime] /\ events' = [events EXCEPT ![s] = @ \o v]
    BY <1>2, <2>v DEF Ends
  <2>2. Around /\ n \in Runtime /\ Has(n) # {} /\ native \in [Slots -> Runtime] /\ events \in [Slots -> Seq(Report)]
    BY <1>2, <2>n, RuntimeFacts DEF IInv, Around, Has
  <2>3. /\ v \in Seq(Report) /\ Len(v) \in Nat /\ Len(v) > 0 /\ DOMAIN v = 1..Len(v)
        /\ v[Len(v)].kind = "boundary" /\ v[Len(v)].turn = n.turn
        /\ \A i \in DOMAIN v : v[i].msg \in Has(n) /\ v[i].turn = n.turn
        /\ \A m \in Has(n) : \E i \in DOMAIN v : v[i].kind \in Settled /\ v[i].msg = m
    <3> DEFINE w == EndEvents(n, o)
    <3>1. v = w
      BY <2>n, <2>v
    <3>2. /\ w \in Seq(Report) /\ Len(w) \in Nat /\ Len(w) > 0 /\ DOMAIN w = 1..Len(w)
          /\ w[Len(w)].kind = "boundary" /\ w[Len(w)].turn = n.turn
          /\ \A i \in DOMAIN w : w[i].msg \in Has(n) /\ w[i].turn = n.turn
          /\ \A m \in Has(n) : \E i \in DOMAIN w : w[i].kind \in Settled /\ w[i].msg = m
      BY <2>2, EndEventsElements
    <3> HIDE DEF w
    <3> QED BY <3>1, <3>2
  <2>4. /\ \A q \in Slots \ {s} : events'[q] = events[q]
        /\ Told(s) \subseteq Told(s)'
        /\ \A i \in DOMAIN v : v[i] \in Told(s)'
    BY <2>1, <2>2, <2>3, ToldJoined
  <2>5. \A q \in Slots \ {s} : Unhurt(q)
    <3>1. \A q \in Slots \ {s} : native'[q] = native[q]
      BY <2>1, <2>2
    <3> QED BY <2>4, <3>1, LeftAloneUnhurt DEF LeftAlone
  <2>6. FollowedIn(s)'
    <3>1. \A j \in DOMAIN v : v[j].kind \in Settled =>
            \E i \in DOMAIN v : i > j /\ v[i].kind = "boundary" /\ v[i].turn = v[j].turn
      <4>1. SUFFICES ASSUME NEW j \in DOMAIN v, v[j].kind \in Settled
                     PROVE  Len(v) \in DOMAIN v /\ Len(v) > j /\ v[Len(v)].turn = v[j].turn
        BY <2>3
      <4>2. v[j].kind # v[Len(v)].kind
        BY <2>3, <4>1 DEF Settled
      <4>3. j \in 1..Len(v) /\ j # Len(v)
        BY <2>3, <4>2
      <4> QED BY <2>3, <4>3
    <3>2. events'[s] = events[s] \o v
      BY <2>1, <2>2
    <3>3. FollowedIn(s)
      BY DEF Attended
    <3> QED BY <2>2, <2>3, <3>1, <3>2, <3>3, FollowedJoined
  <2>7. CASE Blocked(s)
    <3>1. Passed(s)
      BY PassedFrom
    <3>2. Blocked(s)'
      BY <2>7, <3>1, BlockedStays DEF Grows, Passed
    <3> QED BY <2>5, <2>6, <3>2 DEF Unhurt, Minds, Stirring
  <2>8. CASE ~Blocked(s)
    <3>1. n.turn = 0 \/ current[s] = n.turn
      <4>1. Turning(s)
        BY DEF Correlated, InSlot
      <4> QED BY <2>8, <2>n, <4>1 DEF Turning
    <3>2. \A i \in DOMAIN v : Timely(s, v[i])'
      BY <2>3, <3>1 DEF Timely
    <3>3. \A e \in Told(s) : Timely(s, e) => Timely(s, e)'
      BY DEF Timely
    <3>4. Minds(s)
      <4>1. SUFFICES ASSUME NEW m \in Ids, msgs[m].to = s, Minded(m) PROVE Minded(m)'
        BY <2>8 DEF Minds
      <4>2. msgs'[m].to = s
        BY <4>1 DEF Grows
      <4>3. \E e \in Told(s)' : e.kind \in Settled /\ e.msg = m /\ Timely(s, e)'
        BY <2>3, <2>4, <2>n, <3>2, <3>3, <4>1 DEF Minded
      <4> QED BY <4>2, <4>3 DEF Minded, Told, Timely
    <3>5. Stirring(s)
      <4>1. Len(v) \in DOMAIN v
        BY <2>3
      <4>2. Stirs(s)'
        BY <2>3, <2>4, <3>2, <4>1 DEF Stirs
      <4> QED BY <2>8, <4>2 DEF Stirring
    <3> QED BY <2>5, <2>6, <3>4, <3>5 DEF Unhurt
  <2> QED BY <2>7, <2>8
<1> QED BY <1>1, <1>2

LEMMA InterruptsUnhurt ==
  ASSUME IInv, phase = "up", phase' = "up", Correlated, Correlated', Attended, Grows,
         NEW s \in Slots, Interrupts(s), control[s] # "stop",
         \A q \in Slots : control'[q] = "stop" <=> control[q] = "stop",
         current' = current, \A m \in Ids : Stuck(m) => msgs'[m] = msgs[m]
  PROVE  \A q \in Slots : Unhurt(q)
<1>1. CASE s \in Steering
  BY <1>1, LeftAloneUnhurt DEF Interrupts, LeftAlone
<1>2. CASE s \notin Steering
  <2>1. Ends(s, "failed") /\ "failed" \in Settled
    BY <1>2 DEF Interrupts, Settled
  <2> QED BY <2>1, EndsUnhurt
<1> QED BY <1>1, <1>2

LEMMA EndsAttended ==
  ASSUME IInv, IInv', phase = "up", Correlated, Correlated', Attended, Owned,
         NEW s \in Slots, NEW o \in Settled, Ends(s, o), native[s] # IdleRuntime,
         UNCHANGED <<msgs, turn, task, tails, routing, control, current, phase, crashed>>
  PROVE  Attended' /\ Owned'
<1>1. control[s] # "stop"
  BY BusyFacts
<1>2. Grows /\ DOMAIN msgs' = Ids
  BY DEF Grows, Ids
<1>3. \A q \in Slots : Unhurt(q)
  BY <1>1, <1>2, EndsUnhurt
<1>4. \A m \in Ids : Tended(m)
  BY SameTended
<1> QED BY <1>2, <1>3, <1>4, StillAttended

LEMMA TurnEndsAttended ==
  ASSUME IInv, IInv', Correlated, Correlated', Attended, Owned, NEW s \in Slots, NEW o \in Settled, TurnEnds(s, o)
  PROVE  Attended' /\ Owned'
<1>1. native[s] # IdleRuntime
  BY DEF TurnEnds, IdleRuntime
<1> QED BY <1>1, EndsAttended DEF TurnEnds

LEMMA CancelAcceptedAttended ==
  ASSUME IInv, IInv', Correlated, Correlated', Attended, Owned, NEW m \in Numbers, CancelAccepted(m)
  PROVE  Attended' /\ Owned'
<1>1. /\ phase = "up" /\ m \in Ids /\ control[msgs[m].to] = "none" /\ Interrupts(msgs[m].to)
      /\ control' = [control EXCEPT ![msgs[m].to] = "cancel"]
      /\ UNCHANGED <<msgs, turn, task, tails, routing, current, phase, crashed>>
  BY DEF CancelAccepted, LockFree
<1>2. PICK s \in Slots : s = msgs[m].to
  BY <1>1, Facts
<1>3. control \in [Slots -> {"none", "cancel", "stop"}]
  BY <1>1, Facts DEF Around
<1>4. Grows /\ DOMAIN msgs' = Ids
  BY <1>1 DEF Grows, Ids
<1>5. \A q \in Slots : Unhurt(q)
  <2>1. \A q \in Slots : control'[q] = "stop" <=> control[q] = "stop"
    BY <1>1, <1>2, <1>3
  <2> QED BY <1>1, <1>2, <1>4, <2>1, InterruptsUnhurt
<1>6. \A i \in Ids : Tended(i)
  BY <1>1, SameTended
<1> QED BY <1>1, <1>4, <1>5, <1>6, StillAttended

LEMMA MaterializeFailsAttended ==
  ASSUME IInv, IInv', Correlated, Correlated', Attended, Owned, NEW m \in Numbers, MaterializeFails(m)
  PROVE  Attended' /\ Owned'
<1> DEFINE p == Delivered(msgs[m], "started")
           q == Failed(p)
<1>1. /\ phase = "up" /\ m \in Ids /\ task[m].pc = "accepted" /\ Interrupts(msgs[m].to)
      /\ msgs' = [msgs EXCEPT ![m] = q] /\ Goes(m, "over")
      /\ UNCHANGED <<turn, tails, routing, control, current, phase, crashed>>
  BY DEF MaterializeFails, At
<1>2. PICK s \in Slots : s = msgs[m].to
  BY <1>1, Facts
<1>3. /\ msgs[m] \in Message /\ Excluded /\ task \in [Numbers -> Goroutine] /\ Ids \subseteq Numbers
  BY <1>1, Facts
<1>4. control[s] # "stop"
  BY <1>1, <1>2, <1>3 DEF Excluded, Locking
<1>5. p \in Message /\ p.to = msgs[m].to
  BY <1>3, DeliveredFields
<1> HIDE DEF p
<1>6. ~Open(q) /\ q.to = s
  BY <1>2, <1>5, FailedQuiet DEF Quiet, Keeps
<1> HIDE DEF q
<1>7. DOMAIN msgs' = Ids /\ msgs'[m] = q /\ \A i \in Ids \ {m} : msgs'[i] = msgs[i]
  BY <1>1, OneRecord
<1>8. Grows
  BY <1>2, <1>6, <1>7 DEF Grows
<1>9. \A i \in Slots : Unhurt(i)
  <2>1. \A i \in Ids : Stuck(i) => msgs'[i] = msgs[i]
    BY <1>1, <1>7, StuckFacts
  <2> QED BY <1>1, <1>2, <1>4, <1>8, <2>1, InterruptsUnhurt
<1>10. task'[m].pc = "over" /\ \A i \in Ids \ {m} : task'[i] = task[i]
  BY <1>1, <1>3 DEF Goes, Goroutine
<1>11. \A i \in Ids : Tended(i)
  <2>1. Tended(m)
    BY <1>2, <1>6, <1>7 DEF Tended
  <2> QED BY <1>1, <1>7, <1>10, <2>1, SameTended
<1>12. \A i \in Ids : task[i].pc # "none" \/ i \in tails => task'[i].pc # "none" \/ i \in tails'
  BY <1>1, <1>10
<1> QED BY <1>1, <1>7, <1>9, <1>11, <1>12, StillAttended

LEMMA LateBoundaryAttended ==
  ASSUME IInv, IInv', Correlated, Correlated', Attended, Owned, NEW s \in Slots, NEW m \in Numbers, LateBoundary(s, m)
  PROVE  Attended' /\ Owned'
<1> DEFINE b == Event("boundary", m, m, "failed")
           v == <<b>>
<1>1. /\ phase = "up" /\ ~crashed /\ m \in Ids
      /\ events' = [events EXCEPT ![s] = Append(@, b)]
      /\ UNCHANGED <<msgs, turn, task, tails, routing, control, native, current, phase, crashed>>
  BY DEF LateBoundary
<1>2. b \in Report /\ b.kind \notin Settled
  BY NumberFacts DEF Event, Report, EventKinds, Settled
<1> HIDE DEF b
<1>3. Around /\ events \in [Slots -> Seq(Report)] /\ Append(events[s], b) = events[s] \o v
  <2>1. Around /\ events \in [Slots -> Seq(Report)]
    BY DEF IInv, Around
  <2> QED BY <2>1, <1>2, AppendIsConcat
<1>4. v \in Seq(Report) /\ \A i \in DOMAIN v : v[i].kind \notin Settled
  BY <1>2
<1> HIDE DEF v
<1>5. events' = [events EXCEPT ![s] = @ \o v]
  BY <1>1, <1>3
<1>6. /\ \A q \in Slots \ {s} : events'[q] = events[q]
      /\ Told(s) \subseteq Told(s)'
  BY <1>3, <1>4, <1>5, ToldJoined
<1>7. Grows /\ DOMAIN msgs' = Ids
  BY <1>1 DEF Grows, Ids
<1>8. \A q \in Slots \ {s} : Unhurt(q)
  BY <1>1, <1>6, <1>7, LeftAloneUnhurt DEF LeftAlone
<1>9. Unhurt(s)
  <2>1. FollowedIn(s)'
    <3>1. FollowedIn(s) /\ events'[s] = events[s] \o v
      BY <1>1, <1>3, <1>5 DEF Attended
    <3> QED BY <1>1, <1>3, <1>4, <3>1, FollowedJoined DEF FollowedIn
  <2>2. Passed(s)
    BY <1>1, PassedFrom
  <2>3. Steady(s) /\ Bounded(s)
    BY <1>1, <1>6 DEF Steady, Bounded, Lasts, Timely, Has
  <2> QED BY <1>1, <1>7, <2>1, <2>2, <2>3, SteadyMinds, SteadyStirs DEF Grows, Unhurt
<1>10. \A i \in Ids : Tended(i)
  BY <1>1, SameTended
<1> QED BY <1>1, <1>7, <1>8, <1>9, <1>10, StillAttended

LEMMA StopBeginsAttended ==
  ASSUME IInv, IInv', Correlated, Correlated', Attended, Owned, NEW s \in Slots, StopBegins(s)
  PROVE  Attended' /\ Owned'
<1>1. /\ phase = "up" /\ control' = [control EXCEPT ![s] = "stop"]
      /\ UNCHANGED <<msgs, turn, task, tails, routing, current, phase, crashed>>
  BY DEF StopBegins
<1>2. Around /\ control \in [Slots -> {"none", "cancel", "stop"}]
      /\ native \in [Slots -> Runtime] /\ events \in [Slots -> Seq(Report)]
  BY DEF IInv, Around
<1>3. \A q \in Slots \ {s} : native'[q] = native[q] /\ events'[q] = events[q]
  <2>1. CASE s \in Steering
    <3>1. /\ native' = [native EXCEPT ![s] = IdleRuntime]
          /\ events' = [events EXCEPT ![s] = @ \o
               InputEvents(native[s].inputs \cup ({native[s].staged} \ {0}), "failed", 0)]
      BY <2>1 DEF StopBegins
    <3> QED BY <1>2, <3>1
  <2>2. CASE s \notin Steering
    <3>1. Ends(s, "failed")
      BY <2>2 DEF StopBegins
    <3> QED BY <1>2, <3>1 DEF Ends
  <2> QED BY <2>1, <2>2
<1>4. Grows /\ DOMAIN msgs' = Ids
  BY <1>1 DEF Grows, Ids
<1>5. control'[s] = "stop" /\ \A q \in Slots \ {s} : control'[q] = control[q]
  BY <1>1, <1>2
<1>6. \A q \in Slots \ {s} : Unhurt(q)
  BY <1>1, <1>3, <1>4, <1>5, LeftAloneUnhurt DEF LeftAlone
<1>7. Unhurt(s)
  BY <1>5 DEF Unhurt, FollowedIn, Minds, Stirring
<1>8. \A i \in Ids : Tended(i)
  BY <1>1, SameTended
<1> QED BY <1>1, <1>4, <1>6, <1>7, <1>8, StillAttended

LEMMA StopSettlesAttended ==
  ASSUME IInv, IInv', Correlated, Correlated', Attended, Owned, NEW s \in Slots, StopSettles(s)
  PROVE  Attended' /\ Owned'
<1>1. /\ phase = "up" /\ control[s] = "stop" /\ events[s] = <<>>
      /\ control' = [control EXCEPT ![s] = "none"] /\ current' = [current EXCEPT ![s] = 0]
      /\ UNCHANGED <<tails, routing, native, events, phase, crashed>>
  BY DEF StopSettles
<1>2. PICK ms : /\ Cancelled(s, ms) /\ Taken(turn, ms, task, {})
                /\ IF turn.owner = s THEN Freed(ms) ELSE turn' = turn /\ task' = task
  BY StopSettlesTaken
<1>3. /\ Ids \subseteq Numbers /\ current \in [Slots -> 0..MaxMessages] /\ control \in [Slots -> {"none", "cancel", "stop"}]
      /\ DOMAIN msgs' = Ids /\ ms \in Seq(Message) /\ DOMAIN ms = Ids
      /\ \A m \in Ids : ms[m].to = msgs[m].to
      /\ \A m \in Ids : IF msgs[m].to = s THEN ~Open(ms[m]) ELSE ms[m] = msgs[m]
  BY <1>1, <1>2, Facts DEF Around, Taken, Cancelled, MildTo
<1>4. Filed(ms, task, {})
  BY <1>1, <1>3 DEF Filed
<1>5. /\ Grows /\ \A i \in Ids : Open(msgs[i]) /\ ms[i] = msgs[i] => msgs'[i] = msgs[i]
      /\ \A i \in DOMAIN ms : msgs'[i].to = ms[i].to
      /\ \A i \in Ids : ~Open(ms[i]) => ~Open(msgs'[i])
  BY <1>1, <1>2, <1>4, TakenTended
<1>6. \A q \in Slots \ {s} : Unhurt(q)
  <2>1. \A q \in Slots \ {s} : \A i \in Ids : msgs[i].to = q /\ Stuck(i) => msgs'[i] = msgs[i]
    BY <1>3, <1>5 DEF Stuck, Parked
  <2>2. \A q \in Slots \ {s} : control'[q] = control[q] /\ current'[q] = current[q]
    BY <1>1, <1>3
  <2> QED BY <1>1, <1>5, <2>1, <2>2, LeftAloneUnhurt DEF LeftAlone
<1>7. FollowedIn(s)' /\ Minds(s)
  <2>1. FollowedIn(s)'
    BY <1>1 DEF FollowedIn
  <2>2. \A i \in DOMAIN msgs' : msgs'[i].to = s => ~Open(msgs'[i])
    BY <1>3, <1>5
  <2> QED BY <2>1, <2>2 DEF Minds
<1>8. Manned
  <2>1. CASE turn.owner = s
    BY <1>2, <1>3, <1>5, <2>1, FreedManned
  <2>2. CASE turn.owner # s
    <3>1. turn' = turn /\ task' = task
      BY <1>2, <2>2
    <3>2. turn'.owner = None => turn'.queue = <<>>
      BY <1>1, <3>1 DEF Owned
    <3>3. \A q \in Slots : q = turn'.owner => Occupied(q)
      BY <1>1, <1>6, <2>2, <3>1 DEF Occupied, Unhurt
    <3> QED BY <3>2, <3>3 DEF Manned
  <2> QED BY <2>1, <2>2
<1>9. routing'.step = "sweep" => routing'.cancelled = {}
  BY <1>1, SomeSame
<1> QED BY <1>1, <1>2, <1>4, <1>6, <1>7, <1>8, <1>9, TakenAttended DEF Unhurt

\* A runtime takes one more message; everything it had it keeps.
LEMMA TurnedAttended ==
  ASSUME IInv, IInv', phase = "up", Correlated, Correlated', Attended, Owned,
         NEW s \in Slots, NEW m \in Ids, msgs[m].to = s, ~Stuck(m), task[m].pc = "failing" => task'[m].pc = "failing",
         DOMAIN msgs' = Ids, \A i \in Ids \ {m} : msgs'[i] = msgs[i] /\ task'[i] = task[i],
         msgs'[m].to = s, Open(msgs'[m]) => Open(msgs[m]) /\ (msgs'[m].del \in Over => msgs[m].del \in Over),
         m \in Has(native'[s]), Has(native[s]) \subseteq Has(native'[s]),
         \A q \in Slots \ {s} : native'[q] = native[q] /\ current'[q] = current[q],
         current'[s] = current[s] \/ events[s] = <<>>,
         \A k \in Ids : msgs[k].to = s /\ Stuck(k) => msgs[k].turn # current'[s],
         turn'.owner = turn.owner, turn'.queue = turn.queue, task[m].pc = "none" \/ task'[m].pc # "none",
         UNCHANGED <<tails, routing, control, events, phase, crashed>>
  PROVE  Attended' /\ Owned'
<1>1. Grows
  BY DEF Grows
<1>2. \A k \in Ids : Stuck(k) => msgs'[k] = msgs[k]
  OBVIOUS
<1>3. \A q \in Slots \ {s} : Unhurt(q)
  BY <1>1, <1>2, LeftAloneUnhurt DEF LeftAlone
<1>4. Unhurt(s)
  <2>1. FollowedIn(s)'
    <3>1. FollowedIn(s)
      BY DEF Attended
    <3> QED BY <3>1 DEF FollowedIn
  <2>2. \A e \in Told(s) : Timely(s, e) => Lasts(s, e)
    <3>1. SUFFICES ASSUME NEW e \in Told(s), Timely(s, e) PROVE Lasts(s, e)
      OBVIOUS
    <3>2. events[s] # <<>>
      BY <3>1 DEF Told
    <3> QED BY <3>1, <3>2 DEF Lasts, Timely, Told
  <2>3. Has(native[s]) \subseteq Has(native[s])'
    BY DEF Has
  <2>4. Steady(s) /\ Bounded(s) /\ Passed(s)
    BY <1>2, <2>2, <2>3 DEF Steady, Bounded, Passed
  <2> QED BY <1>1, <2>1, <2>4, SteadyMinds, SteadyStirs DEF Grows, Unhurt
<1>5. Tended(m)
  <2>1. Minded(m)'
    BY DEF Minded, Has
  <2>2. Open(msgs'[m]) /\ msgs'[m].del \in Over => Open(msgs[m]) /\ msgs[m].del \in Over
    OBVIOUS
  <2> QED BY <2>1, <2>2 DEF Tended
<1>6. \A i \in Ids : Tended(i)
  BY <1>5, SameTended
<1> QED BY <1>3, <1>4, <1>6, StillAttended

\* What a note that a Turn has begun leaves of the message.
LEMMA WorkingFields ==
  ASSUME NEW r \in Message, NEW t \in 0..MaxMessages
  PROVE  LET q == Processed(r, "working", t)
         IN q.to = r.to /\ (Open(q) => Open(r) /\ (q.del \in Over => r.del \in Over))
<1> DEFINE q == Processed(r, "working", t)
<1>1. "working" \in {"working"} \cup Settled
  OBVIOUS
<1>2. /\ q.to = r.to
      /\ IF ProcessingAllowed(r.proc, "working") THEN q.proc = "working" /\ q.turn = t ELSE q = r
      /\ q.del \in {r.del, "started"} \/ q.proc = "failed"
  BY <1>1, ProcessedFields
<1> HIDE DEF q
<1>3. Open(q) => Open(r)
  BY <1>2 DEF ProcessingAllowed, Open, Settled
<1>4. Open(q) /\ q.del \in Over => r.del \in Over
  BY <1>2 DEF Open, Settled, Over
<1> QED BY <1>2, <1>3, <1>4 DEF q

\* A Turn begins with m at a runtime that has nothing else.
LEMMA BegunAttended ==
  ASSUME IInv, IInv', phase = "up", Correlated, Correlated', Attended, Owned,
         NEW s \in Slots, NEW m \in Ids, msgs[m].to = s, ~Stuck(m), task[m].pc = "failing" => task'[m].pc = "failing",
         TurnStarts(s, m), events[s] = <<>>, Has(native[s]) \subseteq {m}, control[s] # "stop",
         \A k \in Ids : msgs[k].to = s /\ Stuck(k) => msgs[k].turn # m,
         \A i \in Ids \ {m} : task'[i] = task[i], task[m].pc = "none" \/ task'[m].pc # "none",
         UNCHANGED <<tails, routing, control, events, phase, crashed>>
  PROVE  Attended' /\ Owned'
<1> DEFINE q == IF TurnMatches(msgs, s, m, m) THEN Processed(msgs[m], "working", m) ELSE msgs[m]
           n == [turn |-> m, inputs |-> {m}, staged |-> 0]
<1>1. /\ msgs \in Seq(Message) /\ msgs[m] \in Message /\ m \in 0..MaxMessages /\ turn \in TurnState
      /\ native \in [Slots -> Runtime] /\ current \in [Slots -> 0..MaxMessages] /\ DOMAIN msgs = Ids
  BY Facts, NumberFacts DEF Around, Ids
<1>2. native'[s] = n /\ Has(n) = {m} /\ \A p \in Slots \ {s} : native'[p] = native[p]
  <2>1. n.inputs = {m} /\ n.staged = 0
    OBVIOUS
  <2>2. Has(n) = {m}
    BY <2>1 DEF Has
  <2> HIDE DEF n
  <2>3. native' = [native EXCEPT ![s] = n]
    BY DEF TurnStarts, n
  <2> QED BY <1>1, <2>2, <2>3
<1> HIDE DEF n
<1>3. q.to = s /\ (Open(q) => Open(msgs[m]) /\ (q.del \in Over => msgs[m].del \in Over))
  BY <1>1, WorkingFields
<1>4. DOMAIN msgs' = Ids /\ msgs'[m] = q /\ \A i \in Ids \ {m} : msgs'[i] = msgs[i]
  <2> DEFINE w == Processed(msgs[m], "working", m)
  <2>1. CASE TurnMatches(msgs, s, m, m)
    <3>1. msgs' = [msgs EXCEPT ![m] = w] /\ q = w
      BY <2>1 DEF TurnStarts
    <3> HIDE DEF w, q
    <3> QED BY <3>1, OneRecord
  <2>2. CASE ~TurnMatches(msgs, s, m, m)
    <3>1. msgs' = msgs /\ q = msgs[m]
      BY <2>2 DEF TurnStarts
    <3> HIDE DEF q
    <3> QED BY <1>1, <3>1
  <2> QED BY <2>1, <2>2
<1> HIDE DEF q
<1>5. current'[s] \in {m, current[s]} /\ \A p \in Slots \ {s} : current'[p] = current[p]
  BY <1>1 DEF TurnStarts
<1>6. turn'.owner = turn.owner /\ turn'.queue = turn.queue
  BY <1>1 DEF TurnStarts, TurnState
<1>7. \A k \in Ids : msgs[k].to = s /\ Stuck(k) => msgs[k].turn # current'[s]
  <2>1. SUFFICES ASSUME NEW k \in Ids, msgs[k].to = s, Stuck(k) PROVE msgs[k].turn # current'[s]
    OBVIOUS
  <2>2. msgs[k].turn # current[s]
    BY <2>1, StuckElsewhere
  <2> QED BY <1>5, <2>1, <2>2
<1> QED BY <1>2, <1>3, <1>4, <1>5, <1>6, <1>7, TurnedAttended

LEMMA StartTurnAttended ==
  ASSUME IInv, IInv', Correlated, Correlated', Attended, Owned, NEW m \in Numbers, StartTurn(m)
  PROVE  Attended' /\ Owned'
<1>1. PICK s \in Slots : s = msgs[m].to
  BY NativeFacts DEF StartTurn
<1>2. /\ At(m, "native") /\ native[s] = IdleRuntime /\ events[s] = <<>>
      /\ \/ TurnStarts(s, m) /\ Goes(m, "accepted")
         \/ /\ native' = [native EXCEPT ![s].staged = m]
            /\ msgs' = [msgs EXCEPT ![m] = Processed([@ EXCEPT !.unsure = TRUE], "waiting", 0)]
            /\ Goes(m, "over") /\ UNCHANGED <<turn, current>>
      /\ UNCHANGED <<tails, routing, control, events, phase, crashed>>
  BY <1>1 DEF StartTurn
<1>3. /\ phase = "up" /\ m \in Ids /\ msgs[m] \in Message /\ task[m].pc = "native" /\ control[s] = "none" /\ ~Stuck(m)
      /\ \A k \in Ids : Stuck(k) => msgs[k].turn # m
  BY <1>1, <1>2, NativeFacts
<1>4. /\ task \in [Numbers -> Goroutine] /\ Ids \subseteq Numbers /\ native \in [Slots -> Runtime]
  BY <1>3, Facts DEF Around
<1>5. \A i \in Ids \ {m} : task'[i] = task[i]
  BY <1>2, <1>4 DEF Goes
<1>6. Has(native[s]) = {}
  BY <1>2 DEF Has, IdleRuntime
<1>7. CASE TurnStarts(s, m) /\ Goes(m, "accepted")
  <2>1. task'[m].pc = "accepted"
    BY <1>3, <1>4, <1>7 DEF Goes, Goroutine
  <2> QED BY <1>1, <1>2, <1>3, <1>5, <1>6, <1>7, <2>1, BegunAttended
<1>8. CASE /\ native' = [native EXCEPT ![s].staged = m]
           /\ msgs' = [msgs EXCEPT ![m] = Processed([@ EXCEPT !.unsure = TRUE], "waiting", 0)]
           /\ Goes(m, "over") /\ UNCHANGED <<turn, current>>
  <2> DEFINE p == Processed([msgs[m] EXCEPT !.unsure = TRUE], "waiting", 0)
             n == [native[s] EXCEPT !.staged = m]
  <2>1. p.to = s /\ p.del = msgs[m].del /\ p.proc = msgs[m].proc
    <3> DEFINE w == [msgs[m] EXCEPT !.unsure = TRUE]
    <3>1. w.to = s /\ w.del = msgs[m].del /\ w.proc = msgs[m].proc /\ w \in Message
      BY <1>1, <1>3 DEF Message
    <3> HIDE DEF w
    <3>2. p = IF ProcessingAllowed(w.proc, "waiting") THEN [w EXCEPT !.turn = 0] ELSE w
      BY DEF Processed, w
    <3> HIDE DEF p
    <3> QED BY <3>1, <3>2 DEF Message
  <2> HIDE DEF p
  <2>2. DOMAIN msgs' = Ids /\ msgs'[m] = p /\ \A i \in Ids \ {m} : msgs'[i] = msgs[i]
    <3>1. msgs' = [msgs EXCEPT ![m] = p]
      BY <1>8 DEF p
    <3> QED BY <1>3, <3>1, OneRecord
  <2>3. native'[s] = n /\ n.staged = m /\ \A q \in Slots \ {s} : native'[q] = native[q]
    <3>1. n.staged = m
      BY <1>4 DEF Runtime
    <3>2. native'[s] = n /\ \A q \in Slots \ {s} : native'[q] = native[q]
      BY <1>4, <1>8
    <3> HIDE DEF n
    <3> QED BY <3>1, <3>2
  <2> HIDE DEF n
  <2>4. m \in Has(native'[s])
    BY <2>3, NumberFacts DEF Has
  <2>5. task'[m].pc = "over"
    BY <1>3, <1>4, <1>8 DEF Goes, Goroutine
  <2>6. \A k \in Ids : msgs[k].to = s /\ Stuck(k) => msgs[k].turn # current'[s]
    BY <1>3, <1>8, StuckElsewhere
  <2>7. Open(p) => Open(msgs[m])
    BY <2>1 DEF Open
  <2>8. msgs'[m].to = s /\ (Open(msgs'[m]) => Open(msgs[m]) /\ (msgs'[m].del \in Over => msgs[m].del \in Over))
    BY <2>1, <2>2, <2>7
  <2>9. Has(native[s]) \subseteq Has(native'[s]) /\ turn'.owner = turn.owner /\ turn'.queue = turn.queue
    BY <1>6, <1>8
  <2>10. /\ \A q \in Slots \ {s} : native'[q] = native[q] /\ current'[q] = current[q]
         /\ current'[s] = current[s]
    BY <1>8, <2>3
  <2>11. task[m].pc = "native" /\ (task[m].pc = "failing" => task'[m].pc = "failing")
         /\ (task[m].pc = "none" \/ task'[m].pc # "none")
    BY <1>3, <2>5
  <2>12. DOMAIN msgs' = Ids /\ \A i \in Ids \ {m} : msgs'[i] = msgs[i] /\ task'[i] = task[i]
    BY <1>5, <2>2
  <2> QED BY <1>1, <1>2, <1>3, <2>4, <2>6, <2>8, <2>9, <2>10, <2>11, <2>12, TurnedAttended
<1> QED BY <1>2, <1>7, <1>8

LEMMA AnswersLateAttended ==
  ASSUME IInv, IInv', Correlated, Correlated', Attended, Owned, NEW s \in Slots, AnswersLate(s)
  PROVE  Attended' /\ Owned'
<1> DEFINE m == native[s].staged
<1>1. /\ phase = "up" /\ native[s].staged # 0 /\ events[s] = <<>>
      /\ \/ TurnStarts(s, m) /\ UNCHANGED events
         \/ Ends(s, "failed") /\ UNCHANGED <<msgs, turn, current>>
      /\ UNCHANGED <<task, tails, routing, control, phase, crashed>>
  BY DEF AnswersLate
<1>2. native[s] # IdleRuntime /\ "failed" \in Settled
  BY <1>1 DEF IdleRuntime, Settled
<1>3. CASE TurnStarts(s, m) /\ UNCHANGED events
  <2>1. /\ control[s] # "stop" /\ Inputs(s)
        /\ \A k \in Ids : msgs[k].to = s /\ Stuck(k) =>
              k \notin Has(native[s]) /\ msgs[k].turn \notin {0, native[s].turn, native[s].staged}
    BY <1>1, <1>2, BusyFacts
  <2>2. m \in Has(native[s]) /\ Has(native[s]) \subseteq {m}
    <3>1. native[s].turn \in 0..MaxMessages
      BY DEF IInv, Around, Runtime
    <3>2. native[s].inputs = {}
      BY <1>1, <2>1 DEF Inputs
    <3> QED BY <1>1, <3>2 DEF Has
  <2>3. m \in Ids /\ msgs[m].to = s
    BY <2>1, <2>2 DEF Inputs
  <2>4. /\ ~Stuck(m) /\ \A k \in Ids : msgs[k].to = s /\ Stuck(k) => msgs[k].turn # m
    BY <2>1, <2>2, <2>3
  <2>5. PICK k \in Ids : k = m
    BY <2>3
  <2> HIDE DEF m
  <2> QED BY <1>1, <1>3, <2>1, <2>2, <2>3, <2>4, <2>5, BegunAttended
<1>4. CASE Ends(s, "failed") /\ UNCHANGED <<msgs, turn, current>>
  BY <1>1, <1>2, <1>4, EndsAttended
<1> QED BY <1>1, <1>3, <1>4

LEMMA SteerAcceptedAttended ==
  ASSUME IInv, IInv', Correlated, Correlated', Attended, Owned, NEW m \in Numbers, SteerAccepted(m)
  PROVE  Attended' /\ Owned'
<1>1. PICK s \in Slots : s = msgs[m].to
  BY NativeFacts DEF SteerAccepted
<1> DEFINE k == native[s].turn
           q == Processed(msgs[m], "working", k)
           p == IF TurnMatches(msgs, s, m, k) THEN q ELSE msgs[m]
           d == Delivered(msgs[m], "failed")
<1>2. /\ At(m, "native") /\ native[s].turn # 0
      /\ \/ /\ native' = [native EXCEPT ![s].inputs = @ \cup {m}]
            /\ msgs' = IF TurnMatches(msgs, s, m, k) THEN [msgs EXCEPT ![m] = q] ELSE msgs
            /\ Goes(m, "accepted")
         \/ /\ msgs' = [msgs EXCEPT ![m] = d]
            /\ Goes(m, "failing") /\ UNCHANGED native
      /\ UNCHANGED <<turn, tails, routing, control, events, current, phase, crashed>>
  BY <1>1 DEF SteerAccepted
<1>3. /\ phase = "up" /\ m \in Ids /\ msgs[m] \in Message /\ task[m].pc = "native" /\ control[s] = "none" /\ ~Stuck(m)
  BY <1>1, <1>2, NativeFacts
<1>4. /\ task \in [Numbers -> Goroutine] /\ Ids \subseteq Numbers /\ native \in [Slots -> Runtime] /\ msgs \in Seq(Message)
      /\ DOMAIN msgs = Ids
  BY <1>3, Facts DEF Around, Ids
<1>5. CASE /\ native' = [native EXCEPT ![s].inputs = @ \cup {m}]
           /\ msgs' = IF TurnMatches(msgs, s, m, k) THEN [msgs EXCEPT ![m] = q] ELSE msgs
           /\ Goes(m, "accepted")
  <2>1. p.to = s /\ (Open(p) => Open(msgs[m]) /\ (p.del \in Over => msgs[m].del \in Over))
    <3>1. k \in 0..MaxMessages
      BY <1>4 DEF Runtime
    <3> HIDE DEF k
    <3> QED BY <1>1, <1>3, <3>1, WorkingFields
  <2>2. DOMAIN msgs' = Ids /\ msgs'[m] = p /\ \A i \in Ids \ {m} : msgs'[i] = msgs[i]
    <3>1. CASE TurnMatches(msgs, s, m, k)
      <4>1. msgs' = [msgs EXCEPT ![m] = q] /\ p = q
        BY <1>5, <3>1
      <4> HIDE DEF q, p
      <4> QED BY <1>3, <4>1, OneRecord
    <3>2. CASE ~TurnMatches(msgs, s, m, k)
      <4>1. msgs' = msgs /\ p = msgs[m]
        BY <1>5, <3>2
      <4> HIDE DEF p
      <4> QED BY <1>4, <4>1
    <3> QED BY <3>1, <3>2
  <2> HIDE DEF p
  <2>3. /\ m \in Has(native'[s]) /\ Has(native[s]) \subseteq Has(native'[s])
        /\ \A i \in Slots \ {s} : native'[i] = native[i]
    <3> DEFINE n == [native[s] EXCEPT !.inputs = @ \cup {m}]
    <3>1. n.inputs = native[s].inputs \cup {m} /\ n.staged = native[s].staged
      BY <1>4 DEF Runtime
    <3>2. native'[s] = n /\ \A i \in Slots \ {s} : native'[i] = native[i]
      BY <1>4, <1>5
    <3> HIDE DEF n
    <3> QED BY <3>1, <3>2 DEF Has
  <2>4. task'[m].pc = "accepted" /\ \A i \in Ids \ {m} : task'[i] = task[i]
    BY <1>3, <1>4, <1>5 DEF Goes, Goroutine
  <2>5. \A i \in Ids : msgs[i].to = s /\ Stuck(i) => msgs[i].turn # current'[s]
    BY <1>2, <1>3, StuckElsewhere
  <2> QED BY <1>1, <1>2, <1>3, <2>1, <2>2, <2>3, <2>4, <2>5, TurnedAttended
<1>6. CASE /\ msgs' = [msgs EXCEPT ![m] = d]
           /\ Goes(m, "failing") /\ UNCHANGED native
  <2>1. d.to = msgs[m].to /\ d.del = IF DeliveryAllowed(msgs[m].del, "failed") THEN "failed" ELSE msgs[m].del
    BY <1>3, DeliveredFields
  <2>2. ~AtNative(d)
    BY <2>1 DEF AtNative, DeliveryAllowed
  <2> HIDE DEF d
  <2> QED BY <1>2, <1>6, <2>1, <2>2, RecordedAttended DEF Pcs
<1> QED BY <1>2, <1>5, <1>6

-----------------------------------------------------------------------------
\* A restart leaves nothing at a runtime, and the Turn to what it submits.
LEMMA RestartAttended ==
  ASSUME IInv, IInv', Correlated, Crash \/ Restore \/ Resume
  PROVE  Attended' /\ Owned'
<1>1. CASE Crash \/ Restore
  <2>1. phase' # "up"
    BY <1>1 DEF Crash, Restore
  <2> QED BY <2>1 DEF Attended, Owned
<1>2. CASE Resume
  <2>1. Crossings
    BY DEF Correlated
  <2>2. /\ DOMAIN msgs' = Ids /\ crashed' = TRUE /\ \A s \in Slots : events'[s] = <<>>
        /\ routing' = NoRouting
        /\ \A m \in Ids : ~(Open(msgs'[m]) /\ AtNative(msgs'[m]))
        /\ turn'.owner = None => turn'.queue = <<>>
        /\ turn'.owner # None => \E m \in Ids : msgs'[m].to = turn'.owner /\ task'[m].pc # "none"
    BY <1>2, <2>1, ResumeFacts
  <2>3. \A s \in Slots : FollowedIn(s)'
    BY <2>2 DEF FollowedIn
  <2>4. routing'.cancelled = {}
    BY <2>2 DEF NoRouting
  <2>5. Attended'
    BY <2>2, <2>3, <2>4 DEF Attended, Ids
  <2>6. turn'.owner # None => Working(turn.owner)'
    BY <2>2 DEF Working, Ids
  <2>7. Owned'
    BY <2>2, <2>6 DEF Owned
  <2> QED BY <2>5, <2>7
<1> QED BY <1>1, <1>2

LEMMA InitAttended == Init => Attended /\ Owned
<1> SUFFICES ASSUME Init PROVE Attended /\ Owned
  OBVIOUS
<1>1. Ids = {} /\ \A s \in Slots : events[s] = <<>>
  BY DEF Init, Ids
<1>2. turn.owner = None /\ turn.queue = <<>> /\ routing.cancelled = {}
  BY DEF Init, FreeTurn, NoRouting
<1>3. \A s \in Slots : FollowedIn(s)
  BY <1>1 DEF FollowedIn
<1> QED BY <1>1, <1>2, <1>3 DEF Attended, Owned

LEMMA NextAttended ==
  ASSUME IInv, IInv', Correlated, Correlated', Attended, Owned, [Next]_vars
  PROVE  Attended' /\ Owned'
<1>1. ASSUME NEW i \in Intents, Send(i[1], i[2]) PROVE Attended' /\ Owned'
  <2>1. i[1] \in Slots /\ i[2] \in BOOLEAN
    BY TwoSlots
  <2> QED BY <1>1, <2>1, SendAttended
<1>2. ASSUME Sweep \/ Place \/ Crash \/ Restore \/ Resume PROVE Attended' /\ Owned'
  BY <1>2, SweepAttended, PlaceAttended, RestartAttended
<1>3. ASSUME NEW m \in Numbers,
             \/ Retry(m) \/ (\E s \in Slots : LateBoundary(s, m)) \/ TooLate(m) \/ Submit(m)
             \/ FailDelivery(m) \/ FailProcessing(m)
      PROVE Attended' /\ Owned'
  BY <1>3, RetryAttended, LateBoundaryAttended, TooLateAttended, SubmitAttended,
     FailDeliveryAttended, FailProcessingAttended
<1>4. ASSUME NEW m \in Numbers,
             \/ StartTurn(m) \/ SteerAccepted(m) \/ SteerRefused(m) \/ Accepted(m)
             \/ MaterializeFails(m) \/ Return(m) \/ ReleaseCheck(m)
             \/ CancelWaiting(m) \/ CancelAccepted(m)
      PROVE Attended' /\ Owned'
  BY <1>4, StartTurnAttended, SteerAcceptedAttended, SteerRefusedAttended, AcceptedAttended,
     MaterializeFailsAttended, ReturnAttended, ReleaseCheckAttended, CancelWaitingAttended,
     CancelAcceptedAttended
<1>5. ASSUME NEW s \in Slots,
             \/ HandleInput(s) \/ HandleBoundary(s) \/ HandleFinal(s)
             \/ AnswersLate(s) \/ CancelSettles(s) \/ StopBegins(s) \/ StopSettles(s)
             \/ \E o \in Settled : TurnEnds(s, o)
      PROVE Attended' /\ Owned'
  BY <1>5, HandleInputAttended, HandleBoundaryAttended, HandleFinalAttended, AnswersLateAttended,
     CancelSettlesAttended, StopBeginsAttended, StopSettlesAttended, TurnEndsAttended
<1>6. CASE UNCHANGED vars
  <2>1. UNCHANGED <<msgs, turn, task, tails, routing, control, native, events, current, phase, crashed>>
    BY <1>6 DEF vars
  <2>2. Ids' = Ids /\ (\A s \in Slots : Told(s)' = Told(s))
    BY <2>1 DEF Ids, Told
  <2>3. Attended'
    BY <2>1, <2>2 DEF Attended, FollowedIn, Minded, Blocked, Stuck, Parked, Timely, Told, Ids
  <2>4. Owned'
    BY <2>1, <2>2 DEF Owned, Working, Stirs, Blocked, Stuck, Parked, Timely, Told, Ids
  <2> QED BY <2>3, <2>4
<1>7. CASE Next
  BY <1>1, <1>2, <1>3, <1>4, <1>5, <1>7 DEF Next
<1> QED BY <1>6, <1>7

\* Before a crash, everything open is carried on.
LEMMA OpenIsCarried ==
  ASSUME IInv, phase = "up", ~crashed, Attended, NEW m \in Ids, Open(msgs[m])
  PROVE  Carried(m)
<1>1. PICK s \in Slots : s = msgs[m].to
  BY Facts
<1>2. CASE InFifo(msgs[m])
  <2>1. Core(msgs, turn, task, routing, crossed, stopped, crashed)
    BY Facts
  <2>2. Waits(msgs, turn, task, routing, FALSE)
    BY <2>1 DEF Core, Waits
  <2> QED BY <1>2, <2>2 DEF Waits, Awaiting, Carried, Ids
<1>3. CASE AtNative(msgs[m])
  <2>1. ~Blocked(s)
    BY DEF Blocked, Stuck
  <2>2. task[m].pc = "native" \/ Minded(m)
    BY <1>1, <1>3, <2>1 DEF Attended
  <2>3. CASE task[m].pc = "native"
    BY <2>3 DEF Carried
  <2>4. CASE Minded(m)
    <3>1. m \in Has(native[s]) \/ control[s] = "stop" \/ \E i \in DOMAIN events[s] : events[s][i].msg = m
      BY <1>1, <2>4 DEF Minded, Told
    <3> QED BY <1>1, <3>1 DEF Carried, Has
  <2> QED BY <2>2, <2>3, <2>4
<1>4. CASE msgs[m].del \in Over
  <2>1. task[m].pc = "failing" \/ m \in routing.cancelled
    BY <1>4 DEF Attended
  <2> QED BY <2>1 DEF Carried
<1>5. InFifo(msgs[m]) \/ AtNative(msgs[m]) \/ msgs[m].del \in Over
  <2>1. msgs[m] \in Message
    BY Facts
  <2> QED BY <2>1 DEF Message, InFifo, AtNative, Over
<1> QED BY <1>2, <1>3, <1>4, <1>5

\* A slot that a restart left deaf is busy, if what it left open is still carried.
LEMMA BlockedIsBusy ==
  ASSUME IInv, phase = "up", Correlated, RestartSettles, NEW s \in Slots, Blocked(s)
  PROVE  Busy(s)
<1>1. PICK m \in Ids : msgs[m].to = s /\ Stuck(m)
  BY DEF Blocked
<1>2. /\ Open(msgs[m]) /\ task[m].pc = "none" /\ m \notin routing.cancelled
      /\ m \notin ToSet(turn.queue) /\ m # routing.msg
  BY <1>1, StuckFacts
<1>3. msgs[m].del \in {"failed", "skipped"} /\ m \notin Has(native[s]) /\ \A e \in Told(s) : e.msg # m
  BY <1>1 DEF Stuck, Parked
<1>4. Carried(m)
  BY <1>2, <1>3 DEF RestartSettles
<1>5. m \notin native[s].inputs /\ m # native[s].staged
  <2>1. m # 0
    BY NumberFacts, Facts
  <2> QED BY <1>3, <2>1 DEF Has
<1>6. ~\E i \in DOMAIN events[s] : events[s][i].msg = m
  BY <1>3 DEF Told
<1>7. control[s] # "none"
  BY <1>1, <1>2, <1>4, <1>5, <1>6 DEF Carried
<1> QED BY <1>7 DEF Busy

LEMMA AttendedStallsNot ==
  ASSUME IInv, Correlated, Attended, Owned PROVE NothingStalls
<1> SUFFICES ASSUME phase = "up" PROVE NothingStalls
  BY DEF NothingStalls
<1>1. ~crashed => \A m \in Ids : Open(msgs[m]) => Carried(m)
  BY OpenIsCarried
<1>2. ASSUME RestartSettles, NEW s \in Slots, s = turn.owner PROVE Busy(s)
  <2>1. Working(s) \/ Stirs(s) \/ Blocked(s)
    BY <1>2, TwoSlots DEF Owned
  <2>2. CASE Working(s) \/ Stirs(s)
    BY <2>2 DEF Working, Stirs, Told, Busy
  <2> QED BY <1>2, <2>1, <2>2, BlockedIsBusy
<1>3. turn.owner \in Slots \cup {None}
  BY Facts DEF TurnState
<1>4. turn.queue # <<>> => turn.owner # None
  BY DEF Owned
<1> QED BY <1>1, <1>2, <1>3, <1>4 DEF NothingStalls

\* In every state of the Room what is open at a runtime has a goroutine, a runtime or
\* an event that will end it, the end of an input is followed by the end of its Turn,
\* and the owner of the Turn has something that will release it (deliver, HandleRuntime,
\* finishOwnerIfIdleLocked): with Correlated, the induction behind NeverStalls.
THEOREM Attendance == Spec => [](IInv /\ Correlated /\ Attended /\ Owned)
<1> DEFINE AInv == IInv /\ Correlated /\ Attended /\ Owned
<1>1. Init => AInv
  BY InitIInv, InitCorrelated, InitAttended
<1>2. AInv /\ [Next]_vars => AInv'
  <2> SUFFICES ASSUME IInv, Correlated, Attended, Owned, [Next]_vars
               PROVE  IInv' /\ Correlated' /\ Attended' /\ Owned'
    OBVIOUS
  <2>1. IInv'
    BY NextIInv
  <2>2. Correlated'
    BY <2>1, NextCorrelated
  <2> QED BY <2>1, <2>2, NextAttended
<1> QED BY <1>1, <1>2, PTL DEF Spec

\* The Room never stalls on a Turn that nobody is going to finish: until a crash every
\* open message has something that will move it, an owner of the Turn has a goroutine,
\* a runtime, an event or a control operation that will release it, and what waits in
\* the FIFO waits for an owner (startLocked, deliver, finishOwnerIfIdleLocked,
\* HandleRuntime, finishRuntimeStop, RestoreEvents).
THEOREM NeverStalls == Spec => []NothingStalls
<1>1. IInv /\ Correlated /\ Attended /\ Owned => NothingStalls
  BY AttendedStallsNot
<1> QED BY <1>1, Attendance, PTL
=============================================================================
