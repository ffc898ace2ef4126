---------------------------- MODULE EmbeddedRoom ----------------------------
(***************************************************************************)
(* The Embedded Room engine (src/internal/room): one Event Log of messages *)
(* with their delivery and processing states, one Room-owned FIFO and one  *)
(* native Turn owner, two runtimes that take a message as the start of a   *)
(* Turn or steer it into the running one.  A message is delivered by a     *)
(* goroutine of its own, under the delivery lock of its slot; runtime      *)
(* events, cancellations, stops and new messages run beside it, and the    *)
(* process can die between any two records.                                *)
(*                                                                         *)
(* Messages are numbered by their Event Log order; a Turn bears the number *)
(* of the message that started it, 0 stands for no Turn and no message.    *)
(* A slot of Steering has a runtime like Codex: it steers, it only takes a *)
(* request to interrupt, and it can leave a submission unanswered.  The    *)
(* others are like Claude Code, whose Interrupt returns when the process   *)
(* is gone and its events are out.                                         *)
(***************************************************************************)
EXTENDS Integers, Sequences, FiniteSets, SequencesExt, FiniteSetsExt

CONSTANTS Slots,        \* the two participants
          Steering,     \* those whose runtime steers
          Unbound,      \* those whose session binding is yet to be materialized
          User, None,   \* the human sender; no owner
          Intents,      \* what the human sends: pairs of a slot and whether it may steer
          MaxMessages,  \* bound: messages of the Room
          MaxLoad       \* bound: messages, interventions and failures together

ASSUME TwoSlots ==
  /\ Cardinality(Slots) = 2 /\ Steering \subseteq Slots /\ Unbound \subseteq Slots
  /\ Intents \subseteq Slots \X BOOLEAN
  /\ User \notin Slots /\ None \notin Slots \cup {User}
ASSUME Bounds == MaxMessages \in Nat /\ MaxLoad \in Nat

VARIABLES
  msgs,      \* the durable messages, in Event Log order
  turn,      \* the scheduler under turnMu: owner, queue, submitting, boundary
  task,      \* per message: where its delivery goroutine is
  tails,     \* messages whose goroutine still has its last release check to do
  routing,   \* the admission that holds routingMu
  control,   \* per slot: the cancellation or stop that holds the delivery lock
  native,    \* per slot: the runtime's Turn, its inputs, a start without answer
  events,    \* per slot: what the runtime reported and the Room has not handled
  current,   \* per slot: the participant's CurrentTurn
  crossed,   \* history: how often a runtime may have taken each message
  phase,     \* "up", "down" after a crash, "expiring" inside New
  expiring,  \* what the restore found in `submitting`
  faults,    \* cancellations, stops, crashes and failed deliveries so far
  stopped, crashed   \* history: was a participant stopped, did the process die

vars == <<msgs, turn, task, tails, routing, control, native, events, current,
          crossed, phase, expiring, faults, stopped, crashed>>

Numbers == 1..MaxMessages
Ids == DOMAIN msgs
Peer(s) == CHOOSE p \in Slots : p # s
\* `cancelled` and `failed` are one outcome here: the engine reacts alike.
Settled == {"completed", "failed"}

Message ==
  [ from: Slots \cup {User}, to: Slots, steer: BOOLEAN, retryOf: 0..MaxMessages,
    del: {"pending", "queued", "submitting", "started", "injected", "failed", "skipped"},
    proc: {"waiting", "working"} \cup Settled, turn: 0..MaxMessages, unsure: BOOLEAN ]
Pcs == {"none", "wait", "native", "accepted", "failing", "fellback", "over"}
EventKinds == Settled \cup {"final", "boundary"}

(***************************************************************************)
(* The two states of a message and how records may move them.              *)
(***************************************************************************)
Open(r) == r.proc \notin Settled
InFifo(r) == r.del \in {"pending", "queued"}
AtNative(r) == r.del \in {"submitting", "started", "injected"}
Awaiting(r) == Open(r) /\ InFifo(r)

DeliveryAllowed(old, new) ==
  /\ old \notin {"failed", "skipped"}
  /\ \/ new \in {"failed", "skipped"} \cup {old}
     \/ old \in {"pending", "queued"} /\ new \in {"queued", "submitting"}
     \/ old = "submitting" /\ new \in {"queued", "started", "injected"}
ProcessingAllowed(old, new) ==
  \/ old = "waiting" \/ old = new
  \/ old = "working" /\ new \in Settled

Delivered(r, d) == IF DeliveryAllowed(r.del, d) THEN [r EXCEPT !.del = d] ELSE r

\* resolveUnknownSubmission: evidence about an unanswered start settles it.
Resolved(r) ==
  IF ~r.unsure \/ r.proc = "waiting" THEN r
  ELSE [Delivered(r, IF r.proc \in {"working", "completed"} THEN "started" ELSE "failed")
          EXCEPT !.unsure = FALSE]
Processed(r, p, t) ==
  IF ~ProcessingAllowed(r.proc, p) THEN r
  ELSE IF p = "waiting" THEN [r EXCEPT !.turn = t]
  ELSE Resolved([r EXCEPT !.proc = p, !.turn = t])
\* processingFallback: only where no runtime event said more.
FallbackWorking(r) == IF r.proc = "waiting" THEN [r EXCEPT !.proc = "working", !.turn = 0] ELSE r

Each(ms, S, Op(_)) == [i \in DOMAIN ms |-> IF i \in S THEN Op(ms[i]) ELSE ms[i]]
Skipped(r) == Delivered(r, "skipped")
Failed(r) == Processed(r, "failed", 0)

(***************************************************************************)
(* The scheduler.                                                          *)
(***************************************************************************)
\* The elements of q that are in S, in their order; the members of S in theirs.
Kept(q, S) ==
  LET upTo[n \in 0..Len(q)] ==
        IF n = 0 THEN <<>> ELSE IF q[n] \in S THEN Append(upTo[n - 1], q[n]) ELSE upTo[n - 1]
  IN upTo[Len(q)]
InLogOrder(S) == Kept([n \in Numbers |-> n], S)

\* Mutant: a message put back at the end.
Enqueued_Last(q, m) == q \o <<m>>
\* In front of the first later one.
Enqueued(q, m) ==
  LET later == {i \in DOMAIN q : m < q[i]}
  IN InsertAt(q, IF later = {} THEN Len(q) + 1 ELSE Min(later), m)

Begun(tk, m, steer) == IF m = 0 THEN tk ELSE [tk EXCEPT ![m] = [pc |-> "wait", steer |-> steer]]

\* reserveNextLocked: the oldest item still awaiting gets the Turn; those in
\* front of it are dropped and, if settled meanwhile, recorded as skipped.
Reserve(t, ms) ==
  LET live == {i \in DOMAIN t.queue : Awaiting(ms[t.queue[i]])}
      first == IF live = {} THEN Len(t.queue) + 1 ELSE Min(live)
      dropped == {m \in ToSet(SubSeq(t.queue, 1, first - 1)) : ~Open(ms[m]) /\ InFifo(ms[m])}
      rest == SubSeq(t.queue, first + 1, Len(t.queue))
  IN [ msgs |-> Each(ms, dropped, Skipped),
       start |-> IF live = {} THEN 0 ELSE t.queue[first],
       turn |-> IF live = {} THEN [t EXCEPT !.queue = rest]
                ELSE [ owner |-> ms[t.queue[first]].to, queue |-> rest,
                       submitting |-> 1, boundary |-> FALSE ] ]

FinishTurn(t, ms) ==
  Reserve([t EXCEPT !.owner = None, !.submitting = 0, !.boundary = FALSE], ms)

\* Mutants: releases above accepted input; waits for a boundary that a delivery
\* which never crossed will not get.
Idle_Submitted(t, ms, s, withoutBoundary) ==
  t.owner = s /\ t.submitting = 0 /\ (withoutBoundary \/ t.boundary)
Idle_OnBoundary(t, ms, s, withoutBoundary) ==
  /\ t.owner = s /\ t.submitting = 0 /\ t.boundary
  /\ \A m \in DOMAIN ms : ms[m].to = s => ~(Open(ms[m]) /\ AtNative(ms[m]))
\* finishTurnIfIdle: may the owner s be released now?
Idle(t, ms, s, withoutBoundary) ==
  /\ t.owner = s /\ t.submitting = 0
  /\ withoutBoundary \/ t.boundary
  /\ \A m \in DOMAIN ms : ms[m].to = s => ~(Open(ms[m]) /\ AtNative(ms[m]))
FinishIfIdle(t, ms, s, withoutBoundary) ==
  IF Idle(t, ms, s, withoutBoundary) THEN FinishTurn(t, ms)
  ELSE [turn |-> t, msgs |-> ms, start |-> 0]

\* scheduleDeliveryMode
Schedule(t, ms, m) ==
  LET r == ms[m]
      queues == [t EXCEPT !.queue = Enqueued(t.queue, m)]
      queued == Each(ms, {m}, LAMBDA x : Delivered(x, "queued"))
  IN CASE t.owner = None /\ t.queue = <<>> ->
            [ turn |-> [ owner |-> r.to, queue |-> <<>>, submitting |-> t.submitting + 1, boundary |-> FALSE ],
              msgs |-> ms, start |-> m, steer |-> FALSE ]
       [] t.owner = r.to /\ r.steer ->
            [ turn |-> [t EXCEPT !.submitting = @ + 1], msgs |-> ms, start |-> m, steer |-> TRUE ]
       [] OTHER ->
            IF ~DeliveryAllowed(r.del, "queued")
            THEN [turn |-> t, msgs |-> ms, start |-> 0, steer |-> FALSE]
            ELSE IF t.owner # None
            THEN [turn |-> queues, msgs |-> queued, start |-> 0, steer |-> FALSE]
            ELSE LET next == Reserve(queues, queued)
                 IN [turn |-> next.turn, msgs |-> next.msgs, start |-> next.start, steer |-> FALSE]

\* Takes over what a scheduler operation computed; tk: the goroutines before it.
Take(res, tk, steer) ==
  /\ turn' = res.turn /\ msgs' = res.msgs /\ task' = Begun(tk, res.start, steer)

(***************************************************************************)
(* Admission.                                                              *)
(***************************************************************************)
\* An intervention of the user or a failure, within the bound.
Fault == Len(msgs) + faults < MaxLoad /\ faults' = faults + 1
NoRouting == [msg |-> 0, step |-> "idle", cancelled |-> {}]
NewMessage(from, to, steer, retryOf) ==
  [ from |-> from, to |-> to, steer |-> steer, retryOf |-> retryOf, del |-> "pending",
    proc |-> "waiting", turn |-> 0, unsure |-> FALSE ]
MayAdd == Len(msgs) < MaxMessages /\ Len(msgs) + faults < MaxLoad
RoomToAdmit == phase = "up" /\ routing = NoRouting /\ MayAdd

\* Send: record the message, cancel older Agent relays, schedule it.
Send(to, steer) ==
  /\ RoomToAdmit
  /\ msgs' = Append(msgs, NewMessage(User, to, steer, 0))
  /\ routing' = [NoRouting EXCEPT !.msg = Len(msgs) + 1, !.step = "sweep"]
  /\ UNCHANGED <<turn, task, tails, control, native, events, current, crossed, phase, expiring,
                 faults, stopped, crashed>>

\* Relays a newer human message overtakes before they reach a runtime.
Overtaken(human) == {i \in Ids : i < human /\ msgs[i].from \in Slots /\ Awaiting(msgs[i])}
Sweep ==
  /\ phase = "up" /\ routing.step = "sweep"
  /\ LET older == Overtaken(routing.msg) IN
     /\ msgs' = Each(msgs, older, Skipped)
     /\ turn' = [turn EXCEPT !.queue = Kept(@, Numbers \ older)]
     /\ routing' = [routing EXCEPT !.step = "place", !.cancelled = older]
  /\ UNCHANGED <<task, tails, control, native, events, current, crossed, phase, expiring, faults, stopped, crashed>>
Place ==
  /\ phase = "up" /\ routing.step = "place"
  /\ LET res == Schedule(turn, Each(msgs, routing.cancelled, Failed), routing.msg)
     IN Take(res, task, res.steer)
  /\ routing' = NoRouting
  /\ UNCHANGED <<tails, control, native, events, current, crossed, phase, expiring, faults, stopped, crashed>>

\* Retry: a new message for one whose delivery or processing ended badly.
Retryable(r) == r.proc = "failed" \/ r.del \in {"failed", "skipped"}
Retry(m) ==
  /\ RoomToAdmit
  /\ m \in Ids /\ Retryable(msgs[m])
  /\ \A i \in Ids : msgs[i].retryOf = m => ~Open(msgs[i])
  /\ msgs' = Append(msgs, NewMessage(msgs[m].from, msgs[m].to, msgs[m].steer, m))
  /\ routing' = [NoRouting EXCEPT !.msg = Len(msgs) + 1, !.step = "place"]
  /\ UNCHANGED <<turn, task, tails, control, native, events, current, crossed, phase, expiring,
                 faults, stopped, crashed>>

(***************************************************************************)
(* Runtime events: handled in order, one handler per slot.                 *)
(***************************************************************************)
Event(kind, m, t, outcome) == [kind |-> kind, msg |-> m, turn |-> t, outcome |-> outcome]

\* Mutant: every event is taken for one of the current Turn.
TurnMatches_Any(ms, s, m, t) == TRUE
\* runtimeTurnMatches: an event of another Turn than the current one is stale.
TurnMatches(ms, s, m, t) ==
  LET turns == {ms[i].turn : i \in {j \in DOMAIN ms : ms[j].to = s /\ Open(ms[j])}} \ {0}
  IN \/ t = 0
     \/ /\ current[s] \in {0, t}
        /\ IF ms[m].turn # 0 THEN ms[m].turn = t ELSE turns \subseteq {t}

\* An input's terminal event.
HandleInput(s) ==
  /\ phase = "up" /\ events[s] # <<>> /\ Head(events[s]).kind \in Settled
  /\ events' = [events EXCEPT ![s] = Tail(@)]
  /\ LET e == Head(events[s])
         done == [msgs EXCEPT ![e.msg] = Processed(@, e.kind, e.turn)]
     IN IF TurnMatches(msgs, s, e.msg, e.turn)
        THEN Take(FinishIfIdle(turn, done, s, FALSE), task, FALSE)
        ELSE UNCHANGED <<turn, msgs, task>>
  /\ UNCHANGED <<tails, routing, control, native, current, crossed, phase, expiring, faults, stopped, crashed>>

\* The end of a Turn: settle its inputs, note the boundary, release the owner.
HandleBoundary(s) ==
  /\ phase = "up" /\ events[s] # <<>> /\ Head(events[s]).kind = "boundary"
  /\ events' = [events EXCEPT ![s] = Tail(@)]
  /\ LET e == Head(events[s])
         left == {m \in Ids : /\ msgs[m].to = s /\ Open(msgs[m])
                              /\ m = e.msg \/ (e.turn # 0 /\ msgs[m].turn = e.turn)}
         done == Each(msgs, left, LAMBDA r : Processed(r, e.outcome, e.turn))
         seen == [turn EXCEPT !.boundary = @ \/ turn.owner = s]
     IN IF TurnMatches(msgs, s, e.msg, e.turn)
        THEN /\ Take(FinishIfIdle(seen, done, s, FALSE), task, FALSE)
             /\ current' = [current EXCEPT ![s] = IF e.turn \in {0, @} THEN 0 ELSE @]
        ELSE UNCHANGED <<turn, msgs, task, current>>
  /\ UNCHANGED <<tails, routing, control, native, crossed, phase, expiring, faults, stopped, crashed>>

\* A final answer.  It may name the peer; a newer human message voids that.
NewerHuman(m) == \E h \in Ids : h > m /\ msgs[h].from = User
HandleFinal(s) ==
  /\ phase = "up" /\ events[s] # <<>> /\ Head(events[s]).kind = "final" /\ routing = NoRouting
  /\ events' = [events EXCEPT ![s] = Tail(@)]
  /\ LET e == Head(events[s])
         relay == NewMessage(s, Peer(s), FALSE, 0)
     IN \/ UNCHANGED <<turn, msgs, task>>
        \/ /\ TurnMatches(msgs, s, e.msg, e.turn) /\ ~NewerHuman(e.msg) /\ MayAdd
           /\ Take(Schedule(turn, Append(msgs, relay), Len(msgs) + 1), task, FALSE)
  /\ UNCHANGED <<tails, routing, control, native, current, crossed, phase, expiring, faults, stopped, crashed>>

(***************************************************************************)
(* Delivery: one goroutine per scheduled message.                          *)
(***************************************************************************)
At(m, pc) == phase = "up" /\ m \in Ids /\ task[m].pc = pc
Goes(m, pc) == task' = [task EXCEPT ![m].pc = pc]
\* Mutant: deliveries of one slot do not exclude each other.
LockFree_Control(s) == control[s] = "none"
LockFree(s) ==
  /\ control[s] = "none"
  /\ \A m \in Ids : msgs[m].to = s => task[m].pc \notin {"native", "accepted", "failing"}
Crossing(m) == crossed' = [crossed EXCEPT ![m] = Min({2, @ + 1})]

\* Cancelled, stopped or superseded before the lock was ours: nothing is sent.
TooLate(m) ==
  /\ At(m, "wait") /\ LockFree(msgs[m].to) /\ ~Awaiting(msgs[m])
  /\ Goes(m, "over")
  /\ UNCHANGED <<msgs, turn, tails, routing, control, native, events, current, crossed, phase,
                 expiring, faults, stopped, crashed>>
\* The submission boundary is recorded before the runtime is called.
Submit(m) ==
  /\ At(m, "wait") /\ LockFree(msgs[m].to) /\ Awaiting(msgs[m])
  /\ msgs' = [msgs EXCEPT ![m] = Delivered(@, "submitting")]
  /\ Goes(m, "native")
  /\ UNCHANGED <<turn, tails, routing, control, native, events, current, crossed, phase, expiring,
                 faults, stopped, crashed>>
\* No adapter, a quote or an image that is gone, or a runtime that refuses the
\* start: the failure is two records.
FailDelivery(m) ==
  /\ \/ At(m, "wait") /\ LockFree(msgs[m].to) /\ Awaiting(msgs[m])
     \/ At(m, "native") /\ ~task[m].steer
  /\ msgs' = [msgs EXCEPT ![m] = Delivered(@, "failed")]
  /\ Fault /\ Goes(m, "failing")
  /\ UNCHANGED <<turn, tails, routing, control, native, events, current, crossed, phase, expiring,
                 stopped, crashed>>
FailProcessing(m) ==
  /\ At(m, "failing")
  /\ msgs' = [msgs EXCEPT ![m] = Failed(@)]
  /\ Goes(m, "over")
  /\ UNCHANGED <<turn, tails, routing, control, native, events, current, crossed, phase, expiring,
                 faults, stopped, crashed>>

IdleRuntime == [turn |-> 0, inputs |-> {}, staged |-> 0]
\* The runtime starts a Turn with m; its two events reach the Room before
\* anything else of that Turn.
TurnStarts(s, m) ==
  /\ native' = [native EXCEPT ![s] = [turn |-> m, inputs |-> {m}, staged |-> 0]]
  /\ IF TurnMatches(msgs, s, m, m)
     THEN /\ msgs' = [msgs EXCEPT ![m] = Processed(@, "working", m)]
          /\ turn' = [turn EXCEPT !.boundary = @ /\ turn.owner # s]
          /\ current' = [current EXCEPT ![s] = m]
     ELSE UNCHANGED <<msgs, turn, current>>

StartTurn(m) ==
  LET s == msgs[m].to IN
  /\ At(m, "native") /\ ~task[m].steer /\ native[s] = IdleRuntime /\ events[s] = <<>>
  /\ Crossing(m)
  /\ \/ TurnStarts(s, m) /\ Goes(m, "accepted") /\ UNCHANGED faults
     \/ \* awaitUnknownSubmission: sent, not answered
        /\ native' = [native EXCEPT ![s].staged = m]
        /\ msgs' = [msgs EXCEPT ![m] = Processed([@ EXCEPT !.unsure = TRUE], "waiting", 0)]
        /\ Fault /\ Goes(m, "over")
        /\ UNCHANGED <<turn, current>>
  /\ UNCHANGED <<tails, routing, control, events, phase, expiring, stopped, crashed>>

SteerAccepted(m) ==
  LET s == msgs[m].to IN
  /\ At(m, "native") /\ task[m].steer /\ s \in Steering /\ native[s].turn # 0
  /\ Crossing(m)
  /\ \/ /\ native' = [native EXCEPT ![s].inputs = @ \cup {m}]
        /\ msgs' = IF TurnMatches(msgs, s, m, native[s].turn)
                   THEN [msgs EXCEPT ![m] = Processed(@, "working", native[s].turn)] ELSE msgs
        /\ Goes(m, "accepted") /\ UNCHANGED faults
     \/ \* the answer was lost: it may have been taken, and is not sent again
        /\ msgs' = [msgs EXCEPT ![m] = Delivered(@, "failed")]
        /\ Fault /\ Goes(m, "failing")
        /\ UNCHANGED native
  /\ UNCHANGED <<turn, tails, routing, control, events, current, phase, expiring, stopped, crashed>>
\* Steering is unavailable or rejected: back to the FIFO, once.
SteerRefused(m) ==
  /\ At(m, "native") /\ task[m].steer
  /\ IF Open(msgs[m]) /\ (InFifo(msgs[m]) \/ msgs[m].del = "submitting")
     THEN msgs' = [msgs EXCEPT ![m] = Delivered(@, "queued")] /\ Goes(m, "fellback")
     ELSE UNCHANGED msgs /\ Goes(m, "over")
  /\ UNCHANGED <<turn, tails, routing, control, native, events, current, crossed, phase, expiring,
                 faults, stopped, crashed>>

\* The runtime's Turn ends: what it reports then, in order.
InputEvents(S, kind, t) ==
  LET inputs == InLogOrder(S) IN [i \in DOMAIN inputs |-> Event(kind, inputs[i], t, kind)]
EndEvents(n, o) ==
  LET S == n.inputs \cup ({n.staged} \ {0})
  IN (IF o = "completed" THEN <<Event("final", Max(S), n.turn, o)>> ELSE <<>>)
     \o InputEvents(S, o, n.turn) \o <<Event("boundary", Max(S), n.turn, o)>>
Ends(s, o) ==
  IF native[s] = IdleRuntime THEN UNCHANGED <<native, events>>
  ELSE /\ native' = [native EXCEPT ![s] = IdleRuntime]
       /\ events' = [events EXCEPT ![s] = @ \o EndEvents(native[s], o)]
\* Interrupt: done on return, or only asked for.
Interrupts(s) == IF s \in Steering THEN UNCHANGED <<native, events>> ELSE Ends(s, "failed")

Accepted(m) ==
  /\ At(m, "accepted")
  /\ msgs' = [msgs EXCEPT ![m] =
       FallbackWorking(Delivered(@, IF task[m].steer THEN "injected" ELSE "started"))]
  /\ Goes(m, "over")
  /\ UNCHANGED <<turn, tails, routing, control, native, events, current, crossed, phase, expiring,
                 faults, stopped, crashed>>
\* The first input of a new session was taken, but its binding cannot be kept.
MaterializeFails(m) ==
  /\ At(m, "accepted") /\ ~task[m].steer /\ msgs[m].to \in Unbound
  /\ Fault /\ Interrupts(msgs[m].to)
  /\ msgs' = [msgs EXCEPT ![m] = Failed(Delivered(@, "started"))]
  /\ Goes(m, "over")
  /\ UNCHANGED <<turn, tails, routing, control, current, crossed, phase, expiring, stopped, crashed>>

\* runScheduledDelivery after deliver: give the submission back, queue a
\* refused steer, and leave one release check to do.
Return(m) ==
  LET counted == [turn EXCEPT !.submitting =
                    IF turn.owner = msgs[m].to /\ @ > 0 THEN @ - 1 ELSE @]
      queues == IF m \in ToSet(turn.queue) THEN counted
                ELSE [counted EXCEPT !.queue = Enqueued(@, m)]
      ended == [task EXCEPT ![m].pc = "none"]
  IN
  /\ At(m, "over") \/ At(m, "fellback")
  /\ IF task[m].pc = "fellback" /\ Awaiting(msgs[m])
     THEN Take(IF turn.owner = None THEN Reserve(queues, msgs)
               ELSE [turn |-> queues, msgs |-> msgs, start |-> 0], ended, FALSE)
     ELSE Take([turn |-> counted, msgs |-> msgs, start |-> 0], ended, FALSE)
  /\ tails' = tails \cup {m}
  /\ UNCHANGED <<routing, control, native, events, current, crossed, phase, expiring, faults, stopped, crashed>>
ReleaseCheck(m) ==
  /\ phase = "up" /\ m \in tails
  /\ tails' = tails \ {m}
  /\ Take(FinishIfIdle(turn, msgs, msgs[m].to, TRUE), task, FALSE)
  /\ UNCHANGED <<routing, control, native, events, current, crossed, phase, expiring, faults, stopped, crashed>>

(***************************************************************************)
(* The runtimes.                                                           *)
(***************************************************************************)
\* A Turn completes, fails, is interrupted, or its process exits.
TurnEnds(s, o) ==
  /\ phase = "up" /\ native[s].turn # 0
  /\ Ends(s, o)
  /\ UNCHANGED <<msgs, turn, task, tails, routing, control, current, crossed, phase, expiring, faults, stopped, crashed>>
\* The end of an earlier Turn is reported once more, or late.  The runtimes of a
\* restarted process know no earlier Turn; what they repeat is left out.
LateBoundary(s, m) ==
  /\ Fault /\ phase = "up" /\ ~crashed /\ m \in Ids /\ msgs[m].to = s /\ ~msgs[m].steer
  /\ crossed[m] > 0 /\ m \notin {native[s].turn, native[s].staged}
  /\ events' = [events EXCEPT ![s] = Append(@, Event("boundary", m, m, "failed"))]
  /\ UNCHANGED <<msgs, turn, task, tails, routing, control, native, current, crossed, phase, expiring,
                 stopped, crashed>>
\* The answer a start was waiting for: accepted after all, or refused or the
\* process gone.
AnswersLate(s) ==
  /\ phase = "up" /\ native[s].staged # 0 /\ events[s] = <<>>
  /\ \/ s \in Steering /\ TurnStarts(s, native[s].staged) /\ UNCHANGED events
     \/ Ends(s, "failed") /\ UNCHANGED <<msgs, turn, current>>
  /\ UNCHANGED <<task, tails, routing, control, crossed, phase, expiring, faults, stopped, crashed>>

(***************************************************************************)
(* Cancel and stop.                                                        *)
(***************************************************************************)
CancelWaiting(m) ==
  /\ Fault /\ phase = "up" /\ m \in Ids /\ Open(msgs[m])
  /\ m \in ToSet(turn.queue) \/ (LockFree(msgs[m].to) /\ InFifo(msgs[m]))
  /\ turn' = [turn EXCEPT !.queue = Kept(@, Numbers \ {m})]
  /\ msgs' = [msgs EXCEPT ![m] = Failed(Skipped(@))]
  /\ UNCHANGED <<task, tails, routing, control, native, events, current, crossed, phase, expiring,
                 stopped, crashed>>
\* What the runtime has can only be interrupted as a whole.
CancelAccepted(m) ==
  /\ Fault /\ phase = "up" /\ m \in Ids /\ Open(msgs[m])
  /\ m \notin ToSet(turn.queue) /\ LockFree(msgs[m].to) /\ ~InFifo(msgs[m])
  /\ Interrupts(msgs[m].to)
  /\ control' = [control EXCEPT ![msgs[m].to] = "cancel"]
  /\ UNCHANGED <<msgs, turn, task, tails, routing, current, crossed, phase, expiring, stopped, crashed>>
CancelSettles(s) ==
  /\ phase = "up" /\ control[s] = "cancel" /\ (s \in Steering \/ events[s] = <<>>)
  /\ LET affected == {m \in Ids : msgs[m].to = s /\ Open(msgs[m]) /\ AtNative(msgs[m])}
     IN Take(FinishIfIdle(turn, Each(msgs, affected, Failed), s, FALSE), task, FALSE)
  /\ control' = [control EXCEPT ![s] = "none"]
  /\ UNCHANGED <<tails, routing, native, events, current, crossed, phase, expiring, faults, stopped, crashed>>

\* StopAgent and RestartAgent: the process ends, its inputs are reported
\* cancelled, without a boundary by a runtime like Codex.
StopBegins(s) ==
  /\ phase = "up" /\ LockFree(s) /\ Fault
  /\ stopped' = TRUE
  /\ control' = [control EXCEPT ![s] = "stop"]
  /\ IF s \in Steering
     THEN /\ native' = [native EXCEPT ![s] = IdleRuntime]
          /\ events' = [events EXCEPT ![s] = @ \o
               InputEvents(native[s].inputs \cup ({native[s].staged} \ {0}), "failed", 0)]
     ELSE Ends(s, "failed")
  /\ UNCHANGED <<msgs, turn, task, tails, routing, current, crossed, phase, expiring, crashed>>
StopSettles(s) ==
  /\ phase = "up" /\ control[s] = "stop" /\ events[s] = <<>>
  /\ LET cancelled == Each(msgs, {m \in Ids : msgs[m].to = s /\ Open(msgs[m])},
                           LAMBDA r : Processed(r, "failed", r.turn))
     IN Take(IF turn.owner = s THEN FinishTurn(turn, cancelled)
             ELSE [turn |-> turn, msgs |-> cancelled, start |-> 0], task, FALSE)
  /\ control' = [control EXCEPT ![s] = "none"]
  /\ current' = [current EXCEPT ![s] = 0]
  /\ UNCHANGED <<tails, routing, native, events, crossed, phase, expiring, faults, stopped, crashed>>

(***************************************************************************)
(* Crash and restart.                                                      *)
(***************************************************************************)
FreeTurn == [owner |-> None, queue |-> <<>>, submitting |-> 0, boundary |-> FALSE]
NoTask == [pc |-> "none", steer |-> FALSE]
\* Everything but the Event Log is gone.
Crash ==
  /\ phase # "down" /\ Fault
  /\ crashed' = TRUE /\ phase' = "down"
  /\ msgs' = [m \in Ids |-> [msgs[m] EXCEPT !.unsure = FALSE]]
  /\ turn' = FreeTurn /\ task' = [m \in Numbers |-> NoTask] /\ tails' = {}
  /\ routing' = NoRouting /\ expiring' = {}
  /\ control' = [s \in Slots |-> "none"] /\ native' = [s \in Slots |-> IdleRuntime]
  /\ events' = [s \in Slots |-> <<>>] /\ current' = [s \in Slots |-> 0]
  /\ UNCHANGED <<crossed, stopped>>
\* Mutant: a submission of unknown outcome is put back into the FIFO.
Restore_Requeues ==
  /\ phase = "down" /\ phase' = "expiring" /\ expiring' = {}
  /\ msgs' = Each(msgs, {m \in Ids : msgs[m].del = "submitting"}, LAMBDA r : Delivered(r, "queued"))
  /\ UNCHANGED <<turn, task, tails, routing, control, native, events, current, crossed, faults, stopped, crashed>>
\* expireRestoredTransientState, the first of its two records for a submission
\* nobody knows the outcome of.
Restore ==
  /\ phase = "down" /\ phase' = "expiring"
  /\ expiring' = {m \in Ids : msgs[m].del = "submitting"}
  /\ msgs' = Each(msgs, expiring', LAMBDA r : Delivered(r, "failed"))
  /\ UNCHANGED <<turn, task, tails, routing, control, native, events, current, crossed, faults, stopped, crashed>>
\* The second one, the end of accepted inputs, and Start: the FIFO as it was.
Resume ==
  /\ phase = "expiring" /\ phase' = "up" /\ expiring' = {}
  /\ LET lost == {m \in Ids : Open(msgs[m]) /\ msgs[m].del \in {"started", "injected"}}
         ended == Each(Each(msgs, expiring, Failed), lost, Failed)
         fifo == InLogOrder({m \in Ids : Awaiting(msgs[m])})
     IN IF fifo = <<>> THEN msgs' = ended /\ UNCHANGED <<turn, task>>
        ELSE /\ msgs' = Each(ended, ToSet(Tail(fifo)), LAMBDA r : Delivered(r, "queued"))
             /\ turn' = [ owner |-> msgs[Head(fifo)].to, queue |-> Tail(fifo),
                          submitting |-> 1, boundary |-> FALSE ]
             /\ task' = Begun(task, Head(fifo), FALSE)
  /\ UNCHANGED <<tails, routing, control, native, events, current, crossed, faults, stopped, crashed>>

-----------------------------------------------------------------------------
Init ==
  /\ msgs = <<>> /\ turn = FreeTurn /\ task = [m \in Numbers |-> NoTask] /\ tails = {}
  /\ routing = NoRouting /\ control = [s \in Slots |-> "none"]
  /\ native = [s \in Slots |-> IdleRuntime] /\ events = [s \in Slots |-> <<>>]
  /\ current = [s \in Slots |-> 0] /\ crossed = [m \in Numbers |-> 0]
  /\ phase = "up" /\ expiring = {} /\ faults = 0 /\ stopped = FALSE /\ crashed = FALSE

Next ==
  \/ \E i \in Intents : Send(i[1], i[2])
  \/ Sweep \/ Place \/ Crash \/ Restore \/ Resume
  \/ \E m \in Numbers :
       \/ Retry(m) \/ (\E s \in Slots : LateBoundary(s, m)) \/ TooLate(m) \/ Submit(m) \/ FailDelivery(m) \/ FailProcessing(m)
       \/ StartTurn(m) \/ SteerAccepted(m) \/ SteerRefused(m) \/ Accepted(m)
       \/ MaterializeFails(m) \/ Return(m) \/ ReleaseCheck(m)
       \/ CancelWaiting(m) \/ CancelAccepted(m)
  \/ \E s \in Slots :
       \/ HandleInput(s) \/ HandleBoundary(s) \/ HandleFinal(s)
       \/ AnswersLate(s) \/ CancelSettles(s) \/ StopBegins(s) \/ StopSettles(s)
       \/ \E o \in Settled : TurnEnds(s, o)

Spec == Init /\ [][Next]_vars

-----------------------------------------------------------------------------
(***************************************************************************)
(* Properties                                                              *)
(***************************************************************************)
\* The types, and one goroutine at most between the lock and its release.
TypeOK ==
  /\ msgs \in Seq(Message) /\ Len(msgs) <= MaxMessages
  /\ turn \in [ owner: Slots \cup {None}, queue: Seq(Numbers),
                submitting: 0..MaxMessages, boundary: BOOLEAN ]
  /\ task \in [Numbers -> [pc: Pcs, steer: BOOLEAN]]
  /\ tails \subseteq Ids /\ expiring \subseteq Ids
  /\ routing \in [msg: 0..MaxMessages, step: {"idle", "sweep", "place"}, cancelled: SUBSET Numbers]
  /\ control \in [Slots -> {"none", "cancel", "stop"}]
  /\ native \in [Slots -> [turn: 0..MaxMessages, inputs: SUBSET Numbers, staged: 0..MaxMessages]]
  /\ \A s \in Slots : \A i \in DOMAIN events[s] :
       events[s][i] \in [kind: EventKinds, msg: Numbers, turn: 0..MaxMessages, outcome: Settled]
  /\ current \in [Slots -> 0..MaxMessages] /\ crossed \in [Numbers -> 0..2]
  /\ phase \in {"up", "down", "expiring"} /\ faults \in 0..MaxLoad
  /\ stopped \in BOOLEAN /\ crashed \in BOOLEAN
  /\ \A s \in Slots :
       Cardinality({m \in Ids : /\ msgs[m].to = s
                                /\ task[m].pc \in {"native", "accepted", "failing"}}) <= 1

\* Until a participant is stopped, whatever a runtime has or may have taken and
\* not finished is for the owner of the native Turn (startScheduledDelivery,
\* finishTurnIfIdle): the FIFO never hands the Turn to the peer of an open input.
OwnedBySlot ==
  phase = "up" /\ ~stopped =>
    \A m \in Ids : Open(msgs[m]) /\ AtNative(msgs[m]) => msgs[m].to = turn.owner

\* While the runtime of the owner is in a Turn, the owner changes only by the
\* last check of a delivery goroutine (OneNativeTurn): no late or repeated end of
\* an earlier Turn releases it (runtimeTurnMatches, turnBoundarySeen).  A slot
\* that a restart left deaf does not hear its Turns begin (RestartSettles).
Deaf(s) ==
  \E m \in Ids : msgs[m].to = s /\ Open(msgs[m]) /\ msgs[m].turn \notin {0, native[s].turn}
BoundaryReleases ==
  [][ /\ phase = "up" /\ phase' = "up" /\ tails \subseteq tails'
      /\ turn.owner # None /\ native[turn.owner].turn # 0 /\ ~Deaf(turn.owner)
      => turn'.owner = turn.owner ]_vars

\* The native Turn has one owner: what is open at a runtime is the owner's, and the
\* owner keeps the Turn until the boundary of that Turn.
SingleOwner == []OwnedBySlot /\ BoundaryReleases

\* No message reaches a runtime twice, whatever fallback from steering, lost
\* answer, cancellation, stop or restart comes in between: only a new message,
\* of an explicit Retry, sends its text again.
CrossedOnce == \A m \in Numbers : crossed[m] <= 1

\* Messages start Turns in Event Log order, also those that a refused steer or a
\* restart put back into the FIFO; and no relay of an Agent reaches a runtime
\* once a newer human message has been routed (cancelQueuedAgentRelaysBefore);
\* the Retry of a human message cancels no relay.
\* A stop lets a goroutine that waits for its slot be overtaken.
SubmitsInOrder ==
  [][\A m \in Ids : task[m].pc = "wait" /\ task'[m].pc = "native" =>
       /\ ~stopped /\ ~task[m].steer => \A i \in Ids : i < m => ~Awaiting(msgs[i])
       /\ ~crashed /\ msgs[m].from \in Slots =>
            \A h \in Ids : h > m /\ msgs[h].from = User /\ msgs[h].retryOf = 0 => h = routing.msg]_vars

\* What will still move an open message: a place in the FIFO, a goroutine, the
\* admission that is placing or cancelling it, an input of a runtime, or an event
\* not handled yet.
Carried(m) ==
  LET s == msgs[m].to IN
  \/ m \in ToSet(turn.queue) \/ task[m].pc # "none"
  \/ m = routing.msg \/ m \in routing.cancelled
  \/ m \in native[s].inputs \/ m = native[s].staged
  \/ \E i \in DOMAIN events[s] : events[s][i].msg = m
  \/ control[s] # "none"

\* docs/OPERATIONS.md:168 promises "unknown submission fails and accepted
\* unfinished input is cancelled without replay": after a restart no message
\* whose delivery is over is still open with nothing left to settle it.  Not so
\* after a crash in a delivery's failure path; NothingStalls is stated beside it.
RestartSettles ==
  phase = "up" =>
    \A m \in Ids : Open(msgs[m]) /\ msgs[m].del \in {"failed", "skipped"} => Carried(m)

\* Every open message is carried; the owner of the Turn still has something that
\* will release it, and what waits in the FIFO waits for an owner: the Room never
\* stalls on a Turn that nobody is going to finish.  (A message that a
\* restart left open makes its slot deaf to later Turns: RestartSettles excludes
\* that case.)
Busy(s) ==
  \/ \E m \in Ids : msgs[m].to = s /\ (task[m].pc # "none" \/ m \in tails)
  \/ native[s] # IdleRuntime \/ events[s] # <<>> \/ control[s] # "none"
NothingStalls ==
  phase = "up" =>
    /\ ~crashed => \A m \in Ids : Open(msgs[m]) => Carried(m)
    /\ RestartSettles =>
         /\ turn.owner # None => Busy(turn.owner)
         /\ turn.queue # <<>> => turn.owner # None

\* docs/ARCHITECTURE.md:70 promises "At most one participant owns a native Turn;
\* another waits for a reliable terminal boundary or confirmed exit."
OneNativeTurn == \A s \in Slots : native[s].turn # 0 => native[Peer(s)].turn = 0

=============================================================================
