------------------------------ MODULE NativeWake ------------------------------
(***************************************************************************)
(* Waking an idle session of a Native Room (internal/relay/wake.go and     *)
(* internal/service/native_waker.go).  A message that waits at the head of *)
(* a slot's queue may earn one nudge: the Service's worker waits a grace,  *)
(* looks again, reserves the nudge durably, runs the vendor's command and  *)
(* records its outcome.  Two locks guard this, the Engine's and the        *)
(* waker's; each critical section is one action.                           *)
(*                                                                         *)
(* Time is counted in ticks since the event that matters: the age of a     *)
(* reservation, what is left of a deferral.  The inbox is NativeRelay's,   *)
(* cut to what a wake can see; work of an ended generation is "lapsed".    *)
(***************************************************************************)
EXTENDS Integers, FiniteSets

CONSTANTS
  Slots,         \* model.SlotActors
  Policies,      \* what runtimes that bind can do: "handoff" (a Claude inbox,
                 \* consumed by an acknowledged collection), "turnend" (a Codex
                 \* queue, consumed after a Turn's end) or "none" (no transport)
  MaxMessages,   \* bound: messages ever accepted
  HourlyLimit,   \* nudges per Room and hour
  MinInterval,   \* ticks between two nudges of one target
  Hour,          \* ticks of the budget window
  RenewAfter,    \* ticks after which an outstanding nudge no longer counts
  Recheck,       \* ticks between two capability or queue probes
  MaxChanges     \* bound: bindings, capabilities and settings that change

ASSUME WakeConstants ==
  /\ Slots # {} /\ Policies \subseteq {"handoff", "turnend", "none"}
  /\ MaxMessages \in Nat /\ HourlyLimit \in Nat \ {0} /\ MinInterval \in Nat
  /\ Hour \in Nat \ {0} /\ RenewAfter \in Nat /\ Recheck \in Nat
  /\ MaxChanges \in Nat

Ids == 1..MaxMessages

VARIABLES
  msgs,        \* ID -> [to, st]
  active,      \* slots with an active binding
  policy,      \* slot -> NativeWakePolicy of its bound runtime
  enabled,     \* wakeEnabled
  reserved,    \* wakeReserved: messages with a durable reservation
  age,         \* ticks since a message's reservation, Old at most
  nudge,       \* slot -> the newest reserved nudge of its session (durable part)
  turnOver,    \* slots whose Turn ended and that made no relay call since
  progress,    \* slot -> what was seen of a Codex session since its nudge
  claimedSince,\* messages claimed after the newest reservation for their slot
  waiting,     \* slots with a blocked collector
  phase,       \* running, stopped, or between: closing, or idling (an idle close)
  fatal,       \* an append failed
  scheduled,   \* queued messages some goroutine was started for
  worker,      \* slot -> the one worker that passed begin
  attempts,    \* the waker's copy of the reservations that count
  deferred,    \* slot -> a head to look at later
  capable,     \* slots whose vendor capability or queue can be read now
  prompts,     \* slot -> nudges its vendor holds and has not shown its session
  woken,       \* message -> vendor commands that ran for it
  changes      \* bound

inbox == <<msgs, active, policy, waiting, claimedSince>>
engine == <<enabled, reserved, age, nudge, turnOver, progress, phase, fatal>>
waker == <<scheduled, worker, attempts, deferred>>
vendor == <<capable, prompts, woken, changes>>
vars == <<inbox, engine, waker, vendor>>

Nobody == 0
Old == IF Hour > RenewAfter THEN Hour ELSE RenewAfter
NoNudge == [m |-> Nobody, failed |-> FALSE, handedOff |-> FALSE]
\* The nudge met a busy session, whose Turn has ended since; it met an idle one;
\* it counts as consumed.
Progress == {"busy", "ended", "idle", "consumed"}
Resting == [pc |-> "idle", m |-> Nobody, failed |-> FALSE]
InWorker == {"grace", "probe", "ready", "leased", "budgeted", "authorized", "ran"}
\* attempting: from beginAttempt to endAttempt
InAttempt == {"leased", "budgeted", "authorized", "ran"}
NotDeferred == [m |-> Nobody, due |-> 0, why |-> "none"]

Healthy == phase = "running" /\ ~fatal
Available == phase # "stopped" /\ ~fatal
Closing == phase \in {"closing", "idling"}   \* the engine drains, the waker closes

-----------------------------------------------------------------------------
(* What a wake can see *)

Queue(s) == {i \in Ids : msgs[i].to = s /\ msgs[i].st = "queued"}
Out(s) == \E i \in Ids : msgs[i].to = s /\ msgs[i].st = "delivering"
First(S) == IF S = {} THEN Nobody ELSE CHOOSE i \in S : \A j \in S : i <= j
Last(S) == IF S = {} THEN Nobody ELSE CHOOSE i \in S : \A j \in S : j <= i

\* wakeOwnerLocked: the oldest message queued after the newest attempted one.
Attempted(s) == Last(Queue(s) \cap reserved)
Owner_Head(s) == First(Queue(s))
Owner(s) == First({i \in Queue(s) : i > Attempted(s)})
\* wakeHeadLocked
Head(s) == IF Owner(s) # Nobody THEN Owner(s) ELSE Attempted(s)

\* wakeNudgePendingLocked, with wakeNudgeConsumedLocked
NudgePending(s) ==
  /\ nudge[s].m # Nobody /\ ~nudge[s].failed
  /\ age[nudge[s].m] < RenewAfter
  /\ IF policy[s] = "handoff" THEN ~nudge[s].handedOff ELSE progress[s] # "consumed"

\* wakeCandidateLocked, and whether the message owns its target's decision
Candidate(i) == Healthy /\ i \in Ids /\ msgs[i].st = "queued"
QueueStart(i) == Owner(msgs[i].to) = i

\* nativeWakeSuppression
Suppression(s) ==
  CASE ~enabled                 -> "disabled"
    [] s \in waiting \/ Out(s)  -> "waiter_active"
    [] s \notin active          -> "unbound"
    [] policy[s] = "none"       -> "unsupported"
    [] NudgePending(s)          -> "nudge_pending"
    [] OTHER                    -> "none"

-----------------------------------------------------------------------------
(* The session and the inbox: what NativeRelay's operations do to a wake *)

\* authenticate: any relay call of the session is activity.  It consumes a nudge
\* that met an idle session, or a busy one whose Turn has ended since.
Called(p) == IF p \in {"ended", "idle"} THEN "consumed" ELSE p
Seen(s, p) == IF nudge[s].m = Nobody THEN "busy" ELSE p
Activity(s) ==
  IF policy[s] = "turnend"
  THEN turnOver' = turnOver \ {s} /\ progress' = [progress EXCEPT ![s] = Seen(s, Called(@))]
  ELSE UNCHANGED <<turnOver, progress>>

\* observeTurnEndLocked: a nudge that was consumed before stays consumed.
TurnEnded(p) == IF p = "busy" THEN "ended" ELSE p
TurnEnds(s, p) ==
  IF policy[s] = "turnend"
  THEN turnOver' = turnOver \cup {s} /\ progress' = [progress EXCEPT ![s] = Seen(s, TurnEnded(p))]
  ELSE UNCHANGED <<turnOver, progress>>

\* A goroutine for a message that left the queue returns without a trace.
Inbox(M) ==
  /\ msgs' = M
  /\ scheduled' = {i \in scheduled : M[i].st = "queued"}

Changed == changes < MaxChanges /\ changes' = changes + 1

NewId(i) == msgs[i].st = "absent" /\ \A j \in Ids : j < i => msgs[j].st # "absent"

\* An accepted message, followed by the Service's scheduleWake.  Its append wakes
\* whoever waits; the woken call counts as waiting until it runs.
Publish(s) ==
  /\ Healthy
  /\ \E i \in Ids :
       /\ NewId(i)
       /\ msgs' = [msgs EXCEPT ![i] = [to |-> s, st |-> "queued"]]
       /\ scheduled' = scheduled \cup {i}
  /\ UNCHANGED <<active, policy, waiting, claimedSince, engine, worker, attempts, deferred, vendor>>

\* A relay call that claims nothing: a status, a send, a park that ends the Turn.
Call(s, endsTurn) ==
  /\ Available /\ s \in active
  /\ IF endsTurn THEN TurnEnds(s, Called(progress[s])) ELSE Activity(s)
  /\ UNCHANGED <<inbox, enabled, reserved, age, nudge, phase, fatal, waker, vendor>>

\* Claim, up to the lock: deliver the head, or register and block.
Claim(s) ==
  /\ Healthy /\ s \in active /\ ~Out(s) /\ Queue(s) # {}
  /\ Inbox([msgs EXCEPT ![First(Queue(s))].st = "delivering"])
  /\ claimedSince' = IF policy[s] = "handoff" THEN claimedSince \cup {First(Queue(s))}
                     ELSE claimedSince
  /\ waiting' = waiting \ {s}
  /\ Activity(s)
  /\ UNCHANGED <<active, policy, enabled, reserved, age, nudge, phase, fatal, worker, attempts, deferred,
                 vendor>>
Wait(s) ==
  /\ Healthy /\ s \in active \ waiting /\ (Out(s) \/ Queue(s) = {})
  /\ waiting' = waiting \cup {s}
  /\ Activity(s)
  /\ UNCHANGED <<msgs, active, policy, claimedSince, enabled, reserved, age, nudge, phase, fatal, waker,
                 vendor>>
\* The call's deadline passes; a Stop park then observes the Turn's end.
WaitEnds(s, park) ==
  /\ s \in waiting
  /\ waiting' = waiting \ {s}
  /\ IF park THEN TurnEnds(s, progress[s]) ELSE UNCHANGED <<turnOver, progress>>
  /\ UNCHANGED <<msgs, active, policy, claimedSince, enabled, reserved, age, nudge, phase, fatal, waker,
                 vendor>>

\* Ack, early or late.  observeWakeHandoffLocked: it supersedes the nudge when
\* the message was claimed after the reservation.
Superseded(i) == i \in claimedSince
Ack(i) ==
  LET s == msgs[i].to IN
  /\ Available /\ s \in active /\ msgs[i].st \in {"delivering", "unknown"}
  /\ Inbox([msgs EXCEPT ![i].st = "settled"])
  /\ nudge' = IF nudge[s].m # Nobody /\ policy[s] = "handoff" /\ Superseded(i)
              THEN [nudge EXCEPT ![s].handedOff = TRUE] ELSE nudge
  /\ claimedSince' = claimedSince \ {i}
  /\ Activity(s)
  /\ UNCHANGED <<active, policy, waiting, enabled, reserved, age, phase, fatal, worker, attempts, deferred,
                 vendor>>

\* The lease of a delivery ends; the owner cancels queued work.
Expires(i) ==
  /\ Available /\ msgs[i].st = "delivering"
  /\ Inbox([msgs EXCEPT ![i].st = "unknown"])
  /\ UNCHANGED <<active, policy, waiting, claimedSince, engine, worker, attempts, deferred, vendor>>
Cancel(i) ==
  /\ Healthy /\ msgs[i].st = "queued"
  /\ Inbox([msgs EXCEPT ![i].st = "settled"])
  /\ UNCHANGED <<active, policy, waiting, claimedSince, engine, worker, attempts, deferred, vendor>>

\* applyBindingProjection: an unbound or replaced session consumes no nudge of
\* its predecessor.  A slot that gets its first binding keeps its queue.
BindingChanges(s, bound) ==
  /\ Healthy /\ (s \in active \/ bound)
  /\ active' = IF bound THEN active \cup {s} ELSE active \ {s}
  /\ \E p \in Policies : policy' = [policy EXCEPT ![s] = IF bound THEN p ELSE "none"]
  /\ Inbox([i \in Ids |->
       IF msgs[i].to # s THEN msgs[i]
       ELSE CASE msgs[i].st = "queued" /\ s \in active -> [msgs[i] EXCEPT !.st = "settled"]
              [] msgs[i].st \in {"delivering", "unknown"} -> [msgs[i] EXCEPT !.st = "lapsed"]
              [] OTHER -> msgs[i]])
  /\ nudge' = [nudge EXCEPT ![s] = NoNudge]
  /\ turnOver' = turnOver \ {s} /\ progress' = [progress EXCEPT ![s] = "busy"]
  /\ waiting' = waiting \ {s}
  /\ claimedSince' = {i \in claimedSince : msgs[i].to # s}
  /\ prompts' = [prompts EXCEPT ![s] = 0]
  /\ Changed
  /\ UNCHANGED <<enabled, reserved, age, phase, fatal, worker, attempts, deferred, capable, woken>>

\* SetWakeEnabled: only while no delivery is unresolved.
SetWakeEnabled(value) ==
  /\ Healthy /\ enabled # value
  /\ \A i \in Ids : msgs[i].st \notin {"delivering", "unknown", "lapsed"}
  /\ enabled' = value
  /\ Changed
  /\ UNCHANGED <<inbox, reserved, age, nudge, turnOver, progress, phase, fatal, waker, capable,
                 prompts, woken>>

-----------------------------------------------------------------------------
(* The worker of a target: nativeWaker.Wake *)

Pc(s) == worker[s].pc
Moves(s, pc) == worker' = [worker EXCEPT ![s].pc = pc]
Rests(s) == worker' = [worker EXCEPT ![s] = Resting]

\* suppress and deferCandidate, which does nothing while the waker closes.  The
\* audit record of a suppression changes nothing here.
Deferred(s, i, due, why) ==
  deferred' = IF Closing THEN deferred
              ELSE [deferred EXCEPT ![s] = [m |-> i, due |-> due, why |-> why]]
Suppress(s, i, why) ==
  IF why = "nudge_pending" THEN Deferred(s, i, 0, why) ELSE UNCHANGED deferred

\* queueProbeDeferred: callbacks share the backoff of Codex's queue probe.
ProbeDeferred(s, i) ==
  /\ policy[s] = "turnend" /\ deferred[s].m = i /\ deferred[s].due > 0
  /\ deferred[s].why \in {"queue_pending", "capability_unavailable"}

\* A goroutine started by Schedule looks at its message and tries to begin.
Begin(i) ==
  LET s == msgs[i].to IN
  /\ i \in scheduled /\ scheduled' = scheduled \ {i}
  /\ IF ~Candidate(i) \/ ~QueueStart(i) \/ Pc(s) # "idle" \/ Closing
     THEN UNCHANGED <<worker, deferred>>
     ELSE IF Suppression(s) # "none"
     THEN Suppress(s, i, Suppression(s)) /\ UNCHANGED worker
     ELSE /\ worker' = IF ProbeDeferred(s, i) THEN worker
                       ELSE [worker EXCEPT ![s] = [pc |-> "grace", m |-> i, failed |-> FALSE]]
          /\ UNCHANGED deferred
  /\ UNCHANGED <<inbox, engine, attempts, vendor>>

\* The runtime's context ends the grace, a probe or a wait without an attempt.
Cancelled(s) ==
  /\ Closing /\ Pc(s) \in {"grace", "probe", "ready"}
  /\ Rests(s)
  /\ UNCHANGED <<inbox, engine, scheduled, attempts, deferred, vendor>>

\* After the grace the candidate is read again.
LookAgain(s) ==
  LET i == worker[s].m IN
  /\ Pc(s) = "grace"
  /\ IF Candidate(i) /\ QueueStart(i) /\ Suppression(s) = "none"
     THEN Moves(s, "probe") /\ UNCHANGED deferred
     ELSE /\ Rests(s)
          /\ IF Candidate(i) /\ QueueStart(i) THEN Suppress(s, i, Suppression(s))
             ELSE UNCHANGED deferred
  /\ UNCHANGED <<inbox, engine, scheduled, attempts, vendor>>

\* Claude's capability file, or Codex's native queue: a prompt that is still in
\* the queue forbids another.
QueueHolds(s) == policy[s] = "turnend" /\ prompts[s] > 0
Probe(s) ==
  LET i == worker[s].m
      why == IF s \notin capable THEN "capability_unavailable"
             ELSE IF QueueHolds(s) THEN "queue_pending" ELSE "none"
  IN
  /\ Pc(s) = "probe"
  /\ IF why = "none" THEN Moves(s, "ready") /\ UNCHANGED deferred
     ELSE /\ Rests(s)
          /\ Deferred(s, i, Recheck, why)
  /\ UNCHANGED <<inbox, engine, scheduled, attempts, vendor>>

\* beginAttempt: the effect's lease, before the reservation.
BeginAttempt(s) ==
  /\ Pc(s) = "ready" /\ ~Closing
  /\ Moves(s, "leased")
  /\ UNCHANGED <<inbox, engine, scheduled, attempts, deferred, vendor>>

\* rateWindowLocked: what is left of the interval and of the hourly window.
Recent == {i \in attempts : age[i] < Hour}
YoungestAge(S) == CHOOSE a \in {age[i] : i \in S} : \A i \in S : a <= age[i]
Least(S) == CHOOSE a \in S : \A b \in S : a <= b
IntervalLeft(s) ==
  LET mine == {i \in Recent : msgs[i].to = s} IN
  IF mine = {} \/ YoungestAge(mine) >= MinInterval THEN 0 ELSE MinInterval - YoungestAge(mine)
HourLeft_Overshoots ==
  IF Cardinality(Recent) <= HourlyLimit THEN 0
  ELSE Hour - Least({a \in 0..Hour :
                       Cardinality({i \in Recent : age[i] <= a}) >= HourlyLimit})
HourLeft ==
  IF Cardinality(Recent) < HourlyLimit THEN 0
  ELSE Hour - Least({a \in 0..Hour :
                       Cardinality({i \in Recent : age[i] <= a}) >= HourlyLimit})

\* reserveRate
ReserveRate(s) ==
  LET i == worker[s].m
      due == IF HourLeft > IntervalLeft(s) THEN HourLeft ELSE IntervalLeft(s)
  IN
  /\ Pc(s) = "leased"
  /\ IF due > 0
     THEN /\ Rests(s)
          /\ Deferred(s, i, due, "rate")
          /\ UNCHANGED <<attempts, age>>
     ELSE /\ Moves(s, "budgeted")
          /\ attempts' = attempts \cup {i}
          /\ age' = [age EXCEPT ![i] = 0]
          /\ deferred' = [deferred EXCEPT ![s] = NotDeferred]
  /\ UNCHANGED <<inbox, enabled, reserved, nudge, turnOver, progress, phase, fatal, scheduled,
                 vendor>>

\* ReserveWake: everything is checked again under the lock of the append.
MayReserve(s, i) ==
  Candidate(i) /\ i \notin reserved /\ QueueStart(i) /\ Suppression(s) = "none"
Authorized_DespiteError(o) == TRUE
Authorized(o) == o = "ok"
ReserveWake(s) ==
  LET i == worker[s].m IN
  /\ Pc(s) = "budgeted"
  /\ IF MayReserve(s, i)
     THEN \E o \in {"ok", "landed", "lost"} :
            /\ IF o = "lost" THEN UNCHANGED <<reserved, nudge, claimedSince, progress>>
               ELSE /\ reserved' = reserved \cup {i}
                    /\ nudge' = [nudge EXCEPT ![s] = [NoNudge EXCEPT !.m = i]]
                    /\ claimedSince' = {j \in claimedSince : msgs[j].to # s}
                    /\ progress' = [progress EXCEPT ![s] = IF s \in turnOver THEN "idle" ELSE "busy"]
            /\ fatal' = (o # "ok")
            /\ IF Authorized(o) THEN Moves(s, "authorized") /\ UNCHANGED attempts
               ELSE Rests(s) /\ attempts' = attempts \ {i}
            /\ age' = IF o = "lost" THEN [age EXCEPT ![i] = Old] ELSE age
     ELSE /\ Rests(s) /\ attempts' = attempts \ {i}
          /\ age' = [age EXCEPT ![i] = Old]
          /\ UNCHANGED <<fatal, reserved, nudge, claimedSince, progress>>
  /\ UNCHANGED <<msgs, active, policy, waiting, enabled, turnOver, phase, scheduled, deferred, vendor>>

\* The vendor's command.  A command that fails may still have left its prompt.
RunCommand(s) ==
  /\ Pc(s) = "authorized"
  /\ \E failed, left \in BOOLEAN :
       /\ ~failed => left
       /\ worker' = [worker EXCEPT ![s].pc = "ran", ![s].failed = failed]
       /\ prompts' = [prompts EXCEPT ![s] = IF left THEN @ + 1 ELSE @]
  /\ woken' = [woken EXCEPT ![worker[s].m] = @ + 1]
  /\ UNCHANGED <<inbox, engine, scheduled, attempts, deferred, capable, changes>>

\* RecordWakeAttempt: admitted while draining, so a known outcome is not lost.
RecordOutcome(s) ==
  /\ Pc(s) = "ran"
  /\ Rests(s)
  /\ IF Available
     THEN \E o \in {"ok", "landed", "lost"} :
            /\ nudge' = IF o # "lost" /\ nudge[s].m # Nobody
                        THEN [nudge EXCEPT ![s].failed = worker[s].failed] ELSE nudge
            /\ fatal' = (o # "ok")
     ELSE UNCHANGED <<nudge, fatal>>
  /\ UNCHANGED <<inbox, enabled, reserved, age, turnOver, progress, phase, scheduled, attempts,
                 deferred, vendor>>

-----------------------------------------------------------------------------
(* Maintenance, time and the runtime *)

\* Reconcile, once a second, for one target: drop a deferral that no longer
\* applies, take the lease of a pending nudge, and start a worker.
Unsettled(s) ==
  LET d == deferred[s] IN
  IF d.m # Head(s) \/ Head(s) \in reserved \/ ~enabled
       \/ (d.why = "nudge_pending" /\ ~NudgePending(s))
  THEN NotDeferred ELSE d
Reconcile(s) ==
  LET i == Head(s)
      why == Suppression(s)
      next == Unsettled(s)
  IN
  /\ phase = "running"
  /\ IF i = Nobody \/ ~Healthy
     THEN deferred' = [deferred EXCEPT ![s] = NotDeferred] /\ UNCHANGED scheduled
     ELSE /\ deferred' =
               IF i \notin reserved /\ why = "nudge_pending" /\ next.why # "nudge_pending"
               THEN [deferred EXCEPT ![s] = [m |-> i, due |-> 0, why |-> why]]
               ELSE [deferred EXCEPT ![s] = next]
          /\ scheduled' =
               IF \/ Pc(s) # "idle" \/ i \in reserved
                  \/ why \notin {"none", "nudge_pending"}
                  \/ why = "none" /\ next.due > 0
               THEN scheduled ELSE scheduled \cup {i}
  /\ UNCHANGED <<inbox, engine, worker, attempts, vendor>>

\* A tick of the clock.  Between a failure or the start of a close and the Room's
\* stop nothing reads clock, vendor or capability, so they need not move.
Observed == Healthy \/ phase = "stopped"
Tick ==
  /\ Observed
  /\ age' = [i \in Ids |-> IF age[i] < Old THEN age[i] + 1 ELSE Old]
  /\ deferred' = [s \in Slots |-> [deferred[s] EXCEPT !.due = IF @ > 0 THEN @ - 1 ELSE 0]]
  /\ UNCHANGED <<inbox, enabled, reserved, nudge, turnOver, progress, phase, fatal, scheduled, worker, attempts,
                 vendor>>

\* The session's vendor shows it a prompt; a capability comes or goes.
PromptShown(s) ==
  /\ Observed /\ prompts[s] > 0
  /\ prompts' = [prompts EXCEPT ![s] = @ - 1]
  /\ UNCHANGED <<inbox, engine, waker, capable, woken, changes>>
CapabilityChanges(s) ==
  /\ Observed /\ policy[s] # "none"
  /\ Changed
  /\ capable' = IF s \in capable THEN capable \ {s} ELSE capable \cup {s}
  /\ UNCHANGED <<inbox, engine, waker, prompts, woken>>

\* inUseLocked
InUse_DeferralsOnly ==
  \E s \in Slots : deferred[s].why \in {"rate", "nudge_pending", "queue_pending"}
InUse ==
  \/ \E s \in Slots : Pc(s) \in InAttempt
  \/ \E s \in Slots : deferred[s].why \in {"rate", "nudge_pending", "queue_pending"}

\* tryBeginIdleClose: both locks; no effect, no lease, no delivery, no waiter.
TryBeginIdleClose ==
  /\ Healthy /\ ~InUse /\ waiting = {} /\ \A s \in Slots : ~Out(s)
  /\ phase' = "idling"
  /\ UNCHANGED <<inbox, enabled, reserved, age, nudge, turnOver, progress, fatal, waker, vendor>>

\* Close: refuse and cancel workers, wait for them, close the engine.
BeginClose ==
  /\ phase = "running"
  /\ phase' = "closing"
  /\ UNCHANGED <<inbox, enabled, reserved, age, nudge, turnOver, progress, fatal, waker, vendor>>

\* What a stopped Room keeps: the log.  Deliveries still out become unknown.
Forgotten ==
  /\ msgs' = [i \in Ids |-> IF msgs[i].st = "delivering" THEN [msgs[i] EXCEPT !.st = "unknown"]
                            ELSE msgs[i]]
  /\ turnOver' = {} /\ progress' = [s \in Slots |-> "busy"]
  /\ waiting' = {} /\ scheduled' = {} /\ attempts' = {}
  /\ worker' = [s \in Slots |-> Resting]
  /\ deferred' = [s \in Slots |-> NotDeferred]
  /\ phase' = "stopped" /\ fatal' = FALSE
  /\ age' = [i \in Ids |-> IF i \in reserved THEN age[i] ELSE Old]
  /\ UNCHANGED <<active, policy, claimedSince, enabled, reserved, nudge, capable, changes>>

EndClose ==
  /\ Closing /\ \A s \in Slots : Pc(s) = "idle"
  /\ Forgotten
  /\ UNCHANGED <<prompts, woken, changes>>

\* The process dies; a command it was about to run or was running may have run.
Crash ==
  /\ phase # "stopped"
  /\ Forgotten
  /\ \E S \in SUBSET {s \in Slots : Pc(s) = "authorized"} :
       /\ prompts' = [s \in Slots |-> IF s \in S THEN prompts[s] + 1 ELSE prompts[s]]
       /\ woken' = [i \in Ids |-> IF \E s \in S : worker[s].m = i THEN woken[i] + 1 ELSE woken[i]]

\* Open: the engine replays, newNativeWaker takes its reservations.
Restored == reserved
Open ==
  /\ phase = "stopped"
  /\ phase' = "running"
  /\ attempts' = Restored
  /\ UNCHANGED <<inbox, enabled, reserved, age, nudge, turnOver, progress, fatal, scheduled, worker, deferred,
                 vendor>>

-----------------------------------------------------------------------------
Init ==
  /\ msgs = [i \in Ids |-> [to |-> CHOOSE s \in Slots : TRUE, st |-> "absent"]]
  /\ active = {} /\ policy = [s \in Slots |-> "none"] /\ enabled = TRUE /\ reserved = {}
  /\ age = [i \in Ids |-> Old]
  /\ nudge = [s \in Slots |-> NoNudge]
  /\ turnOver = {} /\ progress = [s \in Slots |-> "busy"]
  /\ claimedSince = {} /\ waiting = {}
  /\ phase = "running" /\ fatal = FALSE
  /\ scheduled = {} /\ attempts = {}
  /\ worker = [s \in Slots |-> Resting]
  /\ deferred = [s \in Slots |-> NotDeferred]
  /\ capable = Slots
  /\ prompts = [s \in Slots |-> 0]
  /\ woken = [i \in Ids |-> 0] /\ changes = 0

SessionStep ==
  \E s \in Slots :
    \/ Publish(s)
    \/ \E endsTurn \in BOOLEAN : Call(s, endsTurn)
    \/ Claim(s) \/ Wait(s)
    \/ \E park \in BOOLEAN : WaitEnds(s, park)
    \/ \E bound \in BOOLEAN : BindingChanges(s, bound)
    \/ PromptShown(s) \/ CapabilityChanges(s)
InboxStep ==
  \/ \E i \in Ids : Ack(i) \/ Expires(i) \/ Cancel(i)
  \/ \E value \in BOOLEAN : SetWakeEnabled(value)
WorkerStep(s) ==
  \/ Cancelled(s) \/ LookAgain(s) \/ Probe(s) \/ BeginAttempt(s)
  \/ ReserveRate(s) \/ ReserveWake(s) \/ RunCommand(s) \/ RecordOutcome(s)
WakerStep ==
  \/ \E i \in Ids : Begin(i)
  \/ \E s \in Slots : WorkerStep(s) \/ Reconcile(s)
LifecycleStep ==
  \/ Tick
  \/ TryBeginIdleClose \/ BeginClose \/ EndClose \/ Crash \/ Open

Next == SessionStep \/ InboxStep \/ WakerStep \/ LifecycleStep

\* The Service's one second ticker reconciles, clocks advance, and the goroutines
\* of the waker run; nothing obliges a vendor to show a prompt.
Fairness ==
  /\ WF_vars(Tick)
  /\ \A i \in Ids : WF_vars(Begin(i))
  /\ \A s \in Slots : WF_vars(WorkerStep(s)) /\ WF_vars(Reconcile(s))

Spec == Init /\ [][Next]_vars
FairSpec == Spec /\ Fairness

-----------------------------------------------------------------------------
(* Properties *)

\* The values every variable takes; and an idle close suspends the Room under no
\* command that may be running, however a worker and the close interleave.
TypeOK ==
  /\ msgs \in [Ids -> [to : Slots, st : {"absent", "queued", "delivering", "unknown", "lapsed",
                                         "settled"}]]
  /\ active \subseteq Slots /\ waiting \subseteq Slots /\ turnOver \subseteq Slots
  /\ capable \subseteq Slots /\ policy \in [Slots -> Policies \cup {"none"}]
  /\ enabled \in BOOLEAN /\ fatal \in BOOLEAN
  /\ reserved \subseteq Ids /\ claimedSince \subseteq Ids /\ scheduled \subseteq Ids
  /\ attempts \subseteq Ids
  /\ Available => {i \in reserved : age[i] < Hour} \subseteq attempts
  /\ age \in [Ids -> 0..Old]
  /\ nudge \in [Slots -> [m : Ids \cup {Nobody}, failed : BOOLEAN, handedOff : BOOLEAN]]
  /\ progress \in [Slots -> Progress]
  /\ phase \in {"running", "closing", "idling", "stopped"}
  /\ worker \in [Slots -> [pc : InWorker \cup {"idle"}, m : Ids \cup {Nobody}, failed : BOOLEAN]]
  /\ \A s \in Slots : IF Pc(s) = "idle" THEN worker[s] = Resting
                      ELSE worker[s].m \in Ids /\ msgs[worker[s].m].to = s
  /\ deferred \in [Slots -> [m : Ids \cup {Nobody}, due : Nat,
                             why : {"none", "rate", "nudge_pending", "queue_pending",
                                    "capability_unavailable"}]]
  /\ prompts \in [Slots -> Nat] /\ woken \in [Ids -> Nat] /\ changes \in 0..MaxChanges
  /\ phase = "idling" => \A s \in Slots : Pc(s) \notin InAttempt

\* No message is nudged for twice, whatever callbacks repeat, appends fail, and
\* processes die between reservation, command and outcome; and a Codex queue never
\* holds two nudges, whatever its session was seen to do and whatever suppression
\* the clock released meanwhile.
NoRepeatedNudge ==
  /\ \A i \in Ids : woken[i] <= 1 /\ (woken[i] = 1 => i \in reserved)
  /\ \A s \in Slots : policy[s] = "turnend" => prompts[s] <= 1

\* Over restarts too, no hour holds more reservations than the Room's budget, and
\* two of one target keep their interval.
BudgetKept ==
  LET spent == {i \in reserved : age[i] < Hour} IN
  /\ Cardinality(spent) <= HourlyLimit
  /\ \A i, j \in spent :
       (i # j /\ msgs[i].to = msgs[j].to)
         => age[i] - age[j] >= MinInterval \/ age[j] - age[i] >= MinInterval


\* The oldest input that was never nudged for, at an idle, enabled, reachable
\* target, earns its nudge while the Room runs and this remains so.
Eligible(s, i) ==
  /\ Healthy /\ enabled
  /\ i \in Queue(s) \ reserved /\ \A j \in Queue(s) : j < i => j \in reserved
  /\ s \in active \ waiting /\ ~Out(s) /\ policy[s] # "none"
  /\ s \in capable /\ ~(policy[s] = "turnend" /\ prompts[s] > 0)
HeadGetsNudge ==
  \A s \in Slots, i \in Ids : Eligible(s, i) ~> (i \in reserved \/ ~Eligible(s, i))
=============================================================================
