----------------------------- MODULE RoomRuntimes -----------------------------
(***************************************************************************)
(* The RuntimeManager of the Service (internal/service/runtime.go) with    *)
(* the Management operations that use it (management.go) and the runtimes  *)
(* it starts and closes (embedded_runtime.go, native_host_runtime.go).     *)
(*                                                                         *)
(* At most `limit` embedded Rooms run at a time; the others queue.  Native *)
(* Rooms are exempt.  A runtime owns its Room's Event Log from the moment  *)
(* its factory is called until its Close succeeds, and the Service may     *)
(* append to the log (archive, rename, restore) or delete the Room only    *)
(* when no runtime does.                                                   *)
(*                                                                         *)
(* Every method runs under m.mu; `lock` is "dispatch" while one of them is *)
(* in dispatchLocked, whose iterations are steps of their own that nothing *)
(* else under the lock can interleave with.  Management serializes its     *)
(* operations on one Room (lockRoom); activations, closes, the reconcile   *)
(* ticks and the shutdown run beside them.                                 *)
(*                                                                         *)
(* Abstractions: times are choices (an idle timeout, a backoff or a close  *)
(* deadline may have passed or not), a tick handles any one entry, the     *)
(* least recently used victim is any idle one, and an interrupt is one way *)
(* for work to end.  An entry that does not exist is a suspended one.      *)
(***************************************************************************)
EXTENDS Naturals, FiniteSets, SequencesExt

CONSTANTS
  Rooms,     \* Room IDs
  HostModes, \* the sets of Rooms that may be the native-hosted ones
  Limits     \* the limits that may be configured

ASSUME RuntimesAssumption ==
  IsFiniteSet(Rooms) /\ HostModes \subseteq SUBSET Rooms /\ Limits \subseteq Nat \ {0} /\ Limits # {}

VARIABLES
  native,    \* the native-hosted Rooms: a Room's host mode never changes
  reg,       \* the Registry: a Room is "active", "archived" or "gone"
  phase,     \* runtimeEntry.phase
  inst,      \* runtimeEntry.runtime, as far as its close has come
  live,      \* runtimes of a Room that may own its Event Log
  busy,      \* Rooms whose runtime has work, a request or a wake in progress
  gate,      \* Rooms whose runtime was told to drain by the manager
  requested, drainRequested, fatalStop, cleanupRetry, \* entries with the flag set
  queue, deleting, lifecycle, limit,
  lock,      \* "free", or "dispatch" while dispatchLocked runs
  op,        \* the Management operation on each Room
  shut,      \* "no", "draining" or "done": Shutdown; one whose deadline passed stays draining
  tried      \* Rooms whose cleanup Shutdown has retried
runtime == <<inst, live, busy, gate>>
flags == <<requested, drainRequested, fatalStop, cleanupRetry>>
barriers == <<deleting, lifecycle>>
vars == <<native, reg, phase, inst, live, busy, gate, requested, drainRequested, fatalStop,
          cleanupRetry, queue, deleting, lifecycle, limit, lock, op, shut, tried>>

closed == shut # "no"

AtStep(r, s) == op[r].step = s
NoOp == [kind |-> "none", step |-> "none", ok |-> FALSE, retried |-> FALSE]

-------------------------------------------------------------------------------
(* Capacity and the queue *)

\* nextDispatchIndexLocked and capacityLocked count an entry until its runtime is
\* known to be gone.
Occupies_Running(r) == phase[r] \in {"starting", "active"} \/ (phase[r] = "failed" /\ inst[r] # "none")
Occupies(r) ==
  phase[r] \in {"starting", "active", "stopping"} \/ (phase[r] = "failed" /\ inst[r] # "none")
AtCapacity == Cardinality({r \in Rooms \ native : Occupies(r)}) >= limit

Blocked_ByDeletion(r) == r \in deleting
Blocked(r) == r \in deleting \cup lifecycle

Dispatchable(r) == phase[r] # "queued" \/ Blocked(r) \/ ~AtCapacity \/ r \in native
NextIndex == SelectInSeq(queue, Dispatchable)

\* idleLRULocked
Victims == {r \in Rooms \ native : phase[r] = "active" /\ r \notin busy}

\* removeQueuedLocked and appendUnique
Unqueued(r) == RemoveFirst(queue, r)
Enqueued(r) == IF r \in Range(queue) THEN queue ELSE Append(queue, r)

Free == lock = "free"
ThenDispatch == lock' = "dispatch"
Set(r, p) == phase' = [phase EXCEPT ![r] = p]

\* An entry leaves Active, or Failed, for one attempt to close its runtime.
Stopping(r) == Set(r, "stopping")

DispatchNext ==
  LET r == queue[NextIndex] IN
  /\ lock = "dispatch" /\ ~closed /\ queue # <<>> /\ NextIndex # 0
  /\ queue' = RemoveAt(queue, NextIndex)
  /\ IF phase[r] # "queued" THEN UNCHANGED <<phase, live, requested>>
     ELSE IF Blocked(r) THEN Set(r, "suspended") /\ requested' = requested \ {r} /\ UNCHANGED live
     ELSE IF reg[r] # "active" THEN Set(r, "failed") /\ UNCHANGED <<live, requested>>
     ELSE Set(r, "starting") /\ requested' = requested \ {r} /\ live' = [live EXCEPT ![r] = @ + 1]
  /\ UNCHANGED <<reg, inst, busy, gate, drainRequested, fatalStop, cleanupRetry,
                 barriers, limit, lock, op, shut, tried>>

DispatchEvicts ==
  /\ lock = "dispatch" /\ ~closed /\ queue # <<>> /\ NextIndex = 0
  /\ \E v \in Victims : Stopping(v) /\ requested' = requested \ {v}
  /\ lock' = "free"
  /\ UNCHANGED <<reg, runtime, drainRequested, fatalStop, cleanupRetry, queue, barriers, limit,
                 op, shut, tried>>

DispatchReturns ==
  /\ lock = "dispatch" /\ (closed \/ queue = <<>> \/ (NextIndex = 0 /\ Victims = {}))
  /\ lock' = "free"
  /\ UNCHANGED <<reg, phase, runtime, flags, queue, barriers, limit, op, shut, tried>>

(* RequestActivation and SetLimit *)

Queue(r) ==
  /\ Set(r, "queued") /\ queue' = Enqueued(r)
  /\ drainRequested' = drainRequested \ {r} /\ requested' = requested \cup {r}

RequestActivation(r) ==
  /\ Free /\ ~closed /\ ~Blocked(r) /\ reg[r] = "active"
  /\ ~(phase[r] = "failed" /\ inst[r] # "none" /\ r \notin cleanupRetry)
  /\ IF phase[r] = "suspended" \/ (phase[r] = "failed" /\ inst[r] = "none") THEN Queue(r)
     ELSE IF phase[r] = "failed"
     THEN requested' = requested \cup {r} /\ Stopping(r) /\ UNCHANGED <<drainRequested, queue>>
     ELSE /\ requested' = IF phase[r] = "stopping" THEN requested \cup {r} ELSE requested
          /\ UNCHANGED <<phase, drainRequested, queue>>
  /\ ThenDispatch
  /\ UNCHANGED <<reg, runtime, fatalStop, cleanupRetry, barriers, limit, op, shut, tried>>

SetLimit(n) ==
  /\ Free /\ ~closed /\ limit' = n
  /\ ThenDispatch
  /\ UNCHANGED <<reg, phase, runtime, flags, queue, barriers, op, shut, tried>>

-------------------------------------------------------------------------------
(* The runtimes: work, and the steps of Close *)

\* A mutation is admitted while nobody drains the runtime.
Work(r) ==
  /\ inst[r] = "open" /\ r \notin gate \cup busy
  /\ busy' = busy \cup {r}
  /\ UNCHANGED <<reg, phase, inst, live, gate, flags, queue, barriers, limit, lock, op, shut, tried>>

WorkEnds(r) ==
  /\ r \in busy /\ busy' = busy \ {r}
  /\ UNCHANGED <<reg, phase, inst, live, gate, flags, queue, barriers, limit, lock, op, shut, tried>>

\* Close first drains; an embedded runtime closes admission for good only when its
\* work has ended, a native one does not wait.
CloseDrains(r) ==
  /\ phase[r] = "stopping" /\ inst[r] = "open"
  /\ inst' = [inst EXCEPT ![r] = "draining"]
  /\ UNCHANGED <<reg, phase, live, busy, gate, flags, queue, barriers, limit, lock, op, shut, tried>>

CloseSeals(r) ==
  /\ phase[r] = "stopping" /\ inst[r] = "draining" /\ (r \in busy => r \in native)
  /\ inst' = [inst EXCEPT ![r] = "sealed"] /\ busy' = busy \ {r}
  /\ UNCHANGED <<reg, phase, live, gate, flags, queue, barriers, limit, lock, op, shut, tried>>

\* How Close can return, and what it leaves.
Outcomes(r) ==
  CASE inst[r] = "draining" -> IF r \in native THEN {} ELSE {"aborted"}
    [] inst[r] = "sealed" -> IF r \in native THEN {"closed", "uncertain"} ELSE {"closed", "pending", "uncertain"}
    [] inst[r] = "stuck" -> {"uncertain"}
    [] OTHER -> {}
After_Gone(o) == CASE o = "aborted" -> "open" [] o = "pending" -> "sealed" [] OTHER -> "none"
After(o) ==
  CASE o = "closed" -> "none" [] o = "aborted" -> "open"
    [] o = "pending" -> "sealed" [] o = "uncertain" -> "stuck"

(* finishStart and finishStop *)

Started(r) ==
  /\ Set(r, "active") /\ inst' = [inst EXCEPT ![r] = "open"]
  /\ gate' = IF r \in drainRequested THEN gate \cup {r} ELSE gate \ {r}
  /\ UNCHANGED <<live, cleanupRetry>>

NotStarted(r) ==
  /\ Set(r, "failed") /\ live' = [live EXCEPT ![r] = @ - 1]
  /\ UNCHANGED <<inst, gate, cleanupRetry>>

\* The factory failed and could not prove its cleanup.
HalfStarted(r) ==
  /\ Set(r, "failed")
  /\ \/ inst' = [inst EXCEPT ![r] = "sealed"] /\ cleanupRetry' = cleanupRetry \cup {r}
     \/ inst' = [inst EXCEPT ![r] = "stuck"] /\ cleanupRetry' = cleanupRetry \ {r}
  /\ UNCHANGED <<live, gate>>

FinishStart(r) ==
  /\ Free /\ phase[r] = "starting"
  /\ Started(r) \/ NotStarted(r) \/ (r \notin native /\ HalfStarted(r))
  /\ requested' = requested \ {r}
  /\ ThenDispatch
  /\ UNCHANGED <<reg, busy, drainRequested, fatalStop, queue, barriers, limit, op, shut, tried>>

\* Close did not cross its irreversible boundary: the runtime is active again,
\* unless it was stopped because it is broken.
StopAborted(r) ==
  /\ Set(r, IF r \in fatalStop THEN "failed" ELSE "active")
  /\ requested' = IF r \in fatalStop THEN requested \ {r} ELSE requested
  /\ cleanupRetry' = IF r \in fatalStop THEN cleanupRetry \cup {r} ELSE cleanupRetry
  /\ UNCHANGED <<drainRequested, fatalStop, queue, live, gate>>

StopFailed(r, o) ==
  /\ Set(r, "failed") /\ requested' = requested \ {r}
  /\ cleanupRetry' = IF o = "pending" THEN cleanupRetry \cup {r} ELSE cleanupRetry \ {r}
  /\ UNCHANGED <<drainRequested, fatalStop, queue, live, gate>>

\* It is gone; demand that arrived meanwhile queues the Room again.
Wanted(r) == r \in requested /\ ~closed /\ reg[r] = "active" /\ ~Blocked(r)
Stopped(r) ==
  /\ IF Wanted(r) THEN Set(r, "queued") /\ queue' = Enqueued(r) /\ UNCHANGED requested
     ELSE Set(r, "suspended") /\ requested' = requested \ {r} /\ UNCHANGED queue
  /\ live' = [live EXCEPT ![r] = @ - 1]
  /\ gate' = gate \ {r}
  /\ drainRequested' = drainRequested \ {r} /\ fatalStop' = fatalStop \ {r}
  /\ cleanupRetry' = cleanupRetry \ {r}

\* What the operation that asked for the stop makes of it: a busy runtime is tried
\* again, an incomplete cleanup once more, anything else ends the operation.
Result(r, o) ==
  LET p == op[r]
      again == p.kind \in {"archive", "rename"} /\ (o = "aborted" \/ (o = "pending" /\ ~p.retried)) IN
  IF again THEN [p EXCEPT !.step = "suspend", !.retried = @ \/ o = "pending"]
  ELSE CASE p.kind = "suspend" -> NoOp
         [] p.kind = "remove" -> [p EXCEPT !.step = IF o = "closed" THEN "removing" ELSE "abort"]
         [] OTHER -> [p EXCEPT !.step = "undrain", !.ok = o = "closed"]
Settle(r, o) == op' = [op EXCEPT ![r] = Result(r, o)]

FinishStop(r, o) ==
  /\ Free /\ phase[r] = "stopping" /\ o \in Outcomes(r)
  /\ IF o = "closed" THEN Stopped(r)
     ELSE IF o = "aborted" THEN StopAborted(r)
     ELSE StopFailed(r, o)
  /\ inst' = [inst EXCEPT ![r] = After(o)]
  /\ IF AtStep(r, "closing") THEN Settle(r, o) ELSE UNCHANGED op
  /\ ThenDispatch
  /\ UNCHANGED <<reg, busy, barriers, limit, shut, tried>>

(* reconcile *)

TickRetries(r) ==
  /\ Free /\ ~closed /\ phase[r] = "failed" /\ inst[r] # "none" /\ r \in cleanupRetry
  /\ Stopping(r) /\ requested' = requested \ {r}
  /\ ThenDispatch
  /\ UNCHANGED <<reg, runtime, drainRequested, fatalStop, cleanupRetry, queue, barriers, limit, op, shut, tried>>

TickStopsFatal(r) ==
  /\ Free /\ ~closed /\ phase[r] = "active"
  /\ Stopping(r) /\ requested' = requested \ {r} /\ fatalStop' = fatalStop \cup {r}
  /\ ThenDispatch
  /\ UNCHANGED <<reg, runtime, drainRequested, cleanupRetry, queue, barriers, limit, op, shut, tried>>

\* A native runtime closes its admission in the same step (TryBeginIdleClose).
TickStopsIdle(r) ==
  /\ Free /\ ~closed /\ phase[r] = "active" /\ r \notin busy
  /\ Stopping(r) /\ requested' = requested \ {r}
  /\ inst' = IF r \in native THEN [inst EXCEPT ![r] = "draining"] ELSE inst
  /\ ThenDispatch
  /\ UNCHANGED <<reg, live, busy, gate, drainRequested, fatalStop, cleanupRetry, queue,
                 barriers, limit, op, shut, tried>>

Tick ==
  /\ Free /\ ~closed /\ queue # <<>>
  /\ ThenDispatch
  /\ UNCHANGED <<reg, phase, runtime, flags, queue, barriers, limit, op, shut, tried>>

-------------------------------------------------------------------------------
(* Management: one operation per Room at a time *)

Begin(r, kind, step) == op' = [op EXCEPT ![r] = [NoOp EXCEPT !.kind = kind, !.step = step]]
Step(r, s) == op' = [op EXCEPT ![r].step = s]
Ends(r) == op' = [op EXCEPT ![r] = NoOp]

BeginSuspend(r) ==
  /\ op[r] = NoOp /\ reg[r] # "gone"
  /\ Begin(r, "suspend", "suspend")
  /\ UNCHANGED <<reg, phase, runtime, flags, queue, barriers, limit, lock, shut, tried>>

\* BeginLifecycleChange: archive (which interrupts) and rename (which waits).
BeginLifecycle(r, kind) ==
  /\ op[r] = NoOp /\ Free /\ ~closed /\ ~Blocked(r)
  /\ reg[r] = "active" \/ (kind = "rename" /\ reg[r] = "archived")
  /\ lifecycle' = lifecycle \cup {r} /\ requested' = requested \ {r}
  /\ Begin(r, kind, "drain")
  /\ UNCHANGED <<reg, phase, runtime, drainRequested, fatalStop, cleanupRetry, queue, deleting,
                 limit, lock, shut, tried>>

SetDrain(r) ==
  /\ AtStep(r, "drain") /\ Free
  /\ drainRequested' = drainRequested \cup {r}
  /\ gate' = IF inst[r] # "none" THEN gate \cup {r} ELSE gate
  /\ Step(r, "suspend")
  /\ UNCHANGED <<reg, phase, inst, live, busy, requested, fatalStop, cleanupRetry, queue,
                 barriers, limit, lock, shut, tried>>

(* Suspend *)

SuspendNow(r) ==
  /\ AtStep(r, "suspend") /\ Free
  /\ phase[r] \in {"suspended", "queued"} \/ (phase[r] = "failed" /\ inst[r] = "none")
  /\ Set(r, "suspended") /\ queue' = Unqueued(r)
  /\ requested' = requested \ {r}
  /\ Settle(r, "closed")
  /\ UNCHANGED <<reg, runtime, drainRequested, fatalStop, cleanupRetry, barriers, limit, lock, shut, tried>>

SuspendRefused(r) ==
  /\ AtStep(r, "suspend") /\ Free
  /\ \/ phase[r] = "failed" /\ inst[r] # "none" /\ r \notin cleanupRetry /\ Settle(r, "uncertain")
     \/ phase[r] = "active" /\ r \in busy /\ Settle(r, "aborted")
  /\ requested' = requested \ {r}
  /\ UNCHANGED <<reg, phase, runtime, drainRequested, fatalStop, cleanupRetry, queue, barriers,
                 limit, lock, shut, tried>>

SuspendCloses(r) ==
  /\ AtStep(r, "suspend") /\ Free
  /\ \/ phase[r] = "active" /\ r \notin busy
     \/ phase[r] = "failed" /\ inst[r] # "none" /\ r \in cleanupRetry
  /\ Stopping(r) /\ requested' = requested \ {r}
  /\ Step(r, "closing")
  /\ UNCHANGED <<reg, runtime, drainRequested, fatalStop, cleanupRetry, queue, barriers, limit, lock,
                 shut, tried>>

\* A stop or a start in progress is waited for, and the request may be cancelled.
SuspendWaits(r) ==
  /\ AtStep(r, "suspend") /\ Free /\ phase[r] \in {"starting", "stopping"}
  /\ \/ r \in requested /\ UNCHANGED op
     \/ Settle(r, "uncertain")
  /\ requested' = requested \ {r}
  /\ UNCHANGED <<reg, phase, runtime, drainRequested, fatalStop, cleanupRetry, queue, barriers,
                 limit, lock, shut, tried>>

\* releaseDrainRequested: a shutdown keeps the drain it has taken over.
KeepsDrain_OnFailure(r) == closed \/ ~op[r].ok
KeepsDrain(r) == closed
Undrain(r) ==
  /\ AtStep(r, "undrain") /\ Free
  /\ IF KeepsDrain(r) THEN UNCHANGED <<drainRequested, gate>>
     ELSE drainRequested' = drainRequested \ {r} /\ gate' = gate \ {r}
  /\ Step(r, IF op[r].ok THEN "commit" ELSE "release")
  /\ UNCHANGED <<reg, phase, inst, live, busy, requested, fatalStop, cleanupRetry, queue,
                 barriers, limit, lock, shut, tried>>

BeginRestore(r) ==
  /\ op[r] = NoOp /\ reg[r] = "archived"
  /\ Begin(r, "restore", "commit")
  /\ UNCHANGED <<reg, phase, runtime, flags, queue, barriers, limit, lock, shut, tried>>

\* mutateRoom refuses while a runtime owns the log, and appends after the check.
OwnsLog(r) == phase[r] # "suspended" /\ ~(phase[r] = "failed" /\ inst[r] = "none")
Commit(r) ==
  /\ AtStep(r, "commit") /\ Free
  /\ Step(r, IF OwnsLog(r) THEN "release" ELSE "append")
  /\ UNCHANGED <<reg, phase, runtime, flags, queue, barriers, limit, lock, shut, tried>>

Appended(kind) ==
  CASE kind = "archive" -> {"archived"} [] kind = "restore" -> {"active"} [] OTHER -> {}
AppendFact(r) ==
  /\ AtStep(r, "append")
  /\ \E lc \in {reg[r]} \cup Appended(op[r].kind) : reg' = [reg EXCEPT ![r] = lc]
  /\ Step(r, "release")
  /\ UNCHANGED <<phase, runtime, flags, queue, barriers, limit, lock, shut, tried>>

Release(r) ==
  /\ AtStep(r, "release") /\ Free
  /\ lifecycle' = lifecycle \ {r} /\ Ends(r)
  /\ IF op[r].kind = "restore" THEN UNCHANGED lock ELSE ThenDispatch
  /\ UNCHANGED <<reg, phase, runtime, flags, queue, deleting, limit, shut, tried>>

\* PrepareRoomDeletion, RemoveRoom, and CommitRoomDeletion or AbortRoomDeletion.
BeginRemove(r) ==
  /\ op[r] = NoOp /\ Free /\ ~closed /\ reg[r] = "archived" /\ r \notin deleting
  /\ deleting' = deleting \cup {r} /\ requested' = requested \ {r}
  /\ drainRequested' = drainRequested \cup {r}
  /\ gate' = IF inst[r] # "none" THEN gate \cup {r} ELSE gate
  /\ Begin(r, "remove", "suspend")
  /\ UNCHANGED <<reg, phase, inst, live, busy, fatalStop, cleanupRetry, queue, lifecycle,
                 limit, lock, shut, tried>>

RemoveRoom(r) ==
  /\ AtStep(r, "removing")
  /\ \/ reg' = [reg EXCEPT ![r] = "gone"] /\ Step(r, "forget")
     \/ UNCHANGED reg /\ Step(r, "abort")
  /\ UNCHANGED <<phase, runtime, flags, queue, barriers, limit, lock, shut, tried>>

CommitRoomDeletion(r) ==
  /\ AtStep(r, "forget") /\ Free
  /\ queue' = Unqueued(r) /\ Set(r, "suspended")
  /\ requested' = requested \ {r} /\ drainRequested' = drainRequested \ {r}
  /\ deleting' = deleting \ {r} /\ Ends(r)
  /\ ThenDispatch
  /\ UNCHANGED <<reg, runtime, fatalStop, cleanupRetry, lifecycle, limit, shut, tried>>

AbortRoomDeletion(r) ==
  /\ AtStep(r, "abort") /\ Free
  /\ deleting' = deleting \ {r} /\ drainRequested' = drainRequested \ {r} /\ gate' = gate \ {r}
  /\ Ends(r)
  /\ ThenDispatch
  /\ UNCHANGED <<reg, phase, inst, live, busy, requested, fatalStop, cleanupRetry, queue,
                 lifecycle, limit, shut, tried>>

-------------------------------------------------------------------------------
(* Shutdown *)

BeginShutdown ==
  /\ Free /\ shut = "no" /\ shut' = "draining"
  /\ queue' = <<>> /\ requested' = {}
  /\ phase' = [r \in Rooms |-> IF phase[r] = "queued" THEN "suspended" ELSE phase[r]]
  /\ drainRequested' = Rooms /\ gate' = {r \in Rooms : inst[r] # "none"}
  /\ UNCHANGED <<reg, inst, live, busy, fatalStop, cleanupRetry, barriers, limit, lock, op, tried>>

Unfinished(r) == phase[r] = "failed" /\ inst[r] # "none" /\ r \in cleanupRetry \ tried

ShutdownStops(r) ==
  /\ Free /\ shut = "draining"
  /\ \/ Unfinished(r) /\ tried' = tried \cup {r}
     \/ phase[r] = "active" /\ r \notin busy /\ UNCHANGED tried
  /\ Stopping(r)
  /\ UNCHANGED <<reg, runtime, requested, drainRequested, fatalStop, cleanupRetry, queue, barriers,
                 limit, lock, op, shut>>

Pending(r) == phase[r] \in {"starting", "stopping", "active"}
ShutdownReturns ==
  /\ Free /\ shut = "draining"
  /\ \A r \in Rooms : ~Pending(r) /\ ~Unfinished(r)
  /\ shut' = "done"
  /\ UNCHANGED <<reg, phase, runtime, flags, queue, barriers, limit, lock, op, tried>>

-------------------------------------------------------------------------------
Init ==
  /\ native \in HostModes
  /\ reg = [r \in Rooms |-> "active"] /\ phase = [r \in Rooms |-> "suspended"]
  /\ inst = [r \in Rooms |-> "none"] /\ live = [r \in Rooms |-> 0]
  /\ busy = {} /\ gate = {}
  /\ requested = {} /\ drainRequested = {} /\ fatalStop = {} /\ cleanupRetry = {}
  /\ queue = <<>> /\ deleting = {} /\ lifecycle = {} /\ limit \in Limits
  /\ lock = "free" /\ op = [r \in Rooms |-> NoOp] /\ shut = "no" /\ tried = {}

Dispatch == DispatchNext \/ DispatchEvicts \/ DispatchReturns
Close(r) == CloseDrains(r) \/ CloseSeals(r) \/ \E o \in {"closed", "aborted", "pending", "uncertain"} : FinishStop(r, o)
Reconcile(r) == TickRetries(r) \/ TickStopsFatal(r) \/ TickStopsIdle(r)
Suspend(r) == SuspendNow(r) \/ SuspendRefused(r) \/ SuspendCloses(r) \/ SuspendWaits(r)
Management(r) ==
  \/ BeginSuspend(r) \/ (\E kind \in {"archive", "rename"} : BeginLifecycle(r, kind)) \/ SetDrain(r)
  \/ Suspend(r) \/ Undrain(r) \/ BeginRestore(r) \/ Commit(r) \/ AppendFact(r) \/ Release(r)
  \/ BeginRemove(r) \/ RemoveRoom(r) \/ CommitRoomDeletion(r) \/ AbortRoomDeletion(r)
Shutdown == BeginShutdown \/ (\E r \in Rooms : ShutdownStops(r)) \/ ShutdownReturns

Steps ==
  \/ Dispatch \/ Tick \/ Shutdown
  \/ \E r \in Rooms : \/ RequestActivation(r) \/ FinishStart(r) \/ Close(r) \/ Reconcile(r)
                      \/ Management(r) \/ Work(r) \/ WorkEnds(r)
  \/ \E n \in Limits : SetLimit(n)
Next == Steps /\ UNCHANGED native

Spec == Init /\ [][Next]_vars

-------------------------------------------------------------------------------
(* Properties *)

\* Every variable keeps its type, and the queue and the phases agree: a Room is
\* queued exactly when it is in the queue, once, so that none waits for a turn
\* that cannot come.  And a runtime drains for a reason, an operation on its Room
\* in progress or the shutdown; otherwise it would refuse work for good.  Once
\* Shutdown has taken the drains over, no handler that ends late reopens one.
TypeOK ==
  /\ native \in HostModes
  /\ reg \in [Rooms -> {"active", "archived", "gone"}]
  /\ phase \in [Rooms -> {"suspended", "queued", "starting", "active", "stopping", "failed"}]
  /\ inst \in [Rooms -> {"none", "open", "draining", "sealed", "stuck"}] /\ live \in [Rooms -> Nat]
  /\ \A S \in {busy, gate, requested, drainRequested, fatalStop, cleanupRetry, deleting,
               lifecycle, tried} : S \subseteq Rooms
  /\ queue \in Seq(Rooms) /\ limit \in Limits /\ lock \in {"free", "dispatch"}
  /\ shut \in {"no", "draining", "done"}
  /\ Cardinality(Range(queue)) = Len(queue)
  /\ \A r \in Rooms : phase[r] = "queued" <=> r \in Range(queue)
  /\ \A r \in gate : closed \/ Blocked(r)
  /\ closed => \A r \in Rooms : inst[r] = "open" => r \in gate

\* The Event Log has one writer: never two runtimes of a Room, none while the
\* Service appends to the log or deletes it, none once the Room is archived or
\* removed, and when Shutdown returns only those that could not be closed, whose
\* Rooms stay failed or stopping.
OneWriter ==
  \A r \in Rooms :
    /\ live[r] <= 1
    /\ op[r].step \in {"append", "removing"} => live[r] = 0
    /\ live[r] > 0 => /\ reg[r] = "active"
                      /\ shut = "done" => phase[r] \in {"failed", "stopping"}

\* An embedded runtime is started only when fewer than `limit` of them, counting
\* those whose close is unproven, may still be running.
StartsWithinLimit ==
  [][\A r \in Rooms \ native : live'[r] > live[r] =>
       Cardinality({s \in Rooms \ native : live[s] > 0}) < limit]_vars
===============================================================================
