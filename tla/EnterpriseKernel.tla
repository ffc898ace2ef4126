--------------------------- MODULE EnterpriseKernel ---------------------------
(***************************************************************************)
(* The enterprise Service's transaction kernel over one PostgreSQL         *)
(* database (internal/sqlstore, the Relay planners it calls, the HTTP      *)
(* handlers that drive it).  A process that opens the deployment takes an  *)
(* advisory lock on a connection of its own, advances the epoch in the     *)
(* ownership row, settles what earlier processes left in flight, and only  *)
(* then serves.  Each command is one transaction: read without locks, lock *)
(* the ownership row, the authority and the Room, prove that the process   *)
(* still owns the deployment, decide, write, COMMIT.                       *)
(*                                                                         *)
(* Connections fail.  A COMMIT whose answer is lost stays with the server, *)
(* holding its locks, until it lands or is rolled back (orphans); a lease  *)
(* may be lost under a process that does not know.  The database is the    *)
(* one external part: row locks, atomic commit, the advisory lock.         *)
(*                                                                         *)
(* A request is its operation key; its intent is fixed.  A Room's member   *)
(* binds both its slots, sends from the first and collects at the second,  *)
(* whose queue is the Room's messages here.                                *)
(***************************************************************************)
EXTENDS Naturals, FiniteSets, Sequences, FiniteSetsExt

CONSTANTS
  Stores,       \* processes that may open the deployment, each once
  Rooms,        \* Room numbers, in the order recovery pages through them
  Founded,      \* Rooms that exist from the start, their member bound
  Requests,     \* operation keys [kind, room, id]; an "ack" has its claim's id
  None,
  MaxHandlers,  \* bound: HTTP requests under way at once
  MaxSubmits    \* bound: HTTP requests ever sent

Relay == {"send", "claim", "ack"}       \* what a member does
Control == {"create", "remove"}         \* what the Room's owner does

MessageStates == {"queued", "delivering", "unknown", "handed_off", "cancelled"}

ASSUME KernelConstants ==
  /\ Rooms \subseteq Nat /\ Founded \subseteq Rooms
  /\ Requests \subseteq [kind : Relay \cup Control, room : Rooms, id : Nat]
  /\ None \notin Stores
  /\ None \notin [made : BOOLEAN, rev : Nat, msgs : Seq(MessageStates), member : BOOLEAN]
  /\ None \notin [rev : Nat, epoch : Nat, msg : Nat]
  /\ MaxHandlers \in Nat /\ MaxSubmits \in Nat

VARIABLES
  epoch, owner,  \* the ownership row: its epoch and the process that wrote it
  lease,         \* who holds the advisory lock
  rooms,         \* Room -> its rows: made, rev, msgs, and whether
                 \* its member is one, with both slots bound
  receipts,      \* request -> the stored result of its one accepted operation
  marked,        \* <<epoch, Room>> with a row in startup_room_recoveries
  completed,     \* epochs with a row in startup_recovery_runs
  proc,          \* process -> closed, leased, recovering, reaping, serving,
                 \* poisoned (a lost lease was noticed) or dead
  mine,          \* process -> the epoch it registered
  todo,          \* process -> Rooms its recovery has still to settle
  tx,            \* process -> the transaction on its work connection
  lost,          \* processes whose work connection is closed
  orphans,       \* transactions whose COMMIT was sent and whose answer was lost
  handlers,      \* HTTP requests under way: [at, key, pc, exp, tries]
  absent,        \* requests a caller was told have not committed
  late,          \* <<Room, message>> whose delivery lease has run out
  released,      \* claims whose envelope was handed to the endpoint
  submits        \* bound

database == <<epoch, owner, rooms, receipts, marked, completed>>
processes == <<proc, mine, todo>>
clients == <<absent, released, submits>>
vars == <<database, lease, processes, tx, lost, orphans, handlers, clients, late>>

-----------------------------------------------------------------------------
\* Locks.

Task(kind, r) == [kind |-> kind, room |-> r, id |-> 0]
Tasks == Requests \cup {Task("recover", r) : r \in Rooms} \cup {Task("finish", 0)}

Pending == orphans \cup {tx[s] : s \in {q \in Stores : tx[q] # None /\ tx[q].staged}}

\* Mutant: a creation takes the ownership row like an append.
Exclusive_NotCreation(k) == k.kind \notin Relay \cup {"create"}

\* opPlan.ownershipLock: what may be about a row that does not exist yet, or
\* about everybody's authority, excludes every other transaction.
Exclusive(k) == k.kind \notin Relay

OwnershipFree(exclusive) ==
  \A t \in Pending : ~exclusive /\ ~Exclusive(t.task)

\* Mutant: a Relay write reads its Room without a lock.
LocksRoom_NotRelay(t) == t.task.kind \notin Relay \cup {"create", "finish"}

\* readPlannedRoom and readRoom: a writer holds the Room's row FOR UPDATE; a
\* Room about to be created has no row to lock.
LocksRoom(t) == t.task.kind \notin {"create", "finish"}
RoomFree(r) == \A t \in Pending : t.task.room = r => ~LocksRoom(t)

\* What a verification waits for: the row it shares with a writer.
VerifyFree(r) == RoomFree(r)

\* fenceHoldsLocked: the row still names this incarnation and its connection
\* still holds the advisory lock.
Fence(s) == owner = s /\ epoch = mine[s] /\ lease = s

-----------------------------------------------------------------------------
\* What a transaction reads and decides.

\* dependencyState.equal compares these between the reading without locks and
\* the one under them: the Room's existence and the actor's authority, with
\* the whole Room when a removal retires a Binding in it, and a Room's own
\* counters and markers of epoch e for recovery.
Deps(k, e) ==
  LET room == rooms[k.room]
      complete == e \in completed IN
  CASE k.kind \in Relay -> <<room.made, room.member>>
    [] k.kind = "create" -> <<room.made>>
    [] k.kind = "remove" -> IF room.member THEN <<room>> ELSE <<>>
    [] k.kind = "recover" -> <<room.rev, <<e, k.room>> \in marked, complete>>
    [] OTHER -> <<complete>>

\* relayReadAllowed and readAllowed: the credential and the membership behind
\* it are live now.  Claims and acknowledgements come with a Binding's grant.
Allowed(k) ==
  /\ k.kind # "create" => rooms[k.room].made
  /\ k.kind \in Relay => rooms[k.room].member

\* Mutant: recovery settles only what has run out.
Expire_LateOnly(r, all) ==
  [i \in DOMAIN rooms[r].msgs |-> IF <<r, i>> \in late THEN "unknown" ELSE rooms[r].msgs[i]]

\* Mutant: a delivery that has run out goes back to the queue.
Expire_Requeues(r, all) ==
  [i \in DOMAIN rooms[r].msgs |->
     IF rooms[r].msgs[i] = "delivering" /\ (all \/ <<r, i>> \in late)
     THEN "queued" ELSE rooms[r].msgs[i]]

\* planExpiryFacts: deliveries whose lease has run out, or all of them.
Expire(r, all) ==
  [i \in DOMAIN rooms[r].msgs |->
     IF rooms[r].msgs[i] = "delivering" /\ (all \/ <<r, i>> \in late)
     THEN "unknown" ELSE rooms[r].msgs[i]]

Least(S) == CHOOSE x \in S : \A y \in S : x <= y
In(msgs, st) == {i \in DOMAIN msgs : msgs[i] = st}

\* selectClaimMessage: the head of the queue, unless the slot is busy.
Claimable(msgs) ==
  IF In(msgs, "delivering") # {} \/ In(msgs, "queued") = {} THEN 0 ELSE Least(In(msgs, "queued"))

\* prepareEnterpriseOperation: the messages after the operation and the one it
\* was about, 0 for none.
Planned(k) ==
  LET r == k.room
      expired == Expire(r, FALSE)
      of == receipts[[k EXCEPT !.kind = "claim"]].msg IN
  CASE k.kind = "send" -> [msgs |-> Append(rooms[r].msgs, "queued"), msg |-> Len(rooms[r].msgs) + 1]
    [] k.kind = "claim" ->
         LET i == Claimable(expired) IN
         [msgs |-> IF i = 0 THEN expired ELSE [expired EXCEPT ![i] = "delivering"], msg |-> i]
    [] k.kind = "ack" -> [msgs |-> [expired EXCEPT ![of] = "handed_off"], msg |-> of]

\* Mutant: the retirement forgets what was only queued.
Retired_OutOnly(msgs) ==
  [i \in DOMAIN msgs |-> IF msgs[i] = "delivering" THEN "unknown" ELSE msgs[i]]

\* retireAuthorityBindings: the retirement cancels what its slot has queued and
\* gives up what it was collecting.
Retired(msgs) ==
  [i \in DOMAIN msgs |-> CASE msgs[i] = "queued" -> "cancelled"
                           [] msgs[i] = "delivering" -> "unknown"
                           [] OTHER -> msgs[i]]

\* The rows of the Room a new operation writes.
Written(k) ==
  LET room == rooms[k.room] IN
  CASE k.kind \in Relay -> [room EXCEPT !.rev = @ + 1, !.msgs = Planned(k).msgs]
    [] k.kind = "create" -> [room EXCEPT !.made = TRUE, !.rev = 1]
    [] k.kind = "remove" -> [room EXCEPT !.rev = @ + 1, !.member = FALSE, !.msgs = Retired(@)]
    [] k.kind = "recover" ->
         LET settled == Expire(k.room, TRUE) IN
         [room EXCEPT !.msgs = settled, !.rev = IF settled = room.msgs THEN @ ELSE @ + 1]
    [] OTHER -> None

\* What refuses a new operation after authority, receipt and revision.
Possible(k) ==
  CASE k.kind = "create" -> ~rooms[k.room].made            \* room_taken
    [] k.kind = "remove" -> rooms[k.room].member           \* prepareMembership
    [] OTHER -> TRUE

-----------------------------------------------------------------------------
\* Opening the deployment.

Alive(s) == proc[s] \notin {"closed", "dead"}

\* openLease, first half: pg_try_advisory_lock; a live holder fails Open.
OpenLease(s) ==
  /\ proc[s] = "closed" /\ lease = None
  /\ lease' = s
  /\ proc' = [proc EXCEPT ![s] = "leased"]
  /\ UNCHANGED <<database, mine, todo, tx, lost, orphans, handlers, clients, late>>

\* openLease, second half: the ownership row FOR UPDATE, so this waits for
\* every transaction that passed its fence under the epoch before.
Advance(s) ==
  /\ proc[s] = "leased" /\ lease = s /\ OwnershipFree(TRUE)
  /\ epoch' = epoch + 1 /\ owner' = s
  /\ mine' = [mine EXCEPT ![s] = epoch + 1]
  /\ proc' = [proc EXCEPT ![s] = "recovering"]
  /\ UNCHANGED <<lease, rooms, receipts, marked, completed, todo, tx, lost, orphans,
                 handlers, clients, late>>

\* What a failed fence does to a process in each phase: RecoverDeliveries
\* returns the error and the process ends; a serving one refuses for good.
Lapsed(s) == [proc EXCEPT ![s] = IF @ \in {"recovering", "reaping"} THEN "dead" ELSE "poisoned"]

\* RecoverDeliveries reads the page of Rooms, or learns that this epoch's
\* recovery has completed.
RecoverPage(s) ==
  /\ proc[s] = "recovering" /\ OwnershipFree(FALSE)
  /\ proc' = IF ~Fence(s) THEN Lapsed(s)
             ELSE [proc EXCEPT ![s] = IF mine[s] \in completed THEN "serving" ELSE "reaping"]
  /\ todo' = [todo EXCEPT ![s] = IF proc'[s] = "reaping" THEN {r \in Rooms : rooms[r].made} ELSE @]
  /\ UNCHANGED <<database, lease, mine, tx, lost, orphans, handlers, clients, late>>

\* The lease connection is lost: the server frees the lock, and neither
\* the ownership row nor the process knows.
LeaseDrops(s) ==
  /\ lease = s
  /\ lease' = None
  /\ UNCHANGED <<database, processes, tx, lost, orphans, handlers, clients, late>>

\* The process dies or is stopped.  A COMMIT already sent stays with the server.
Crash(s) ==
  /\ Alive(s)
  /\ proc' = [proc EXCEPT ![s] = "dead"]
  /\ tx' = [tx EXCEPT ![s] = None]
  /\ orphans' = IF tx[s] \in Pending THEN orphans \cup {tx[s]} ELSE orphans
  /\ handlers' = {h \in handlers : h.at # s}
  /\ todo' = [todo EXCEPT ![s] = {}] /\ lost' = lost \ {s}
  /\ UNCHANGED <<database, lease, mine, clients, late>>

-----------------------------------------------------------------------------
\* HTTP requests.

Handler(s, k, pc) == [at |-> s, key |-> k, pc |-> pc, exp |-> 0, tries |-> 0]
Ended(h) == handlers \ {h}
\* Mutant: the rebuild loop does not end when its command is answered.
Becomes_Both(h, g) == handlers \cup {g}

\* The request's next step, in place of the one it has done.
Becomes(h, g) == Ended(h) \cup {g}

\* A client sends a request, or repeats one, to this process again once it is
\* done there.  relayTransport resolves a Relay request first (humanSend does
\* the same); the caller of a membership change brings the revision it read; a
\* creation expects none.  The /resolve routes only verify.
Submit(s, k) ==
  /\ proc[s] = "serving"
  /\ submits < MaxSubmits /\ Cardinality(handlers) < MaxHandlers
  /\ \A h \in handlers : h.at = s => h.key # k
  /\ k.kind = "ack" => [k EXCEPT !.kind = "claim"] \in released
  /\ \E pc \in {"verify", IF k.kind \in Relay THEN "resolve"
                        ELSE IF k.kind = "remove" THEN "snapshot" ELSE "commit"} :
       handlers' = handlers \cup {Handler(s, k, pc)}
  /\ submits' = submits + 1
  /\ UNCHANGED <<database, lease, processes, tx, lost, orphans, absent, released, late>>

\* The request ends without its answer: its client is gone, a reading did not
\* complete, or the budget ran out before a transaction began.
Drop(h) ==
  /\ tx[h.at] # None => tx[h.at].task # h.key
  /\ handlers' = Ended(h)
  /\ UNCHANGED <<database, lease, processes, tx, lost, orphans, clients, late>>

\* A reading: one short transaction on the Store, which serves one operation
\* at a time, with shared locks on the ownership row and the Room.
Reads(h, exclusive) ==
  /\ tx[h.at] = None
  /\ OwnershipFree(exclusive) /\ VerifyFree(h.key.room)

\* The fence fails: errLeaseLost is sticky, and the answer is a refusal.
ReadFenced(h) ==
  /\ h.pc \in {"resolve", "verify", "snapshot", "release"}
  /\ Reads(h, FALSE) /\ ~Fence(h.at)
  /\ proc' = Lapsed(h.at)
  /\ handlers' = Ended(h)
  /\ UNCHANGED <<database, lease, mine, todo, tx, lost, orphans, clients, late>>

\* An accepted operation is answered from its receipt; a claim's envelope
\* passes one more check.
Answered(h) ==
  IF h.key.kind = "claim" /\ receipts[h.key].msg # 0 THEN Becomes(h, [h EXCEPT !.pc = "release"])
  ELSE Ended(h)

\* resolvePlanned: no effect, and absence is an answer.
Resolve(h) ==
  /\ h.pc \in {"resolve", "verify"}
  /\ Reads(h, Exclusive(h.key)) /\ Fence(h.at)
  /\ \/ /\ ~Allowed(h.key)
        /\ handlers' = Ended(h) /\ UNCHANGED absent
     \/ /\ Allowed(h.key) /\ receipts[h.key] # None
        /\ handlers' = Answered(h) /\ UNCHANGED absent
     \/ /\ Allowed(h.key) /\ receipts[h.key] = None
        /\ absent' = absent \cup {h.key}
        /\ handlers' = IF h.pc = "verify" THEN Ended(h) ELSE Becomes(h, [h EXCEPT !.pc = "snapshot"])
  /\ UNCHANGED <<database, lease, processes, tx, lost, orphans, released, submits, late>>

\* ReadonlySnapshot: the revision the command is planned against.
ReadSnapshot(h) ==
  /\ h.pc = "snapshot" /\ Reads(h, FALSE) /\ Fence(h.at)
  /\ handlers' = IF ~Allowed(h.key) THEN Ended(h)
                 ELSE Becomes(h, [h EXCEPT !.pc = "commit", !.exp = rooms[h.key.room].rev,
                                           !.tries = @ + 1])
  /\ UNCHANGED <<database, lease, processes, tx, lost, orphans, clients, late>>

\* relayTransport's last check: the Binding is authenticated once more before
\* the envelope of a persisted claim leaves the Service.
Release(h) ==
  /\ h.pc = "release" /\ Reads(h, FALSE) /\ Fence(h.at)
  /\ released' = IF Allowed(h.key) THEN released \cup {h.key} ELSE released
  /\ handlers' = Ended(h)
  /\ UNCHANGED <<database, lease, processes, tx, lost, orphans, absent, submits, late>>

-----------------------------------------------------------------------------
\* Transactions that write.

\* discovery: the dependencies are read with no lock held.
Discovered(s, k) ==
  [task |-> k, epoch |-> mine[s], seen |-> Deps(k, mine[s]),
   staged |-> FALSE, write |-> None, msg |-> 0]

\* commitWithRestarts.  A closed work connection is replaced first, under the
\* fence (replaceClosedWork).
Begin(h) ==
  /\ h.pc = "commit" /\ proc[h.at] = "serving" /\ tx[h.at] = None
  /\ h.at \in lost => OwnershipFree(FALSE) /\ Fence(h.at)
  /\ tx' = [tx EXCEPT ![h.at] = Discovered(h.at, h.key)]
  /\ lost' = lost \ {h.at}
  /\ absent' = absent \ {h.key}
  /\ UNCHANGED <<database, lease, processes, orphans, handlers, released, submits, late>>

BeginFenced(h) ==
  /\ h.pc = "commit" /\ proc[h.at] = "serving" /\ tx[h.at] = None
  /\ h.at \in lost /\ OwnershipFree(FALSE) /\ ~Fence(h.at)
  /\ proc' = Lapsed(h.at)
  /\ handlers' = Ended(h)
  /\ UNCHANGED <<database, lease, mine, todo, tx, lost, orphans, clients, late>>

\* RecoverDeliveries: each Room of the page, then the epoch's own marker.
BeginRecovery(s) ==
  /\ proc[s] = "reaping" /\ tx[s] = None
  /\ tx' = [tx EXCEPT ![s] = Discovered(s, IF todo[s] = {} THEN Task("finish", 0)
                                           ELSE Task("recover", Least(todo[s])))]
  /\ UNCHANGED <<database, lease, processes, lost, orphans, handlers, clients, late>>

\* The full lock set is free for the transaction of s.
Locks(s) ==
  /\ tx[s] # None /\ ~tx[s].staged
  /\ OwnershipFree(Exclusive(tx[s].task))
  /\ LocksRoom(tx[s]) => RoomFree(tx[s].task.room)

\* ... and the fence holds and discovery agrees with the rows now locked.
Verified(s) == Locks(s) /\ Fence(s) /\ tx[s].seen = Deps(tx[s].task, mine[s])

Waiting(s) == {h \in handlers : h.at = s /\ h.pc = "commit" /\ tx[s] # None /\ h.key = tx[s].task}
Without(s) == handlers \ Waiting(s)

LockFenced(s) ==
  /\ Locks(s) /\ ~Fence(s)
  /\ proc' = Lapsed(s)
  /\ tx' = [tx EXCEPT ![s] = None]
  /\ handlers' = Without(s)
  /\ UNCHANGED <<database, lease, mine, todo, lost, orphans, clients, late>>

\* The rows changed after they were discovered: roll back and read again.
Restart(s) ==
  /\ Locks(s) /\ Fence(s) /\ tx[s].seen # Deps(tx[s].task, mine[s])
  /\ tx' = [tx EXCEPT ![s] = Discovered(s, @.task)]
  /\ UNCHANGED <<database, lease, processes, lost, orphans, handlers, clients, late>>

\* The strict compare-and-swap on the Room's revision.
Current(h) == h.exp = rooms[h.key.room].rev

\* Everything that answers a request without a write: authority first, then
\* the receipt, then what the operation needs, then the revision.  A Relay
\* request reads the Room again after one refused revision.
Decline(h) ==
  /\ h \in Waiting(h.at) /\ Verified(h.at)
  /\ \/ ~Allowed(h.key) /\ handlers' = Ended(h)
     \/ Allowed(h.key) /\ receipts[h.key] # None /\ handlers' = Answered(h)
     \/ /\ Allowed(h.key) /\ receipts[h.key] = None
        /\ ~Possible(h.key) \/ ~Current(h)
        /\ handlers' = IF h.key.kind \in Relay /\ h.tries < 2
                       THEN Becomes(h, [h EXCEPT !.pc = "snapshot"]) ELSE Ended(h)
  /\ tx' = [tx EXCEPT ![h.at] = None]
  /\ UNCHANGED <<database, lease, processes, lost, orphans, clients, late>>

\* applyRelayPlan and applyRoomPlan write the facts, the receipt and the new
\* counters, and COMMIT is sent.
Stage(h) ==
  /\ h \in Waiting(h.at) /\ Verified(h.at)
  /\ Allowed(h.key) /\ receipts[h.key] = None /\ Possible(h.key) /\ Current(h)
  /\ tx' = [tx EXCEPT ![h.at].staged = TRUE, ![h.at].write = Written(h.key),
                      ![h.at].msg = IF h.key.kind \in Relay THEN Planned(h.key).msg ELSE 0]
  /\ UNCHANGED <<database, lease, processes, lost, orphans, handlers, clients, late>>

\* applyRecoveryPlan: a Room marked in this epoch is not settled again, and the
\* epoch is completed only when no Room lacks its marker.
StageRecovery(s) ==
  /\ proc[s] = "reaping" /\ Verified(s)
  /\ tx[s].task.kind = "recover" => <<mine[s], tx[s].task.room>> \notin marked
  /\ tx[s].task.kind = "finish" => \A r \in Rooms : rooms[r].made => <<mine[s], r>> \in marked
  /\ tx' = [tx EXCEPT ![s].staged = TRUE, ![s].write = Written(tx[s].task)]
  /\ UNCHANGED <<database, lease, processes, lost, orphans, handlers, clients, late>>

\* The server commits: all of the transaction's rows, at once.
Apply(t) ==
  LET k == t.task IN
  /\ rooms' = IF t.write = None THEN rooms ELSE [rooms EXCEPT ![k.room] = t.write]
  /\ receipts' = IF k \notin Requests THEN receipts
       ELSE [receipts EXCEPT ![k] = [rev |-> t.write.rev, epoch |-> t.epoch, msg |-> t.msg]]
  /\ marked' = IF k.kind = "recover" THEN marked \cup {<<t.epoch, k.room>>} ELSE marked
  /\ completed' = IF k.kind = "finish" THEN completed \cup {t.epoch} ELSE completed
  /\ late' = {m \in late : rooms'[m[1]].msgs[m[2]] = "delivering"}
  /\ UNCHANGED <<epoch, owner, lease>>

\* COMMIT succeeds and says so.
Land(s) ==
  /\ tx[s] # None /\ tx[s].staged
  /\ Apply(tx[s])
  /\ tx' = [tx EXCEPT ![s] = None]
  /\ todo' = [todo EXCEPT ![s] = @ \ {tx[s].task.room}]
  /\ proc' = IF tx[s].task.kind = "finish" THEN [proc EXCEPT ![s] = "serving"] ELSE proc
  /\ handlers' = Without(s) \cup
       {[h EXCEPT !.pc = "release"] : h \in {g \in Waiting(s) : g.key.kind = "claim" /\ tx[s].msg # 0}}
  /\ UNCHANGED <<mine, lost, orphans, clients>>

\* A process whose recovery meets any failure ends.
Failed(s) == IF proc[s] = "reaping" THEN [proc EXCEPT ![s] = "dead"] ELSE proc

\* postBeginFailure, and the two classes of commitFailure that prove an abort:
\* the transaction is rolled back; the connection may be lost with it.
Fail(s) ==
  /\ tx[s] # None
  /\ tx' = [tx EXCEPT ![s] = None]
  /\ proc' = Failed(s)
  /\ handlers' = Without(s)
  /\ lost' \in {lost, lost \cup {s}}
  /\ UNCHANGED <<database, lease, mine, todo, orphans, clients, late>>

\* commitFailure, everything else: COMMIT was sent and its outcome is unknown.
GiveUp(s) ==
  /\ tx[s] # None /\ tx[s].staged
  /\ orphans' = orphans \cup {tx[s]}
  /\ tx' = [tx EXCEPT ![s] = None]
  /\ proc' = Failed(s)
  /\ handlers' = Without(s)
  /\ lost' = lost \cup {s}
  /\ UNCHANGED <<database, lease, mine, todo, clients, late>>

\* The server settles a COMMIT nobody waits for.
OrphanLands(t) ==
  /\ Apply(t)
  /\ orphans' = orphans \ {t}
  /\ UNCHANGED <<processes, tx, lost, handlers, clients>>

OrphanAborts(t) ==
  /\ orphans' = orphans \ {t}
  /\ UNCHANGED <<database, lease, processes, tx, lost, handlers, clients, late>>

\* DeliveryLease passes.
LeaseRunsOut(r, i) ==
  /\ rooms[r].msgs[i] = "delivering" /\ <<r, i>> \notin late
  /\ late' = late \cup {<<r, i>>}
  /\ UNCHANGED <<database, lease, processes, tx, lost, orphans, handlers, clients>>

-----------------------------------------------------------------------------
Init ==
  /\ epoch = 0 /\ owner = None /\ lease = None
  /\ rooms = [r \in Rooms |-> [made |-> r \in Founded, rev |-> IF r \in Founded THEN 1 ELSE 0,
                               msgs |-> <<>>, member |-> r \in Founded]]
  /\ receipts = [k \in Requests |-> None]
  /\ marked = {} /\ completed = {}
  /\ proc = [s \in Stores |-> "closed"] /\ mine = [s \in Stores |-> 0]
  /\ todo = [s \in Stores |-> {}]
  /\ tx = [s \in Stores |-> None] /\ lost = {} /\ orphans = {}
  /\ handlers = {} /\ absent = {} /\ late = {} /\ released = {} /\ submits = 0

Serving(s) ==
  \/ OpenLease(s) \/ Advance(s) \/ RecoverPage(s) \/ LeaseDrops(s) \/ Crash(s)
  \/ \E k \in Requests : Submit(s, k)
  \/ BeginRecovery(s) \/ LockFenced(s) \/ Restart(s) \/ StageRecovery(s)
  \/ Land(s) \/ Fail(s) \/ GiveUp(s)

Handling(h) ==
  \/ Drop(h) \/ ReadFenced(h) \/ Resolve(h) \/ ReadSnapshot(h) \/ Release(h)
  \/ Begin(h) \/ BeginFenced(h) \/ Decline(h) \/ Stage(h)

Next ==
  \/ \E s \in Stores : Serving(s)
  \/ \E h \in handlers : Handling(h)
  \/ \E t \in orphans : OrphanLands(t) \/ OrphanAborts(t)
  \/ \E r \in Rooms : \E i \in DOMAIN rooms[r].msgs : LeaseRunsOut(r, i)

Spec == Init /\ [][Next]_vars

-----------------------------------------------------------------------------
\* Properties.

Accepted == {k \in Requests : receipts[k] # None}

\* Every variable keeps its shape; a process that owns the row registered its
\* epoch, and what waits for its COMMIT knows what it writes.
TypeOK ==
  /\ epoch \in Nat /\ {owner, lease} \subseteq Stores \cup {None}
  /\ \A r \in Rooms :
       /\ rooms[r] = [made |-> rooms[r].made, rev |-> rooms[r].rev,
                      msgs |-> rooms[r].msgs, member |-> rooms[r].member]
       /\ {rooms[r].made, rooms[r].member} \subseteq BOOLEAN /\ rooms[r].rev \in Nat
       /\ rooms[r].msgs \in Seq(MessageStates)
  /\ \A k \in Accepted : receipts[k] \in [rev : Nat \ {0}, epoch : 1..epoch, msg : Nat]
  /\ marked \subseteq (1..epoch) \X Rooms /\ completed \subseteq 1..epoch
  /\ proc \in [Stores -> {"closed", "leased", "recovering", "reaping", "serving", "poisoned", "dead"}]
  /\ owner # None => mine[owner] = epoch
  /\ \A t \in Pending : t.staged /\ t.task \in Tasks /\ t.epoch \in 1..epoch
                       /\ (t.write = None <=> t.task.kind = "finish")
  /\ \A h \in handlers : h.at \in Stores /\ h.key \in Requests /\ proc[h.at] \in {"serving", "poisoned"}
  /\ \A g, h \in handlers : g.at = h.at /\ g.key = h.key => g = h
  /\ absent \subseteq Requests /\ released \subseteq Requests /\ lost \subseteq Stores

\* A definite absence is definite: whoever was told that an operation has not
\* committed, and has not sent it again since, never sees it take effect; no
\* COMMIT sent earlier can land behind the answer (Resolve, room_create's
\* exclusive guard).
AbsentHolds == \A k \in absent : receipts[k] = None

\* A Room has one history, whatever COMMITs were lost and whichever process
\* or command came next: each accepted operation defines a revision of its own,
\* none follows one of a later incarnation, and no incarnation's operation
\* precedes its recovery (CAS on the locked revision, fence, start order).
OneHistory ==
  /\ \A k, l \in Accepted : k.room = l.room /\ k # l =>
       /\ receipts[k].rev # receipts[l].rev
       /\ receipts[k].rev < receipts[l].rev => receipts[k].epoch <= receipts[l].epoch
  /\ \A k \in Accepted : receipts[k].epoch \in completed

\* Once an epoch's recovery has completed, nothing is out that an earlier
\* process released: its claims are unknown or settled, for good.
RecoveredFirst ==
  epoch \in completed =>
    \A k \in Accepted : k.kind = "claim" /\ receipts[k].msg # 0
      /\ rooms[k.room].msgs[receipts[k].msg] = "delivering" => receipts[k].epoch = epoch

\* A removal is the end: no operation of the removed member has a later
\* revision, and nothing stays queued for, or out at, the Binding it retired.
RemovalEnds ==
  \A d \in Accepted : d.kind = "remove" =>
    /\ \A k \in Accepted : k.room = d.room /\ k.kind \in Relay => receipts[k].rev < receipts[d].rev
    /\ \A i \in DOMAIN rooms[d.room].msgs : rooms[d.room].msgs[i] \notin {"queued", "delivering"}

\* The messages of a Room keep the delivery contract of the Native Room,
\* through lost COMMITs, takeovers, recovery and the removal of its member.
Slots == 1..Cardinality({k \in Requests : k.kind = "send"})
StatusOf == [queued |-> "waiting", delivering |-> "out", unknown |-> "doubt",
             handed_off |-> "done", cancelled |-> "withdrawn"]
Watched == Least(Founded)
Kept == DOMAIN rooms[Watched].msgs
Contract == INSTANCE DeliveryContract WITH
  Ids <- Slots, Lanes <- Founded, Nobody <- None,
  status <- [i \in Slots |-> IF i \in Kept THEN StatusOf[rooms[Watched].msgs[i]] ELSE "absent"],
  lane <- [i \in Slots |-> IF i \in Kept THEN Watched ELSE None]
KeepsContract == Contract!Spec
=============================================================================
