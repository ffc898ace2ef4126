# PairRoom: a verification project

PairRoom lets two coding agents work on one problem.  A *Room* has two
participant slots and an owner (the human).  In a *Native* Room the agents are
official CLI sessions in their own terminals: PairRoom relays messages between
them and keeps the durable record.  In an *Embedded* Room PairRoom runs the
agents itself, one Turn at a time.  One Management *Service* hosts the Rooms of
a machine; a Room may also take in a colleague over the LAN, and an enterprise
server is a second, SQL-backed host.

This directory holds TLA+ models of that code, the TLC configurations that check
them, and TLAPS proofs.  Paths below are relative to `src/`, and those without a
directory to `src/internal/`.

- [Modules and runs at a glance](#modules-and-runs-at-a-glance)
- [The system](#the-system)
- [NativeRelay](#nativerelay) · [NativeWake](#nativewake) · [LANHost](#lanhost) · [PublicationClient](#publicationclient) · [EventLog](#eventlog) · [RoomRuntimes](#roomruntimes) · [RoomRegistry](#roomregistry) · [EmbeddedRoom](#embeddedroom) · [EnterpriseKernel](#enterprisekernel)
- [Where code and words disagree](#where-code-and-words-disagree)
- [What is proved](#what-is-proved)
- [What is not modelled](#what-is-not-modelled)
- [Plan](#plan)

To check one run: `tlc -config relay_delivery.cfg MCNativeRelay.tla`; to check
the proofs: `tlapm NativeRelayProofs.tla`, and so for each of the `…Proofs` modules.

## Modules and runs at a glance

| Module | What it is |
|---|---|
| `NativeRelay` | the relay engine of one Native Room: one action per operation of `relay/engine.go` |
| `DeliveryContract` | what a Room promises about a message; `NativeRelay` and `EnterpriseKernel` implement it |
| `NativeRelayProofs` | the inductive invariant of `NativeRelay` and its theorems |
| `NativeWake` | nudging an idle session: `relay/wake.go` and `service/native_waker.go` |
| `NativeWakeProofs` | the inductive invariant of waking and its theorems |
| `LANHost` | invitations, admission, revocation and the Service's index of a shared Room: `relay/lan.go`, `lan_transfer.go`, `service/lan_host_auth.go` |
| `LANHostProofs` | the inductive invariant of LAN sharing and its theorems |
| `PublicationClient` | the client side of a binding: Stop hook, `relay reconcile`, the local reply journal |
| `OrderedPublication` | what a binding promises about replies; `PublicationClient` implements it |
| `EventLog` | the append-only file of a Room: appends, syncs, repair, power failures |
| `DurableLog` | what an Event Log promises its users; `EventLog` implements it |
| `RoomRuntimes` | which Rooms run: queue, capacity, drain, suspension, archive and removal, shutdown |
| `ServiceProofs` | the inductive invariants of `RoomRuntimes` and of `PublicationClient`, and their theorems |
| `RoomRegistry` | the durable list of Rooms, native identity claims, Room deletion, and start-up after a crash |
| `RoomRegistryProofs` | the inductive invariant of the Registry and its theorems |
| `EmbeddedRoom` | the scheduler of an Embedded Room over two agent runtimes |
| `RoomProofs` | the inductive invariants of `EmbeddedRoom` and of `EventLog`, and their theorems |
| `RoomTurnProofs` | who owns the native Turn of an Embedded Room, and that nobody owns it for nothing: two more inductive invariants and their theorems |
| `EnterpriseKernel` | the enterprise Service's transactions over one database: `sqlstore`, the planners it calls, `enterpriseservice/relay_http.go` |
| `EnterpriseKernelProofs` | the inductive invariant of the transactions and its theorems |
| `MC…` | small instances for TLC |

| Run | Question | Distinct states |
|---|---|---|
| `relay_delivery` | Is a delivery current, retried by the rules and replayable over rebinds, lease expiry, retries, failed appends and crashes, and does the engine implement `DeliveryContract`? | 1.3 million |
| `relay_collectors` | Is every waiting call served and woken, and every report accepted once and in order? | 420 thousand |
| `publication_client` | Does the reply journal publish every saved reply in order, at most once, and lose none? | 290 thousand |
| `event_log` | Does the log keep what it acknowledged, stay loadable and stay indexed over every failure? | 4 thousand |
| `room_registry` | Has a session one association, is a removal final, and is what stops a Service from starting one of five known causes? | 4.1 million |
| `room_runtimes` | Has a Room's log one writer, is the limit kept, and is no runtime left draining? | 2.9 million |
| `embedded_room` | Is the native Turn owned by one slot, every message sent once, in order, and never stalled? | 2.8 million |
| `native_wake` | Is a waiting message nudged for at most once, within the budget, and does the head of an idle session earn its nudge? | 660 thousand |
| `lan_host` | Do admissions, budgets and revocations hold through pruning, failed appends, restarts and a clock that steps back? | 1.2 million |
| `enterprise_kernel` | Is there one history per Room, are definite answers definite and the contract kept, over lost COMMITs, lost leases and takeovers? | 1.7 million |
| `embedded_owner`, `lan_replay` | Do two promises of the docs hold? They do not: see [below](#where-code-and-words-disagree). | |

Every property of a passing run has a mutant in `PROJECT.json`: a definition, and
the form a plausible bug would give it, with which TLC finds the property violated.

## The system

The components, the state they keep, how they meet, and what makes each correct.
`PROJECT.json` lists them with their sources and status.

**Native relay engine** (`relay`).  State: bindings per slot, messages,
publication receipts, wakes, LAN membership; all of it a projection of the Room's
Event Log.  Operations: bind, park, unbind, confirm, send, report, claim (a long
poll), acknowledge, cancel, retry, reap, drain, close, open.  Called by the
Service's HTTP handlers, its one second ticker, and the owner's UI; it appends to
the Event Log and wakes blocked claims through a channel.  Hard: an append that
fails may have landed; leases, late acknowledgements and retries race; a session
rebinds while the peer sends; a crash between claim and acknowledgement.  Correct
if no message is delivered twice without an explicit retry, none blocks its slot,
nothing counts as handed off without a receipt, and the log always replays.

**Event Log** (`store/jsonl.go`).  State: an append-only JSONL file, its
checkpoint and lock.  Appends are written and synced; opening repairs a torn tail.
Hard: crashes mid-write, a failed sync.  Correct if every acknowledged fact is
read back, in order, and no complete fact is dropped.

**Relay client and hooks** (`relayclient`).  State: `state.json` per binding
(write-ahead backlog of replies, sequence numbers), credentials, bind attempts.
Processes are short-lived (a hook, a CLI command) and share the file under a
lock; they call the Service over HTTP.  Hard: lost answers, late requests, killed
processes, saves that fail after the replacement, a full backlog.  Correct if
every saved reply is published once, in order, or stays visible to the operator.

**Native wake** (`relay/wake.go`, `service/native_waker.go`, `claudewake`,
`codexwake`).  A nudge to an idle session is reserved durably, then attempted,
then its outcome is recorded.  Hard: state read before the attempt is stale at
it; a crash between reservation and outcome.  Correct if no message is nudged for
twice, the budget of an hour holds over restarts, and the head of an idle
session is not forgotten.

**LAN sharing** (`relay/lan.go`, `lanshare`, `lanclient`, `service/lan_*.go`).
Join requests, approvals, members, their sealed transport and attachments.  Hard:
budgets shared by requests that expire and are pruned, a clock that decides what
replay must not, membership that ends while a transfer is out.  Correct if only
approved members act, budgets hold, and a restart changes nothing.

**Embedded Room engine** (`room`).  State: messages with a delivery and a
processing state, the Room's FIFO, the owner of the native Turn; replayed from
its Event Log.  Hard: a delivery goroutine per message, runtime events,
cancellation, stop and new input race for one Turn; a submission whose outcome
nobody knows; recovery after a crash in a Turn.  Correct if one slot owns the
Turn, every input ends once, and recovery repeats no side effect.

**Agent adapters** (`agent`): protocols of external CLIs, the environment of the
Embedded Room.

**Runtime manager** (`service/runtime.go`, `native_host_runtime.go`,
`management.go`).  Which Rooms run, up to a limit; activation, suspension, idle
close, archive, removal, shutdown.  Hard: all of these run beside each other, and
a close may fail or never be proven.  Correct if an Event Log has one writer, the
limit holds, and a runtime that was told to drain is closed or reopened.

**Registry, Room deletion and native identity** (`service/registry.go`,
`provision.go`, `lifecycle.go`, `room_deletion.go`, `native_host_registry.go`,
`nativeidentity`).  The durable list of Rooms; the per-user file of native
sessions in use; removal stages, commits and erases a directory.  Hard: several
durable writes per operation with a crash at each point.  Correct if a session
has one association, recovery finishes or undoes a removal, and no Room is lost
whose removal was not committed.

**Enterprise relay** (`relay/enterprise*.go`, `sqlstore`, `enterprise*`).  The same
planning functions, with a PostgreSQL database in place of the Event Log.  State:
the ownership row with its epoch, per Room a revision, messages and members,
receipts of accepted operations, recovery markers; per process a lease on a
connection of its own and one work connection.  Operations: open, recover, resolve
an operation, read a snapshot, commit a command.  Hard: a COMMIT whose answer is
lost, a lease that is lost unnoticed, a takeover with transactions still open,
recovery cut short, authority that changes between a reading and the locks.
Correct if a Room has one history, an answer of absence is final, nothing an older
process released stays out, and messages keep the contract of the Native Room.

**Attachments and archives**, **Management HTTP and Web UI**, **CLI, daemon and
desktop**, **prompts and configuration**, **private files and locks**: content,
presentation, parsing and OS primitives.

How they meet: a hook or CLI process of the relay client calls the Service over
HTTP; the Service finds or activates the Room's runtime; the engine appends to the
Event Log and answers; its callbacks drive wakes and feed the Service's indexes;
the runtime manager drains and closes runtimes; the registry and the identity
file are written beside the log.  The modules meet at these edges:

- `NativeRelay` assumes of an append what `DurableLog` promises and `EventLog`
  implements: it is durable, or it fails with or without having landed.
- `Handled` in `PublicationClient` is `NativeRelay`'s `Report`, projected to one
  binding.
- `NativeWake`'s inbox is `NativeRelay`'s, cut to what a wake can see.
- `Retire` and `AcceptLANJoin` in `LANHost` are the LAN cases of a binding's
  facts; `OwnerRebinds` stands for `NativeRelay`'s `Bind` beside them.
- `RoomRuntimes` treats a runtime as open, draining, sealed or stuck: it is the
  caller of `SetDraining`, `TryBeginIdleClose`, `Close` and `Open` there.
- `EnterpriseKernel` keeps the `DeliveryContract` that `NativeRelay` keeps, with the
  same planners behind other durability: its `Planned`, `Expire` and `Claimable`
  are the projections of `NativeRelay`'s onto one slot.
- `RoomRuntimes` removes a Room in one step where `RoomRegistry` has all its writes.

## NativeRelay

Every exported operation of the engine runs under `Engine.mu`, so each is one
action.  An operation validates, appends a fact, and applies it to the
projection; `apply` is the only writer of the projection, also on replay.

State.  `bindings`, `seenBinds`, `msgs`, `reports`, `lastReport` are what
replaying the log yields.  `phase` is the admission state (`draining`,
`idleClosing`, closed); `fatal` is `Engine.fatal`; `poisoned` is a ghost: the log
holds a fact that replay refuses.  `expired` holds deliveries whose ten second
lease is over, in place of a clock.  `collectors` are `Claim` calls: idle,
blocked on the `changed` channel, or woken and on their way back to the lock.
`held` is a ghost: receipts that reached a session.

Operations.  `Bind`, `Unbind`, `Park`, `RecordFact` (ConfirmSession, Failure),
`Send`, `SendUser`, `Report`, `Claim`, `ResumeClaim`, `ClaimContextDone`, `Ack`,
`Cancel`, `Retry`, `Reap`, `SetDraining`, `TryBeginIdleClose`, `Close`, `Crash`,
`Open`; `LeaseEnds` is the clock.  The pure decisions (`decideAcknowledgement`,
`decideRetry`, `decidePublication`, `selectClaimMessage`, the planners) are
operators over a message table, because the code applies them after the reap at
the head of an operation.

Failure.  An append ends `ok`, `landed` (an error, but the fact is in the log) or
`lost`.  On an error the engine becomes fatal and nothing but Close, Crash and
Open happens to it.  A reap appends one fact per expired lease and may stop after
any of them.  Crash keeps the log and drops everything else; a crash after an
append whose caller never hears of it is Crash after the `ok` outcome.

Properties and what would break them:

- `InboxCurrent`: a rebind settles the open messages of the generation it ends.
- `HandedOffByReceipt`: an acknowledgement may come late, twice, or from the
  session that replaced the claimer.  It is proved, as is `TypeOK`; no run repeats them.
- `RetryPrecedence`: a retry and a late receipt compete for one outcome.
- `SessionExclusive`: one session may not argue with itself from both slots.
- `Replayable`: operations decide on one set of checks and replay on another; a
  fact the second refuses would keep the Room closed for ever.
- `KeepsContract`: `NativeRelay` implements `DeliveryContract` (waiting, out,
  doubted, done, withdrawn) under the mapping `Status`; with it, one envelope of
  a slot is out at a time, in FIFO order, and none twice (`SingleDelivery` and
  `ClaimedOnce` say the latter two of the engine's own state and are proved).
- `AcceptedOnceInOrder`: repeated and numbered requests.
- `WaitingIsServed`: the long poll against appends, drains, idle closes and
  leases; the idle close finds no call on its way back to the lock.

Bounds.  Bind attempts `b1`, `b3` come from one session and `b2` from another: a
session can rebind, replace its peer, and try to hold both slots.  Two messages
make every pair (an original and its retry, two messages of one slot, one of each
slot).  Two report numbers give one repeat and one gap.  One collector is enough
where the property is about messages (a claim is one step), two where it is about
waiting.  `StopParks` adds the Stop hook's parked claims and the park toggle in
the run about waiting.  Legacy Rooms (`Dynamic = FALSE`) are covered by the
theorems.

Fairness (`FairSpec`, `relay_collectors`).  The Service calls Reap every second
for every running Native Room (`service/native_host_runtime.go:126-140`), clocks
advance (`LeaseEnds`), and a goroutine woken through the channel runs
(`ResumeClaim`).  Nobody is obliged to claim, acknowledge, retry, bind, or reopen
a Room, so `WaitingIsServed` promises none of it: it ends when the engine is
fatal, draining or closed.

## NativeWake

One action per critical section of `Engine.mu` or of the waker's own lock; a
worker goroutine moves through `grace`, `probe`, `ready`, `leased`, `budgeted`,
`authorized` and `ran`, and everything else happens between.  What a session can
be asked depends on its runtime: a Claude inbox, consumed by an acknowledged
collection (`handoff`), or a Codex queue, consumed after the end of a Turn
(`turnend`).  `idling` is an idle close in progress, `closing` is Close.

Time is ticks: `age` since a reservation, `due` of a deferral.  The creation time
of a fact is taken for the reservation's own `At`.

Properties.  `NoRepeatedNudge`: no message is nudged for twice, and a Codex queue
never holds two nudges.  `BudgetKept`: no hour holds more reservations than the
Room may make, over restarts.  `TypeOK` includes that an idle close suspends the
Room under no running command.  `HeadGetsNudge` (liveness): the oldest input that
was never nudged for, at an idle, reachable, enabled target, earns its nudge.

Fairness.  The one second ticker reconciles (`native_host_runtime.go:126-140`),
clocks advance, goroutines run (`Tick`, `Begin`, `WorkerStep`, `Reconcile`).  A
vendor is obliged to nothing.

Bounds.  One slot, two messages, one nudge per hour of two ticks, renewal after
three: a second message meets each outcome of the first one's nudge.  With one
nudge per hour the interval between two nudges is implied.

Left out: the suppression audit and the appends of other operations that fail;
remote (LAN) wakes; drain without close.  Reconcile is atomic per target, the
doubling of the probe's backoff is one delay, and a Codex prompt lands at the
latest when the process dies; between a failed append, or the beginning of a
close, and the end of the process the clock and the vendor stand still.

## LANHost

Everything the engine knows of its guests is a projection of the Event Log.  It is
pruned by the wall clock while the engine runs (`pruneLANRequestsLocked`), and
only after the last fact on replay, so a restarted engine reaches its state by
other steps than the engine it replaces.  `known` is maintained step by step,
`Replay(log)` computes it.  `index` is the Service's own projection
(`lanRoomAuthorization`), which decides what may wake a suspended Room, and is
not rebuilt while the Service runs.

The clock may step back, and an operation's check and the stamp of the fact it
appends are two readings of it; of a stamp, only whether the invitation was over
is kept.  An append is stored, lost, landed with an error, or stored and then
refused by `applyLAN`.  An engine that failed is never asked again, so its
projection is dropped.  `Revoke` gives up the lock to join the member's attachment
transfers (`ResumeRevoke`); transfers run their effects outside it.

Properties.  `AdmissionSticks`: once admitted, a request is answered accepted or
revoked, and nothing else, for ever.  `BudgetsHold`: attempts per invitation and
per certificate count every durable fact, and a key has one pending request.
`RestartAgrees`: the engine and the index hold what a restart would read; after
a clock that stepped back, a restart may remember more requests.
`NothingAfterRevocation`: no effect of a membership runs once its end is in the
log.

Bounds.  Two invitations, two requests and two keys (symmetric), two transfers,
a lifetime of one tick, four clock readings, one step back, seven facts: enough
for a second admission after a revocation, and for an ID that is pruned and used
again.  The pending budget equals the number of keys and is not reached; one
pending request per key is what is checked.  Transfers are not combined with a
step back, and a Room is suspended only when its requests are over.  That a
revocation ends is not checked: it rests on handlers that close when interrupted.

## PublicationClient

One binding's journal (`relayclient/state.go`, `hook.go`, `cli.go`).  `disk` is
`state.json`: the last sequence number and the backlog, whose first entry is the
code's `Pending` and whose rest is `Held`.  `proc` is the process that holds the
slot lock, with its own copy of the state; there is at most one, which is what
the lock gives.  `flight` holds report requests whose client gave up before the
Service handled them; `book` is the Service's receipts.

Actions.  `StopHook` saves a reply before any request; a full backlog makes the
hook publish first (`ReserveInPublish`) and try again when that failed
(`ReserveFallback`).  `Command` is `relay status` and `relay reconcile`, with
`--resend` as `resend`; `DiscardPending` is `--discard`.  `Settled`, `Query` and
`Report` are the loop of `Reconcile`: return, ask for the head's receipt, report
it.  `Late` handles a delayed request, `PeerMoves` is a new binding of the peer,
`Crash` kills the process.  A save (`AtomicJSON`) that returns an error may have
replaced the file.  A binding whose response scope changed when it was made
(`AutomaticScopeChanged`, or no peer generation at all) is the second initial
state: its replies are kept and never sent.

Properties.  `ClientTypeOK` (proved) includes that the file always passes `validBacklog`;
otherwise every later command would refuse it.  `NothingLost`: a saved reply is in
the backlog, has a receipt, or was discarded.  `NothingSentEarly`: replies behind
an unsettled head, and replies of a changed scope, were never sent, and a process
skips the receipt query only for a number nobody ever sent.  `PublishesInOrder`:
the journal implements `OrderedPublication`.

Bounds.  A backlog of two (the code has eight) is the smallest with a head and a
held reply; the third reply meets it full.

No fairness is assumed here: what the client promises is safety.  Whether a
backlog ever drains depends on hooks, commands and a Service that nothing in the
code obliges to run.

## EventLog

`store/jsonl.go`.  `file` is events.jsonl as reads see it, cell by cell (a whole
record, a newline, the torn part of a record); `platter` is what a power failure
is sure to leave.  `store` is the open `JSONLStore` with its last sequence
number, its index of offsets and its size; `pending` says that an append has
written its record and not synced it.

Actions.  `Write`, `Sync` and their failures are `Append`: a write may leave any
part of the record, a failed write or sync closes the store.  `Open` scans,
completes or cuts the last line, and builds the index; its sync may fail.
`Close` is also the death of the process.  `PowerLoss` leaves the platter's file,
or a prefix of the newer one, perhaps cut within a record.  Assumed of the
device: a successful sync makes the file durable, and unsynced appends reach it
in order.

Properties.  `LogTypeOK` includes that every file that failures can leave is one
that Open accepts.  `IndexFinds`: the index points at whole lines.  `KeepsLog`: the
file implements `DurableLog`, whose facts land, are acknowledged in order, and can
be forgotten only while they are not.

Bounds.  Five appends: each may fail in another way, with a repair and a power
failure between any two.

## RoomRuntimes

The RuntimeManager under `m.mu`, the Management operations on a Room (archive,
restore, rename, remove) that use it, and the shutdown.  `phase` is the entry's
phase; `inst` is how far the runtime's close has come; `live` counts the runtimes
that may own the Room's Event Log, from the factory call until a Close succeeds.
`dispatchLocked` is a loop whose iterations are steps of their own while `lock` is
held.  Times are choices: an idle timeout, backoff or deadline may have passed or
not.

Properties.  `OneWriter`: a Room never has two runtimes, none while the Service
appends to its log or deletes it, none once archived or removed, and after the
shutdown only one that could not be closed.  `StartsWithinLimit`: an embedded
runtime starts only under the limit, counting those whose close is unproven.
`TypeOK` includes that the queue and the phases agree, that a draining runtime has
an operation or the shutdown that will close or reopen it, and that no handler
which ends late reopens one after the shutdown took over.

Bounds.  Two Rooms, at most one of them native, a limit of one or two: one more
Room than the limit is what makes eviction and queueing happen.

No liveness: a runtime that never closes is a case the code handles by keeping
its entry, and nothing obliges work to end.  An offline LAN revocation also
appends to a suspended Room's log: it takes the `append` step of the lifecycle
operations.

## RoomRegistry

Every operation of the Registry under `provisionMu` is a sequence of durable
writes (`op` says which comes next), and a crash or a power failure may come
between any two; `OpenRegistry` is modelled write by write as well.  A Room is a
directory (`at`), its log's facts (`log`) and its quarantine container (`box`).
The checkpoint exists as it reads (`ckpt`) and as a power failure would leave it
(`safe`); `claim` is the identity store's reservation of a session, and `remote`
the associations that other processes make beside the Service.

Properties.  `OneAssociation`: a session has one association on the machine,
between the two writes of a bind too.  `RemovalIsFinal`: data is erased only when
no checkpoint can list the Room again and its log says archived, what it was
bound to is then free, and a removed Room never comes back.  `RefusalHasCause`:
a Service that refuses to start has in front of it data that someone removed, a
removal whose erasure was cut short, a lifecycle fact repeated after a failed
append, a Room restored by one and staged after it, or a replacement cut between
its reservation and its fact.

Bounds.  Two Rooms, two sessions, one remote association, two bind IDs,
symmetric: a session can move between Rooms, be replaced, and be wanted by both.

## EmbeddedRoom

Messages are numbered by Event Log order, a Turn by the message that started it.
Each message has a delivery goroutine (`task`), which holds its slot's delivery
lock; `turn` is the scheduler under `turnMu` (owner, FIFO, submissions in
progress, boundary); `native` and `events` are the two runtimes and what they
reported; `routing` and `control` are the admission, cancellation or stop in
progress.  A slot of `Steering` has a runtime like Codex (steers, may leave a
submission unanswered, is only asked to interrupt), the other one like Claude
Code.  Any record may be the last before a crash; `Restore` is
`expireRestoredTransientState`, one message at a time.

Properties.  `SingleOwner`: what is open at a runtime is the owner's, and only
the boundary of its own Turn releases the owner.  `CrossedOnce`: no message
reaches a runtime twice, except as a new message of an explicit Retry.
`NothingStalls`: every open message is carried by something that will move it, the
owner has something that will release it, and what waits waits for an owner.
`SubmitsInOrder`: messages start Turns in log order, and no relay overtakes a
newer human message.  `OneNativeTurn` is refuted: see below.

`Kept` and `InLogOrder`, the loops that filter the queue and put messages in log
order, are recursive functions and not folds of the library, because the provers
can expand the former only.  A boundary that repeats an earlier Turn
(`LateBoundary`) comes before a crash only: a restarted runtime knows no earlier
Turn.  Two crashes inside the restore leave an open message that
makes its slot deaf to the start of later Turns (`Deaf`), which `SingleOwner`
excepts for the boundary and not for the owner.

Bounds.  Three messages (an original, its relay or retry, and an intruder), four
messages, interventions and failures together.

Observed and excluded by the properties' antecedents: a stop lets a waiting
goroutine be overtaken, and a stop while a message is reserved leaves it queued
in the log for ever (the comment at `room/scheduler.go:220-223` expects
otherwise); a crash between a human message's record and its sweep revives older
relays (`docs/ARCHITECTURE.md:70` does not); after a crash in a delivery's failure
path a message may stay open (next section).

## EnterpriseKernel

A command is one transaction of `sqlstore/kernel.go`: it reads what it depends on
without locks (`Discovered`), takes the full lock set (`Locks`: the ownership row,
shared, or exclusive where the command is about authority or about a row that does
not exist yet; the Room's row), proves that its process still owns the deployment
(`Fence`: epoch and advisory lock), starts again if the rows changed (`Restart`),
then declines or writes (`Decline`, `Stage`) and sends COMMIT.  The store of a
process runs one transaction at a time (`tx`).

State.  `epoch`, `owner`, `rooms`, `receipts`, `marked`, `completed` are rows;
`lease` is the advisory lock.  `proc` is how far a process has come
(`OpenLease`, `Advance`, `RecoverPage`, `BeginRecovery`, serving), `handlers` the
HTTP requests: a Relay request resolves its key, reads a snapshot, commits against
the revision it read, and a claim is checked once more before its envelope leaves
(`Resolve`, `ReadSnapshot`, `Begin`, `Release`).  `absent` and `released` are
ghosts: who was told that an operation has not committed, and which envelopes left.

Failure.  `Fail` is an error that proves an abort; `GiveUp` is any other, after
which the COMMIT stays with the server (`orphans`), holding its locks, until
`OrphanLands` or `OrphanAborts`; the next transaction of that process takes a new
connection, under the fence.  `LeaseDrops` frees the advisory lock and nobody
notices until the next fence.  `Crash` may leave an orphan too.  The database is
external: row locks, atomic COMMIT and the session lock are assumed.

Properties.  `AbsentHolds`: who was told "not committed", and did not send the
request again, never sees it take effect.  `OneHistory`: every accepted operation
has a revision of its own, none follows one of a later incarnation, and none
belongs to an incarnation that has not recovered.  `RecoveredFirst`: after
recovery nothing that an earlier process released is still out.  `RemovalEnds`:
no operation of a removed member comes after its removal, and nothing stays queued
for the Binding it retired.  `KeepsContract`: the messages implement
`DeliveryContract`.

Bounds.  Two processes (symmetric), each opening once: an old one and the one that
takes over.  One Room with its member, and one to be created; two sends, two
claims, an acknowledgement, a removal and a creation as operation keys, two
requests at once, three in all: a command, its repeat after a lost answer, and a
third that conflicts with both.

Simplified: a key fixes its intent, so payload conflicts do not arise; the restart
limit of discovery and the time budgets end like `Fail` and `Drop`; the first
authentication is folded into `Resolve`; rooms fit one recovery page; a repeat
reaches the same process after the first request ended; the human's send runs
like a member's.  Safety only: nothing obliges a client or the database.

## Where code and words disagree

Each of the first two is a run that TLC finds violated, and a finding in
`PROJECT.json`.

- `embedded_owner`: `docs/ARCHITECTURE.md:70` says that at most one participant
  owns a native Turn.  Cancelling an accepted input of a runtime that is only
  asked to interrupt settles the input; the goroutine that submitted it then
  ends, finds no open input and releases the owner (`room/scheduler.go:106`)
  while the Turn still runs.
- `lan_replay`: `docs/STORAGE.md:108` says LAN facts replay completely.  A join or
  an admission that is checked just before the invitation expires and stamped
  just after is written, then refused by `applyLAN`, now and on every replay.

Seen while modelling, without a run of their own:

- The comment at `service/room_deletion.go:60` says start-up retries best-effort
  cleanup.  A crash in the middle of an erasure leaves a container that the next
  start cannot validate, and the Service refuses to start.  `CleanupIsBestEffort`
  in `RoomRegistry` is that statement; as an invariant of `room_registry` it fails.
- `docs/OPERATIONS.md:168` says that after a restart unknown submissions fail and
  unfinished input is cancelled.  `room/engine.go:386` records a failed delivery
  and a failed processing one after the other; a crash between the two leaves a
  message that no later restore looks at.  It stays open, `Busy`
  (`room/projection.go:214`) stays true, and only a stop settles it.
  `RestartSettles` in `EmbeddedRoom` is that statement.
- `relayclient/hook.go:279` ("No sequence was consumed, so this reply is saved
  nowhere.") is wrong when `AtomicJSON` replaced the file and then failed to sync
  the directory: a later reconcile publishes that reply.
- The comments on `size` and `repairEventLog` in `store/jsonl.go` call the scanned
  length durable.  A scan that repairs nothing does not sync; until the next
  append a power failure may drop a record that was read.

## What is proved

Eight modules are proved about; every leaf is checked by `tlapm`.  Each proof
module states an inductive invariant `IInv`, shows `Init => IInv` and
`IInv /\ [Next]_vars => IInv'` with one lemma per action, and derives the theorems
from `Spec => []IInv`.  TLC checked every `IInv` on the instance of its run before
it was proved.  The constants are arbitrary, apart from the modules' named
assumptions; where a theorem needs more, it says so.

**`NativeRelayProofs`** proves, for every set of bind attempts, sessions and
collectors and all bounds, from `ConstantsOK` alone: `TypeOK`,
`SingleDelivery`, `InboxCurrent`, `ClaimedOnce`, `SessionExclusive`, `Replayable`,
`HandedOffByReceipt`, `RetryPrecedence` and `AcceptedOnceInOrder` as invariants of
`Spec`, the action property `HandoffByItsGeneration`, and the refinement
`Spec => KeepsContract`.

The argument.  None of the invariants is inductive alone.  `SingleDelivery` needs
`InboxCurrent` (a rebind settles the old generation's delivery before a new one
is claimed), `ClaimedOnce` needs that queued work has no receipt yet (`Once`),
and `Replayable` needs that what operations write agrees with what replay checks,
which rests on how messages are routed (`Routed`) and on the newest bindings.
Their conjunction with the types is `IInv`: `MsgInv(msgs)` for the message table
and `Control` for everything else.  `MsgInv` takes the table as a parameter
because an operation reaps first: the fact it appends is written over
`Reaped`, not over `msgs`.  `ExpireKeeps` and `WriteKeeps` say what expiry and one
write (`GoodWrite`) preserve; there is one lemma per operation that shows its
write good, and `NextKeeps` puts them together.  The properties of handoffs
follow from `SameHandoffs` (most operations hand off nothing and forget no
receipt) and `HandsOff` (what an acknowledgement may).  For the last three results
`NextMoves` says once what any step does to the message table: it expires some
deliveries and then writes at most one message.  `RetryPrecedence`, the order of
the numbered reports (`KeyInv`) and the contract's step (`StepIsContract`) each
follow from it.

**`RoomProofs`** proves two modules.  Of `EmbeddedRoom`, for every number of messages,
every bound and either kind of runtime, from `TwoSlots` and `Bounds` alone: `TypeOK`,
`CrossedOnce`, the action property `SubmitsInOrder`, and `OwnedBySlot`, the half of
`SingleOwner` that says whose the open inputs are.

The argument.  `Core` is what the steps that move a goroutine, the FIFO or the Turn
leave each other, once the restart is over: every submission the owner has in progress
is a goroutine of its slot and is counted (`Counts`), a goroutine that started without
steering is in front of the whole FIFO (`Oldest`), what waits is in the FIFO, held by a
goroutine or with the admission (`Held`, `Waits`), and an open input belongs to the
owner.  Most other steps record something that opens no message, puts none into the
FIFO and hands none to a runtime; that is `Calm`, a relation between two message
tables that `Core` survives (`RecordCalm`, `EachProcessed`).  `CrossedOnce` follows
because a message crosses only from the FIFO, and nothing that has crossed
returns to it: a refused steer goes back, but it never crossed (`Once`).  `Excluded` is the delivery lock, which makes the
record before the runtime's call and the one after it belong to one goroutine; `Down`
is what a crash and the two steps of the restore leave, and `Resumed` rebuilds `Core`
from it.  The two loops of the model are recursive functions, and what they compute
is shown by the least index at which it would fail (`LeastElement`), which needs no
induction principle.

Of `EventLog`, for every number of appends: `LogTypeOK` (whose hardest part is that no
failure leaves a file that the next Open refuses), `IndexFinds`, and the refinement
`LogSpec => KeepsLog`.

The argument.  A file is always some whole lines, numbered from one, and at most a
part of the next (`Shaped`); every write, cut and repair keeps that shape, and what
a shaped file yields is known by counting its lines (`EventsAre`).  What the
platter yields is what reads see first (`Yields`, `Behind`), and the newest
acknowledged line is among the cells the two have in common (`Newest`), so no end
that a power failure leaves is before it.  `Indexed` ties the open store to the
file, whose last line it may have written and not synced.  For the refinement a
whole record that reaches the file is `Land`, a sync is `Acknowledge`, a power
failure is `Forget`, and a repair changes nothing that the file yields.

**`RoomTurnProofs`** proves the other half, `BoundaryReleases`, and with it the whole
of `SingleOwner`; then `NothingStalls`.  The assumptions are the same.

The argument.  `IInv` speaks of what the Room has recorded, and that cannot say whether
an end that a runtime reports is the end of the Turn it is in.  `Correlated` adds the
runtimes and their events.  `Crossings`: what carries a Turn's number has crossed, and
so has the message that number names.  Of each slot, `Reports` and `Inputs` say that an
input is in one place, with the runtime or in an event still to be taken, under one
Turn; `Numbered` that every open message the Room knows to be in a Turn is in the
current one; `Ending` that a Turn the Room follows is going on or has its end among the
events; `Turning` and `Unmarked` that the Turn a runtime is in is the one the Room
follows, with no boundary seen.  The exception to the last three is `Stuck`: a restart
that was itself cut short leaves an open message of a Turn that no runtime is in and
nobody will end, and until its slot is stopped the Room keeps that Turn for current
(`Blocked`).  A reader of the code would expect that the Room always knows the Turn its
runtime is in; it does not, and `Deaf` in the property is this exception.  The steps
divide into those that only give what is open a milder record (`Mild`), those that take an event
(`Taken`), those that hand a message over and those that end a Turn; a crash leaves
next to nothing to show, and the restart shows everything again (`ResumeFacts`).

`NothingStalls` needs more: that no event the Room waits for has been dropped on the
way.  `Attended` says of an input that is open at a runtime that its goroutine is still
in the call, or the runtime has it, or a report of its end is on the way that the Room
will take (`Minded`); of a delivery that failed, that until a crash its goroutine or the
admission that cancels it will settle it; and of every report that ends an input, that the
boundary of the same Turn comes after it (`FollowedIn`), so that whoever ends the last
input of an owner does not also have to release it.  `Owned` says that the owner has a
goroutine, a message in `tails` (`Working`), a runtime that is not idle, a stop in
progress or a boundary that the Room will take (`Stirs`), or is `Blocked`; and that
with no owner nothing waits.  Both are about the same question, what a step does to
each slot, and `Unhurt` is the answer that every step of a runtime or of the Room
gives: reports still have their boundary, what was minded is minded (`Minds`), what
stirred stirs (`Stirring`).  A boundary that is taken leaves its slot with nothing at its
runtime or in the current Turn, so the release decides by the records, and those
are right.  `Blocked` is the exception here too: after a restart that was itself cut short
a report may name a Turn that the Room no longer takes.  `RestartSettles` excludes it:
what blocks a slot is carried by nothing but a control operation
(`BlockedIsBusy`).

**`ServiceProofs`** proves two modules.  Of `RoomRuntimes`, for every finite set of
Rooms, every host mode and limit: `TypeOK`, `OneWriter` and the action property `StartsWithinLimit`.

The argument.  All but the queue is said Room by Room.  `RoomOK`: an entry
occupies capacity exactly while a runtime may own the Room's log, whatever its
phase, and a drain has an operation or the shutdown behind it.  `OpOK`: what an
operation on a Room has reached fixes what the entry can be; an append finds it
unoccupied.  Every step but the shutdown's touches one Room, so each is a lemma
about that Room; `QueueOK` (no Room twice, the queued ones exactly) is the
exception.  The limit follows because only dispatch starts an embedded runtime,
and it counts the entries that occupy.  The Rooms are assumed finite: the code
counts entries of a map, and `Cardinality` says nothing of an infinite set.

Of `PublicationClient`, for every number of replies and every
backlog limit, from `PublicationAssumption` alone: `ClientTypeOK`, `NothingLost` and
`NothingSentEarly` as invariants of `ClientSpec`, and the refinement
`ClientSpec => PublishesInOrder`.

The argument.  The state that matters is spread over the file, the copy of the
process that holds the lock, the requests still under way and the Service's
receipts, and each of them may be ahead of the others.  `Past`, the pairs
`<<number, reply>>` ever sent, keeps one order (`Agree`): a larger number never
carries an older reply.  `Fits` says that a saved state continues such a past:
nothing behind the head was sent, a head called unsent was not sent, and the
numbers go on where the past ends.  Between two saves the file and the copy both
fit (`Good`), and after a failed save the file is the copy before or after it
(`NearCopy`), which is all that `AtomicJSON` leaves.  With `Safe` (what was
confirmed and not discarded is in the file or has a receipt), the order of the
receipts and the types this is `ClientIInv`.  Its parts take the states they speak of
as parameters, so that a step through intermediate values can be followed by
lemmas about one change each: `ReserveFits`, `AdvanceFits`, `SendFits` for the
journal, `ReturnedIsGood`, `PromotedIsGood`, `ReceivedIsGood` for the process,
one lemma per action for the rest.  For the refinement a hook that saves is
`Speak`, an accepted report is `TakeIn`, and every other step stutters
(`StepIsOrdered`).

**`EnterpriseKernelProofs`** proves, for every set of processes, Rooms and operation
keys: `TypeOK`, `AbsentHolds`, `OneHistory`, `RecoveredFirst`, `RemovalEnds`, and
the refinement `Spec => KeepsContract`.

The argument.  Everything that is ever true of the rows becomes so by one COMMIT
that lands, of a live transaction or of an orphan.  `Commits` says of each COMMIT
under way that it may still land: the rows it read are as it read them, under the
epoch that still holds, its key has no receipt, and what it would write follows
them (`Good`); two of them are operations on different Rooms (`Locked`).  This
survives every other step because a transaction locks what it read, shared or
exclusive, and every takeover takes the ownership row exclusively.  `History` says
what the landed operations leave, `Processes` and `Serves` what processes and
requests may believe: no COMMIT that may
still land is of a key someone was told is absent.  For the refinement one transaction moves the
messages of its Room by expiry and one operation (`MsgStep`), which is one step of
the contract.  The assumptions `KernelConstants` are that the constants are what
they are named for.  The refinement also assumes that there are finitely many
operation keys and a founded Room to watch: the contract numbers messages up to the
sends there are, and a Room never has more messages than sends that were accepted.

**`NativeWakeProofs`** proves, for every set of slots and every bound, from
`WakeConstants` alone: `TypeOK`, `NoRepeatedNudge` and `BudgetKept`.

The argument.  The waker's goroutine works outside every lock, so each fact it
relies on must survive all that others do between two of its steps.  `WorksOn` says
what a worker has reached fixes of its message: it is not reserved before
`ReserveWake`, the waker counts it from `ReserveRate` on, nobody was nudged for it
when the command is about to run, and a Codex queue that was probed is still empty.
`OneMoves` is the lemma that carries this over a step of another slot.  The budget
(`Budgets`) holds of the attempts the waker counts while the Room runs, and of the
reservations in the log always: `ReserveRate` admits only an hour that is not full
(`OneMoreFits`) and a kept interval, a refused or lost attempt is taken back
(`OneLessFits`), time only parts reservations further, and `Open` starts from what
the log holds.  The slots are assumed to be some, as they are in the code.

**`LANHostProofs`** proves, for every set of requests, keys and transfers and every
bound, from `LANConstants` alone: `TypeOK`, `AdmissionSticks`, `BudgetsHold`,
`RestartAgrees` and `NothingAfterRevocation`.

The argument is about `Past`, what the whole log replays as.  The engine's projection
and the Service's index are memories of it: what they hold is what it holds, what was
admitted they hold (`Remembers`), and what they lack pruning would drop from it as
well, as long as the clock never stepped back (`Complete`).  One fact that a memory
may take leaves it a memory (`TakesRemembers`, `TakesComplete`), and so does pruning
(`PrunedRemembers`, `PrunedComplete`); a restart or an activation starts from `Past`
itself.  `CanTake` is the heart: a fact that an operation appends by what its pruned
projection says is one that replay, and the index, take as well, or one stamped too
late, which every reader refuses and which ends the log.  The budgets hold because
`Past` counts every fact of the log (`AddsUp`), and a running engine has its counts.
`Replay` and `Indexed` fold the log; no induction over the log is needed, because
`ReadAppend` says what one more fact does and a log only grows by one.

**`RoomRegistryProofs`** proves, for every set of Rooms, sessions and remote
associations and every bound, from `RegistryAssumption` (the sets are disjoint and
`None` is in none of them) and `NoneIsNothing` (`None` is no record): `TypeOK`,
`OneAssociation`, `RemovalIsFinal`, which has an invariant and an action property,
and `RefusalHasCause`.

The argument.  `Reservations` is why a session has one association: what the log of a
standing Room is bound to is reserved for that Room and no log has left it behind, and
a reservation has one owner.  A bind keeps it because the reservation is written
before the fact and the old one released after it (`Binding`); everything else that
releases claims releases those of one Room that no checkpoint lists, or retired ones
(`Owners`).  For the removal, `Staged` says which of the two checkpoints, the one that
can be read and the one a power failure leaves, may list a Room while its data is in a
container; so the marker, or a checkpoint without the Room, is proof that neither
lists it, and `Erased` follows, with `Recalled`: once the log that moved was read, all
it ever named is known and is freed.  `Opening` and `Listings` say what recovery may
find, and with them each `Refuse` of the code leads to a cause (`Missing`, `FoundIs`):
a conflict between two Rooms, for one, needs a Room whose data is lost.

Only model-checked: the liveness properties `WaitingIsServed` and `HeadGetsNudge`,
because liveness under fairness is out of the prover's reach.  `NothingStalls` is a
safety property: it says that something is left to do, not that it is done.
`OneNativeTurn` and `LogReplays` are refuted by TLC.

## What is not modelled

Inside the modelled components: message text, quotes and attachments (a message
whose envelope cannot be built blocks its slot until the owner cancels it, a
hazard no property covers); the ten minute window of reply expectation, which is
a free choice; the client's bind attempts, collection, transcript references and
Gemini's cursor; the size limit of a saved backlog, which refuses a reply exactly
like the count does; in LAN sharing the HTTP budgets, the sealed transport,
prepared claims, remote wakes and the selection of a runtime; in the Embedded
Room approvals and permissions, Turn summaries, the stall monitor, several
targets of one message, late settlement of inputs without correlation, and failed
appends (after which the engine stops; `EventLog` has them); in the Registry
Projects, names, schemas and checkpoints that do not parse; in the enterprise
Server reports, retries, cancellations and parking (the planners of `NativeRelay`),
archive, quotas, identity and credentials, governance, the catalog, attachments,
backup and restore.

Whole components, and why, are in `PROJECT.json`: the guest's side of LAN sharing is
planned; content-addressed files, the HTTP layer,
the UI, configuration and platform code have no state machine of their own worth
a model, or are operating system primitives.

## Plan

1. `NativeRelay`, `DeliveryContract`, `PublicationClient`, `EventLog`, `RoomRegistry`,
   `RoomRuntimes`, `EmbeddedRoom`, `NativeWake`, `LANHost`, `EnterpriseKernel`: done.
2. `LANGuest`: the member's attempt journal against `LANHost`'s admission; prepared
   claims between the two.
3. The enterprise Server's other plans over the same kernel: archive, quotas,
   authority and restore.
4. Attachments: reclaim against references, and the envelope that cannot be built.
