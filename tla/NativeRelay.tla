----------------------------- MODULE NativeRelay -----------------------------
(***************************************************************************)
(* The Native relay engine of one Room (internal/relay/engine.go): two     *)
(* participant slots that bind, send, report, collect and acknowledge, and *)
(* the Room owner.  Every exported operation runs under Engine.mu, so each *)
(* is one action.  Durability is the engine's: an operation first appends  *)
(* a fact to the Event Log and only then changes its projection.           *)
(*                                                                         *)
(* What the variables are.  The projection variables (bindings, seenBinds, *)
(* msgs, reports, lastReport) are what replaying the durable log yields.   *)
(* While the engine is not fatal its memory is equal to them, since apply  *)
(* is the only writer of both; once an append has failed the engine admits *)
(* no effect, so its memory, possibly one fact behind the log, is read by  *)
(* nothing but snapshots and needs no copy here.                           *)
(*                                                                         *)
(* Left out of this module: LAN membership, wake nudges and Turn ends,     *)
(* attachments, quotes and message text, enterprise Rooms.                 *)
(***************************************************************************)
EXTENDS Integers, FiniteSets

CONSTANTS
  Dynamic,       \* Config.DynamicBindings: generations are guarded end to end
  BindIDs,       \* bind attempts; an ID stands for its credential as well
  NoBind,        \* the BindID of a slot that was never bound
  SessionOf,     \* BindIDs -> the official runtime/session presenting it
  Collectors,    \* concurrent Claim calls
  MaxMessages,   \* bound: messages ever created
  MaxSends,      \* bound: client message IDs per sender
  MaxReportSeq,  \* bound: report_seq per binding
  StopParks      \* bound: whether Stop parks and park toggles are explored

ASSUME ConstantsOK ==
  /\ Dynamic \in BOOLEAN
  /\ NoBind \notin BindIDs
  /\ SessionOf \in [BindIDs -> {SessionOf[b] : b \in BindIDs}]
  /\ MaxMessages \in Nat /\ MaxSends \in Nat /\ MaxReportSeq \in Nat
  /\ StopParks \in BOOLEAN

Slots == {1, 2}                      \* model.SlotActors
User == 0                            \* model.ActorUser
OtherParticipant(s) == 3 - s
Ids == 1..MaxMessages                \* message IDs, in order of acceptance

VARIABLES
  bindings,    \* slot -> its newest binding fact
  seenBinds,   \* BindIDs that ever held a slot
  msgs,        \* ID -> message
  reports,     \* accepted publication receipts
  lastReport,  \* BindID -> newest accepted report_seq
  phase,       \* admission: running, draining, idle_closing or stopped
  fatal,       \* an append failed: no further effect until reopened
  poisoned,    \* the log holds a fact that replay refuses
  expired,     \* delivering messages whose lease has run out
  collectors,  \* Claim calls: idle, blocked in the long poll, or woken
  held         \* <<ID, receipt>> pairs that reached a collector

projection == <<bindings, seenBinds, msgs, reports, lastReport>>
vars == <<bindings, seenBinds, msgs, reports, lastReport, phase, fatal, poisoned,
          expired, collectors, held>>

States == {"absent", "queued", "delivering", "handed_off", "unknown", "cancelled", "human"}
Key == [by : BindIDs \cup {NoBind}, kind : {"send", "report", "user", "retry"}, n : Nat]
Message == [state : States, from : Slots \cup {User}, to : Slots \cup {User},
            tgen : Nat, fgen : Nat, retryOf : Ids \cup {0}, key : Key, receipt : Nat]
Binding == [bind : BindIDs \cup {NoBind}, gen : Nat, active : BOOLEAN, park : BOOLEAN]
Receipt == [by : BindIDs, seq : Nat, outcome : {"routed", "private", "peer_changed"}]
Phases == {"running", "draining", "idle_closing", "stopped"}
Collector == [st : {"idle", "blocked", "woken"}, slot : Slots, bind : BindIDs \cup {NoBind},
              gen : Nat, park : BOOLEAN]

Vacant == [bind |-> NoBind, gen |-> 0, active |-> FALSE, park |-> FALSE]
RetryKey == [by |-> NoBind, kind |-> "retry", n |-> 0]
NoMessage == [state |-> "absent", from |-> User, to |-> User, tgen |-> 0, fgen |-> 0,
              retryOf |-> 0, key |-> RetryKey, receipt |-> 0]
Idle == [st |-> "idle", slot |-> 1, bind |-> NoBind, gen |-> 0, park |-> FALSE]

-----------------------------------------------------------------------------
(* Reading the projection *)

\* healthy: the gate of every operation that starts new work.
Healthy == phase = "running" /\ ~fatal

\* available: acknowledgements still complete while the engine drains.
Available == phase # "stopped" /\ ~fatal

\* The generation new work for a slot is stamped with; a vacant slot reserves
\* the generation its next binding will have.
Generation(s) == IF bindings[s].active THEN bindings[s].gen ELSE bindings[s].gen + 1

Delivering(M) == {i \in Ids : M[i].state = "delivering"}
Queue(M, s) == {i \in Ids : M[i].state = "queued" /\ M[i].to = s}
Busy(M, s) == \E i \in Delivering(M) : M[i].to = s

\* A retry that still waits or runs keeps the original's outcome open.
PendingRetry_QueuedOnly(M, j, i) == M[j].retryOf = i /\ M[j].state = "queued"
PendingRetry(M, j, i) == M[j].retryOf = i /\ M[j].state \in {"queued", "delivering"}
HasPendingRetry(M, i) == \E j \in Ids : PendingRetry(M, j, i)

\* authenticate: a credential is good for exactly the active binding it made.
Authentic(s, b, g) == bindings[s].active /\ bindings[s].bind = b /\ bindings[s].gen = g

\* The newest peer message in one direction that is not a retry.
NewestTo(M, from, to) ==
  {i \in Ids : /\ M[i].state # "absent" /\ M[i].from = from /\ M[i].to = to
               /\ M[i].retryOf = 0
               /\ \A j \in Ids : (j > i /\ M[j].state # "absent" /\ M[j].from = from
                                   /\ M[j].to = to) => M[j].retryOf # 0}

\* replyExpectedLocked, apart from its ten minute window: an open reply may be
\* stale by now, so a park chooses between ReplyOpen and FALSE.
ReplyOpen(M, s) ==
  LET peer == OtherParticipant(s) IN
  \E out \in NewestTo(M, s, peer) :
     M[out].state # "cancelled" /\ \A inb \in NewestTo(M, peer, s) : inb < out

-----------------------------------------------------------------------------
(* Replay validation: what apply refuses.  A refused fact is already in the  *)
(* log, so it makes the engine fatal and every later Open fail.              *)

SameRoute(m, old) ==
  m.from = old.from /\ m.to = old.to /\ m.fgen = old.fgen /\ m.tgen = old.tgen

\* validateDynamicMessage
ValidMessage(M, i, m) ==
  \/ ~Dynamic
  \/ /\ (m.to \in Slots) = (m.tgen # 0)
     /\ (m.from \in Slots) = (m.fgen # 0)
     /\ IF M[i].state # "absent" THEN SameRoute(m, M[i])
        ELSE IF m.retryOf # 0
             THEN M[m.retryOf].state # "absent" /\ SameRoute(m, M[m.retryOf])
             ELSE m.from \in Slots => /\ bindings[m.from].active
                                      /\ m.fgen = bindings[m.from].gen

\* No other slot is active for the runtime/session of bind attempt b.
SessionFree_Unchecked(s, b) == TRUE
SessionFree(s, b) ==
  \/ ~Dynamic
  \/ LET other == bindings[OtherParticipant(s)]
     IN  other.active => SessionOf[other.bind] # SessionOf[b]

\* validateBindingGenerationLocked and validateDynamicBinding for slot s
ValidBinding(s, b) ==
  LET old == bindings[s] IN
  /\ b.gen >= old.gen
  /\ b.gen = old.gen => b.bind = old.bind
  /\ Dynamic =>
       /\ b.gen > old.gen => b.gen = old.gen + 1 /\ b.active /\ b.bind \notin seenBinds
       /\ b.gen = old.gen => (b.active => old.active)
       /\ b.active => SessionFree(s, b.bind)

-----------------------------------------------------------------------------
(* Appending.  "ok": durable and applied.  "landed" and "lost": Store.Append *)
(* returned an error and the fact is or is not in the log; either way the    *)
(* caller gets an error and the engine is fatal.                             *)

Outcomes == {"ok", "landed", "lost"}

\* signal: every append, failure and drain change wakes the blocked Claims.
Signalled(C) ==
  [c \in Collectors |-> IF C[c].st = "blocked" THEN [C[c] EXCEPT !.st = "woken"] ELSE C[c]]

Appended(o, valid) ==
  /\ fatal' = (o # "ok" \/ ~valid)
  /\ poisoned' = (poisoned \/ (o # "lost" /\ ~valid))
Lands(o, valid) == o # "lost" /\ valid

\* A fact that writes message i over the messages M.
AppendMessage(M, o, i, m) ==
  /\ Appended(o, ValidMessage(M, i, m))
  /\ msgs' = IF Lands(o, ValidMessage(M, i, m)) THEN [M EXCEPT ![i] = m] ELSE M
  /\ expired' = {j \in expired : msgs'[j].state = "delivering"}

\* applyBindingProjection: a binding fact settles the inbox work of the
\* generations it ends, in the same append.
Settled_QueueSurvives(s, b) ==
  [i \in Ids |->
     IF msgs[i].to = s /\ (~b.active \/ msgs[i].tgen # b.gen) /\ msgs[i].state = "delivering"
     THEN [msgs[i] EXCEPT !.state = "unknown"] ELSE msgs[i]]
Settled_CancelsAll(s, b) ==
  [i \in Ids |->
     IF msgs[i].to = s /\ msgs[i].state # "human" /\ msgs[i].tgen # b.gen
     THEN [msgs[i] EXCEPT !.state = "cancelled"] ELSE msgs[i]]
Settled(s, b) ==
  [i \in Ids |->
     IF msgs[i].to = s /\ (~b.active \/ msgs[i].tgen # b.gen)
     THEN CASE msgs[i].state = "queued" -> [msgs[i] EXCEPT !.state = "cancelled"]
            [] msgs[i].state = "delivering" -> [msgs[i] EXCEPT !.state = "unknown"]
            [] OTHER -> msgs[i]
     ELSE msgs[i]]

AppendBinding(o, s, b) ==
  /\ Appended(o, ValidBinding(s, b))
  /\ IF Lands(o, ValidBinding(s, b))
     THEN /\ bindings' = [bindings EXCEPT ![s] = b]
          /\ seenBinds' = seenBinds \cup {b.bind}
          /\ msgs' = Settled(s, b)
     ELSE UNCHANGED <<bindings, seenBinds, msgs>>
  /\ expired' = {j \in expired : msgs'[j].state = "delivering"}
  /\ collectors' = Signalled(collectors)
  /\ UNCHANGED <<reports, lastReport, phase, held>>

\* planExpiryFacts: an expired or orphaned delivery becomes unknown and keeps
\* its receipt.
Expire_Requeues(M, S) == [i \in Ids |-> IF i \in S THEN [M[i] EXCEPT !.state = "queued"] ELSE M[i]]
Expire(M, S) == [i \in Ids |-> IF i \in S THEN [M[i] EXCEPT !.state = "unknown"] ELSE M[i]]

\* reapLocked(false) before an operation.  It appends one fact per expired
\* lease and stops at the first append error: the facts before it, and possibly
\* the failing one, are in the log.
ReapFails ==
  /\ expired # {}
  /\ \E S \in SUBSET expired :
       msgs' = Expire(msgs, S) /\ expired' = expired \ S
  /\ fatal' = TRUE
  /\ UNCHANGED <<bindings, seenBinds, reports, lastReport, phase, poisoned, held>>
Reaped == Expire(msgs, expired)

NewId(M, i) == M[i].state = "absent" /\ \A j \in Ids : j < i => M[j].state # "absent"

-----------------------------------------------------------------------------
(* Binding operations *)

\* BindReport: take a slot, or replace its active binding explicitly.  Binding
\* again with the ID that already holds the slot returns the same binding.
Bind(s, b, replace) ==
  /\ Healthy
  /\ b \notin seenBinds
  /\ bindings[s].active => replace
  /\ SessionFree(s, b)
  /\ \E o \in Outcomes :
       AppendBinding(o, s, [bind |-> b, gen |-> bindings[s].gen + 1, active |-> TRUE,
                            park |-> TRUE])

\* Unbind by the owner and UnbindAs by the session: planLocalRetirement.
Unbind(s) ==
  /\ Healthy /\ bindings[s].active
  /\ \E o \in Outcomes : AppendBinding(o, s, [bindings[s] EXCEPT !.active = FALSE])

\* Park and ParkAs
Park(s, enabled) ==
  /\ Healthy /\ bindings[s].active /\ bindings[s].park # enabled
  /\ \E o \in Outcomes : AppendBinding(o, s, [bindings[s] EXCEPT !.park = enabled])

\* ConfirmSession (a new transcript path) and Failure (an audit record): facts
\* whose content is outside this projection.
RecordFact(s) ==
  /\ Healthy /\ bindings[s].active
  /\ \E o \in Outcomes : AppendBinding(o, s, bindings[s])

-----------------------------------------------------------------------------
(* Publishing *)

\* planMessage
PlanMessage(from, to, key) ==
  [state |-> IF to = User THEN "human" ELSE "queued", from |-> from, to |-> to,
   tgen |-> IF to = User THEN 0 ELSE Generation(to),
   fgen |-> IF Dynamic /\ from # User THEN bindings[from].gen ELSE 0,
   retryOf |-> 0, key |-> key, receipt |-> 0]

\* sendLocked: a client key already used returns the original message; a
\* participant addresses its peer at the generation it last saw.
PeerUnchanged_Unguarded(from, to, expected) == TRUE
PeerUnchanged(from, to, expected) ==
  (Dynamic /\ from # User /\ to # User) => expected = Generation(to)
SentBefore_MemoryOnly(key) == FALSE
SentBefore(key) == \E i \in Ids : msgs[i].state # "absent" /\ msgs[i].key = key

Stamped(m, expected) ==
  IF Dynamic /\ m.from # User /\ m.to # User THEN [m EXCEPT !.tgen = expected] ELSE m

SendLocked(from, to, key, expected) ==
  /\ ~SentBefore(key)
  /\ PeerUnchanged(from, to, expected)
  /\ \E i \in Ids, o \in Outcomes :
       /\ NewId(msgs, i)
       /\ AppendMessage(msgs, o, i, Stamped(PlanMessage(from, to, key), expected))
  /\ collectors' = Signalled(collectors)
  /\ UNCHANGED <<bindings, seenBinds, reports, lastReport, phase, held>>

Send(s, to, n, expected) ==
  /\ Healthy /\ bindings[s].active /\ to # s
  /\ SendLocked(s, to, [by |-> bindings[s].bind, kind |-> "send", n |-> n], expected)

SendUser(s, n) ==
  Healthy /\ SendLocked(User, s, [by |-> NoBind, kind |-> "user", n |-> n], 0)

\* decidePublication: to is the peer, the user, or s itself for a reply that
\* mentions nobody.  A peer that changed since the reply was composed leaves a
\* receipt and no message.
PublicationOutcome_Routed(s, to, expected) == IF to = s THEN "private" ELSE "routed"
PublicationOutcome(s, to, expected) ==
  CASE to = s -> "private"
    [] to = OtherParticipant(s) /\ Dynamic /\ expected # Generation(to) -> "peer_changed"
    [] OTHER -> "routed"

\* What apply demands of a publication fact of a dynamic Room.
ValidPublication(s, i, m, outcome, expected) ==
  Dynamic =>
    /\ bindings[s].active
    /\ outcome = "routed" =>
         /\ m.from = s /\ m.fgen = bindings[s].gen
         /\ m.to \in Slots => m.tgen = expected
         /\ ValidMessage(msgs, i, m)

\* Report: one append carries the receipt and the message.  A sequence number
\* already accepted returns its receipt, an older one is refused, a newer one
\* may leave a gap.
NewReport_NotLast(b, seq) == seq # lastReport[b]
NewReport(b, seq) == seq > lastReport[b]
Report(s, seq, to, expected) ==
  LET b == bindings[s].bind
      outcome == PublicationOutcome(s, to, expected)
      m == PlanMessage(s, to, [by |-> b, kind |-> "report", n |-> seq])
  IN
  /\ Healthy /\ bindings[s].active
  /\ NewReport(b, seq)
  /\ \E i \in Ids, o \in Outcomes :
       LET valid == ValidPublication(s, i, m, outcome, expected) IN
       /\ NewId(msgs, i)
       /\ Appended(o, valid)
       /\ IF Lands(o, valid)
          THEN /\ reports' = reports \cup {[by |-> b, seq |-> seq, outcome |-> outcome]}
               /\ lastReport' = [lastReport EXCEPT ![b] = seq]
               /\ msgs' = IF outcome = "routed" THEN [msgs EXCEPT ![i] = m] ELSE msgs
          ELSE UNCHANGED <<reports, lastReport, msgs>>
  /\ collectors' = Signalled(collectors)
  /\ UNCHANGED <<bindings, seenBinds, phase, expired, held>>

-----------------------------------------------------------------------------
(* Collecting *)

\* selectClaimMessage: the head of the slot's FIFO, when nothing is in flight
\* there and the head is addressed to the claiming generation.
SelectClaim_IgnoresBusy(M, s, g) ==
  {i \in Queue(M, s) : M[i].tgen = g /\ \A j \in Queue(M, s) : i <= j}
SelectClaim(M, s, g) ==
  {i \in Queue(M, s) : ~Busy(M, s) /\ M[i].tgen = g /\ \A j \in Queue(M, s) : i <= j}

\* planClaimFact: the fresh receipt is the number of claims of this message.
PlanClaim(m) == [m EXCEPT !.state = "delivering", !.receipt = m.receipt + 1]

\* The claim of message i by call c: it returns, with the envelope only when the
\* append succeeded; the answer may still be lost on its way to the session.
ClaimHead(c, i) ==
  /\ \E o \in Outcomes :
       /\ AppendMessage(Reaped, o, i, PlanClaim(msgs[i]))
       /\ held' \in IF fatal' THEN {held}
                    ELSE {held, held \cup {<<i, msgs[i].receipt + 1>>}}
  /\ collectors' = [Signalled(collectors) EXCEPT ![c] = Idle]
  /\ UNCHANGED <<bindings, seenBinds, reports, lastReport, phase>>

\* A call that finds nothing returns when it is a Stop park with no input in
\* sight, and blocks otherwise.  Leases it expired were appended, so they signal.
ClaimWaits(c, call) ==
  /\ LET nothing == Queue(Reaped, call.slot) = {} /\ ~Busy(Reaped, call.slot) IN
     \E reply \in {ReplyOpen(Reaped, call.slot), FALSE} :
       LET after == IF call.park /\ nothing /\ ~reply THEN Idle
                    ELSE [call EXCEPT !.st = "blocked"]
       IN  collectors' = [(IF expired = {} THEN collectors ELSE Signalled(collectors))
                            EXCEPT ![c] = after]
  /\ msgs' = Reaped /\ expired' = {}
  /\ UNCHANGED <<bindings, seenBinds, reports, lastReport, phase, fatal, poisoned, held>>

\* One pass of Claim's loop, under the lock, for the call `call` of collector c.
ClaimPass(c, call) ==
  \/ /\ \/ ~Healthy
        \/ ~Authentic(call.slot, call.bind, call.gen)
        \/ call.park /\ ~bindings[call.slot].park
     /\ collectors' = [collectors EXCEPT ![c] = Idle]
     /\ UNCHANGED <<bindings, seenBinds, msgs, reports, lastReport, phase, fatal, poisoned,
                    expired, held>>
  \/ /\ Healthy
     /\ Authentic(call.slot, call.bind, call.gen)
     /\ call.park => bindings[call.slot].park
     /\ \/ ReapFails /\ collectors' = [Signalled(collectors) EXCEPT ![c] = Idle]
        \/ \E i \in SelectClaim(Reaped, call.slot, call.gen) : ClaimHead(c, i)
        \/ SelectClaim(Reaped, call.slot, call.gen) = {} /\ ClaimWaits(c, call)

\* A session calls Claim with its current credential.
Claim(c, s, park) ==
  /\ collectors[c].st = "idle"
  /\ bindings[s].active
  /\ ClaimPass(c, [st |-> "idle", slot |-> s, bind |-> bindings[s].bind,
                   gen |-> bindings[s].gen, park |-> park])

\* A woken call takes the lock again and repeats everything.
ResumeClaim(c) == collectors[c].st = "woken" /\ ClaimPass(c, collectors[c])

\* The call's context ends: its deadline, or the connection is gone.
ClaimContextDone(c) ==
  /\ collectors[c].st # "idle"
  /\ collectors' = [collectors EXCEPT ![c] = Idle]
  /\ UNCHANGED <<bindings, seenBinds, msgs, reports, lastReport, phase, fatal, poisoned,
                 expired, held>>

-----------------------------------------------------------------------------
(* Settling deliveries *)

\* decideAcknowledgement: whether receipt r of message i, presented by slot s,
\* hands the message off.
AckHandsOff(M, s, i, r) ==
  /\ M[i].to = s /\ M[i].tgen = bindings[s].gen /\ r # 0 /\ M[i].receipt = r
  /\ \/ M[i].state = "delivering"
     \/ M[i].state = "unknown" /\ ~HasPendingRetry(M, i)

\* The operations that reap first and may then append a fact for message i.
ReapThen(append) ==
  /\ \/ ReapFails
     \/ append
  /\ collectors' = Signalled(collectors)

\* Only the reap's own facts: an operation refused after it, or Reap itself.
ReapOnly ==
  /\ expired # {}
  /\ msgs' = Reaped /\ expired' = {}
  /\ UNCHANGED <<bindings, seenBinds, reports, lastReport, phase, fatal, poisoned, held>>

\* Ack: allowed while draining.
Ack(s, i, r) ==
  /\ Available /\ bindings[s].active
  /\ ReapThen(IF AckHandsOff(Reaped, s, i, r)
              THEN /\ \E o \in Outcomes :
                        AppendMessage(Reaped, o, i, [Reaped[i] EXCEPT !.state = "handed_off"])
                   /\ UNCHANGED <<bindings, seenBinds, reports, lastReport, phase, held>>
              ELSE ReapOnly)

\* Cancel: the owner removes queued input.
Cancel(i) ==
  /\ Healthy /\ msgs[i].state = "queued"
  /\ \E o \in Outcomes :
       AppendMessage(msgs, o, i, [msgs[i] EXCEPT !.state = "cancelled", !.receipt = 0])
  /\ collectors' = Signalled(collectors)
  /\ UNCHANGED <<bindings, seenBinds, reports, lastReport, phase, held>>

\* decideRetry and planRetryFact: new queued work for an unknown original.  A
\* dynamic retry keeps the original's generations, a legacy one is retargeted.
MayRetry(M, i) ==
  /\ M[i].state = "unknown"
  /\ Dynamic => M[i].tgen = Generation(M[i].to)
  /\ ~HasPendingRetry(M, i)
PlanRetry_RestampsSource(M, i) ==
  [M[i] EXCEPT !.state = "queued", !.retryOf = i, !.key = RetryKey, !.receipt = 0,
               !.fgen = IF Dynamic /\ M[i].from # User THEN bindings[M[i].from].gen ELSE 0,
               !.tgen = IF Dynamic THEN M[i].tgen ELSE Generation(M[i].to)]
PlanRetry(M, i) ==
  [M[i] EXCEPT !.state = "queued", !.retryOf = i, !.key = RetryKey, !.receipt = 0,
               !.tgen = IF Dynamic THEN M[i].tgen ELSE Generation(M[i].to)]

Retry(i) ==
  /\ Healthy
  /\ ReapThen(IF MayRetry(Reaped, i)
              THEN /\ \E j \in Ids, o \in Outcomes :
                        NewId(Reaped, j) /\ AppendMessage(Reaped, o, j, PlanRetry(Reaped, i))
                   /\ UNCHANGED <<bindings, seenBinds, reports, lastReport, phase, held>>
              ELSE ReapOnly)

\* Reap: the Service's one second ticker, and WaitForPending's expiry.
Reap_WhenHealthy == Healthy /\ ReapThen(ReapOnly)
Reap == Available /\ ReapThen(ReapOnly)

\* Ten seconds after its claim a delivery may be reaped.
LeaseEnds(i) ==
  /\ phase # "stopped" /\ msgs[i].state = "delivering" /\ i \notin expired
  /\ expired' = expired \cup {i}
  /\ UNCHANGED <<bindings, seenBinds, msgs, reports, lastReport, phase, fatal, poisoned,
                 collectors, held>>

-----------------------------------------------------------------------------
(* Drain, close, crash and reopen *)

SetDraining(value) ==
  /\ phase # "stopped"
  /\ phase' = IF value THEN "draining" ELSE "running"
  /\ phase' # phase
  /\ collectors' = Signalled(collectors)
  /\ UNCHANGED <<bindings, seenBinds, msgs, reports, lastReport, fatal, poisoned, expired,
                 held>>

\* TryBeginIdleClose: drain only a Room with no delivery and no counted waiter.
\* A woken call stops being counted before it takes the lock again, so it may
\* find the Room draining.
TryBeginIdleClose ==
  /\ Healthy /\ Delivering(msgs) = {} /\ \A c \in Collectors : collectors[c].st # "blocked"
  /\ phase' = "idle_closing"
  /\ collectors' = Signalled(collectors)
  /\ UNCHANGED <<bindings, seenBinds, msgs, reports, lastReport, fatal, poisoned, expired,
                 held>>

\* Close: claims still out become unknown as far as the appends go (none when
\* the engine is fatal), then the engine and its Store are closed.
Close ==
  /\ phase # "stopped"
  /\ \E S \in SUBSET Delivering(msgs) :
       (fatal => S = {}) /\ msgs' = Expire(msgs, S)
  /\ phase' = "stopped" /\ fatal' = FALSE /\ expired' = {}
  /\ collectors' = [c \in Collectors |-> Idle]
  /\ UNCHANGED <<bindings, seenBinds, reports, lastReport, poisoned, held>>

\* The process dies: between two appends, or after one whose caller never hears.
Crash ==
  /\ phase # "stopped"
  /\ phase' = "stopped" /\ fatal' = FALSE /\ expired' = {}
  /\ collectors' = [c \in Collectors |-> Idle]
  /\ UNCHANGED <<bindings, seenBinds, msgs, reports, lastReport, poisoned, held>>

\* Open: replay, then every recovered delivery becomes unknown; an append error
\* among these leaves the Room closed with the facts that landed.
Recovered == Delivering(msgs)
Open ==
  /\ phase = "stopped" /\ ~poisoned
  /\ \/ msgs' = Expire(msgs, Recovered) /\ phase' = "running"
     \/ \E S \in SUBSET Recovered : S # {} /\ msgs' = Expire(msgs, S) /\ phase' = phase
  /\ UNCHANGED <<bindings, seenBinds, reports, lastReport, fatal, poisoned, expired,
                 collectors, held>>

-----------------------------------------------------------------------------
Init ==
  /\ bindings = [s \in Slots |-> Vacant]
  /\ seenBinds = {}
  /\ msgs = [i \in Ids |-> NoMessage]
  /\ reports = {}
  /\ lastReport = [b \in BindIDs |-> 0]
  /\ phase = "running" /\ fatal = FALSE /\ poisoned = FALSE
  /\ expired = {}
  /\ collectors = [c \in Collectors |-> Idle]
  /\ held = {}

\* Peer generations a caller may have seen.
Generations == 0..(Cardinality(BindIDs) + 1)

BindingStep ==
  \E s \in Slots :
    \/ \E b \in BindIDs, replace \in BOOLEAN : Bind(s, b, replace)
    \/ Unbind(s)
    \/ StopParks /\ \E enabled \in BOOLEAN : Park(s, enabled)
    \/ RecordFact(s)
PublishStep ==
  \E s \in Slots :
    \/ \E to \in {OtherParticipant(s), User}, n \in 1..MaxSends, e \in Generations :
         Send(s, to, n, e)
    \/ \E n \in 1..MaxSends : SendUser(s, n)
    \/ \E seq \in 1..MaxReportSeq, to \in Slots \cup {User}, e \in Generations :
         Report(s, seq, to, e)
CollectStep ==
  \E c \in Collectors :
    \/ \E s \in Slots, park \in {FALSE, StopParks} : Claim(c, s, park)
    \/ ResumeClaim(c)
    \/ ClaimContextDone(c)
SettleStep ==
  \/ \E s \in Slots, h \in held : Ack(s, h[1], h[2])
  \/ \E s \in Slots, i \in Ids : Ack(s, i, 0)
  \/ \E i \in Ids : Cancel(i) \/ Retry(i) \/ LeaseEnds(i)
  \/ Reap
LifecycleStep ==
  \/ \E value \in BOOLEAN : SetDraining(value)
  \/ TryBeginIdleClose
  \/ Close
  \/ Crash
  \/ Open

Next == BindingStep \/ PublishStep \/ CollectStep \/ SettleStep \/ LifecycleStep

\* The Service ticks Reap every second, clocks advance, and a goroutine woken by
\* the changed channel runs.  Nothing makes callers call, or a Room reopen.
Fairness ==
  /\ WF_vars(Reap)
  /\ \A i \in Ids : WF_vars(LeaseEnds(i))
  /\ \A c \in Collectors : WF_vars(ResumeClaim(c))

Spec == Init /\ [][Next]_vars
FairSpec == Spec /\ Fairness

-----------------------------------------------------------------------------
(* Properties *)

\* The values every variable takes; an accepted message is either written for
\* the owner or names a generation that some binding of its slot has or will have.
TypeOK ==
  /\ bindings \in [Slots -> Binding]
  /\ \A s \in Slots : bindings[s].active => bindings[s].bind \in BindIDs /\ bindings[s].gen # 0
  /\ seenBinds \subseteq BindIDs
  /\ msgs \in [Ids -> Message]
  /\ \A i \in Ids : IF msgs[i].state = "absent" THEN msgs[i] = NoMessage
                    ELSE IF msgs[i].state = "human" THEN msgs[i].to = User
                    ELSE msgs[i].to \in Slots /\ msgs[i].tgen # 0
  /\ reports \subseteq Receipt
  /\ lastReport \in [BindIDs -> Nat]
  /\ phase \in Phases /\ fatal \in BOOLEAN /\ poisoned \in BOOLEAN
  /\ expired \subseteq Delivering(msgs) /\ (phase = "stopped" => expired = {})
  /\ collectors \in [Collectors -> Collector]
  /\ held \subseteq Ids \X Nat

\* A slot has at most one envelope out at a time, whatever claims, leases, bind
\* replacements, failed appends and restarts come between (Claim's busy test).
SingleDelivery ==
  \A i, j \in Delivering(msgs) : msgs[i].to = msgs[j].to => i = j

\* Work that is still queued or out is addressed to the generation that can
\* collect it: the active one, or for a vacant slot the one it reserves.  A
\* stale entry would sit at the head of the FIFO and block the slot for good.
InboxCurrent ==
  \A i \in Ids :
    /\ msgs[i].state \in {"queued", "delivering"} => msgs[i].tgen = Generation(msgs[i].to)
    /\ msgs[i].state = "delivering" => bindings[msgs[i].to].active

\* An accepted message is claimed once at most, across lease expiry, crash and
\* replay: what may have reached a session is never sent to one again.
ClaimedOnce == \A i \in Ids : msgs[i].receipt <= 1

\* A message counts as handed off only after its envelope reached a collector
\* with the receipt the log records.
HandedOffByReceipt ==
  \A i \in Ids : msgs[i].state = "handed_off" => <<i, msgs[i].receipt>> \in held

\* While an explicit Retry of a message waits or runs, it is the only one and
\* the original stays unknown: a late receipt cannot settle the original too.
RetryPrecedence ==
  \A i, j \in Ids : (msgs[j].retryOf = i /\ msgs[j].state \in {"queued", "delivering"}) =>
    /\ msgs[i].state = "unknown"
    /\ \A k \in Ids \ {j} : msgs[k].retryOf = i => msgs[k].state \notin {"queued", "delivering"}

\* A client's send or report is accepted as one message at most, however often
\* it is repeated and whatever failed or restarted in between; and the reports of
\* one binding are accepted in the order the session numbered them, so that the
\* peer, whose releases are in order (KeepsContract), reads them in that order.
AcceptedOnceInOrder ==
  \A i, j \in Ids :
    ( /\ i < j /\ msgs[i].state # "absent" /\ msgs[j].state # "absent"
      /\ msgs[i].retryOf = 0 /\ msgs[j].retryOf = 0 ) =>
      /\ msgs[i].key # msgs[j].key
      /\ ( /\ msgs[i].key.kind = "report" /\ msgs[j].key.kind = "report"
           /\ msgs[i].key.by = msgs[j].key.by ) => msgs[i].key.n < msgs[j].key.n

\* One session never fills both slots of a dynamic Room.
SessionExclusive ==
  (Dynamic /\ bindings[1].active /\ bindings[2].active)
    => SessionOf[bindings[1].bind] # SessionOf[bindings[2].bind]

\* No operation writes a fact that replay refuses: such a fact would keep the
\* Room from ever opening again.
Replayable == ~poisoned

\* Only the binding generation a message was addressed to can acknowledge it,
\* and only while it is active: a session that rebinds loses its old claims.
HandoffByItsGeneration ==
  [][\A i \in Ids :
       (msgs'[i].state = "handed_off" /\ msgs[i].state # "handed_off")
         => bindings[msgs[i].to].active /\ bindings[msgs[i].to].gen = msgs[i].tgen]_vars

\* The engine, with its binds, leases, failed appends, crashes and replays, keeps
\* the promises of DeliveryContract: what is settled stays settled, what left the
\* queue never returns to it, and releases are in order and one at a time.
Status == [queued |-> "waiting", delivering |-> "out", unknown |-> "doubt", absent |-> "absent",
           handed_off |-> "done", cancelled |-> "withdrawn", human |-> "posted"]
Contract == INSTANCE DeliveryContract
  WITH Lanes <- Slots, Nobody <- User,
       status <- [i \in Ids |-> Status[msgs[i].state]],
       lane <- [i \in Ids |-> msgs[i].to]
KeepsContract == Contract!Spec

\* A delivery is settled or doubted while its engine keeps running: the ticker
\* reaps it even if nobody calls.  So a waiting call is served: while input for it
\* is queued it does not wait for ever, behind somebody else's delivery or
\* because a wakeup was lost.  And a Room that drains for an idle close is idle:
\* a call that was on its way back to the lock gets no envelope that closing the
\* Room would doubt.
WaitingIsServed ==
  /\ [](phase = "idle_closing" => Delivering(msgs) = {})
  /\ \A i \in Ids :
       /\ msgs[i].state = "delivering" ~> (msgs[i].state # "delivering" \/ ~Available)
       /\ \A c \in Collectors :
            (msgs[i].state = "queued" /\ collectors[c].st # "idle"
               /\ collectors[c].slot = msgs[i].to /\ collectors[c].gen = msgs[i].tgen)
              ~> (msgs[i].state # "queued" \/ collectors[c].st = "idle" \/ ~Healthy)
=============================================================================
