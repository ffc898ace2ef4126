------------------------------- MODULE LANHost -------------------------------
(***************************************************************************)
(* The host's side of LAN sharing (internal/relay/lan.go, lan_transfer.go  *)
(* and the index of internal/service/lan_host_auth.go): invitations, join  *)
(* requests and their budgets, the one admitted member of a shared Room,   *)
(* the attachment transfers that a revocation joins, and the index that    *)
(* the Service keeps of suspended Rooms.                                   *)
(*                                                                         *)
(* Everything the engine knows of its guests is a projection of the Event  *)
(* Log.  The projection is pruned by the wall clock while the engine runs, *)
(* and only after the last fact on replay, so a restarted engine reaches   *)
(* its state by other steps than the engine it replaces.  Both are here:   *)
(* `known` is maintained step by step, Replay computes it from `log`.      *)
(*                                                                         *)
(* The wall clock can step back.  It also moves between an operation's     *)
(* check and the stamp of the fact it appends: each is a reading of its    *)
(* own, with two locks and a file between them in AcceptLANJoin.           *)
(***************************************************************************)
EXTENDS Naturals, FiniteSets, Sequences, SequencesExt

CONSTANTS
  MaxInvites,    \* bound: invitations; their random IDs are numbered here
  Requests,      \* request IDs, chosen by guests
  Keys,          \* certificate fingerprints of guests
  Transfers,     \* attachment requests of a member
  Nobody,        \* no request: before the first member
  Lifetime,      \* ticks of lanInviteLifetime
  MaxPending,    \* 32: keys that wait on one invitation
  MaxPerKey,     \* 8: attempts of one certificate with one invitation
  MaxPerInvite,  \* 256: attempts with one invitation
  MaxClock,      \* bound: ticks of the wall clock
  MaxBack,       \* bound: steps of the wall clock backwards
  MaxFacts       \* bound: LAN facts in the log

ASSUME LANConstants ==
  /\ Nobody \notin Requests
  /\ Lifetime \in Nat \ {0} /\ MaxPending \in Nat /\ MaxPerKey \in Nat
  /\ MaxPerInvite \in Nat /\ MaxClock \in Nat /\ MaxBack \in Nat
  /\ MaxFacts \in Nat /\ MaxInvites \in Nat

Invites == 1..MaxInvites
Callers == {"owner", "guest"}   \* who ends a membership

VARIABLES
  log,       \* the LAN facts of the Room's Event Log
  known,     \* the engine's projection of them: lanInvites, lanRequests, ...
  phase,     \* open; fatal: an append failed; closed: no engine
  index,     \* the Service's lanRoomAuthorization of this Room
  missed,    \* ghost: a fact landed in the log that the index was not shown
  clock,     \* cfg.Now
  back,      \* bound: steps backwards so far
  leaving,   \* caller -> its revocation that waits for transfers, the generation it
             \* read, and whether the owner's binding changed since
  transfers  \* transfer -> where it is, for which membership, interrupted or not

vars == <<log, known, phase, index, missed, clock, back, leaving, transfers>>

NoJoin == [invite |-> Nobody, key |-> Nobody]
NoMember == [request |-> Nobody, join |-> NoJoin, gen |-> 0, active |-> FALSE]
MemberOf(f) == [request |-> f.request, join |-> f.join, gen |-> f.gen, active |-> f.active]
Unknown == [invites |-> <<>>, requests |-> <<>>, latest |-> <<>>, admitted |-> {},
            attempts |-> [v \in Invites |-> 0],
            keyAttempts |-> [w \in Invites \X Keys |-> 0], member |-> NoMember]
Stays == [waits |-> FALSE, gen |-> 0, rebound |-> FALSE]
NoTransfer == [pc |-> "none", gen |-> 0, stopped |-> FALSE]

InviteFact(v, expires) == [kind |-> "invite", invite |-> v, expires |-> expires]
\* Of a fact's stamp, all that is ever asked is whether its invitation had expired.
JoinFact(r, v, k, late) ==
  [kind |-> "join", request |-> r, invite |-> v, key |-> k, late |-> late]
MemberFact(r, j, gen, active, late) ==
  [kind |-> "member", request |-> r, join |-> j, gen |-> gen, active |-> active, late |-> late]

-----------------------------------------------------------------------------
\* The projection

\* A map with one entry set, and a map without some of its entries.
Put(f, x, y) == [z \in DOMAIN f \cup {x} |-> IF z = x THEN y ELSE f[z]]
Only(f, S) == [z \in S |-> f[z]]

\* The newest requests of keys that may still own one: not of those dropped.
Latest_Kept(q, kept) == q.latest
Latest(q, kept) ==
  Only(q.latest, {k \in DOMAIN q.latest : q.latest[k] \in kept /\ q.requests[q.latest[k]].key = k})

Protected_Member(q, r) == r = q.member.request
Protected(q, r) == r \in q.admitted \/ r = q.member.request

\* PruneLANRequests: keep what was admitted, and the newest request of a key for
\* one more lifetime of its invitation.  `index` may have forgotten invitations.
Prune(q, now) ==
  LET Kept(r) == \/ Protected(q, r)
                 \/ LET j == q.requests[r] IN
                    /\ j.key \in DOMAIN q.latest /\ q.latest[j.key] = r
                    /\ j.invite \in DOMAIN q.invites
                    /\ now <= q.invites[j.invite].expires + Lifetime
      kept == {r \in DOMAIN q.requests : Kept(r)}
  IN [q EXCEPT !.requests = Only(@, kept), !.latest = Latest(q, kept)]

\* The refusals of applyLAN, which run after the fact was written.
LiveJoin(q, f) == /\ f.invite \in DOMAIN q.invites
                  /\ ~q.invites[f.invite].consumed /\ ~f.late
Continues(q, f) == q.member.request = f.request /\ q.member.gen = f.gen
Admits(q, f) ==
  /\ ~q.invites[f.join.invite].consumed /\ ~f.late
  /\ ~q.member.active /\ f.active /\ f.gen = q.member.gen + 1
\* The live projection has pruned a request whose ID comes again; replay has not.
Reusable_Never(q, r, replaying) == FALSE
Reusable(q, r, replaying) == replaying /\ r \notin q.admitted
Applies(q, f, replaying) ==
  CASE f.kind = "invite" -> f.invite \notin DOMAIN q.invites
    [] f.kind = "join" -> /\ LiveJoin(q, f)
                          /\ f.request \in DOMAIN q.requests => Reusable(q, f.request, replaying)
    [] f.kind = "member" -> /\ f.request \in DOMAIN q.requests
                            /\ q.requests[f.request] = f.join
                            /\ Continues(q, f) \/ Admits(q, f)

\* The assignments of applyLAN, before it prunes.
ApplyJoin(q, f) ==
  [q EXCEPT !.requests = Put(@, f.request, [invite |-> f.invite, key |-> f.key]),
            !.latest = Put(@, f.key, f.request),
            !.attempts[f.invite] = @ + 1,
            !.keyAttempts[<<f.invite, f.key>>] = @ + 1]
ApplyMember(q, f) ==
  [q EXCEPT !.member = MemberOf(f), !.admitted = @ \cup {f.request},
            !.invites[f.join.invite].consumed = TRUE]
Apply(q, f) ==
  CASE f.kind = "invite" ->
         [q EXCEPT !.invites = Put(@, f.invite, [expires |-> f.expires, consumed |-> FALSE])]
    [] f.kind = "join" -> ApplyJoin(q, f)
    [] f.kind = "member" -> ApplyMember(q, f)

\* Open, ValidateNativeHistory: all facts, no pruning on the way.
Refused == [refused |-> TRUE]
ReplayStep(q, f) == IF q = Refused \/ ~Applies(q, f, TRUE) THEN Refused ELSE Apply(q, f)
Replay(facts) ==
  LET read[n \in 0..Len(facts)] == IF n = 0 THEN Unknown ELSE ReplayStep(read[n - 1], facts[n])
  IN  read[Len(facts)]

\* joinStatusLocked
Status(q, r, now) ==
  LET v == q.invites[q.requests[r].invite] IN
  IF q.member.request = r THEN (IF q.member.active THEN "accepted" ELSE "revoked")
  ELSE IF r \in q.admitted THEN "revoked"
  ELSE IF v.consumed \/ now >= v.expires THEN "expired" ELSE "pending"

-----------------------------------------------------------------------------
\* The Service's index of the Room.  It decides which certificate may wake a
\* suspended Room, and is never rebuilt while the Service runs.

Unindexed == [invites |-> <<>>, requests |-> <<>>, latest |-> <<>>, admitted |-> {},
              member |-> NoMember]

IndexMember_Outstanding(x, f) == [x EXCEPT !.member = MemberOf(f), !.admitted = @ \cup {f.request}]
IndexMember(x, f) == LET v == f.join.invite IN
  [x EXCEPT !.member = MemberOf(f), !.admitted = @ \cup {f.request},
            !.invites = IF v \in DOMAIN @ THEN [@ EXCEPT ![v].consumed = TRUE] ELSE @]
\* lanRoomAuthorization.apply
Index(x, f) ==
  CASE f.kind = "invite" ->
         [x EXCEPT !.invites = Put(@, f.invite, [expires |-> f.expires, consumed |-> FALSE])]
    [] f.kind = "join" ->
         [x EXCEPT !.requests = Put(@, f.request, [invite |-> f.invite, key |-> f.key]),
                   !.latest = Put(@, f.key, f.request)]
    [] f.kind = "member" -> IndexMember(x, f)
\* lanRoomAuthorization.prune
PruneIndex(x, now) ==
  LET y == Prune(x, now)
      used == {y.requests[r].invite : r \in DOMAIN y.requests}
      Live(v) == ~y.invites[v].consumed /\ now < y.invites[v].expires
  IN [y EXCEPT !.invites = Only(@, {v \in DOMAIN @ : v \in used \/ Live(v)})]
\* resetLANAuthorization, when the Service starts
Indexed(facts) ==
  LET read[n \in 0..Len(facts)] == IF n = 0 THEN Unindexed ELSE Index(read[n - 1], facts[n])
  IN  read[Len(facts)]
IndexOf(facts, now) == PruneIndex(Indexed(facts), now)

-----------------------------------------------------------------------------
\* Appending a fact

Open == phase = "open"   \* Engine.healthy
Member == known.member
Waiting == \E c \in Callers : leaving[c].waits   \* lanTransfers.stopping # 0
Working(t) == transfers[t].pc # "none"

\* Engine.append with its one stamp `at`, a reading of the clock after the
\* operation's own, where one could tell.  The store takes the fact, or fails:
\* then the fact is lost, or it landed all the same and only a replay will show
\* it.  A fact that applyLAN refuses is in the log as well.  `q` is the projection
\* as its caller pruned it; nothing reads that of an engine that failed.
Fails == phase' = "fatal" /\ known' = Unknown /\ UNCHANGED index
Record(q, f, at) ==
  /\ Len(log) < MaxFacts
  /\ at <= MaxClock /\ clock' = at
  /\ \/ /\ log' = log \o <<f>>                               \* stored
        /\ IF Applies(q, f, FALSE)
           THEN /\ known' = IF f.kind = "invite" THEN Apply(q, f) ELSE Prune(Apply(q, f), at)
                /\ index' = PruneIndex(Index(index, f), at)   \* OnAppend
                /\ UNCHANGED <<phase, missed>>
           ELSE Fails /\ missed' = TRUE
     \/ /\ Fails                                                \* failed
        /\ \/ log' = log \o <<f>> /\ missed' = TRUE
           \/ UNCHANGED <<log, missed>>
  /\ UNCHANGED back

-----------------------------------------------------------------------------
\* Operations under Engine.mu

\* CreateLANInvite; it answers an open invitation instead, and changes nothing.
CreateLANInvite == LET v == Cardinality(DOMAIN known.invites) + 1 IN
  /\ Open /\ ~Member.active
  /\ \A w \in DOMAIN known.invites : known.invites[w].consumed \/ clock >= known.invites[w].expires
  /\ v \in Invites
  /\ Record(known, InviteFact(v, clock + Lifetime), clock)
  /\ UNCHANGED <<leaving, transfers>>

Over(q, v, now) == v \in DOMAIN q.invites => now >= q.invites[v].expires
Pending(q, v) == {r \in DOMAIN q.requests : q.requests[r].invite = v /\ r \notin q.admitted}

\* The attempts of a certificate: what the facts add up to, not what is remembered.
KeyAttempts_Remembered(q, v, k) ==
  Cardinality({r \in DOMAIN q.requests : q.requests[r] = [invite |-> v, key |-> k]})
KeyAttempts(q, v, k) == q.keyAttempts[<<v, k>>]

\* RequestLANJoin of a request the pruned projection does not hold.
RequestLANJoin(r, v, k) == LET q == Prune(known, clock) IN
  /\ Open
  /\ r \notin DOMAIN q.requests
  /\ LiveJoin(q, JoinFact(r, v, k, Over(q, v, clock)))
  /\ Cardinality(Pending(q, v)) < MaxPending
  /\ KeyAttempts(q, v, k) < MaxPerKey /\ q.attempts[v] < MaxPerInvite
  /\ \E at \in {clock, clock + 1} : Record(q, JoinFact(r, v, k, Over(q, v, at)), at)
  /\ UNCHANGED <<leaving, transfers>>

\* LANJoinStatus, and a RequestLANJoin that is answered or refused: both prune.
LANJoinStatus ==
  /\ Open
  /\ known' = Prune(known, clock)
  /\ UNCHANGED <<log, phase, index, missed, clock, back, leaving, transfers>>

\* AcceptLANJoin of the receipt (r, k).  Between its check and the fact's stamp it
\* takes two locks of the Registry and commits the identity claims.
AcceptLANJoin(r, k) ==
  /\ Open /\ ~Member.active
  /\ r \in DOMAIN known.requests /\ known.requests[r].key = k
  /\ LET j == known.requests[r] IN
     /\ ~known.invites[j.invite].consumed /\ ~Over(known, j.invite, clock)
     /\ \E at \in {clock, clock + 1} :
          Record(known, MemberFact(r, j, Member.gen + 1, TRUE, Over(known, j.invite, at)), at)
  /\ UNCHANGED <<leaving, transfers>>

\* The binding `gen` that the operation read, inactive: its next fact.
Retire(gen) == Record(known, MemberFact(Member.request, Member.join, gen, FALSE, FALSE), clock)

\* RevokeLANMember, or UnbindAs by the member: quiesceLANTransfersLocked stops the
\* member's transfers and, when there are some, waits for them without the lock.
Quiesced == {t \in Transfers : Working(t) /\ transfers[t].gen = Member.gen}
Revoke(c) ==
  /\ Open /\ Member.active /\ ~leaving[c].waits
  /\ IF Quiesced = {}
     THEN Retire(Member.gen) /\ UNCHANGED <<leaving, transfers>>
     ELSE /\ leaving' = [leaving EXCEPT ![c] = [waits |-> TRUE, gen |-> Member.gen, rebound |-> FALSE]]
          /\ transfers' = [t \in Transfers |-> IF t \in Quiesced
                             THEN [transfers[t] EXCEPT !.stopped = TRUE] ELSE transfers[t]]
          /\ UNCHANGED <<log, known, phase, index, missed, clock, back>>

\* The transfers are done: commit, unless a binding changed meanwhile.  No
\* transfer begins while a revocation waits, so those joined are all there are.
Unchanged(c) == Member.active /\ Member.gen = leaving[c].gen /\ ~leaving[c].rebound
Joined_Stopped(c) == leaving[c].waits
Joined(c) == leaving[c].waits /\ \A t \in Transfers : ~Working(t)
ResumeRevoke(c) ==
  /\ Joined(c)
  /\ leaving' = [leaving EXCEPT ![c] = Stays]
  /\ IF Open /\ Unchanged(c) THEN Retire(leaving[c].gen)
     ELSE UNCHANGED <<log, known, phase, index, missed, clock, back>>
  /\ UNCHANGED <<transfers>>

\* The local owner's session is replaced (NativeRelay models that operation).
OwnerRebinds ==
  /\ Open /\ Waiting
  /\ leaving' = [c \in Callers |-> [leaving[c] EXCEPT !.rebound = @ \/ leaving[c].waits]]
  /\ UNCHANGED <<log, known, phase, index, missed, clock, back, transfers>>

-----------------------------------------------------------------------------
\* Transfers: their network and disk effects run outside Engine.mu

Set(t, pc) == transfers' = [transfers EXCEPT ![t].pc = pc]
StillMember(t) == Open /\ Member.active /\ Member.gen = transfers[t].gen
TransferStep == UNCHANGED <<log, known, phase, index, missed, clock, back, leaving>>

BeginLANTransfer(t) ==
  /\ ~Working(t)
  /\ back = 0   \* bound: transfers do not read the clock
  /\ Open /\ Member.active /\ ~Waiting
  /\ transfers' = [transfers EXCEPT ![t] = [pc |-> "begun", gen |-> Member.gen, stopped |-> FALSE]]
  /\ TransferStep

\* Effect: authenticate under the lock, look at the context again, then write.
Authorize(t) ==
  /\ transfers[t].pc = "begun" /\ ~transfers[t].stopped
  /\ StillMember(t) /\ ~Waiting
  /\ Set(t, "authorized")
  /\ TransferStep
Write(t) ==
  /\ transfers[t].pc = "authorized"
  /\ Set(t, IF transfers[t].stopped THEN "begun" ELSE "writing")
  /\ TransferStep
Written(t) ==
  /\ transfers[t].pc = "writing"
  /\ Set(t, "begun")
  /\ TransferStep

\* Close, by the handler between two effects: it is finished, or was interrupted.
CloseTransfer(t) ==
  /\ transfers[t].pc = "begun"
  /\ transfers' = [transfers EXCEPT ![t] = NoTransfer]
  /\ TransferStep

-----------------------------------------------------------------------------
\* The clock, and the lives of the engine and of the Service

Tick ==
  /\ clock < MaxClock
  /\ clock' = clock + 1
  /\ UNCHANGED <<log, known, phase, index, missed, back, leaving, transfers>>
ClockStepsBack ==
  /\ clock > 0 /\ back < MaxBack
  /\ \A t \in Transfers : ~Working(t)   \* bound
  /\ clock' = clock - 1 /\ back' = back + 1
  /\ UNCHANGED <<log, known, phase, index, missed, leaving, transfers>>

\* The runtime of the Room closes; its requests are over.
Suspend ==
  /\ phase # "closed" /\ ~Waiting /\ \A t \in Transfers : ~Working(t)
  /\ phase' = "closed" /\ known' = Unknown
  /\ UNCHANGED <<log, index, missed, clock, back, leaving, transfers>>

\* The Service dies and starts again: it rebuilds the index and opens no Room.
Restart ==
  /\ phase' = "closed" /\ known' = Unknown
  /\ leaving' = [c \in Callers |-> Stays]
  /\ transfers' = [t \in Transfers |-> NoTransfer]
  /\ index' = IF Replay(log) = Refused THEN Unindexed ELSE IndexOf(log, clock)
  /\ missed' = FALSE
  /\ UNCHANGED <<log, clock, back>>

Activate ==
  /\ phase = "closed" /\ Replay(log) # Refused
  /\ phase' = "open" /\ known' = Prune(Replay(log), clock)
  /\ UNCHANGED <<log, index, missed, clock, back, leaving, transfers>>

-----------------------------------------------------------------------------
Init ==
  /\ log = <<>> /\ known = Unknown /\ phase = "open"
  /\ index = Unindexed /\ missed = FALSE
  /\ clock = 0 /\ back = 0
  /\ leaving = [c \in Callers |-> Stays]
  /\ transfers = [t \in Transfers |-> NoTransfer]

TransferMoves(t) == Authorize(t) \/ Write(t) \/ Written(t) \/ CloseTransfer(t)

Next ==
  \/ CreateLANInvite
  \/ \E r \in Requests, v \in Invites, k \in Keys : RequestLANJoin(r, v, k)
  \/ LANJoinStatus
  \/ \E r \in Requests, k \in Keys : AcceptLANJoin(r, k)
  \/ \E c \in Callers : Revoke(c) \/ ResumeRevoke(c)
  \/ OwnerRebinds
  \/ \E t \in Transfers : BeginLANTransfer(t) \/ TransferMoves(t)
  \/ Tick \/ ClockStepsBack
  \/ Suspend \/ Restart \/ Activate

Spec == Init /\ [][Next]_vars

-----------------------------------------------------------------------------
\* Properties

TypeOK ==
  /\ phase \in {"open", "fatal", "closed"}
  /\ Len(log) <= MaxFacts /\ clock \in 0..MaxClock /\ back \in 0..MaxBack
  /\ missed \in BOOLEAN
  /\ DOMAIN known.invites \subseteq Invites /\ DOMAIN known.requests \subseteq Requests
  /\ DOMAIN known.latest \subseteq Keys
  /\ known.admitted \subseteq DOMAIN known.requests
  /\ \A k \in DOMAIN known.latest : known.latest[k] \in DOMAIN known.requests
  /\ index.member.request \in Requests \cup {Nobody}
  /\ leaving \in [Callers -> [waits : BOOLEAN, gen : Nat, rebound : BOOLEAN]]
  /\ transfers \in [Transfers -> [pc : {"none", "begun", "authorized", "writing"},
                                  gen : Nat, stopped : BOOLEAN]]

Facts == {log[i] : i \in DOMAIN log}
Memberships == {i \in DOMAIN log : log[i].kind = "member"}
Newest == IF Memberships = {} THEN NoMember
          ELSE MemberOf(log[CHOOSE i \in Memberships : \A j \in Memberships : j <= i])

\* A request that was admitted once is answered "accepted" while it is the
\* newest membership and active, and "revoked" for ever after: no expiry, pruning,
\* successor, restart or step of the clock turns it into pending, expired or
\* unknown, which its guest could not act on.
AdmissionSticks ==
  Open => \A f \in Facts : f.kind = "member" =>
            /\ f.request \in DOMAIN known.requests
            /\ Status(known, f.request, clock) =
                 IF Newest.request = f.request /\ Newest.active THEN "accepted" ELSE "revoked"

\* The budgets hold over the facts of the log, whatever was pruned, replayed or
\* landed by a failed append in between; a key has one pending request at most,
\* and while the clock goes forward no invitation has more than MaxPending.
Attempts(v, K) ==
  Cardinality({i \in DOMAIN log : log[i].kind = "join" /\ log[i].invite = v /\ log[i].key \in K})
BudgetsHold ==
  /\ \A v \in Invites : /\ Attempts(v, Keys) <= MaxPerInvite
                        /\ \A k \in Keys : Attempts(v, {k}) <= MaxPerKey
  /\ \A r, s \in DOMAIN known.requests \ known.admitted :
       known.requests[r].key = known.requests[s].key => r = s
  /\ Open /\ back = 0 => \A v \in Invites : Cardinality(Pending(known, v)) <= MaxPending

\* A restart of the engine would reach the state the running engine is in.  If
\* the clock stepped back it may remember requests that the engine forgot, and
\* nothing else differs.  The one exception is a log that replay refuses
\* (LogReplays): it ends with a fact stamped after its invitation expired.
EngineAgrees ==
  LET d == Replay(log)
      b == Prune(d, clock)
      a == Prune(known, clock) IN
  IF d = Refused THEN Last(log).kind \in {"join", "member"} /\ Last(log).late /\ ~Open
  ELSE Open => /\ b = [a EXCEPT !.requests = b.requests, !.latest = b.latest]
               /\ \A r \in DOMAIN a.requests : r \in DOMAIN b.requests /\ a.requests[r] = b.requests[r]
               /\ back = 0 => a = b

\* The Service's index agrees with the engine that it would activate: the same
\* requests and member, and the same live invitations.  It misses what an append
\* that failed wrote all the same, until the Service restarts, and what it forgot
\* before the clock stepped back.
LiveInvites(q) == {v \in DOMAIN q.invites : ~q.invites[v].consumed /\ clock < q.invites[v].expires}
IndexAgrees ==
  LET x == PruneIndex(index, clock)
      d == Replay(log)
      b == Prune(d, clock) IN
  ~missed /\ back = 0 /\ d # Refused =>
    /\ x.requests = b.requests /\ x.latest = b.latest
    /\ x.admitted = b.admitted /\ x.member = b.member
    /\ LiveInvites(x) = LiveInvites(b)

\* The running engine and the Service's index, which both get by on one fact at a
\* time, hold what a restart would read from the whole log.
RestartAgrees == EngineAgrees /\ IndexAgrees

\* No attachment effect of a membership runs once its revocation is in the log,
\* though effects run without the Room's lock.
NothingAfterRevocation ==
  \A t \in Transfers : transfers[t].pc = "writing" =>
    Newest.active /\ Newest.gen = transfers[t].gen

\* What docs/STORAGE.md says: LAN facts replay completely.
LogReplays == Replay(log) # Refused
=============================================================================
