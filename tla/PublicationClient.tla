--------------------------- MODULE PublicationClient ---------------------------
(***************************************************************************)
(* How one binding publishes the replies of its session.  Every Stop hook  *)
(* and every `relay` command is a process that takes the slot lock, loads  *)
(* state.json, and works on its copy: a reply is claimed a sequence number *)
(* and saved before any request, and the backlog (the pending head and the *)
(* held replies behind it) is settled strictly in order.  Requests may be  *)
(* lost or answered too late, saves may fail with either outcome, and the  *)
(* process may die between any two steps.                                  *)
(*                                                                         *)
(* Modelled: the binding of a dynamic Room over the local Service.  Left   *)
(* out: texts and their size, transcript references, Gemini's cursor,      *)
(* receipts of a foreign binding (the Service answers for the binding it   *)
(* was asked about).                                                       *)
(***************************************************************************)
EXTENDS Naturals, Sequences

CONSTANTS
  MaxReplies,             \* bound: replies the session speaks
  maxPublicationBacklog   \* head and held replies state.json may hold

ASSUME PublicationAssumption ==
  MaxReplies \in Nat /\ maxPublicationBacklog \in Nat \ {0}

VARIABLES
  disk,       \* state.json
  proc,       \* the process that holds the slot lock
  flight,     \* report requests whose client gave up before they were handled
  book,       \* receipts of the Service, in the order it accepted them
  peerMoved,  \* the peer slot was bound again since this binding's bootstrap
  said,       \* replies spoken so far
  kept,       \* replies whose reservation was confirmed on disk
  discarded   \* replies the operator chose to discard
clientVars == <<disk, proc, flight, book, peerMoved, said, kept, discarded>>

-------------------------------------------------------------------------------
(* The saved state and its backlog *)

Reply == 1..MaxReplies
PendingReply == [seq : Nat, reply : Reply, unknown : BOOLEAN,
            outcome : {"none", "context_changed", "peer_changed"}]
State == [last : Nat, backlog : Seq(PendingReply), scopeChanged : BOOLEAN]

validBacklog(s) ==
  LET seq(i) == s.backlog[i].seq
      n == Len(s.backlog)
  IN n > 1 =>
     /\ n <= maxPublicationBacklog
     /\ seq(n) = s.last
     /\ \A i \in 2..n : seq(i) = seq(1) + i - 1 /\ ~s.backlog[i].unknown

BacklogFull(s) == s.backlog # <<>> /\ Len(s.backlog) >= maxPublicationBacklog

\* A reply claims the next sequence number in the state that saves it.
Reserved(s, r) ==
  LET p == [seq |-> s.last + 1, reply |-> r, unknown |-> FALSE,
            outcome |-> IF s.scopeChanged THEN "context_changed" ELSE "none"]
  IN [s EXCEPT !.last = @ + 1, !.backlog = Append(@, p)]

advance_DropsHeld(s) == [s EXCEPT !.backlog = <<>>]
advance(s) == [s EXCEPT !.backlog = IF @ = <<>> THEN @ ELSE Tail(@)]
Doubted(s) == [s EXCEPT !.backlog[1].unknown = TRUE]
PeerChanged(s) ==
  [s EXCEPT !.backlog[1].outcome = "peer_changed", !.backlog[1].unknown = FALSE]

\* An atomic replacement that reports an error may still have replaced the file.
SaveFails(next) == disk' \in {disk, next}

-------------------------------------------------------------------------------
(* The process: "reconcile" is the head of Reconcile's loop, "report" the     *)
(* request to publish the head, "reserve" and "fallback" the two places where *)
(* a hook that met a full backlog may still save its reply.  The field then   *)
(* says what follows Reconcile: the end, publish's reservation, or the check  *)
(* whether the reply was retained.                                            *)

Idle == [pc |-> "down", mem |-> [last |-> 0, backlog |-> <<>>, scopeChanged |-> FALSE],
         unsent |-> 0, force |-> FALSE, offline |-> FALSE, then |-> "end", reply |-> 0,
         lastSeq |-> 0]
Process == [pc : {"down", "reconcile", "report", "reserve", "fallback"}, mem : State,
            unsent : Nat, force : BOOLEAN, offline : BOOLEAN,
            then : {"end", "reserve", "check"}, reply : Reply \cup {0}, lastSeq : Nat]

\* A head loaded from disk may have been sent: no sequence number is unsent.
UnsentAtLoad_TheHead(s) == IF s.backlog = <<>> THEN 0 ELSE s.backlog[1].seq
UnsentAtLoad(s) == 0

Loaded(offline) ==
  [Idle EXCEPT !.pc = "reconcile", !.mem = disk, !.unsent = UnsentAtLoad(disk),
               !.offline = offline, !.lastSeq = disk.last]

MayLoad == proc.pc = "down" /\ validBacklog(disk)

Backlog == proc.mem.backlog
HeadPending == Head(Backlog)

WithMemory(p, s) == [p EXCEPT !.mem = s]

\* The process after a confirmed reservation: the new reply is unsent when it
\* became the head.
WithReserved(p, r) ==
  LET s == Reserved(p.mem, r)
  IN [p EXCEPT !.mem = s, !.unsent = IF s.backlog[1].seq = s.last THEN s.last ELSE @]

\* The reply was saved by a reservation of this hook.
Retained_Never(p) == FALSE
Retained(p) == p.mem.last # p.lastSeq

\* Reconcile returned, with an error or with an empty backlog.
Returned(p, ok) ==
  CASE p.then = "reserve" -> [p EXCEPT !.pc = IF ok THEN "reserve" ELSE "fallback"]
    [] p.then = "check" /\ ~ok /\ ~Retained(p) -> [p EXCEPT !.pc = "fallback"]
    [] OTHER -> Idle

-------------------------------------------------------------------------------
(* The Service, as far as this binding's receipts go (NativeRelay's Report) *)

Receipts(b, seq) == {b[i] : i \in {j \in DOMAIN b : b[j].seq = seq}}
LastReport == IF book = <<>> THEN 0 ELSE book[Len(book)].seq

\* A known sequence number answers its receipt and a regressed one an error;
\* a new one is taken in, unless it names a peer who is no longer there.
Accepts(q) == q.seq > LastReport
Handled(q) ==
  IF Accepts(q)
  THEN \E outcome \in {"none"} \cup (IF peerMoved THEN {"peer_changed"} ELSE {}) :
         book' = Append(book, [seq |-> q.seq, reply |-> q.reply, outcome |-> outcome])
  ELSE UNCHANGED book

PeerMoves ==
  /\ ~peerMoved /\ peerMoved' = TRUE
  /\ UNCHANGED <<disk, proc, flight, book, said, kept, discarded>>

\* A request whose client no longer waits is handled after all.
Late ==
  /\ \E q \in flight : Handled(q) /\ flight' = flight \ {q}
  /\ UNCHANGED <<disk, proc, peerMoved, said, kept, discarded>>

-------------------------------------------------------------------------------
(* Steps of the process *)

\* The hook loads the state and saves its reply before any request.  Behind a
\* full backlog it goes on to publish, which settles the backlog first.
StopHook(offline) ==
  /\ MayLoad /\ said < MaxReplies
  /\ said' = said + 1
  /\ LET p == [Loaded(offline) EXCEPT !.reply = said + 1]
         next == IF BacklogFull(disk) THEN disk ELSE Reserved(disk, said + 1)
     IN \/ ~BacklogFull(disk) /\ disk' = next /\ kept' = kept \cup {said + 1}
           /\ proc' = WithReserved(p, said + 1)
        \/ BacklogFull(disk) /\ proc' = [p EXCEPT !.then = "reserve"]
           /\ UNCHANGED <<disk, kept>>
        \/ SaveFails(next) /\ UNCHANGED <<proc, kept>>
  /\ UNCHANGED <<flight, book, peerMoved, discarded>>

\* relay status, relay reconcile, and relay reconcile --resend.
Command(offline, resend) ==
  /\ MayLoad
  /\ proc' = [Loaded(offline) EXCEPT !.force = resend]
  /\ UNCHANGED <<disk, flight, book, peerMoved, said, kept, discarded>>

\* relay reconcile --discard: the operator abandons the head.
DiscardPending ==
  /\ MayLoad /\ disk.backlog # <<>>
  /\ disk' = advance(disk) \/ SaveFails(advance(disk))
  /\ discarded' = discarded \cup {Head(disk.backlog).reply}
  /\ UNCHANGED <<proc, flight, book, peerMoved, said, kept>>

Sendable(p) == p.outcome = "none"

\* Reconcile returns from the head of its loop.
Settled ==
  /\ proc.pc = "reconcile"
  /\ \/ Backlog = <<>> /\ proc' = Returned(proc, TRUE)
     \/ Backlog # <<>> /\ (proc.offline \/ ~Sendable(HeadPending))
        /\ proc' = Returned(proc, FALSE)
  /\ UNCHANGED <<disk, flight, book, peerMoved, said, kept, discarded>>

\* The answer settles nothing: the head is marked unknown, if that can be
\* saved, and nothing is sent behind it.
markUnknown(p) ==
  \/ disk' = Doubted(p.mem) /\ proc' = Returned(WithMemory(p, Doubted(p.mem)), FALSE)
  \/ SaveFails(Doubted(p.mem)) /\ proc' = Returned(p, FALSE)

\* A receipt settles the head; the next held reply becomes a head that was
\* never sent, and a resend decision is spent.
Promoted(p) ==
  [p EXCEPT !.pc = "reconcile", !.mem = advance(p.mem), !.force = FALSE,
            !.unsent = IF Len(p.mem.backlog) > 1 THEN p.mem.backlog[2].seq ELSE @]

Receive(p, receipt) ==
  IF receipt.outcome = "peer_changed"
  THEN \/ /\ disk' = PeerChanged(p.mem)
          /\ proc' = Returned(WithMemory(p, PeerChanged(p.mem)), FALSE)
       \/ SaveFails(PeerChanged(p.mem)) /\ proc' = Returned(p, FALSE)
  ELSE \/ disk' = advance(p.mem) /\ proc' = Promoted(p)
       \/ SaveFails(advance(p.mem)) /\ proc' = Returned(p, FALSE)

Reporting(p) == [p EXCEPT !.pc = "report"]

\* A head that may have been sent is queried under its sequence number first.
Query ==
  /\ proc.pc = "reconcile" /\ Backlog # <<>> /\ ~proc.offline /\ Sendable(HeadPending)
  /\ LET receipts == Receipts(book, HeadPending.seq)
     IN \/ /\ \/ HeadPending.seq = proc.unsent  \* no query
              \/ receipts = {}                  \* the Service says: never accepted
              \/ proc.force                     \* no answer, but the operator decided
           /\ proc' = Reporting(proc) /\ UNCHANGED disk
        \/ HeadPending.seq # proc.unsent /\ \E r \in receipts : Receive(proc, r)
        \/ HeadPending.seq # proc.unsent /\ ~proc.force /\ markUnknown(proc)
  /\ UNCHANGED <<flight, book, peerMoved, said, kept, discarded>>

\* The head is reported.  The request is lost, handled after the client gave
\* up, refused, or handled; then its answer may still be lost.
Report ==
  /\ proc.pc = "report"
  /\ LET q == [seq |-> HeadPending.seq, reply |-> HeadPending.reply]
         p == [proc EXCEPT !.unsent = 0]
         receipts == Receipts(book', q.seq)
     IN \/ UNCHANGED <<book, flight>> /\ markUnknown(p)
        \/ UNCHANGED book /\ flight' = flight \cup {q} /\ markUnknown(p)
        \/ /\ Handled(q) /\ UNCHANGED flight
           /\ markUnknown(p) \/ \E r \in receipts : Receive(p, r)
  /\ UNCHANGED <<peerMoved, said, kept, discarded>>

\* publish, once Reconcile found the backlog empty.
ReserveInPublish ==
  /\ proc.pc = "reserve"
  /\ LET next == Reserved(proc.mem, proc.reply)
     IN \/ /\ disk' = next /\ kept' = kept \cup {proc.reply}
           /\ proc' = [WithReserved(proc, proc.reply) EXCEPT !.pc = "reconcile", !.then = "check"]
        \/ SaveFails(next) /\ proc' = [proc EXCEPT !.pc = "fallback"] /\ UNCHANGED kept
  /\ UNCHANGED <<flight, book, peerMoved, said, discarded>>

\* publish failed before it reserved the reply: settling part of the backlog
\* may have made room; otherwise the reply is reported as not retained.
ReserveFallback ==
  /\ proc.pc = "fallback"
  /\ proc' = Idle
  /\ LET next == Reserved(proc.mem, proc.reply)
     IN \/ /\ ~BacklogFull(proc.mem) /\ disk' = next
           /\ kept' = kept \cup {proc.reply}
        \/ /\ IF BacklogFull(proc.mem) THEN UNCHANGED disk ELSE SaveFails(next)
           /\ UNCHANGED kept
  /\ UNCHANGED <<flight, book, peerMoved, said, discarded>>

\* The process is killed or crashes; the slot lock goes with it.
Crash ==
  /\ proc # Idle /\ proc' = Idle
  /\ UNCHANGED <<disk, flight, book, peerMoved, said, kept, discarded>>

-------------------------------------------------------------------------------
ClientInit ==
  /\ disk \in {[last |-> 0, backlog |-> <<>>, scopeChanged |-> c] : c \in BOOLEAN}
  /\ proc = Idle
  /\ flight = {} /\ book = <<>> /\ peerMoved = FALSE
  /\ said = 0 /\ kept = {} /\ discarded = {}

ClientNext ==
  \/ \E offline \in BOOLEAN : StopHook(offline) \/ \E resend \in BOOLEAN : Command(offline, resend)
  \/ DiscardPending \/ Settled \/ Query \/ Report \/ ReserveInPublish \/ ReserveFallback
  \/ Crash \/ Late \/ PeerMoves

ClientSpec == ClientInit /\ [][ClientNext]_clientVars

-------------------------------------------------------------------------------
(* Properties *)

\* Every variable keeps its type, and a process runs only with the slot lock,
\* on a copy of state.json at most one sequence number (a reservation whose save
\* was reported as failed) behind the file.  No reply takes two numbers.  The file
\* always passes validBacklog: no sequence of hooks, failed saves, discards and
\* crashes leaves a state that every later command refuses to load.
ClientTypeOK ==
  /\ disk \in State /\ proc \in Process
  /\ flight \subseteq [seq : Nat, reply : Reply]
  /\ book \in Seq([seq : Nat, reply : Reply, outcome : {"none", "peer_changed"}])
  /\ peerMoved \in BOOLEAN /\ said \in 0..MaxReplies
  /\ kept \subseteq Reply /\ discarded \subseteq Reply
  /\ disk.last <= said
  /\ proc.pc # "down" => proc.mem.last \in {disk.last, disk.last - 1}
  /\ validBacklog(disk)

\* A reply whose reservation was confirmed is never lost: it is in the saved
\* backlog until the Service has it under its own sequence number or the
\* operator discarded it.
NothingLost ==
  \A r \in kept \ discarded :
    \/ \E i \in DOMAIN disk.backlog : disk.backlog[i].reply = r
    \/ \E i \in DOMAIN book : book[i].reply = r

\* Nothing is sent ahead of its turn: held replies behind an unsettled head,
\* and replies of a changed scope, have neither a receipt nor a request; and what
\* a process skips the query for, because it takes its number for unsent, was
\* never sent by an earlier process either.
NeverSent(seq) == Receipts(book, seq) = {} /\ \A q \in flight : q.seq # seq
NothingSentEarly ==
  /\ proc.unsent # 0 => NeverSent(proc.unsent)
  /\ \A i \in DOMAIN disk.backlog :
       i > 1 \/ disk.backlog[i].outcome = "context_changed" => NeverSent(disk.backlog[i].seq)

\* The Service takes the replies in in the order they were spoken, each at
\* most once, whatever is repeated, resent, delayed or discarded.
Ordered == INSTANCE OrderedPublication
             WITH spoken <- said, taken <- [i \in DOMAIN book |-> book[i].reply]
PublishesInOrder == Ordered!Spec
=============================================================================
