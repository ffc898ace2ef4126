-------------------------- MODULE RoomRegistryProofs --------------------------
(***************************************************************************)
(* Safety of the Registry of Rooms and of the reservation store, for every *)
(* set of Rooms, sessions and remote associations.                         *)
(*                                                                         *)
(* The argument.  What a standing Room's log is bound to is reserved for   *)
(* that Room (Reservations): a bind writes the reservation before the fact *)
(* and releases the old one after it, and whatever else releases claims    *)
(* releases those of one Room that no checkpoint lists any more, or those  *)
(* that a log has left behind (Owners).  Staged says which checkpoints may *)
(* list a Room while its data is in a container, so that a checkpoint      *)
(* without the Room, or the marker, is proof of its removal.  Binding,     *)
(* Removing and Opening say what the operation under provisionMu has       *)
(* reached; a crash forgets them and leaves the rest.                      *)
(***************************************************************************)
EXTENDS RoomRegistry, FiniteSetTheorems, TLAPS

-----------------------------------------------------------------------------
(* The inductive invariant *)

Log == [bound : Claims, retired : SUBSET Claim, archived : BOOLEAN, broken : BOOLEAN]
Steps == {"idle", "index", "fact", "project", "release", "relive", "clean", "move", "unlist",
          "disclaim", "mark", "erase", "recover", "reserve"}
Operation == [pc : Steps, room : Rooms \cup {None}, next : Claims, prev : Claims, todo : SUBSET Rooms]

DiskTypes ==
  /\ at \in [Rooms -> Place] /\ log \in [Rooms -> Log] /\ box \in [Rooms -> Box \cup {None}]
  /\ ckpt \in Listing /\ safe \in Listing
  /\ claim \in [Sessions -> Claims] /\ remote \in [Remotes -> Sessions \cup {None}]
ServiceTypes ==
  /\ mem \in Listing /\ held \in [Rooms -> Claims] /\ retired \in SUBSET Claim
  /\ phase \in {"down", "boot", "up", "refused"} /\ poisoned \in BOOLEAN /\ op \in Operation

\* The claims that a Room's log ever named, and who they are of.
LogClaims(r) == (log[r].retired \cup {log[r].bound}) \ {None}
Owners ==
  /\ \A r \in Rooms : log[r].bound \notin log[r].retired /\ \A c \in LogClaims(r) : c.owner = r
  /\ \A r \in Rooms : held[r] # None => held[r].owner = r
  /\ \A c \in retired : c.owner \in Rooms /\ c \in log[c.owner].retired
  /\ \A r \in Rooms : box[r] # None => \A c \in box[r].claims : c.owner = r
  /\ \A s \in Sessions : claim[s] # None => claim[s].session = s

\* What a standing Room or a remote association uses is reserved for it.
Reservations ==
  /\ \A r \in Rooms : Stands(r) /\ log[r].bound # None =>
       LET c == claim[log[r].bound.session] IN c # None /\ c.owner = r /\ c \notin log[r].retired
  /\ \A x \in Remotes : remote[x] # None =>
       claim[remote[x]] = [owner |-> x, session |-> remote[x], bind |-> 0]

\* commitNativeBinding under way
Binding ==
  LET r == op.room IN
  op.pc \in {"fact", "project", "release"} =>
    /\ r \in Rooms /\ at[r] = "rooms" /\ mem[r] # None
    /\ op.next # None =>
         /\ op.next.owner = r /\ claim[op.next.session] = op.next
         /\ \A o \in Rooms \ {r} : mem[o] # None => mem[o].session # op.next.session
    /\ op.prev # None => op.prev.owner = r /\ claim[op.prev.session] \in {None, op.prev, op.next}
    /\ op.pc = "fact" => op.next = None \/ op.next \notin LogClaims(r)
    /\ op.pc # "fact" => log[r].bound = op.next

\* What is listed where.
Distinct(m) ==
  \A r, o \in Rooms : r # o /\ m[r] # None /\ m[o] # None /\ m[r].session = m[o].session => m[r].session = None
Listings ==
  /\ phase = "up" /\ ~poisoned => ckpt = mem /\ safe = mem
  /\ phase # "up" => ~poisoned /\ \A r \in Rooms : safe[r] # None => ckpt[r] # None
  /\ op.pc # "idle" => ~poisoned
  /\ phase = "boot" <=> op.pc \in {"recover", "reserve"}
  /\ phase \in {"down", "refused"} => op.pc = "idle" /\ mem = Blank
  /\ \A r \in Rooms : at[r] = "none" =>
       log[r] = EmptyLog /\ box[r] = None /\ ckpt[r] = None /\ safe[r] = None /\ mem[r] = None
  /\ \A r \in Rooms : mem[r] # None => at[r] = "rooms" \/ ~Unlisted(r)
  /\ Distinct(ckpt) /\ Distinct(safe) /\ Distinct(mem)

\* What is in a container.
Staged ==
  \A r \in Rooms :
    /\ at[r] \in {"box", "torn"} => box[r] # None
    /\ at[r] = "box" /\ ckpt[r] # None => ckpt[r].archived /\ safe[r] # None
    /\ at[r] = "box" /\ safe[r] # None => safe[r].archived
    /\ box[r] # None /\ at[r] = "rooms" => ckpt[r] # None /\ safe[r] # None
    /\ box[r] # None /\ box[r].committed => Unlisted(r) /\ at[r] # "rooms"
    /\ phase = "up" /\ ~poisoned /\ at[r] = "box" /\ mem[r] # None => op.pc = "unlist" /\ op.room = r

\* RemoveRoom and the cleanup under way
Recalled(r) == LogClaims(r) \subseteq KnownClaims(r, held, retired)
Freed(r) == \A c \in LogClaims(r) : claim[c.session] # c
Removing ==
  LET r == op.room IN
  /\ op.pc \in {"index", "relive"} => r \in Rooms /\ at[r] = "rooms"
  /\ op.pc = "relive" => mem[r] # None
  /\ op.pc = "clean" => /\ \A b \in op.todo : box[b] # None
                        /\ r # None => mem[r] # None /\ mem[r].archived
  /\ op.pc = "move" => /\ r \in Rooms /\ at[r] = "rooms" /\ box[r] # None /\ ~box[r].committed
                       /\ mem[r] # None /\ mem[r].archived
  /\ op.pc = "unlist" => /\ r \in Rooms /\ at[r] # "rooms" /\ mem[r] # None
                         /\ box[r] # None => ~box[r].committed
                         /\ at[r] = "box" => log[r].archived /\ Recalled(r)
  /\ op.pc \in {"disclaim", "mark", "erase"} => r \in Rooms /\ at[r] # "rooms" /\ Unlisted(r)
  /\ op.pc = "disclaim" /\ at[r] = "box" => log[r].archived /\ Recalled(r)
  /\ op.pc \in {"mark", "erase"} => box[r] # None /\ (at[r] = "box" => log[r].archived /\ Freed(r))

\* OpenRegistry under way
Opening ==
  /\ op.pc \in {"recover", "reserve"} =>
       \A r \in Rooms : ckpt[r] # None /\ ~ckpt[r].archived => at[r] = "rooms"
  /\ op.pc = "recover" =>
       /\ \A r \in op.todo : box[r] # None
       /\ \A r \in Rooms \ op.todo : at[r] = "box" => ckpt[r] = None
       /\ mem = Blank
  /\ op.pc = "reserve" =>
       /\ \A r \in Rooms : at[r] = "box" => ckpt[r] = None
       /\ \A r \in Rooms : mem[r] = Found(r) /\ (at[r] = "rooms" => held[r] = log[r].bound)
       /\ \A r \in op.todo : mem[r] # None /\ mem[r].session # None

\* Data that was removed, in part or whole.
Erased ==
  \A r \in Rooms : at[r] \in {"torn", "erased"} => Unlisted(r) /\ log[r].archived /\ Freed(r)

IInv ==
  /\ DiskTypes /\ ServiceTypes /\ Owners /\ Reservations /\ Binding /\ Listings /\ Staged
  /\ Removing /\ Opening /\ Erased /\ RefusalHasCause

-----------------------------------------------------------------------------
(* Steps that leave something alone *)

LEMMA NoOpIs ==
  /\ NoOp \in Operation /\ NoOp.pc = "idle" /\ NoOp.room = None /\ NoOp.next = None /\ NoOp.prev = None
  /\ NoOp.todo = {}
BY DEF NoOp, Operation, Steps, Claims

\* Goto moves the operation and leaves what it carries.
LEMMA GotoIs ==
  ASSUME op \in Operation, NEW pc \in Steps, Goto(pc)
  PROVE  /\ op' \in Operation /\ op'.pc = pc
         /\ pc # "idle" => op'.room = op.room /\ op'.next = op.next /\ op'.prev = op.prev /\ op'.todo = op.todo
<1>1. CASE pc = "idle"
  BY <1>1, NoOpIs DEF Goto
<1>2. CASE pc # "idle"
  BY <1>2 DEF Goto, Operation
<1> QED
  BY <1>1, <1>2

\* What a step keeps when it touches none of what the conjunct speaks of.
LEMMA OwnersStill ==
  ASSUME IInv, UNCHANGED <<log, box, held, retired, claim>>
  PROVE  Owners'
BY DEF IInv, Owners, LogClaims

LEMMA ReservationsStill ==
  ASSUME IInv, UNCHANGED <<log, claim, remote>>, \A r \in Rooms : Stands(r)' => Stands(r)
  PROVE  Reservations'
BY DEF IInv, Reservations

LEMMA ErasedStill ==
  ASSUME IInv, UNCHANGED <<log, claim>>,
         \A r \in Rooms : at'[r] \in {"torn", "erased"} => at[r] \in {"torn", "erased"} /\ (Unlisted(r) => Unlisted(r)')
  PROVE  Erased'
BY DEF IInv, Erased, Freed, LogClaims

\* What asks nothing of a step of another operation.
LEMMA Elsewhere ==
  /\ op'.pc \notin {"fact", "project", "release"} => Binding'
  /\ op'.pc \notin {"recover", "reserve"} => Opening'
  /\ op'.pc \in {"idle", "fact", "project", "release", "recover", "reserve"} => Removing'
  /\ phase' # "refused" => RefusalHasCause'
BY DEF Binding, Opening, Removing, RefusalHasCause

\* Only the operation moves.
LEMMA OpMoves ==
  ASSUME IInv, UNCHANGED <<disk, claim, remote, phase, projection>>, op' \in Operation,
         op.pc \notin {"recover", "reserve"}, op'.pc \notin {"recover", "reserve"},
         op'.pc # "idle" => ~poisoned /\ phase = "up",
         op.pc = "unlist" => op'.pc = "unlist" /\ op'.room = op.room,
         Binding', Removing'
  PROVE  IInv'
<1>1. UNCHANGED <<at, log, box, ckpt, safe, claim, remote, phase, mem, held, retired, poisoned>>
  BY DEF disk, projection
<1>2. DiskTypes' /\ ServiceTypes'
  BY <1>1 DEF IInv, DiskTypes, ServiceTypes
<1>3. \A r \in Rooms : (Stands(r)' <=> Stands(r)) /\ (Unlisted(r)' <=> Unlisted(r))
  BY <1>1 DEF Stands, Unlisted
<1>4. Owners' /\ Reservations' /\ Erased' /\ Opening'
  BY <1>1, <1>3, OwnersStill, ReservationsStill, ErasedStill, Elsewhere
<1>5. Listings'
  BY <1>1, <1>3 DEF IInv, Listings, Distinct
<1>6. Staged'
  BY <1>1, <1>3 DEF IInv, Staged
<1>7. RefusalHasCause'
  BY <1>1 DEF IInv, RefusalHasCause, TornRemoval, RepeatedFact, CutReplacement, RestoredInBox
<1> QED
  BY <1>2, <1>4, <1>5, <1>6, <1>7 DEF IInv

\* An entry of the cleanup is done with.
LEMMA ProcessedIs ==
  ASSUME op \in Operation, NEW b, Processed(b)
  PROVE  /\ op' \in Operation /\ op'.pc = op.pc /\ op'.room = op.room /\ op'.next = op.next /\ op'.prev = op.prev
         /\ op'.todo = op.todo \ {b}
BY DEF Processed, Operation

\* The beginnings of operations, and the end of the cleanup.
LEMMA StartsKeep ==
  ASSUME IInv, NEW r \in Rooms, Unbind(r) \/ Remove(r) \/ RetryCleanup \/ SkipBox(r) \/ CleanupDone
  PROVE  IInv'
<1>1. /\ op \in Operation /\ held[r] \in Claims /\ mem[r] \in Entry \cup {None}
      /\ UNCHANGED <<disk, claim, remote, phase, projection>>
  BY DEF IInv, ServiceTypes, Listing, Unbind, Remove, RetryCleanup, SkipBox, CleanupDone, Finish
<1>2. CASE Unbind(r)
  <2>1. /\ Idle /\ mem[r] # None /\ at[r] = "rooms" /\ MayCommit(held[r], None)
        /\ op' = [NoOp EXCEPT !.pc = "fact", !.room = r, !.prev = held[r]]
    BY <1>2 DEF Unbind
  <2>2. /\ op' \in Operation /\ op'.pc = "fact" /\ op'.room = r /\ op'.next = None /\ op'.prev = held[r]
    BY <1>1, <2>1 DEF NoOp, Operation, Steps, Claims
  <2>3. UNCHANGED <<at, log, mem, claim, poisoned, phase>> /\ op.pc = "idle" /\ ~poisoned /\ phase = "up"
    BY <1>1, <2>1 DEF disk, projection, Idle, At
  <2>4. Binding'
    BY <2>1, <2>2, <2>3 DEF Binding, MayCommit, IInv, Owners
  <2> QED
    BY <1>1, <2>2, <2>3, <2>4, Elsewhere, OpMoves
<1>3. CASE Remove(r)
  <2>1. /\ Idle /\ mem[r] # None /\ mem[r].archived
        /\ op' = [NoOp EXCEPT !.pc = "clean", !.room = r, !.todo = Boxes]
    BY <1>3 DEF Remove
  <2>2. /\ op' \in Operation /\ op'.pc = "clean" /\ op'.room = r /\ op'.todo = Boxes
    BY <1>1, <2>1 DEF NoOp, Operation, Steps, Claims, Boxes
  <2>3. UNCHANGED <<at, log, box, mem, claim, poisoned, phase>> /\ op.pc = "idle" /\ ~poisoned /\ phase = "up"
    BY <1>1, <2>1 DEF disk, projection, Idle, At
  <2>4. Removing'
    BY <2>1, <2>2, <2>3 DEF Removing, Boxes
  <2> QED
    BY <1>1, <2>2, <2>3, <2>4, Elsewhere, OpMoves
<1>4. CASE RetryCleanup
  <2>1. Idle /\ op' = [NoOp EXCEPT !.pc = "clean", !.todo = Boxes]
    BY <1>4 DEF RetryCleanup
  <2>2. /\ op' \in Operation /\ op'.pc = "clean" /\ op'.room = None /\ op'.todo = Boxes
    BY <1>1, <2>1 DEF NoOp, Operation, Steps, Claims, Boxes
  <2>3. op.pc = "idle" /\ ~poisoned /\ phase = "up" /\ UNCHANGED box
    BY <1>1, <2>1 DEF Idle, At, disk
  <2>4. Removing'
    BY <2>2, <2>3 DEF Removing, Boxes
  <2> QED
    BY <1>1, <2>2, <2>3, <2>4, Elsewhere, OpMoves
<1>5. CASE SkipBox(r)
  <2>1. /\ op' \in Operation /\ op'.pc = op.pc /\ op'.room = op.room /\ op.pc = "clean"
        /\ op'.todo \subseteq op.todo
    BY <1>1, <1>5, ProcessedIs DEF SkipBox, At
  <2>2. UNCHANGED <<at, log, box, mem, claim, poisoned, phase>> /\ ~poisoned /\ phase = "up"
    BY <1>1, <2>1 DEF disk, projection, IInv, Listings, ServiceTypes
  <2>3. Removing'
    BY <2>1, <2>2 DEF Removing, IInv
  <2> QED
    BY <1>1, <2>1, <2>2, <2>3, Elsewhere, OpMoves
<1>6. CASE CleanupDone
  <2>1. op' = NoOp /\ op.pc = "clean"
    BY <1>6 DEF CleanupDone, Finish, At
  <2> QED
    BY <1>1, <2>1, NoOpIs, Elsewhere, OpMoves
<1> QED
  BY <1>2, <1>3, <1>4, <1>5, <1>6

\* A Room that is published is in no listing, container or reservation yet.
LEMMA PublishKeeps ==
  ASSUME IInv, NEW r \in Rooms, Publish(r)
  PROVE  IInv'
<1>1. /\ op.pc = "idle" /\ phase = "up" /\ ~poisoned /\ at[r] = "none" /\ at' = [at EXCEPT ![r] = "rooms"]
      /\ op' = [NoOp EXCEPT !.pc = "index", !.room = r]
      /\ UNCHANGED <<log, box, ckpt, safe, claim, remote, phase, mem, held, retired, poisoned>>
  BY DEF Publish, Idle, At, projection
<1>2. /\ op' \in Operation /\ op'.pc = "index" /\ op'.room = r
  BY <1>1 DEF NoOp, Operation, Steps, Claims
<1>3. at' \in [Rooms -> Place] /\ \A o \in Rooms : at'[o] = IF o = r THEN "rooms" ELSE at[o]
  BY <1>1 DEF IInv, DiskTypes, Place
<1>4. DiskTypes' /\ ServiceTypes'
  BY <1>1, <1>2, <1>3 DEF IInv, DiskTypes, ServiceTypes
<1>5. log[r].bound = None /\ box[r] = None /\ mem[r] = None
  BY <1>1 DEF IInv, Listings, EmptyLog
<1>6. \A o \in Rooms : (Unlisted(o)' <=> Unlisted(o)) /\ (o # r => (Stands(o)' <=> Stands(o)))
  BY <1>1, <1>3 DEF Stands, Unlisted
<1>7. Owners' /\ Erased'
  BY <1>1, <1>3, <1>6, OwnersStill, ErasedStill
<1>8. Reservations'
  BY <1>1, <1>5, <1>6 DEF IInv, Reservations
<1>9. Binding' /\ Opening' /\ RefusalHasCause'
  BY <1>1, <1>2, Elsewhere
<1>10. Listings'
  BY <1>1, <1>2, <1>3, <1>6 DEF IInv, Listings, Distinct
<1>11. Staged'
  BY <1>1, <1>2, <1>3, <1>5, <1>6 DEF IInv, Staged
<1>12. Removing'
  BY <1>1, <1>2, <1>3 DEF Removing
<1> QED
  BY <1>4, <1>7, <1>8, <1>9, <1>10, <1>11, <1>12 DEF IInv

\* The checkpoint is written after a change to the entry of one Room that is there.
LEMMA Relisted ==
  ASSUME IInv, NEW m \in Listing, mem' = m, op.pc \in {"index", "project", "relive"}, m[op.room] # None,
         \A o \in Rooms \ {op.room} : m[o] = mem[o], Distinct(m),
         NEW then \in {"idle", "release"}, CheckpointOrPoison(m, then), then = "release" => op.pc = "project",
         UNCHANGED <<at, log, box, claim, remote, phase, held, retired>>
  PROVE  IInv'
<1>1. /\ op \in Operation /\ ~poisoned /\ phase = "up" /\ ckpt = mem /\ safe = mem /\ then \in Steps
      /\ phase' = "up" /\ poisoned \in BOOLEAN
  BY DEF IInv, Listings, ServiceTypes, Steps
<1>2. op.room \in Rooms /\ at[op.room] = "rooms"
  BY DEF IInv, Removing, Binding
<1>3. /\ op' \in Operation /\ op'.pc \in {"idle", then}
      /\ op'.pc = "release" => op'.room = op.room /\ op'.next = op.next /\ op'.prev = op.prev
      /\ poisoned' \in BOOLEAN /\ (poisoned' => op'.pc = "idle")
      /\ \/ ckpt' = m /\ safe' = m
         \/ ckpt' = ckpt /\ safe' = safe /\ poisoned'
         \/ ckpt' = m /\ safe' = safe /\ poisoned'
  <2>1. CASE Checkpointed(m) /\ UNCHANGED poisoned /\ Goto(then)
    <3>1. /\ op' \in Operation /\ op'.pc = then
          /\ then # "idle" => op'.room = op.room /\ op'.next = op.next /\ op'.prev = op.prev
      BY <1>1, <2>1, GotoIs
    <3> QED
      BY <1>1, <2>1, <3>1 DEF Checkpointed
  <2>2. CASE poisoned' = TRUE /\ Finish /\ (Unpublished \/ Unsynced(m))
    BY <2>2, NoOpIs DEF Finish, Unpublished, Unsynced
  <2> QED
    BY <2>1, <2>2 DEF CheckpointOrPoison
<1>4. DiskTypes' /\ ServiceTypes'
  <2>1. ckpt' \in Listing /\ safe' \in Listing
    BY <1>3 DEF IInv, DiskTypes
  <2>2. DiskTypes'
    BY <2>1 DEF IInv, DiskTypes
  <2>3. poisoned' \in BOOLEAN /\ op' \in Operation
    BY <1>3
  <2>4. ServiceTypes'
    BY <2>3 DEF IInv, ServiceTypes
  <2> QED
    BY <2>2, <2>4
<1>5. \A o \in Rooms : (o # op.room => (Unlisted(o)' <=> Unlisted(o))) /\ (Stands(o)' <=> Stands(o))
  BY <1>1, <1>2, <1>3 DEF Stands, Unlisted
<1>6. Owners' /\ Reservations'
  BY <1>5, OwnersStill, ReservationsStill
<1>7. Erased'
  BY <1>2, <1>5, ErasedStill
<1>8. Opening' /\ RefusalHasCause' /\ Removing'
  BY <1>1, <1>3, Elsewhere
<1>9. Binding'
  BY <1>2, <1>3 DEF IInv, Binding
<1>10. Listings'
  <2>1. Distinct(ckpt') /\ Distinct(safe') /\ Distinct(mem')
    BY <1>1, <1>3 DEF IInv, Listings
  <2>2. \A o \in Rooms : at'[o] = "none" =>
          log'[o] = EmptyLog /\ box'[o] = None /\ ckpt'[o] = None /\ safe'[o] = None /\ mem'[o] = None
    BY <1>1, <1>2, <1>3 DEF IInv, Listings
  <2>3. \A o \in Rooms : mem'[o] # None => at'[o] = "rooms" \/ ~Unlisted(o)'
    BY <1>1, <1>2, <1>5 DEF IInv, Listings
  <2>4. /\ phase' = "up" /\ ~poisoned' => ckpt' = mem' /\ safe' = mem'
        /\ op'.pc # "idle" => ~poisoned'
        /\ op'.pc \notin {"recover", "reserve"}
    BY <1>3
  <2> QED
    BY <1>1, <2>1, <2>2, <2>3, <2>4 DEF Listings, Distinct
<1>11. Staged'
  <2>1. \A o \in Rooms \ {op.room} : ckpt'[o] = ckpt[o] /\ safe'[o] = safe[o] /\ mem'[o] = mem[o]
    BY <1>1, <1>3
  <2>2. box[op.room] # None => ckpt'[op.room] # None /\ safe'[op.room] # None
    BY <1>1, <1>2, <1>3 DEF IInv, Staged
  <2>3. box[op.room] # None => ~box[op.room].committed
    BY <1>2 DEF IInv, Staged
  <2> QED
    BY <1>1, <1>2, <1>5, <2>1, <2>2, <2>3 DEF IInv, Staged
<1> QED
  BY <1>4, <1>6, <1>7, <1>8, <1>9, <1>10, <1>11 DEF IInv

\* The projections of a founded Room, a binding and a lifecycle fact.
LEMMA RelistersKeep ==
  ASSUME IInv, Index \/ ProjectBinding \/ Relive
  PROVE  IInv'
<1> DEFINE r == op.room
<1>1. /\ mem \in Listing /\ op \in Operation /\ Distinct(mem)
      /\ UNCHANGED <<at, log, box, claim, remote, phase, held, retired>>
  BY DEF IInv, ServiceTypes, Listings, Index, ProjectBinding, Relive
<1>2. CASE Index
  <2>1. PICK e \in Entry : e = [archived |-> FALSE, session |-> None]
    BY DEF Entry
  <2>2. op.pc = "index" /\ r \in Rooms
    BY <1>2 DEF Index, At, IInv, Removing
  <2>3. PICK m : m = [mem EXCEPT ![r] = e]
    OBVIOUS
  <2>4. mem' = m /\ CheckpointOrPoison(m, "idle")
    BY <1>2, <2>1, <2>3 DEF Index, EntryOf, EmptyLog, SessionIn
  <2>5. m \in Listing /\ m[r] = e /\ e # None /\ \A o \in Rooms \ {r} : m[o] = mem[o]
    BY <1>1, <2>2, <2>3, NoneIsNothing DEF Listing
  <2>6. Distinct(m)
    BY <1>1, <2>1, <2>5 DEF Distinct
  <2> QED
    BY <1>1, <2>2, <2>4, <2>5, <2>6, Relisted
<1>3. CASE ProjectBinding
  <2>1. op.pc = "project" /\ r \in Rooms /\ mem[r] # None /\ mem[r] \in Entry /\ op.next \in Claims
        /\ (op.next # None => \A o \in Rooms \ {r} : mem[o] # None => mem[o].session # op.next.session)
    BY <1>1, <1>3 DEF ProjectBinding, At, IInv, Binding, Listing, Operation
  <2>2. PICK s : s = SessionIn(op.next)
    OBVIOUS
  <2>3. s \in Sessions \cup {None}
    BY <2>1, <2>2 DEF SessionIn, Claims, Claim
  <2>4. PICK e : e = [mem[r] EXCEPT !.session = s]
    OBVIOUS
  <2>5. e \in Entry /\ e.session = s
    BY <2>1, <2>3, <2>4 DEF Entry
  <2>6. PICK m : m = [mem EXCEPT ![r] = e]
    OBVIOUS
  <2>7. mem' = m /\ CheckpointOrPoison(m, "release")
    BY <1>3, <2>2, <2>4, <2>6 DEF ProjectBinding
  <2>8. m \in Listing /\ m[r] = e /\ e # None /\ \A o \in Rooms \ {r} : m[o] = mem[o]
    BY <1>1, <2>1, <2>5, <2>6, NoneIsNothing DEF Listing
  <2>9. s # None => \A o \in Rooms \ {r} : m[o] # None => m[o].session # s
    BY <2>1, <2>2, <2>8 DEF SessionIn
  <2>10. Distinct(m)
    BY <1>1, <2>5, <2>8, <2>9 DEF Distinct
  <2> QED
    BY <1>1, <2>1, <2>7, <2>8, <2>10, Relisted
<1>4. CASE Relive
  <2>1. op.pc = "relive" /\ r \in Rooms /\ mem[r] # None /\ mem[r] \in Entry
    BY <1>1, <1>4 DEF Relive, At, IInv, Removing, Listing
  <2>2. PICK e : e = [mem[r] EXCEPT !.archived = ~mem[r].archived]
    OBVIOUS
  <2>3. e \in Entry /\ e.session = mem[r].session
    BY <2>1, <2>2 DEF Entry
  <2>4. PICK m : m = [mem EXCEPT ![r] = e]
    OBVIOUS
  <2>5. mem' = m /\ CheckpointOrPoison(m, "idle")
    BY <1>4, <2>2, <2>4 DEF Relive
  <2>6. m \in Listing /\ m[r] = e /\ e # None /\ \A o \in Rooms \ {r} : m[o] = mem[o]
    BY <1>1, <2>1, <2>3, <2>4, NoneIsNothing DEF Listing
  <2>7. Distinct(m)
    BY <1>1, <2>1, <2>3, <2>6 DEF Distinct
  <2> QED
    BY <1>1, <2>1, <2>5, <2>6, <2>7, Relisted
<1> QED
  BY <1>2, <1>3, <1>4

\* The session is free or the Room's own, and the claim is one no log ever named.
LEMMA BindKeeps ==
  ASSUME IInv, NEW r \in Rooms, NEW s \in Sessions, NEW b \in 1..MaxBinds, Bind(r, s, b)
  PROVE  IInv'
<1> PICK next : next = [owner |-> r, session |-> s, bind |-> b]
  OBVIOUS
<1>1. next \in Claim /\ next # None /\ next.owner = r /\ next.session = s /\ next.bind = b
  BY NoneIsNothing, RegistryAssumption DEF Claim
<1>2. /\ op.pc = "idle" /\ phase = "up" /\ ~poisoned /\ mem[r] # None /\ at[r] = "rooms" /\ b \notin UsedBinds
      /\ \A o \in Rooms \ {r} : mem[o] # None => mem[o].session # s
      /\ MayCommit(held[r], next) /\ claim' = Reserved(next)
      /\ op' = [NoOp EXCEPT !.pc = "fact", !.room = r, !.next = next, !.prev = held[r]]
      /\ UNCHANGED <<at, log, box, ckpt, safe, remote, phase, mem, held, retired, poisoned>>
  BY DEF Bind, Idle, At, disk, projection
<1>3. /\ held[r] \in Claims /\ log \in [Rooms -> Log] /\ claim \in [Sessions -> Claims]
      /\ held[r] # None => held[r].owner = r
      /\ \A c \in Claims : c # None => c.session \in Sessions
  BY DEF IInv, DiskTypes, ServiceTypes, Owners, Claims, Claim
<1>4. /\ op' \in Operation /\ op'.pc = "fact" /\ op'.room = r /\ op'.next = next /\ op'.prev = held[r]
  BY <1>1, <1>2, <1>3 DEF NoOp, Operation, Steps, Claims
<1>5. claim' = [claim EXCEPT ![s] = next]
  BY <1>1, <1>2 DEF Reserved
<1>6. claim' \in [Sessions -> Claims] /\ \A t \in Sessions : claim'[t] = IF t = s THEN next ELSE claim[t]
  BY <1>1, <1>3, <1>5 DEF Claims
<1>7. claim[s] # None => claim[s] = next \/ (claim[s] = held[r] /\ held[r] # None)
  BY <1>1, <1>2 DEF MayCommit
<1>8. next \notin LogClaims(r)
  <2>1. ASSUME NEW c \in LogClaims(r)
        PROVE  c.bind \in UsedBinds
    <3>1. c \in (UNION {log[o].retired \cup {log[o].bound} : o \in Rooms}) \ {None}
      <4>1. PICK S : S = log[r].retired \cup {log[r].bound}
        OBVIOUS
      <4>2. S \in {log[o].retired \cup {log[o].bound} : o \in Rooms}
        BY <4>1
      <4>3. c \in S /\ c # None
        BY <4>1 DEF LogClaims
      <4>4. c \in UNION {log[o].retired \cup {log[o].bound} : o \in Rooms}
        BY <4>2, <4>3
      <4> QED
        BY <4>3, <4>4
    <3>2. c.bind \in {d.bind : d \in (UNION {log[o].retired \cup {log[o].bound} : o \in Rooms}) \ {None}}
      BY <3>1
    <3> QED
      BY <3>2 DEF UsedBinds
  <2> QED
    BY <1>1, <1>2, <2>1
<1>9. DiskTypes' /\ ServiceTypes'
  BY <1>2, <1>4, <1>6 DEF IInv, DiskTypes, ServiceTypes
<1>10. \A o \in Rooms : (Unlisted(o)' <=> Unlisted(o)) /\ (Stands(o)' <=> Stands(o))
  BY <1>2 DEF Stands, Unlisted
<1>11. Owners'
  BY <1>1, <1>2, <1>6 DEF IInv, Owners, LogClaims
<1>12. Reservations'
  <2>1. ASSUME NEW o \in Rooms, Stands(o), log[o].bound # None
        PROVE  LET c == claim'[log[o].bound.session] IN c # None /\ c.owner = o /\ c \notin log[o].retired
    <3>1. LET c == claim[log[o].bound.session] IN c # None /\ c.owner = o /\ c \notin log[o].retired
      BY <2>1 DEF IInv, Reservations
    <3>2. log[o].bound \in Claims /\ log[o].bound.session \in Sessions
      BY <1>3, <2>1 DEF Log
    <3>3. CASE log[o].bound.session = s
      <4>1. o = r
        BY <1>1, <1>3, <1>7, <3>1, <3>3
      <4> QED
        BY <1>1, <1>3, <1>6, <1>8, <3>3, <4>1 DEF LogClaims
    <3>4. CASE log[o].bound.session # s
      BY <1>6, <3>1, <3>2, <3>4
    <3> QED
      BY <3>3, <3>4
  <2>2. ASSUME NEW x \in Remotes, remote[x] # None
        PROVE  claim'[remote[x]] = [owner |-> x, session |-> remote[x], bind |-> 0]
    <3>1. claim[remote[x]] = [owner |-> x, session |-> remote[x], bind |-> 0] /\ remote[x] \in Sessions
      BY <2>2 DEF IInv, Reservations, DiskTypes
    <3>2. claim[remote[x]].owner = x /\ claim[remote[x]] \in Claims /\ x # r
      BY <1>3, <3>1, RegistryAssumption
    <3>3. [owner |-> x, session |-> remote[x], bind |-> 0] \in Claim
      BY <3>1, RegistryAssumption DEF Claim
    <3>4. remote[x] # s
      BY <1>1, <1>3, <1>7, <3>1, <3>2, <3>3, NoneIsNothing
    <3> QED
      BY <1>6, <3>1, <3>4
  <2> QED
    BY <1>2, <1>10, <2>1, <2>2 DEF Reservations
<1>13. Binding'
  <2>1. held[r] # None => claim'[held[r].session] \in {None, held[r], next}
    BY <1>2, <1>3, <1>6 DEF MayCommit
  <2> QED
    BY <1>1, <1>2, <1>3, <1>4, <1>6, <1>8, <2>1 DEF Binding, LogClaims
<1>14. Opening' /\ RefusalHasCause' /\ Removing'
  BY <1>2, <1>4, Elsewhere
<1>15. Listings'
  BY <1>2, <1>4, <1>10 DEF IInv, Listings, Distinct
<1>16. Staged'
  BY <1>2, <1>4, <1>10 DEF IInv, Staged
<1>17. Erased'
  <2>1. ASSUME NEW o \in Rooms, at[o] \in {"torn", "erased"}, NEW c \in LogClaims(o)
        PROVE  claim'[c.session] # c
    <3>1. claim[c.session] # c /\ c.owner = o /\ o # r
      BY <1>2, <2>1 DEF IInv, Erased, Freed, Owners
    <3>2. c \in Claims /\ c.session \in Sessions
      BY <1>3 DEF LogClaims, Log, Claims
    <3> QED
      BY <1>1, <1>6, <3>1, <3>2
  <2> QED
    BY <1>2, <1>10, <2>1 DEF IInv, Erased, Freed, LogClaims
<1> QED
  BY <1>9, <1>11, <1>12, <1>13, <1>14, <1>15, <1>16, <1>17 DEF IInv

\* A claim that a log names is of its Room.
LEMMA LogClaimsAre ==
  ASSUME IInv, NEW r \in Rooms, NEW c \in LogClaims(r)
  PROVE  c \in Claim /\ c # None /\ c.owner = r /\ c.session \in Sessions
<1>1. log[r] \in Log /\ c # None /\ c.owner = r
  BY DEF IInv, DiskTypes, Owners, LogClaims
<1>2. c \in Claim
  BY <1>1 DEF LogClaims, Log, Claims
<1> QED
  BY <1>1, <1>2 DEF Claim

\* Releasing claims frees more.
LEMMA ErasedShrinks ==
  ASSUME IInv, UNCHANGED log, \A s \in Sessions : claim'[s] \in {claim[s], None}, NEW r \in Rooms, Freed(r)
  PROVE  Freed(r)'
<1> SUFFICES ASSUME NEW c \in LogClaims(r)
             PROVE  claim'[c.session] # c
  BY DEF Freed, LogClaims
<1> QED
  BY LogClaimsAre DEF Freed

\* The fact names what is reserved; the claim it replaces becomes a retired one.
LEMMA AppendBindingKeeps ==
  ASSUME IInv, AppendBinding
  PROVE  IInv'
<1> DEFINE r == op.room
<1>1. /\ op.pc = "fact" /\ r \in Rooms /\ at[r] = "rooms" /\ op \in Operation /\ phase = "up" /\ ~poisoned
      /\ log \in [Rooms -> Log] /\ op.next \in Claims
      /\ UNCHANGED <<at, box, ckpt, safe, claim, remote, phase, mem, held, retired, poisoned>>
  BY DEF AppendBinding, At, IInv, Binding, Listings, DiskTypes, ServiceTypes, Operation, projection
<1>2. CASE UNCHANGED log /\ Finish
  BY <1>1, <1>2, NoOpIs, Elsewhere, OpMoves DEF Finish, disk, projection
<1>3. CASE log' = [log EXCEPT ![r] = Rebound(log[r], op.next)] /\ (Goto("project") \/ Finish)
  <2>1. PICK l : l = Rebound(log[r], op.next)
    OBVIOUS
  <2>2. l \in Log /\ l.bound = op.next /\ l.retired = log[r].retired \cup ({log[r].bound} \ {None})
    BY <1>1, <2>1 DEF Rebound, Log, Claims
  <2>3. log' \in [Rooms -> Log] /\ log'[r] = l /\ \A o \in Rooms \ {r} : log'[o] = log[o]
    BY <1>1, <1>3, <2>1, <2>2
  <2>4. /\ op' \in Operation /\ op'.pc \in {"idle", "project"}
        /\ op'.pc = "project" => op'.room = r /\ op'.next = op.next /\ op'.prev = op.prev
    <3>1. "project" \in Steps
      BY DEF Steps
    <3> QED
      BY <1>1, <1>3, <3>1, NoOpIs, GotoIs DEF Finish
  <2>5. /\ op.next # None => op.next.owner = r /\ claim[op.next.session] = op.next /\ op.next \notin LogClaims(r)
        /\ None \notin log[r].retired /\ log[r].bound \notin log[r].retired
    BY <1>1, NoneIsNothing DEF IInv, Binding, Owners, Log
  <2>6. DiskTypes' /\ ServiceTypes'
    BY <1>1, <2>3, <2>4 DEF IInv, DiskTypes, ServiceTypes
  <2>7. \A o \in Rooms : (Unlisted(o)' <=> Unlisted(o)) /\ (Stands(o)' <=> Stands(o))
    BY <1>1 DEF Stands, Unlisted
  <2>8. Owners'
    <3>1. l.bound \notin l.retired
      BY <2>2, <2>5 DEF LogClaims
    <3>2. \A c \in (l.retired \cup {l.bound}) \ {None} : c.owner = r
      BY <1>1, <2>2, <2>5 DEF LogClaims, IInv, Owners
    <3>3. \A o \in Rooms : log'[o].bound \notin log'[o].retired
                          /\ \A c \in (log'[o].retired \cup {log'[o].bound}) \ {None} : c.owner = o
      BY <2>3, <3>1, <3>2 DEF LogClaims, IInv, Owners
    <3>4. \A c \in retired : c.owner \in Rooms /\ c \in log'[c.owner].retired
      BY <2>2, <2>3 DEF IInv, Owners
    <3> QED
      BY <1>1, <3>3, <3>4 DEF Owners, LogClaims, IInv
  <2>9. Reservations'
    <3>1. op.next # None => LET c == claim[op.next.session] IN c # None /\ c.owner = r /\ c \notin l.retired
      BY <2>2, <2>5 DEF LogClaims
    <3> QED
      BY <1>1, <2>2, <2>3, <2>7, <3>1 DEF IInv, Reservations
  <2>10. Binding'
    BY <1>1, <2>2, <2>3, <2>4 DEF IInv, Binding
  <2>11. Opening' /\ RefusalHasCause' /\ Removing'
    BY <1>1, <2>4, Elsewhere
  <2>12. Listings'
    BY <1>1, <2>3, <2>4, <2>7 DEF IInv, Listings, Distinct
  <2>13. Staged'
    BY <1>1, <2>4, <2>7 DEF IInv, Staged
  <2>14. Erased'
    BY <1>1, <2>3, <2>7 DEF IInv, Erased, Freed, LogClaims
  <2> QED
    BY <2>6, <2>8, <2>9, <2>10, <2>11, <2>12, <2>13, <2>14 DEF IInv
<1> QED
  BY <1>2, <1>3 DEF AppendBinding

\* A lifecycle fact changes nothing that reservations rest on.
LEMMA AppendLifecycleKeeps ==
  ASSUME IInv, NEW r \in Rooms, AppendLifecycle(r)
  PROVE  IInv'
<1>1. /\ op.pc = "idle" /\ phase = "up" /\ ~poisoned /\ mem[r] # None /\ at[r] = "rooms"
      /\ log' = [log EXCEPT ![r] = Relived(@, ~mem[r].archived)]
      /\ op' = [NoOp EXCEPT !.pc = "relive", !.room = r] \/ op' = NoOp
      /\ log \in [Rooms -> Log] /\ mem[r] \in Entry
      /\ UNCHANGED <<at, box, ckpt, safe, claim, remote, phase, mem, held, retired, poisoned>>
  BY DEF AppendLifecycle, Idle, At, Finish, projection, IInv, DiskTypes, ServiceTypes, Listing
<1>2. PICK a \in BOOLEAN : a = ~mem[r].archived
  OBVIOUS
<1>3. PICK l : l = Relived(log[r], a)
  OBVIOUS
<1>4. l \in Log /\ l.bound = log[r].bound /\ l.retired = log[r].retired
  BY <1>1, <1>2, <1>3 DEF Relived, Log
<1>5. /\ log' \in [Rooms -> Log] /\ log'[r] = l /\ \A o \in Rooms \ {r} : log'[o] = log[o]
      /\ \A o \in Rooms : log'[o].bound = log[o].bound /\ log'[o].retired = log[o].retired
  BY <1>1, <1>2, <1>3, <1>4
<1>6. op' \in Operation /\ op'.pc \in {"idle", "relive"} /\ (op'.pc = "relive" => op'.room = r)
  <2>1. CASE op' = NoOp
    BY <2>1, NoOpIs
  <2>2. CASE op' = [NoOp EXCEPT !.pc = "relive", !.room = r]
    BY <2>2 DEF NoOp, Operation, Steps, Claims
  <2> QED
    BY <1>1, <2>1, <2>2
<1>7. DiskTypes' /\ ServiceTypes'
  BY <1>1, <1>5, <1>6 DEF IInv, DiskTypes, ServiceTypes
<1>8. \A o \in Rooms : (Unlisted(o)' <=> Unlisted(o)) /\ (Stands(o)' <=> Stands(o))
  BY <1>1 DEF Stands, Unlisted
<1>9. Owners'
  BY <1>1, <1>5 DEF IInv, Owners, LogClaims
<1>10. Reservations'
  BY <1>1, <1>5, <1>8 DEF IInv, Reservations
<1>11. Binding' /\ Opening' /\ RefusalHasCause'
  BY <1>1, <1>6, Elsewhere
<1>12. Listings'
  BY <1>1, <1>5, <1>6, <1>8 DEF IInv, Listings, Distinct
<1>13. Staged'
  BY <1>1, <1>6, <1>8 DEF IInv, Staged
<1>14. Removing'
  BY <1>1, <1>6 DEF Removing
<1>15. Erased'
  BY <1>1, <1>5, <1>8 DEF IInv, Erased, Freed, LogClaims
<1> QED
  BY <1>7, <1>9, <1>10, <1>11, <1>12, <1>13, <1>14, <1>15 DEF IInv

\* The old session is released only where the log has moved to another.
LEMMA ReleasePreviousKeeps ==
  ASSUME IInv, ReleasePrevious
  PROVE  IInv'
<1> DEFINE r == op.room
<1>1. /\ op.pc = "release" /\ r \in Rooms /\ at[r] = "rooms" /\ op \in Operation /\ phase = "up" /\ ~poisoned
      /\ log \in [Rooms -> Log] /\ op.next \in Claims /\ op.prev \in Claims /\ op' = NoOp
      /\ UNCHANGED <<at, log, box, ckpt, safe, remote, phase, mem, retired, poisoned>>
  BY DEF ReleasePrevious, At, IInv, Binding, Listings, DiskTypes, ServiceTypes, Operation, disk, Finish
<1>2. CASE UNCHANGED <<claim, held>>
  BY <1>1, <1>2, NoOpIs, Elsewhere, OpMoves DEF disk, projection
<1>3. CASE /\ claim' = IF op.prev = None \/ SessionIn(op.prev) = SessionIn(op.next) THEN claim
                       ELSE [claim EXCEPT ![op.prev.session] = None]
           /\ held' = [held EXCEPT ![r] = op.next]
  <2>1. /\ op.next # None => op.next.owner = r /\ claim[op.next.session] = op.next
        /\ op.prev # None => op.prev.owner = r /\ claim[op.prev.session] \in {None, op.prev, op.next}
        /\ log[r].bound = op.next /\ claim \in [Sessions -> Claims] /\ held \in [Rooms -> Claims]
    BY <1>1 DEF IInv, Binding, DiskTypes, ServiceTypes
  <2>2. PICK p : p = op.prev
    OBVIOUS
  <2>3. PICK n : n = op.next
    OBVIOUS
  <2>4. DEFINE moves == p # None /\ ~(SessionIn(p) = SessionIn(n))
  <2>5. p # None => p.session \in Sessions
    BY <1>1, <2>2 DEF Claims, Claim
  <2>6. /\ claim' \in [Sessions -> Claims]
        /\ \A s \in Sessions : claim'[s] = IF moves /\ s = p.session THEN None ELSE claim[s]
    <3>1. CASE moves
      BY <1>3, <2>1, <2>2, <2>3, <2>5, <3>1 DEF Claims
    <3>2. CASE ~moves
      BY <1>3, <2>1, <2>2, <2>3, <3>2
    <3> QED
      BY <3>1, <3>2
  <2>7. held' \in [Rooms -> Claims] /\ held'[r] = n /\ \A o \in Rooms \ {r} : held'[o] = held[o]
    BY <1>1, <1>3, <2>1, <2>3
  <2>8. moves => claim[p.session] \in {None, p} /\ (n # None => n.session # p.session)
    <3> SUFFICES ASSUME moves
                 PROVE  claim[p.session] \in {None, p} /\ (n # None => n.session # p.session)
      OBVIOUS
    <3>1. n # None => n.session # p.session
      BY DEF SessionIn
    <3>2. claim[p.session] # None => claim[p.session].session = p.session
      BY <2>5 DEF IInv, Owners
    <3> QED
      BY <2>1, <2>2, <2>3, <3>1, <3>2
  <2>9. DiskTypes' /\ ServiceTypes'
    BY <1>1, <2>6, <2>7, NoOpIs DEF IInv, DiskTypes, ServiceTypes
  <2>10. \A o \in Rooms : (Unlisted(o)' <=> Unlisted(o)) /\ (Stands(o)' <=> Stands(o))
    BY <1>1 DEF Stands, Unlisted
  <2>11. Owners'
    <3>1. \A s \in Sessions : claim'[s] # None => claim'[s].session = s
      BY <2>6 DEF IInv, Owners
    <3>2. \A o \in Rooms : held'[o] # None => held'[o].owner = o
      BY <2>1, <2>3, <2>7 DEF IInv, Owners
    <3> QED
      BY <1>1, <3>1, <3>2 DEF IInv, Owners, LogClaims
  <2>12. Reservations'
    <3>1. ASSUME NEW o \in Rooms, Stands(o), log[o].bound # None
          PROVE  claim'[log[o].bound.session] = claim[log[o].bound.session]
      <4>1. log[o].bound.session \in Sessions
        BY <1>1, <3>1 DEF Log, Claims, Claim
      <4>2. LET c == claim[log[o].bound.session] IN c # None /\ c.owner = o
        BY <3>1 DEF IInv, Reservations
      <4>3. ASSUME moves, log[o].bound.session = p.session
            PROVE  FALSE
        <5>1. claim[p.session] = p /\ o = r
          BY <2>1, <2>2, <2>8, <4>2, <4>3
        <5>2. n # None /\ n.session = p.session
          BY <2>1, <2>3, <3>1, <4>3, <5>1
        <5> QED
          BY <2>8, <4>3, <5>2
      <4> QED
        BY <2>6, <4>1, <4>3
    <3>2. ASSUME NEW x \in Remotes, remote[x] # None
          PROVE  claim'[remote[x]] = claim[remote[x]]
      <4>1. claim[remote[x]] = [owner |-> x, session |-> remote[x], bind |-> 0] /\ remote[x] \in Sessions
        BY <3>2 DEF IInv, Reservations, DiskTypes
      <4>2. claim[remote[x]].owner = x /\ x # r /\ claim[remote[x]] \in Claim
        BY <1>1, <4>1, RegistryAssumption DEF Claim
      <4> QED
        BY <2>1, <2>2, <2>6, <2>8, <4>1, <4>2, NoneIsNothing
    <3> QED
      BY <1>1, <2>10, <3>1, <3>2 DEF IInv, Reservations
  <2>13. Binding' /\ Opening' /\ RefusalHasCause' /\ Removing'
    BY <1>1, NoOpIs, Elsewhere
  <2>14. Listings'
    BY <1>1, <2>10, NoOpIs DEF IInv, Listings, Distinct
  <2>15. Staged'
    BY <1>1, <2>10, NoOpIs DEF IInv, Staged
  <2>16. \A o \in Rooms : Freed(o) => Freed(o)'
    BY <1>1, <2>6, ErasedShrinks
  <2>17. Erased'
    BY <1>1, <2>10, <2>16 DEF IInv, Erased
  <2> QED
    BY <2>9, <2>11, <2>12, <2>13, <2>14, <2>15, <2>17 DEF IInv
<1> QED
  BY <1>2, <1>3 DEF ReleasePrevious

\* A Room whose data someone else removed needs no reservation any more.
LEMMA LoseDataKeeps ==
  ASSUME IInv, NEW r \in Rooms, LoseData(r)
  PROVE  IInv'
<1>1. /\ op.pc = "idle" /\ at[r] = "rooms" /\ ckpt[r] # None /\ at' = [at EXCEPT ![r] = "lost"]
      /\ UNCHANGED <<log, box, ckpt, safe, claim, remote, phase, mem, held, retired, poisoned, op>>
  BY DEF LoseData, At, projection
<1>2. at' \in [Rooms -> Place] /\ \A o \in Rooms : at'[o] = IF o = r THEN "lost" ELSE at[o]
  BY <1>1 DEF IInv, DiskTypes, Place
<1>3. DiskTypes' /\ ServiceTypes'
  BY <1>1, <1>2 DEF IInv, DiskTypes, ServiceTypes
<1>4. \A o \in Rooms : (Unlisted(o)' <=> Unlisted(o)) /\ (Stands(o)' => Stands(o))
  BY <1>1, <1>2 DEF Stands, Unlisted
<1>5. Owners' /\ Reservations' /\ Erased'
  BY <1>1, <1>2, <1>4, OwnersStill, ReservationsStill, ErasedStill
<1>6. Binding' /\ Opening' /\ Removing'
  BY <1>1, Elsewhere
<1>7. RefusalHasCause'
  BY <1>2 DEF RefusalHasCause
<1>8. Listings'
  <2>1. \A o \in Rooms : mem'[o] # None => at'[o] = "rooms" \/ ~Unlisted(o)'
    BY <1>1, <1>2, <1>4 DEF IInv, Listings, Unlisted
  <2>2. \A o \in Rooms : at'[o] = "none" => at[o] = "none"
    BY <1>2
  <2> QED
    BY <1>1, <2>1, <2>2 DEF IInv, Listings, Distinct
<1>9. Staged'
  BY <1>1, <1>2, <1>4 DEF IInv, Staged
<1> QED
  BY <1>3, <1>5, <1>6, <1>7, <1>8, <1>9 DEF IInv

\* A remote process takes a free session that no commit has locked.
LEMMA RemoteBindKeeps ==
  ASSUME IInv, NEW x \in Remotes, NEW s \in Sessions, RemoteBind(x, s)
  PROVE  IInv'
<1> PICK c : c = [owner |-> x, session |-> s, bind |-> 0]
  OBVIOUS
<1>1. c \in Claim /\ c # None /\ c.owner = x /\ c.session = s /\ x \notin Rooms
  BY NoneIsNothing, RegistryAssumption DEF Claim
<1>2. /\ remote[x] = None /\ s \notin Locked /\ claim[s] = None
      /\ claim' = [claim EXCEPT ![s] = c] /\ remote' = [remote EXCEPT ![x] = s]
      /\ UNCHANGED <<at, log, box, ckpt, safe, phase, mem, held, retired, poisoned, op>>
  BY DEF RemoteBind, disk, projection
<1>3. /\ claim' \in [Sessions -> Claims] /\ \A t \in Sessions : claim'[t] = IF t = s THEN c ELSE claim[t]
  BY <1>1, <1>2 DEF IInv, DiskTypes, Claims
<1>4. remote' \in [Remotes -> Sessions \cup {None}] /\ \A y \in Remotes : remote'[y] = IF y = x THEN s ELSE remote[y]
  BY <1>2 DEF IInv, DiskTypes
<1>5. DiskTypes' /\ ServiceTypes'
  BY <1>2, <1>3, <1>4 DEF IInv, DiskTypes, ServiceTypes
<1>6. \A o \in Rooms : (Unlisted(o)' <=> Unlisted(o)) /\ (Stands(o)' <=> Stands(o))
  BY <1>2 DEF Stands, Unlisted
<1>7. Owners'
  <2>1. \A t \in Sessions : claim'[t] # None => claim'[t].session = t
    BY <1>1, <1>3 DEF IInv, Owners
  <2> QED
    BY <1>2, <2>1 DEF IInv, Owners, LogClaims
<1>8. Reservations'
  <2>1. ASSUME NEW o \in Rooms, Stands(o), log[o].bound # None
        PROVE  claim'[log[o].bound.session] = claim[log[o].bound.session]
    <3>1. log[o].bound.session \in Sessions /\ claim[log[o].bound.session] # None
      BY <2>1 DEF IInv, Reservations, DiskTypes, Log, Claims, Claim
    <3> QED
      BY <1>2, <1>3, <3>1
  <2>2. ASSUME NEW y \in Remotes, remote'[y] # None
        PROVE  claim'[remote'[y]] = [owner |-> y, session |-> remote'[y], bind |-> 0]
    <3>1. CASE y = x
      BY <1>3, <1>4, <3>1
    <3>2. CASE y # x
      <4>1. /\ remote'[y] = remote[y] /\ remote[y] \in Sessions
            /\ claim[remote[y]] = [owner |-> y, session |-> remote[y], bind |-> 0]
        BY <1>4, <2>2, <3>2 DEF IInv, Reservations, DiskTypes
      <4>2. claim[remote[y]] \in Claim
        BY <4>1, RegistryAssumption DEF Claim
      <4> QED
        BY <1>2, <1>3, <4>1, <4>2, NoneIsNothing
    <3> QED
      BY <3>1, <3>2
  <2> QED
    BY <1>2, <1>6, <2>1, <2>2 DEF IInv, Reservations
<1>9. Binding'
  <2> SUFFICES ASSUME op.pc \in {"fact", "project", "release"}
               PROVE  Binding'
    BY <1>2 DEF Binding
  <2>1. op.next \in Claims /\ op.prev \in Claims
    BY DEF IInv, ServiceTypes, Operation
  <2>2. op.next # None => op.next.session \in Sessions /\ op.next.session # s
    BY <1>2, <2>1 DEF Locked, SessionIn, Claims, Claim
  <2>3. op.prev # None => op.prev.session \in Sessions /\ op.prev.session # s
    BY <1>2, <2>1 DEF Locked, SessionIn, Claims, Claim
  <2> QED
    BY <1>2, <1>3, <2>2, <2>3 DEF IInv, Binding, LogClaims
<1>10. \A o \in Rooms : Freed(o) => Freed(o)'
  <2> SUFFICES ASSUME NEW o \in Rooms, Freed(o), NEW d \in LogClaims(o)
               PROVE  claim'[d.session] # d
    BY <1>2 DEF Freed, LogClaims
  <2> QED
    BY <1>1, <1>3, LogClaimsAre DEF Freed
<1>11. Erased'
  BY <1>2, <1>6, <1>10 DEF IInv, Erased
<1>12. Removing'
  BY <1>2, <1>6, <1>10 DEF IInv, Removing, Recalled, LogClaims, KnownClaims
<1>13. Opening'
  BY <1>2 DEF IInv, Opening, Found
<1>14. Listings' /\ Staged'
  BY <1>2, <1>6 DEF IInv, Listings, Distinct, Staged
<1>15. RefusalHasCause'
  <2>1. \A o \in Rooms : CutReplacement(o) => CutReplacement(o)'
    BY <1>2, <1>3 DEF CutReplacement
  <2> QED
    BY <1>2, <2>1 DEF IInv, RefusalHasCause, TornRemoval, RepeatedFact, RestoredInBox
<1> QED
  BY <1>5, <1>7, <1>8, <1>9, <1>11, <1>12, <1>13, <1>14, <1>15 DEF IInv

\* It releases only its own.
LEMMA RemoteLeaveKeeps ==
  ASSUME IInv, NEW x \in Remotes, RemoteLeave(x)
  PROVE  IInv'
<1> PICK c : c = [owner |-> x, session |-> remote[x], bind |-> 0]
  OBVIOUS
<1>1. /\ remote[x] # None /\ claim' = Released({c}) /\ remote' = [remote EXCEPT ![x] = None]
      /\ UNCHANGED <<at, log, box, ckpt, safe, phase, mem, held, retired, poisoned, op>>
  BY DEF RemoteLeave, disk, projection
<1>2. c \in Claim /\ c # None /\ c.owner = x /\ x \notin Rooms
  <2>1. remote[x] \in Sessions
    BY <1>1 DEF IInv, DiskTypes
  <2> QED
    BY <2>1, NoneIsNothing, RegistryAssumption DEF Claim
<1>3. /\ claim' \in [Sessions -> Claims] /\ \A t \in Sessions : claim'[t] = IF claim[t] = c THEN None ELSE claim[t]
  BY <1>1 DEF IInv, DiskTypes, Claims, Released
<1>4. remote' \in [Remotes -> Sessions \cup {None}] /\ \A y \in Remotes : remote'[y] = IF y = x THEN None ELSE remote[y]
  BY <1>1 DEF IInv, DiskTypes
<1>5. DiskTypes' /\ ServiceTypes'
  BY <1>1, <1>3, <1>4 DEF IInv, DiskTypes, ServiceTypes
<1>6. \A o \in Rooms : (Unlisted(o)' <=> Unlisted(o)) /\ (Stands(o)' <=> Stands(o))
  BY <1>1 DEF Stands, Unlisted
<1>7. Owners'
  <2>1. \A t \in Sessions : claim'[t] # None => claim'[t].session = t
    BY <1>3 DEF IInv, Owners
  <2> QED
    BY <1>1, <2>1 DEF IInv, Owners, LogClaims
<1>8. Reservations'
  <2>1. ASSUME NEW o \in Rooms, Stands(o), log[o].bound # None
        PROVE  claim'[log[o].bound.session] = claim[log[o].bound.session]
    <3>1. log[o].bound.session \in Sessions /\ claim[log[o].bound.session].owner = o
      BY <2>1 DEF IInv, Reservations, DiskTypes, Log, Claims, Claim
    <3> QED
      BY <1>2, <1>3, <3>1
  <2>2. ASSUME NEW y \in Remotes, remote'[y] # None
        PROVE  claim'[remote'[y]] = [owner |-> y, session |-> remote'[y], bind |-> 0]
    <3>1. /\ remote'[y] = remote[y] /\ remote[y] \in Sessions /\ y # x
          /\ claim[remote[y]] = [owner |-> y, session |-> remote[y], bind |-> 0]
      BY <1>4, <2>2 DEF IInv, Reservations, DiskTypes
    <3> QED
      BY <1>2, <1>3, <3>1
  <2> QED
    BY <1>1, <1>6, <2>1, <2>2 DEF IInv, Reservations
<1>9. Binding'
  <2> SUFFICES ASSUME op.pc \in {"fact", "project", "release"}
               PROVE  Binding'
    BY <1>1 DEF Binding
  <2>1. /\ op.next \in Claims /\ op.prev \in Claims /\ op.room \in Rooms
        /\ op.next # None => op.next.session \in Sessions /\ op.next.owner = op.room
        /\ op.prev # None => op.prev.session \in Sessions
    BY DEF IInv, ServiceTypes, Operation, Binding, Claims, Claim
  <2>2. op.next # None => claim[op.next.session] = op.next /\ claim'[op.next.session] = op.next
    BY <1>2, <1>3, <2>1 DEF IInv, Binding
  <2>3. op.prev # None => claim'[op.prev.session] \in {None, op.prev, op.next}
    BY <1>3, <2>1 DEF IInv, Binding
  <2> QED
    BY <1>1, <2>2, <2>3 DEF IInv, Binding, LogClaims
<1>10. \A o \in Rooms : Freed(o) => Freed(o)'
  BY <1>1, <1>3, ErasedShrinks
<1>11. Erased'
  BY <1>1, <1>6, <1>10 DEF IInv, Erased
<1>12. Removing'
  BY <1>1, <1>6, <1>10 DEF IInv, Removing, Recalled, LogClaims, KnownClaims
<1>13. Opening'
  BY <1>1 DEF IInv, Opening, Found
<1>14. Listings' /\ Staged'
  BY <1>1, <1>6 DEF IInv, Listings, Distinct, Staged
<1>15. RefusalHasCause'
  <2>1. \A o \in Rooms : CutReplacement(o) => CutReplacement(o)'
    BY <1>1, <1>2, <1>3 DEF CutReplacement
  <2> QED
    BY <1>1, <2>1 DEF IInv, RefusalHasCause, TornRemoval, RepeatedFact, RestoredInBox
<1> QED
  BY <1>5, <1>7, <1>8, <1>9, <1>11, <1>12, <1>13, <1>14, <1>15 DEF IInv

-----------------------------------------------------------------------------
(* RemoveRoom and the cleanup *)

\* What the removal of a container can leave of it.
ErasedFrom(r) ==
  /\ at' \in [Rooms -> Place] /\ box' \in [Rooms -> Box \cup {None}]
  /\ \A o \in Rooms \ {r} : at'[o] = at[o] /\ box'[o] = box[o]
  /\ at'[r] = at[r] \/ (at[r] = "box" /\ at'[r] \in {"torn", "erased"})
  /\ at'[r] \in {"box", "torn"} => box'[r] # None
  /\ box'[r] # None => box'[r].claims \subseteq box[r].claims /\ (box'[r].committed => box[r].committed)

LEMMA EraseBoxIs ==
  ASSUME IInv, NEW r \in Rooms, box[r] # None, EraseBox(r)
  PROVE  ErasedFrom(r)
<1>1. box[r] \in Box /\ at \in [Rooms -> Place] /\ box \in [Rooms -> Box \cup {None}]
  BY DEF IInv, DiskTypes
<1>2. PICK place \in IF at[r] = "box" THEN {"box", "torn", "erased"} ELSE {at[r]},
          intent \in {FALSE, box[r].intent}, committed \in {FALSE, box[r].committed} :
        /\ at' = [at EXCEPT ![r] = place]
        /\ box' = [box EXCEPT ![r] =
                     IF place \notin {"box", "torn"} /\ ~intent /\ ~committed THEN None
                     ELSE [intent |-> intent, claims |-> IF intent THEN @.claims ELSE {},
                           committed |-> committed]]
  BY DEF EraseBox
<1>3. place \in Place /\ (place = at[r] \/ (at[r] = "box" /\ place \in {"torn", "erased"}))
  BY <1>1, <1>2 DEF Place
<1>4. PICK e : e = [intent |-> intent, claims |-> IF intent THEN box[r].claims ELSE {}, committed |-> committed]
  OBVIOUS
<1>5. intent \in BOOLEAN /\ committed \in BOOLEAN /\ box[r].claims \in SUBSET Claim
  BY <1>1, <1>2 DEF Box
<1>6. e \in Box /\ e # None /\ e.claims \subseteq box[r].claims /\ (e.committed => box[r].committed)
  <2>1. PICK cs : cs = IF intent THEN box[r].claims ELSE {}
    OBVIOUS
  <2>2. cs \subseteq box[r].claims /\ cs \in SUBSET Claim
    BY <1>5, <2>1
  <2>3. e = [intent |-> intent, claims |-> cs, committed |-> committed]
    BY <1>4, <2>1
  <2>4. e \in Box /\ e.claims = cs /\ e.committed = committed
    BY <1>5, <2>2, <2>3 DEF Box
  <2>5. committed => box[r].committed
    BY <1>2, <1>5
  <2> QED
    BY <2>2, <2>4, <2>5, NoneIsNothing
<1>7. PICK x : x = IF place \notin {"box", "torn"} /\ ~intent /\ ~committed THEN None ELSE e
  OBVIOUS
<1>8. box' = [box EXCEPT ![r] = x]
  BY <1>2, <1>4, <1>7
<1>9. x \in Box \cup {None} /\ (x # None => x = e) /\ (place \in {"box", "torn"} => x # None)
  BY <1>6, <1>7
<1>10. /\ at' \in [Rooms -> Place] /\ at'[r] = place /\ \A o \in Rooms \ {r} : at'[o] = at[o]
       /\ box' \in [Rooms -> Box \cup {None}] /\ box'[r] = x /\ \A o \in Rooms \ {r} : box'[o] = box[o]
  BY <1>1, <1>2, <1>3, <1>8, <1>9
<1> QED
  BY <1>3, <1>6, <1>9, <1>10 DEF ErasedFrom

\* What the Registry knows once the log that moved has been read.
HeldBy(b) == IF at[b] = "box" THEN HeldAfterReading(b) ELSE held
RetiredBy(b) == IF at[b] = "box" THEN RetiredAfterReading(b) ELSE retired
Recollection(b, h, rt) ==
  /\ h \in [Rooms -> Claims] /\ rt \in SUBSET Claim
  /\ \A o \in Rooms : h[o] # None => h[o].owner = o
  /\ \A c \in rt : c.owner \in Rooms /\ c \in log[c.owner].retired

\* After a Room's log is read, everything it was ever bound to is known.
LEMMA ReadingIs ==
  ASSUME IInv, NEW b \in Rooms, NEW h, NEW rt, h = HeldAfterReading(b), rt = RetiredAfterReading(b)
  PROVE  Recollection(b, h, rt) /\ LogClaims(b) \subseteq KnownClaims(b, h, rt)
<1>1. /\ held \in [Rooms -> Claims] /\ retired \in SUBSET Claim /\ log[b] \in Log
      /\ \A o \in Rooms : held[o] # None => held[o].owner = o
      /\ \A c \in retired : c.owner \in Rooms /\ c \in log[c.owner].retired
      /\ log[b].bound \notin log[b].retired /\ \A c \in LogClaims(b) : c.owner = b
      /\ None \notin Claim
  BY NoneIsNothing DEF IInv, DiskTypes, ServiceTypes, Owners
<1>2. log[b].bound \in Claims /\ log[b].retired \in SUBSET Claim
  BY <1>1 DEF Log
<1>3. /\ h \in [Rooms -> Claims] /\ h[b] = (IF log[b].bound = None THEN held[b] ELSE log[b].bound)
      /\ \A o \in Rooms \ {b} : h[o] = held[o]
  BY <1>1, <1>2 DEF HeldAfterReading
<1>4. \A c : c \in rt <=> c \in retired \/ c \in log[b].retired
  BY <1>1 DEF RetiredAfterReading
<1>5. Recollection(b, h, rt)
  <2>1. rt \in SUBSET Claim
    BY <1>1, <1>2, <1>4
  <2>2. \A o \in Rooms : h[o] # None => h[o].owner = o
    BY <1>1, <1>3 DEF LogClaims
  <2>3. \A c \in rt : c.owner \in Rooms /\ c \in log[c.owner].retired
    BY <1>1, <1>2, <1>4 DEF LogClaims
  <2> QED
    BY <1>3, <2>1, <2>2, <2>3 DEF Recollection
<1>6. LogClaims(b) \subseteq KnownClaims(b, h, rt)
  BY <1>1, <1>3, <1>4 DEF LogClaims, KnownClaims
<1> QED
  BY <1>5, <1>6

LEMMA RecollectionIs ==
  ASSUME IInv, NEW b \in Rooms, NEW h, NEW rt, h = HeldBy(b), rt = RetiredBy(b)
  PROVE  Recollection(b, h, rt) /\ (at[b] = "box" => LogClaims(b) \subseteq KnownClaims(b, h, rt))
<1>1. CASE at[b] = "box"
  BY <1>1, ReadingIs DEF HeldBy, RetiredBy
<1>2. CASE at[b] # "box"
  BY <1>2 DEF HeldBy, RetiredBy, Recollection, IInv, ServiceTypes, Owners
<1> QED
  BY <1>1, <1>2

\* A Room whose removal is certain loses its claims and nobody else does.
Releasing(b, cs) ==
  /\ claim' \in [Sessions -> Claims] /\ \A s \in Sessions : claim'[s] \in {claim[s], None}
  /\ \A s \in Sessions : claim'[s] # None => claim'[s].session = s
  /\ \A c \in cs : c \in Claim => claim'[c.session] # c

LEMMA ReleasedIs ==
  ASSUME IInv, NEW b \in Rooms, NEW cs, claim' = Released(cs)
  PROVE  Releasing(b, cs)
BY NoneIsNothing DEF Released, Releasing, IInv, DiskTypes, Owners, Claims, Claim

\* Claims of one Room that does not stand may go.
LEMMA ReservationsAfterRelease ==
  ASSUME IInv, NEW b \in Rooms, NEW cs, \A c \in cs : c.owner = b, claim' = Released(cs), ~Stands(b),
         UNCHANGED <<log, remote>>, \A o \in Rooms : Stands(o)' => Stands(o)
  PROVE  Reservations'
<1>1. ASSUME NEW o \in Rooms, Stands(o), log[o].bound # None
      PROVE  claim'[log[o].bound.session] = claim[log[o].bound.session]
  <2>1. log[o].bound.session \in Sessions /\ claim[log[o].bound.session].owner = o /\ o # b
    BY <1>1 DEF IInv, Reservations, DiskTypes, Log, Claims, Claim
  <2> QED
    BY <2>1 DEF Released
<1>2. ASSUME NEW x \in Remotes, remote[x] # None
      PROVE  claim'[remote[x]] = claim[remote[x]]
  <2>1. claim[remote[x]] = [owner |-> x, session |-> remote[x], bind |-> 0] /\ remote[x] \in Sessions
    BY <1>2 DEF IInv, Reservations, DiskTypes
  <2>2. claim[remote[x]].owner = x /\ x # b
    BY <2>1, RegistryAssumption
  <2> QED
    BY <2>1, <2>2 DEF Released
<1> QED
  BY <1>1, <1>2 DEF IInv, Reservations

LEMMA KnownIsOwn ==
  ASSUME NEW b \in Rooms, NEW h, NEW rt, Recollection(b, h, rt), NEW c \in KnownClaims(b, h, rt)
  PROVE  c.owner = b
BY DEF KnownClaims, Recollection

\* A container whose Room is certainly removed is erased, in part or whole.
LEMMA CleansKeep ==
  ASSUME IInv, NEW b \in Rooms, op.pc \in {"clean", "recover"}, b \in op.todo, Processed(b), box[b] # None,
         Unlisted(b), at[b] # "rooms", at[b] = "box" => log[b].archived,
         NEW h, NEW rt, h = HeldBy(b), rt = RetiredBy(b),
         \/ /\ claim' = Released(box[b].claims \cup KnownClaims(b, h, rt))
            /\ held' = [held EXCEPT ![b] = None]
            /\ retired' = {c \in retired : c.owner # b}
            /\ EraseBox(b)
         \/ held' = h /\ retired' = rt /\ UNCHANGED <<at, box, claim>>,
         UNCHANGED <<log, ckpt, safe, remote, phase, mem, poisoned>>
  PROVE  IInv'
<1>1. /\ op' \in Operation /\ op'.pc = op.pc /\ op'.room = op.room /\ op'.todo = op.todo \ {b}
  BY ProcessedIs DEF IInv, ServiceTypes
<1>2. Recollection(b, h, rt) /\ (at[b] = "box" => LogClaims(b) \subseteq KnownClaims(b, h, rt))
  BY RecollectionIs
<1>3. PICK cs : cs = box[b].claims \cup KnownClaims(b, h, rt)
  OBVIOUS
<1>4. \A c \in cs : c.owner = b
  BY <1>2, <1>3, KnownIsOwn DEF IInv, Owners
<1>5. ~Stands(b)
  BY DEF Stands
<1>6. CASE /\ claim' = Released(cs) /\ EraseBox(b)
           /\ held' = [held EXCEPT ![b] = None] /\ retired' = {c \in retired : c.owner # b}
  <2>1. ErasedFrom(b)
    BY <1>6, EraseBoxIs
  <2>2. Releasing(b, cs)
    BY <1>6, ReleasedIs
  <2>3. Recollection(b, held, retired)'
    BY <1>6 DEF Recollection, IInv, ServiceTypes, Owners, Claims
  <2>4. \A o \in Rooms : Stands(o)' => Stands(o)
    BY <2>1 DEF ErasedFrom, Stands, Unlisted
  <2>5. Reservations'
    BY <1>4, <1>5, <1>6, <2>4, ReservationsAfterRelease
  <2>6. \A o \in Rooms : Freed(o) => Freed(o)'
    BY <2>2, ErasedShrinks DEF Releasing
  <2>7. at[b] = "box" => Freed(b)'
    <3> SUFFICES ASSUME at[b] = "box", NEW c \in LogClaims(b)
                 PROVE  claim'[c.session] # c
      BY DEF Freed, LogClaims
    <3>1. c \in Claim /\ c \in cs
      BY <1>2, <1>3, LogClaimsAre
    <3> QED
      BY <2>2, <3>1 DEF Releasing
  <2> HIDE <1>6
  <2>8. DiskTypes' /\ ServiceTypes'
    BY <1>1, <2>1, <2>2, <2>3 DEF IInv, DiskTypes, ServiceTypes, ErasedFrom, Releasing, Recollection
  <2>9. Owners'
    <3>1. \A o \in Rooms : box'[o] # None => \A c \in box'[o].claims : c.owner = o
      BY <2>1 DEF ErasedFrom, IInv, Owners
    <3>2. \A o \in Rooms : held'[o] # None => held'[o].owner = o
      BY <2>3 DEF Recollection
    <3>3. \A c \in retired' : c.owner \in Rooms /\ c \in log'[c.owner].retired
      BY <2>3 DEF Recollection
    <3>4. \A s \in Sessions : claim'[s] # None => claim'[s].session = s
      BY <2>2 DEF Releasing
    <3> QED
      BY <3>1, <3>2, <3>3, <3>4 DEF Owners, LogClaims, IInv
  <2>10. Erased'
    <3>1. ASSUME NEW o \in Rooms, at'[o] \in {"torn", "erased"}
          PROVE  Unlisted(o) /\ log[o].archived /\ Freed(o)'
      <4>1. CASE at[o] \in {"torn", "erased"}
        BY <2>6, <4>1 DEF IInv, Erased
      <4>2. CASE at[o] \notin {"torn", "erased"}
        BY <2>1, <2>7, <3>1, <4>2 DEF ErasedFrom
      <4> QED
        BY <4>1, <4>2
    <3> QED
      BY <3>1 DEF Erased, Unlisted
  <2>11. Binding' /\ RefusalHasCause'
    <3>1. phase' # "refused"
      BY DEF IInv, Listings
    <3> QED
      BY <1>1, <3>1, Elsewhere
  <2>12. Listings'
    <3>1. \A o \in Rooms : at'[o] = "none" => at[o] = "none" /\ box'[o] = None
      BY <2>1 DEF ErasedFrom, IInv, Listings
    <3>2. \A o \in Rooms : mem[o] # None => at'[o] = "rooms" \/ ~Unlisted(o)
      BY <2>1 DEF ErasedFrom, IInv, Listings
    <3> QED
      BY <1>1, <3>1, <3>2 DEF IInv, Listings, Distinct, Unlisted
  <2>13. Staged'
    <3>1. \A o \in Rooms : /\ at'[o] \in {"box", "torn"} => box'[o] # None
                           /\ at'[o] = "box" => at[o] = "box"
                           /\ at'[o] = "rooms" <=> at[o] = "rooms"
                           /\ box'[o] # None => box[o] # None /\ (box'[o].committed => box[o].committed)
      BY <2>1 DEF ErasedFrom, IInv, Staged
    <3> QED
      BY <1>1, <3>1 DEF IInv, Staged, Unlisted
  <2>14. op.todo \subseteq Rooms /\ \A d \in op'.todo : d \in op.todo /\ box'[d] = box[d]
    BY <1>1, <2>1 DEF ErasedFrom, IInv, ServiceTypes, Operation
  <2>15. Removing'
    <3>1. CASE op.pc = "clean"
      BY <1>1, <2>14, <3>1 DEF IInv, Removing
    <3>2. CASE op.pc = "recover"
      BY <1>1, <3>2, Elsewhere
    <3> QED
      BY <3>1, <3>2
  <2>16. Opening'
    <3>1. CASE op.pc = "clean"
      BY <1>1, <3>1, Elsewhere
    <3>2. CASE op.pc = "recover"
      <4>1. \A o \in Rooms : ckpt[o] # None /\ ~ckpt[o].archived => at'[o] = "rooms"
        BY <2>1, <3>2 DEF ErasedFrom, IInv, Opening
      <4>2. \A o \in Rooms \ op'.todo : at'[o] = "box" => ckpt[o] = None
        BY <1>1, <2>1, <3>2 DEF ErasedFrom, IInv, Opening, Unlisted
      <4> QED
        BY <1>1, <2>14, <3>2, <4>1, <4>2 DEF IInv, Opening
    <3> QED
      BY <3>1, <3>2
  <2> QED
    BY <2>5, <2>8, <2>9, <2>10, <2>11, <2>12, <2>13, <2>15, <2>16 DEF IInv
<1>7. CASE held' = h /\ retired' = rt /\ UNCHANGED <<at, box, claim>>
  <2>1. DiskTypes' /\ ServiceTypes'
    BY <1>1, <1>2, <1>7 DEF IInv, DiskTypes, ServiceTypes, Recollection
  <2>2. Owners'
    BY <1>2, <1>7 DEF IInv, Owners, LogClaims, Recollection
  <2>3. \A o \in Rooms : (Unlisted(o)' <=> Unlisted(o)) /\ (Stands(o)' <=> Stands(o))
    BY <1>7 DEF Stands, Unlisted
  <2>4. Reservations' /\ Erased'
    BY <1>7, <2>3, ReservationsStill, ErasedStill
  <2>5. Binding' /\ RefusalHasCause'
    <3>1. phase' # "refused"
      BY DEF IInv, Listings
    <3> QED
      BY <1>1, <3>1, Elsewhere
  <2>6. Listings' /\ Staged'
    BY <1>1, <1>7, <2>3 DEF IInv, Listings, Distinct, Staged
  <2>7. Removing'
    BY <1>1, <1>7, Elsewhere DEF IInv, Removing
  <2>8. Opening'
    BY <1>1, <1>7 DEF IInv, Opening, Unlisted
  <2> QED
    BY <2>1, <2>2, <2>4, <2>5, <2>6, <2>7, <2>8 DEF IInv
<1> QED
  BY <1>3, <1>6, <1>7

\* MayErase makes sure of the removal: a marker, or no listing.
LEMMA CleanBoxKeeps ==
  ASSUME IInv, NEW b \in Rooms, CleanBox(b)
  PROVE  IInv'
<1>1. /\ op.pc = "clean" /\ b \in op.todo /\ MayErase(b) /\ Processed(b) /\ box[b] # None
      /\ UNCHANGED <<log, ckpt, safe, remote, phase, mem, poisoned>>
      /\ phase = "up" /\ ~poisoned /\ ckpt = mem /\ safe = mem
  BY DEF CleanBox, At, IInv, Removing, Listings, ServiceTypes
<1>2. PICK h : h = HeldBy(b)
  OBVIOUS
<1>3. PICK rt : rt = RetiredBy(b)
  OBVIOUS
<1>4. CASE MetadataOnly(b) /\ box' = [box EXCEPT ![b] = None] /\ UNCHANGED <<at, claim, held, retired>>
  <2>1. /\ op' \in Operation /\ op'.pc = "clean" /\ op'.room = op.room /\ op'.todo = op.todo \ {b}
        /\ op.todo \subseteq Rooms
    BY <1>1, ProcessedIs DEF IInv, ServiceTypes, Operation
  <2>2. box' \in [Rooms -> Box \cup {None}] /\ \A o \in Rooms : box'[o] = IF o = b THEN None ELSE box[o]
    BY <1>4 DEF IInv, DiskTypes
  <2>3. at[b] \notin {"box", "torn"}
    BY <1>4 DEF MetadataOnly
  <2>4. DiskTypes' /\ ServiceTypes'
    BY <1>1, <1>4, <2>1, <2>2 DEF IInv, DiskTypes, ServiceTypes
  <2>5. \A o \in Rooms : (Unlisted(o)' <=> Unlisted(o)) /\ (Stands(o)' <=> Stands(o))
    BY <1>1, <1>4 DEF Stands, Unlisted
  <2>6. Owners'
    <3>1. \A o \in Rooms : box'[o] # None => \A c \in box'[o].claims : c.owner = o
      BY <2>2 DEF IInv, Owners
    <3> QED
      BY <1>1, <1>4, <3>1 DEF IInv, Owners, LogClaims
  <2>7. Reservations' /\ Erased'
    BY <1>1, <1>4, <2>5, ReservationsStill, ErasedStill
  <2>8. Binding' /\ Opening' /\ RefusalHasCause'
    BY <1>1, <2>1, Elsewhere
  <2>9. Listings'
    BY <1>1, <1>4, <2>1, <2>2, <2>5 DEF IInv, Listings, Distinct
  <2>10. Staged'
    BY <1>1, <1>4, <2>1, <2>2, <2>3, <2>5 DEF IInv, Staged
  <2>11. Removing'
    BY <1>1, <1>4, <2>1, <2>2 DEF IInv, Removing
  <2> QED
    BY <2>4, <2>6, <2>7, <2>8, <2>9, <2>10, <2>11 DEF IInv
<1>5. CASE /\ ~MetadataOnly(b)
           /\ \/ /\ claim' = Released(box[b].claims \cup KnownClaims(b, h, rt))
                 /\ held' = [held EXCEPT ![b] = None]
                 /\ retired' = {c \in retired : c.owner # b}
                 /\ EraseBox(b)
              \/ held' = h /\ retired' = rt /\ UNCHANGED <<at, box, claim>>
  <2>1. Unlisted(b)
    BY <1>1, <1>5 DEF MayErase, IInv, Staged, Unlisted
  <2>2. at[b] # "rooms" /\ (at[b] = "box" => log[b].archived)
    BY <1>1, <2>1 DEF MayErase, Unreadable, Verified, IInv, Staged, Unlisted
  <2> QED
    BY <1>1, <1>2, <1>3, <1>5, <2>1, <2>2, CleansKeep
<1> QED
  BY <1>2, <1>3, <1>4, <1>5 DEF CleanBox, HeldBy, RetiredBy

\* What is erased was freed, and no checkpoint lists it.
LEMMA EraseKeeps ==
  ASSUME IInv, Erase
  PROVE  IInv'
<1> DEFINE r == op.room
<1>1. /\ op.pc = "erase" /\ r \in Rooms /\ at[r] # "rooms" /\ Unlisted(r) /\ box[r] # None
      /\ at[r] = "box" => log[r].archived /\ Freed(r)
      /\ phase = "up" /\ ~poisoned /\ EraseBox(r) /\ op' = NoOp
      /\ UNCHANGED <<log, ckpt, safe, claim, remote, phase, mem, held, retired, poisoned>>
  <2>1. /\ op.pc = "erase" /\ EraseBox(r) /\ op' = NoOp
        /\ UNCHANGED <<log, ckpt, safe, claim, remote, phase, mem, held, retired, poisoned>>
    BY DEF Erase, At, Finish, projection
  <2>2. /\ r \in Rooms /\ at[r] # "rooms" /\ Unlisted(r) /\ box[r] # None
        /\ at[r] = "box" => log[r].archived /\ Freed(r)
    BY <2>1 DEF IInv, Removing
  <2>3. phase = "up" /\ ~poisoned
    BY <2>1 DEF IInv, Listings, ServiceTypes
  <2> QED
    BY <2>1, <2>2, <2>3
<1>2. ErasedFrom(r)
  BY <1>1, EraseBoxIs
<1>3. DiskTypes' /\ ServiceTypes'
  BY <1>1, <1>2, NoOpIs DEF IInv, DiskTypes, ServiceTypes, ErasedFrom
<1>4. \A o \in Rooms : (Unlisted(o)' <=> Unlisted(o)) /\ (Stands(o)' => Stands(o))
  BY <1>1, <1>2 DEF Stands, Unlisted, ErasedFrom
<1>5. Owners'
  <2>1. \A o \in Rooms : box'[o] # None => \A c \in box'[o].claims : c.owner = o
    BY <1>1, <1>2 DEF ErasedFrom, IInv, Owners
  <2> QED
    BY <1>1, <2>1 DEF IInv, Owners, LogClaims
<1>6. Reservations'
  BY <1>1, <1>4, ReservationsStill
<1>7. Binding' /\ Opening' /\ RefusalHasCause' /\ Removing'
  BY <1>1, NoOpIs, Elsewhere
<1>8. \A o \in Rooms : /\ at'[o] \in {"box", "torn"} => box'[o] # None
                       /\ at'[o] = "box" => at[o] = "box"
                       /\ at'[o] = "rooms" <=> at[o] = "rooms"
                       /\ at'[o] = "none" => at[o] = "none" /\ o # r
                       /\ box'[o] # None => box[o] # None /\ (box'[o].committed => box[o].committed)
  BY <1>1, <1>2 DEF ErasedFrom, IInv, Staged, Listings
<1>9. Listings'
  <2>1. \A o \in Rooms : at'[o] = "none" => box'[o] = None
    BY <1>1, <1>2, <1>8 DEF ErasedFrom, IInv, Listings
  <2> QED
    BY <1>1, <1>4, <1>8, <2>1, NoOpIs DEF IInv, Listings, Distinct
<1>10. Staged'
  BY <1>1, <1>4, <1>8, NoOpIs DEF IInv, Staged
<1>11. Erased'
  <2>1. ASSUME NEW o \in Rooms, at'[o] \in {"torn", "erased"}
        PROVE  Unlisted(o) /\ log[o].archived /\ Freed(o)
    BY <1>1, <1>2, <2>1 DEF ErasedFrom, IInv, Erased
  <2> QED
    BY <1>1, <1>4, <2>1 DEF Erased, Freed, LogClaims
<1> QED
  BY <1>3, <1>5, <1>6, <1>7, <1>9, <1>10, <1>11 DEF IInv

\* The marker is written after the checkpoint without the Room.
LEMMA MarkKeeps ==
  ASSUME IInv, Mark
  PROVE  IInv'
<1> DEFINE r == op.room
<1>1. /\ op.pc = "mark" /\ r \in Rooms /\ at[r] # "rooms" /\ Unlisted(r) /\ box[r] \in Box /\ box[r] # None
      /\ phase = "up" /\ ~poisoned /\ Goto("erase") /\ op \in Operation
      /\ UNCHANGED <<at, log, ckpt, safe, claim, remote, phase, mem, held, retired, poisoned>>
  BY DEF Mark, At, projection, IInv, Removing, Listings, DiskTypes, ServiceTypes
<1>2. PICK written \in BOOLEAN : box' = [box EXCEPT ![r].committed = written]
  BY DEF Mark
<1>3. PICK e : e = [box[r] EXCEPT !.committed = written]
  OBVIOUS
<1>4. e \in Box /\ e # None /\ e.claims = box[r].claims
  BY <1>1, <1>3, NoneIsNothing DEF Box
<1>5. box' \in [Rooms -> Box \cup {None}] /\ box'[r] = e /\ \A o \in Rooms \ {r} : box'[o] = box[o]
  BY <1>1, <1>2, <1>3, <1>4 DEF IInv, DiskTypes
<1>6. op' \in Operation /\ op'.pc = "erase" /\ op'.room = r
  <2>1. "erase" \in Steps
    BY DEF Steps
  <2> QED
    BY <1>1, <2>1, GotoIs
<1>7. DiskTypes' /\ ServiceTypes'
  BY <1>1, <1>5, <1>6 DEF IInv, DiskTypes, ServiceTypes
<1>8. \A o \in Rooms : (Unlisted(o)' <=> Unlisted(o)) /\ (Stands(o)' <=> Stands(o))
  BY <1>1 DEF Stands, Unlisted
<1>9. Owners'
  <2>1. \A o \in Rooms : box'[o] # None => \A c \in box'[o].claims : c.owner = o
    BY <1>1, <1>4, <1>5 DEF IInv, Owners
  <2> QED
    BY <1>1, <2>1 DEF IInv, Owners, LogClaims
<1>10. Reservations' /\ Erased'
  BY <1>1, <1>8, ReservationsStill, ErasedStill
<1>11. Binding' /\ Opening' /\ RefusalHasCause'
  BY <1>1, <1>6, Elsewhere
<1>12. \A o \in Rooms : box'[o] # None <=> box[o] # None
  BY <1>1, <1>4, <1>5
<1>13. Listings'
  BY <1>1, <1>6, <1>8, <1>12 DEF IInv, Listings, Distinct
<1>14. Staged'
  BY <1>1, <1>4, <1>5, <1>6, <1>8, <1>12 DEF IInv, Staged
<1>15. Removing'
  BY <1>1, <1>6, <1>8, <1>12 DEF IInv, Removing, Freed, LogClaims
<1> QED
  BY <1>7, <1>9, <1>10, <1>11, <1>13, <1>14, <1>15 DEF IInv

\* The Room being removed is listed still, durably.
LEMMA StageIntentKeeps ==
  ASSUME IInv, StageIntent
  PROVE  IInv'
<1> DEFINE r == op.room
<1>1. /\ op.pc = "clean" /\ r \in Rooms /\ mem[r] # None /\ mem[r].archived
      /\ phase = "up" /\ ~poisoned /\ ckpt = mem /\ safe = mem /\ op \in Operation
      /\ Goto(IF at[r] = "rooms" THEN "move" ELSE "unlist")
      /\ UNCHANGED <<at, log, ckpt, safe, claim, remote, phase, mem, held, retired, poisoned>>
  <2>1. op.pc = "clean" /\ r # None
    BY DEF StageIntent, At
  <2> QED
    BY <2>1 DEF StageIntent, projection, IInv, Removing, Listings, ServiceTypes, Operation
<1>2. at[r] # "box" /\ ~Unlisted(r)
  BY <1>1 DEF IInv, Staged, Unlisted
<1>3. PICK cs : cs = {held[r]} \ {None}
  OBVIOUS
<1>4. cs \in SUBSET Claim /\ \A c \in cs : c.owner = r
  BY <1>1, <1>3 DEF IInv, ServiceTypes, Owners, Claims
<1>5. PICK e : e = NewBox(cs)
  OBVIOUS
<1>6. e \in Box /\ e # None /\ e.claims = cs /\ ~e.committed
  <2>1. e \in Box
    BY <1>4, <1>5 DEF NewBox, Box
  <2>2. e.claims = cs /\ ~e.committed
    BY <1>5 DEF NewBox
  <2> QED
    BY <2>1, <2>2, NoneIsNothing
<1>7. box' = IF at[r] = "rooms" \/ cs # {} THEN [box EXCEPT ![r] = e] ELSE box
  BY <1>3, <1>5 DEF StageIntent
<1>8. /\ box' \in [Rooms -> Box \cup {None}] /\ \A o \in Rooms \ {r} : box'[o] = box[o]
      /\ box'[r] \in {e, box[r]} /\ (at[r] = "rooms" => box'[r] = e)
  BY <1>1, <1>6, <1>7 DEF IInv, DiskTypes
<1>9. op' \in Operation /\ op'.room = r /\ op'.pc = (IF at[r] = "rooms" THEN "move" ELSE "unlist")
  <2>1. "move" \in Steps /\ "unlist" \in Steps
    BY DEF Steps
  <2> QED
    BY <1>1, <2>1, GotoIs
<1>10. DiskTypes' /\ ServiceTypes'
  BY <1>1, <1>8, <1>9 DEF IInv, DiskTypes, ServiceTypes
<1>11. \A o \in Rooms : (Unlisted(o)' <=> Unlisted(o)) /\ (Stands(o)' <=> Stands(o))
  BY <1>1 DEF Stands, Unlisted
<1>12. Owners'
  <2>1. \A o \in Rooms : box'[o] # None => \A c \in box'[o].claims : c.owner = o
    BY <1>1, <1>4, <1>6, <1>8 DEF IInv, Owners
  <2> QED
    BY <1>1, <2>1 DEF IInv, Owners, LogClaims
<1>13. Reservations' /\ Erased'
  BY <1>1, <1>11, ReservationsStill, ErasedStill
<1>14. Binding' /\ Opening' /\ RefusalHasCause'
  BY <1>1, <1>9, Elsewhere
<1>15. Listings'
  <2>1. at[r] # "none"
    BY <1>1 DEF IInv, Listings
  <2> QED
    BY <1>1, <1>8, <1>9, <1>11, <2>1 DEF IInv, Listings, Distinct
<1>16. Staged'
  <2>1. \A o \in Rooms : at[o] = "box" => mem[o] = None
    BY <1>1 DEF IInv, Staged
  <2>2. \A o \in Rooms \ {r} : box'[o] = box[o]
    BY <1>8
  <2>3. at[r] = "torn" => box[r] # None
    BY <1>1 DEF IInv, Staged
  <2>4. box[r] # None => ~box[r].committed
    BY <1>1, <1>2 DEF IInv, Staged
  <2> QED
    BY <1>1, <1>2, <1>6, <1>8, <1>9, <1>11, <2>1, <2>2, <2>3, <2>4 DEF IInv, Staged
<1>17. Removing'
  <2>1. box'[r] # None => ~box'[r].committed
    BY <1>1, <1>2, <1>6, <1>8 DEF IInv, Staged
  <2> QED
    BY <1>1, <1>2, <1>6, <1>8, <1>9, <2>1 DEF Removing
<1> QED
  BY <1>10, <1>12, <1>13, <1>14, <1>15, <1>16, <1>17 DEF IInv

\* What moves is a Room that its own log calls archived.
LEMMA StageMoveKeeps ==
  ASSUME IInv, StageMove
  PROVE  IInv'
<1> DEFINE r == op.room
<1>1. op.pc = "move" /\ log[r].archived /\ at' = [at EXCEPT ![r] = "box"] /\ Goto("unlist")
      /\ UNCHANGED <<log, box, ckpt, safe, claim, remote, phase, mem, poisoned>>
  BY DEF StageMove, At, Verified
<1>2. /\ r \in Rooms /\ at[r] = "rooms" /\ box[r] # None /\ ~box[r].committed /\ mem[r] # None /\ mem[r].archived
  BY <1>1 DEF IInv, Removing
<1>3. phase = "up" /\ ~poisoned /\ ckpt = mem /\ safe = mem
  BY <1>1 DEF IInv, Listings, ServiceTypes
<1>4. op' \in Operation /\ op'.room = r /\ op'.pc = "unlist"
  <2>1. "unlist" \in Steps
    BY DEF Steps
  <2> QED
    BY <1>1, <2>1, GotoIs DEF IInv, ServiceTypes
<1>5. PICK h : h = HeldAfterReading(r)
  OBVIOUS
<1>6. PICK rt : rt = RetiredAfterReading(r)
  OBVIOUS
<1>7. PICK q : q = r
  OBVIOUS
<1>8. Recollection(q, h, rt) /\ LogClaims(q) \subseteq KnownClaims(q, h, rt)
  BY <1>2, <1>5, <1>6, <1>7, ReadingIs
<1>9. held' = h /\ retired' = rt
  BY <1>5, <1>6 DEF StageMove
<1>10. at' \in [Rooms -> Place] /\ at'[r] = "box" /\ \A o \in Rooms \ {r} : at'[o] = at[o]
  BY <1>1, <1>2 DEF IInv, DiskTypes, Place
<1>11. DiskTypes' /\ ServiceTypes'
  BY <1>1, <1>4, <1>8, <1>9, <1>10 DEF IInv, DiskTypes, ServiceTypes, Recollection
<1>12. ~Unlisted(r) /\ \A o \in Rooms : (Unlisted(o)' <=> Unlisted(o)) /\ (Stands(o)' <=> Stands(o))
  BY <1>1, <1>2, <1>3, <1>10 DEF Stands, Unlisted
<1>13. Owners'
  BY <1>1, <1>8, <1>9 DEF IInv, Owners, LogClaims, Recollection
<1>14. Reservations'
  BY <1>1, <1>12, ReservationsStill
<1>15. Erased'
  BY <1>1, <1>10, <1>12, ErasedStill
<1>16. Binding' /\ Opening' /\ RefusalHasCause'
  BY <1>1, <1>3, <1>4, Elsewhere
<1>17. Listings'
  BY <1>1, <1>2, <1>3, <1>4, <1>10, <1>12 DEF IInv, Listings, Distinct
<1>18. Staged'
  BY <1>1, <1>2, <1>3, <1>4, <1>10, <1>12 DEF IInv, Staged
<1>19. Removing'
  <2>1. Recalled(q)'
    BY <1>1, <1>8, <1>9 DEF Recalled, LogClaims, KnownClaims
  <2> QED
    BY <1>1, <1>2, <1>4, <1>7, <1>10, <2>1 DEF Removing
<1> QED
  BY <1>11, <1>13, <1>14, <1>15, <1>16, <1>17, <1>18, <1>19 DEF IInv

\* A move that fails leaves the data in one place or poisons the Registry.
LEMMA StageFailsKeeps ==
  ASSUME IInv, StageFails
  PROVE  IInv'
<1> DEFINE r == op.room
<1>1. /\ op.pc = "move" /\ op' = NoOp
      /\ \/ box' = [box EXCEPT ![r] = None] /\ UNCHANGED <<at, poisoned>>
         \/ at' = [at EXCEPT ![r] = "box"] /\ poisoned' = TRUE /\ UNCHANGED box
      /\ UNCHANGED <<log, ckpt, safe, claim, remote, phase, mem, held, retired>>
  BY DEF StageFails, At, Finish
<1>2. /\ r \in Rooms /\ at[r] = "rooms" /\ box[r] # None /\ ~box[r].committed /\ mem[r] # None /\ mem[r].archived
  BY <1>1 DEF IInv, Removing
<1>3. phase = "up" /\ ~poisoned /\ poisoned \in BOOLEAN /\ ckpt = mem /\ safe = mem
  BY <1>1 DEF IInv, Listings, ServiceTypes
<1>4. /\ at' \in [Rooms -> Place] /\ box' \in [Rooms -> Box \cup {None}] /\ poisoned' \in BOOLEAN
      /\ \A o \in Rooms \ {r} : at'[o] = at[o] /\ box'[o] = box[o]
      /\ \/ at'[r] = "rooms" /\ box'[r] = None
         \/ at'[r] = "box" /\ box'[r] = box[r] /\ poisoned'
  <2>1. at \in [Rooms -> Place] /\ box \in [Rooms -> Box \cup {None}]
    BY DEF IInv, DiskTypes
  <2>2. CASE box' = [box EXCEPT ![r] = None] /\ UNCHANGED <<at, poisoned>>
    BY <1>2, <1>3, <2>1, <2>2
  <2>3. CASE at' = [at EXCEPT ![r] = "box"] /\ poisoned' = TRUE /\ UNCHANGED box
    <3>1. at' \in [Rooms -> Place] /\ at'[r] = "box" /\ \A o \in Rooms \ {r} : at'[o] = at[o]
      BY <1>2, <2>1, <2>3 DEF Place
    <3> QED
      BY <2>1, <2>3, <3>1
  <2> QED
    BY <1>1, <2>2, <2>3
<1>5. DiskTypes' /\ ServiceTypes'
  BY <1>1, <1>4, NoOpIs DEF IInv, DiskTypes, ServiceTypes
<1>6. ~Unlisted(r) /\ \A o \in Rooms : (Unlisted(o)' <=> Unlisted(o)) /\ (Stands(o)' <=> Stands(o))
  BY <1>1, <1>2, <1>3, <1>4 DEF Stands, Unlisted
<1>7. Owners'
  <2>1. \A o \in Rooms : box'[o] # None => \A c \in box'[o].claims : c.owner = o
    BY <1>4 DEF IInv, Owners
  <2> QED
    BY <1>1, <2>1 DEF IInv, Owners, LogClaims
<1>8. Reservations'
  BY <1>1, <1>6, ReservationsStill
<1>9. Erased'
  BY <1>1, <1>4, <1>6, ErasedStill
<1>10. Binding' /\ Opening' /\ RefusalHasCause' /\ Removing'
  BY <1>1, <1>3, NoOpIs, Elsewhere
<1>11. Listings'
  <2>1. \A o \in Rooms : at'[o] = "none" => at[o] = "none" /\ box'[o] = box[o]
    BY <1>4
  <2>2. \A o \in Rooms : mem[o] # None => at'[o] = "rooms" \/ ~Unlisted(o)
    BY <1>4, <1>6 DEF IInv, Listings
  <2> QED
    BY <1>1, <1>3, <1>6, <2>1, <2>2, NoOpIs DEF IInv, Listings, Distinct
<1>12. Staged'
  BY <1>1, <1>2, <1>3, <1>4, <1>6, NoOpIs DEF IInv, Staged
<1> QED
  BY <1>5, <1>7, <1>8, <1>9, <1>10, <1>11, <1>12 DEF IInv

\* Unlisted, or visibly unlisted and poisoned, or rolled back.
LEMMA UnlistKeeps ==
  ASSUME IInv, Unlist
  PROVE  IInv'
<1> DEFINE r == op.room
<1>1. op.pc = "unlist" /\ UNCHANGED <<log, claim, remote, phase, held, retired>>
  BY DEF Unlist, At
<1>2. /\ r \in Rooms /\ at[r] # "rooms" /\ mem[r] # None /\ (box[r] # None => ~box[r].committed)
      /\ at[r] = "box" => log[r].archived /\ Recalled(r)
  BY <1>1 DEF IInv, Removing
<1>3. phase = "up" /\ ~poisoned /\ poisoned \in BOOLEAN /\ ckpt = mem /\ safe = mem /\ op \in Operation /\ mem \in Listing /\ Distinct(mem)
  BY <1>1 DEF IInv, Listings, ServiceTypes
<1>4. /\ ~Unlisted(r) /\ at[r] \notin {"torn", "erased", "none"}
      /\ \A o \in Rooms : at[o] = "box" /\ mem[o] # None => o = r
  BY <1>1, <1>2, <1>3 DEF Unlisted, IInv, Erased, Staged, Listings
<1>5. PICK m : m = [mem EXCEPT ![r] = None]
  OBVIOUS
<1>6. m \in Listing /\ m[r] = None /\ (\A o \in Rooms \ {r} : m[o] = mem[o])
  BY <1>2, <1>3, <1>5 DEF Listing
<1>7. Distinct(m)
  BY <1>3, <1>6 DEF Distinct
\* The checkpoint without the Room is there, durable or not.
<1>8. CASE /\ ckpt' = m /\ mem' = m /\ UNCHANGED <<at, box>>
           /\ \/ safe' = m /\ UNCHANGED poisoned /\ Goto("disclaim")
              \/ safe' = safe /\ poisoned' = TRUE /\ op' = NoOp
  <2>1. /\ op' \in Operation /\ safe' \in Listing /\ poisoned' \in BOOLEAN
        /\ \/ safe' = m /\ ~poisoned' /\ op'.pc = "disclaim" /\ op'.room = r
           \/ safe' = safe /\ poisoned' /\ op'.pc = "idle"
    <3>1. "disclaim" \in Steps
      BY DEF Steps
    <3>2. CASE safe' = m /\ UNCHANGED poisoned /\ Goto("disclaim")
      BY <1>3, <1>6, <3>1, <3>2, GotoIs
    <3>3. CASE safe' = safe /\ poisoned' = TRUE /\ op' = NoOp
      BY <1>3, <3>3, NoOpIs
    <3> QED
      BY <1>8, <3>2, <3>3
  <2>2. DiskTypes' /\ ServiceTypes'
    BY <1>1, <1>6, <1>8, <2>1 DEF IInv, DiskTypes, ServiceTypes
  <2>3. /\ \A o \in Rooms \ {r} : ckpt'[o] = ckpt[o] /\ safe'[o] = safe[o] /\ mem'[o] = mem[o]
        /\ ckpt'[r] = None /\ mem'[r] = None /\ (safe'[r] = None <=> safe' = m)
    BY <1>2, <1>3, <1>6, <1>8, <2>1
  <2>4. \A o \in Rooms : (Unlisted(o) => Unlisted(o)') /\ (Stands(o)' => Stands(o))
                         /\ (o # r => (Unlisted(o)' <=> Unlisted(o)))
    BY <1>4, <1>8, <2>3 DEF Stands, Unlisted
  <2>5. Owners'
    BY <1>1, <1>8, OwnersStill
  <2>6. Reservations'
    BY <1>1, <2>4, ReservationsStill
  <2>7. Erased'
    BY <1>1, <1>8, <2>4, ErasedStill
  <2>8. Binding' /\ Opening' /\ RefusalHasCause'
    BY <1>1, <1>3, <2>1, Elsewhere
  <2>9. Listings'
    <3>1. Distinct(ckpt') /\ Distinct(safe') /\ Distinct(mem')
      BY <1>3, <1>7, <1>8, <2>1
    <3>2. \A o \in Rooms : mem'[o] # None => at'[o] = "rooms" \/ ~Unlisted(o)'
      BY <1>3, <1>8, <2>3, <2>4 DEF IInv, Listings
    <3>3. \A o \in Rooms : at'[o] = "none" =>
            log'[o] = EmptyLog /\ box'[o] = None /\ ckpt'[o] = None /\ safe'[o] = None /\ mem'[o] = None
      BY <1>1, <1>4, <1>8, <2>3 DEF IInv, Listings
    <3>4. /\ phase' = "up" /\ (~poisoned' => ckpt' = mem' /\ safe' = mem')
          /\ op'.pc # "idle" => ~poisoned'
          /\ op'.pc \notin {"recover", "reserve"}
      BY <1>1, <1>3, <1>8, <2>1
    <3> QED
      BY <3>1, <3>2, <3>3, <3>4 DEF Listings, Distinct
  <2>10. Staged'
    BY <1>2, <1>3, <1>4, <1>8, <2>1, <2>3, <2>4 DEF IInv, Staged, Unlisted
  <2>11. Removing'
    <3>1. CASE op'.pc = "idle"
      BY <3>1, Elsewhere
    <3>2. CASE op'.pc = "disclaim" /\ op'.room = r /\ safe' = m
      BY <1>1, <1>2, <1>8, <2>3, <3>2 DEF Removing, Recalled, LogClaims, KnownClaims, Unlisted
    <3> QED
      BY <2>1, <3>1, <3>2
  <2> QED
    BY <2>2, <2>5, <2>6, <2>7, <2>8, <2>9, <2>10, <2>11 DEF IInv
\* It is not, and what was staged is moved back.
<1>9. CASE /\ UNCHANGED <<ckpt, safe, mem>> /\ op' = NoOp
           /\ IF box[r] = None THEN UNCHANGED <<at, box, poisoned>> ELSE RollBack(r)
  <2>1. /\ at' \in [Rooms -> Place] /\ box' \in [Rooms -> Box \cup {None}] /\ poisoned' \in BOOLEAN
        /\ \A o \in Rooms \ {r} : at'[o] = at[o] /\ box'[o] = box[o]
        /\ \/ at'[r] = at[r] /\ box'[r] = box[r] /\ (poisoned' \/ box[r] = None)
           \/ at'[r] = (IF at[r] = "box" THEN "rooms" ELSE at[r]) /\ box'[r] = None
    <3>1. at \in [Rooms -> Place] /\ box \in [Rooms -> Box \cup {None}]
      BY DEF IInv, DiskTypes
    <3>2. CASE UNCHANGED <<at, box, poisoned>> /\ box[r] = None
      BY <1>3, <3>1, <3>2
    <3>3. CASE UNCHANGED <<at, box>> /\ poisoned' = TRUE
      BY <3>1, <3>3
    <3>4. CASE /\ at' = [at EXCEPT ![r] = IF @ = "box" THEN "rooms" ELSE @]
               /\ box' = [box EXCEPT ![r] = None] /\ UNCHANGED poisoned
      <4>1. PICK p \in Place : p = IF at[r] = "box" THEN "rooms" ELSE at[r]
        BY <1>2, <3>1 DEF Place
      <4>2. at' \in [Rooms -> Place] /\ at'[r] = p /\ \A o \in Rooms \ {r} : at'[o] = at[o]
        BY <1>2, <3>1, <3>4, <4>1
      <4> QED
        BY <1>2, <1>3, <3>1, <3>4, <4>1, <4>2
    <3> QED
      BY <1>9, <3>2, <3>3, <3>4 DEF RollBack
  <2>2. DiskTypes' /\ ServiceTypes'
    BY <1>1, <1>9, <2>1, NoOpIs DEF IInv, DiskTypes, ServiceTypes
  <2>3. \A o \in Rooms : (Unlisted(o)' <=> Unlisted(o)) /\ (Stands(o)' => Stands(o))
    BY <1>2, <1>4, <1>9, <2>1 DEF Stands, Unlisted
  <2>4. Owners'
    <3>1. \A o \in Rooms : box'[o] # None => \A c \in box'[o].claims : c.owner = o
      BY <2>1 DEF IInv, Owners
    <3> QED
      BY <1>1, <3>1 DEF IInv, Owners, LogClaims
  <2>5. Reservations'
    BY <1>1, <2>3, ReservationsStill
  <2>6. Erased'
    BY <1>1, <1>4, <2>1, <2>3, ErasedStill
  <2>7. Binding' /\ Opening' /\ RefusalHasCause' /\ Removing'
    BY <1>1, <1>3, <1>9, NoOpIs, Elsewhere
  <2>8. Listings'
    <3>1. \A o \in Rooms : at'[o] = "none" => at[o] = "none" /\ box'[o] = box[o]
      BY <1>4, <2>1
    <3>2. \A o \in Rooms : mem[o] # None => at'[o] = "rooms" \/ ~Unlisted(o)
      BY <1>4, <2>1 DEF IInv, Listings
    <3> QED
      BY <1>1, <1>3, <1>9, <2>3, <3>1, <3>2, NoOpIs DEF IInv, Listings, Distinct
  <2>9. Staged'
    BY <1>2, <1>3, <1>4, <1>9, <2>1, <2>3, NoOpIs DEF IInv, Staged, Unlisted
  <2> QED
    BY <2>2, <2>4, <2>5, <2>6, <2>7, <2>8, <2>9 DEF IInv
<1> QED
  BY <1>5, <1>8, <1>9 DEF Unlist, Checkpointed, Unsynced, Unpublished, Finish

\* All that the removed Room's log names is known, and so is freed.
LEMMA DisclaimKeeps ==
  ASSUME IInv, Disclaim
  PROVE  IInv'
<1> DEFINE r == op.room
<1>1. op.pc = "disclaim" /\ UNCHANGED <<at, log, box, ckpt, safe, remote, phase, mem, poisoned>>
  BY DEF Disclaim, At, disk
<1>2. /\ r \in Rooms /\ at[r] # "rooms" /\ Unlisted(r) /\ (at[r] = "box" => log[r].archived /\ Recalled(r))
  BY <1>1 DEF IInv, Removing
<1>3. phase = "up" /\ ~poisoned /\ op \in Operation
  BY <1>1 DEF IInv, Listings, ServiceTypes
<1>4. CASE UNCHANGED <<claim, held, retired>> /\ op' = NoOp
  BY <1>1, <1>4, NoOpIs, Elsewhere, OpMoves DEF disk, projection
<1>5. CASE /\ claim' = Released(KnownClaims(r, held, retired)) /\ Forget(r)
           /\ Goto(IF box[r] = None THEN "idle" ELSE "mark")
  <2>1. PICK q : q = r
    OBVIOUS
  <2>2. PICK h : h = held
    OBVIOUS
  <2>3. PICK rt : rt = retired
    OBVIOUS
  <2>4. PICK cs : cs = KnownClaims(q, h, rt)
    OBVIOUS
  <2>5. Recollection(q, h, rt)
    BY <1>2, <2>1, <2>2, <2>3 DEF Recollection, IInv, ServiceTypes, Owners
  <2>6. \A c \in cs : c.owner = q
    BY <1>2, <2>1, <2>4, <2>5, KnownIsOwn
  <2>7. claim' = Released(cs)
    BY <1>5, <2>1, <2>2, <2>3, <2>4
  <2>8. Releasing(q, cs)
    BY <1>2, <2>1, <2>7, ReleasedIs
  <2>9. \A o \in Rooms : (Unlisted(o)' <=> Unlisted(o)) /\ (Stands(o)' <=> Stands(o))
    BY <1>1 DEF Stands, Unlisted
  <2>10. Reservations'
    <3>1. ~Stands(q) /\ q \in Rooms
      BY <1>2, <2>1 DEF Stands
    <3> QED
      BY <1>1, <2>6, <2>7, <2>9, <3>1, ReservationsAfterRelease
  <2>11. \A o \in Rooms : Freed(o) => Freed(o)'
    BY <1>1, <2>8, ErasedShrinks DEF Releasing
  <2>12. at[q] = "box" => Freed(q)'
    <3> SUFFICES ASSUME at[q] = "box", NEW c \in LogClaims(q)
                 PROVE  claim'[c.session] # c
      BY <1>1 DEF Freed, LogClaims
    <3>1. c \in cs
      BY <1>2, <2>1, <2>2, <2>3, <2>4 DEF Recalled
    <3>2. c \in Claim
      BY <1>2, <2>1, LogClaimsAre
    <3> QED
      BY <2>8, <3>1, <3>2 DEF Releasing
  <2>13. /\ op' \in Operation /\ op'.pc \in {"idle", "mark"}
         /\ op'.pc = "mark" => op'.room = r /\ box[r] # None
    <3>1. "idle" \in Steps /\ "mark" \in Steps
      BY DEF Steps
    <3>2. CASE box[r] = None /\ Goto("idle")
      BY <1>3, <3>1, <3>2, GotoIs
    <3>3. CASE box[r] # None /\ Goto("mark")
      BY <1>3, <3>1, <3>3, GotoIs
    <3> QED
      BY <1>5, <3>2, <3>3
  <2>14. /\ held' \in [Rooms -> Claims] /\ retired' \subseteq retired
         /\ \A o \in Rooms : held'[o] \in {held[o], None}
    BY <1>2, <1>5 DEF Forget, IInv, ServiceTypes, Claims
  <2>15. DiskTypes' /\ ServiceTypes'
    BY <1>1, <2>8, <2>13, <2>14 DEF IInv, DiskTypes, ServiceTypes, Releasing
  <2>16. Owners'
    <3>1. \A o \in Rooms : held'[o] # None => held'[o].owner = o
      BY <2>14 DEF IInv, Owners
    <3>2. \A c \in retired' : c.owner \in Rooms /\ c \in log'[c.owner].retired
      BY <1>1, <2>14 DEF IInv, Owners
    <3>3. \A s \in Sessions : claim'[s] # None => claim'[s].session = s
      BY <2>8 DEF Releasing
    <3> QED
      BY <1>1, <3>1, <3>2, <3>3 DEF IInv, Owners, LogClaims
  <2>17. Binding' /\ Opening' /\ RefusalHasCause'
    BY <1>1, <1>3, <2>13, Elsewhere
  <2>18. Listings'
    BY <1>1, <1>3, <2>9, <2>13 DEF IInv, Listings, Distinct
  <2>19. Staged'
    BY <1>1, <2>9, <2>13 DEF IInv, Staged
  <2>20. Removing'
    <3>1. CASE op'.pc = "idle"
      BY <3>1, Elsewhere
    <3>2. CASE op'.pc = "mark" /\ op'.room = q /\ box[q] # None
      BY <1>1, <1>2, <2>1, <2>9, <2>12, <3>2 DEF Removing
    <3> QED
      BY <2>1, <2>13, <3>1, <3>2
  <2>21. Erased'
    BY <1>1, <2>9, <2>11 DEF IInv, Erased
  <2> QED
    BY <2>10, <2>15, <2>16, <2>17, <2>18, <2>19, <2>20, <2>21 DEF IInv
<1> QED
  BY <1>4, <1>5 DEF Disclaim, Finish

-----------------------------------------------------------------------------
(* OpenRegistry *)

LEMMA BlankIs == Blank \in Listing /\ Blank \in [Rooms -> Claims] /\ Distinct(Blank) /\ \A r \in Rooms : Blank[r] = None
BY DEF Blank, Listing, Claims, Distinct

\* The process is gone, or gives up: nothing is remembered.
LEMMA Forgotten ==
  ASSUME IInv, ForgetAll, phase' \in {"down", "refused"}
  PROVE  /\ ServiceTypes' /\ Binding' /\ Opening' /\ Removing'
         /\ op'.pc = "idle" /\ ~poisoned' /\ mem' = Blank /\ \A r \in Rooms : held'[r] = None
         /\ retired' = {}
<1>1. op' = NoOp /\ mem' = Blank /\ held' = Blank /\ retired' = {} /\ poisoned' = FALSE
  BY DEF ForgetAll
<1>2. op' \in Operation /\ op'.pc = "idle"
  BY <1>1, NoOpIs
<1>3. Binding' /\ Opening' /\ Removing'
  BY <1>2, Elsewhere
<1>4. ServiceTypes'
  BY <1>1, <1>2, BlankIs DEF ServiceTypes
<1> QED
  BY <1>1, <1>2, <1>3, <1>4, BlankIs

LEMMA ForgottenOwners ==
  ASSUME IInv, ForgetAll, phase' \in {"down", "refused"}, UNCHANGED <<log, box>>,
         \A s \in Sessions : claim'[s] # None => claim'[s].session = s
  PROVE  Owners'
BY Forgotten DEF IInv, Owners, LogClaims

\* Either checkpoint tells the same of what is in a container.
LEMMA CrashKeeps ==
  ASSUME IInv, Crash
  PROVE  IInv'
<1>1. /\ phase' = "down" /\ ForgetAll /\ ckpt' \in {ckpt, safe} /\ safe' = ckpt'
      /\ UNCHANGED <<at, log, box, claim, remote>>
  BY DEF Crash
<1>2. /\ op'.pc = "idle" /\ ~poisoned' /\ mem' = Blank
  BY <1>1, Forgotten
<1>3. ServiceTypes' /\ Binding' /\ Opening' /\ Removing'
  BY <1>1, Forgotten
<1>4. DiskTypes'
  <2>1. ckpt' \in Listing
    BY <1>1 DEF IInv, DiskTypes
  <2> QED
    BY <1>1, <2>1 DEF IInv, DiskTypes
<1>5. \A o \in Rooms : (Unlisted(o) => Unlisted(o)') /\ (Stands(o)' => Stands(o))
  BY <1>1 DEF Stands, Unlisted
<1>6. Owners'
  BY <1>1, ForgottenOwners DEF IInv, Owners
<1>7. Reservations' /\ Erased'
  BY <1>1, <1>5, ReservationsStill, ErasedStill
<1>8. RefusalHasCause'
  BY <1>1, Elsewhere
<1>9. Listings'
  <2>1. Distinct(ckpt') /\ Distinct(safe') /\ Distinct(mem')
    BY <1>1, <1>2, BlankIs DEF IInv, Listings
  <2>2. \A o \in Rooms : mem'[o] = None
    BY <1>2, BlankIs
  <2>3. \A o \in Rooms : at'[o] = "none" =>
          log'[o] = EmptyLog /\ box'[o] = None /\ ckpt'[o] = None /\ safe'[o] = None
    BY <1>1 DEF IInv, Listings
  <2> QED
    BY <1>1, <1>2, <2>1, <2>2, <2>3 DEF Listings, Distinct
<1>10. Staged'
  BY <1>1, <1>5 DEF IInv, Staged
<1> QED
  BY <1>3, <1>4, <1>6, <1>7, <1>8, <1>9, <1>10 DEF IInv

\* A Service that refuses to start does so with a cause in front of it.
Cause(r) ==
  \/ at[r] = "lost" \/ TornRemoval(r) \/ RepeatedFact(r)
  \/ CutReplacement(r) \/ RestoredInBox(r)

LEMMA RefuseKeeps ==
  ASSUME IInv, Refuse, NEW r \in Rooms, Cause(r), phase # "up"
  PROVE  IInv'
<1>1. phase' = "refused" /\ ForgetAll /\ UNCHANGED <<at, log, box, ckpt, safe, claim, remote>>
  BY DEF Refuse, disk
<1>2. /\ op'.pc = "idle" /\ ~poisoned' /\ mem' = Blank
  BY <1>1, Forgotten
<1>3. ServiceTypes' /\ Binding' /\ Opening' /\ Removing'
  BY <1>1, Forgotten
<1>4. DiskTypes'
  BY <1>1 DEF IInv, DiskTypes
<1>5. \A o \in Rooms : (Unlisted(o) <=> Unlisted(o)') /\ (Stands(o)' <=> Stands(o))
  BY <1>1 DEF Stands, Unlisted
<1>6. Owners'
  BY <1>1, ForgottenOwners DEF IInv, Owners
<1>7. Reservations' /\ Erased'
  BY <1>1, <1>5, ReservationsStill, ErasedStill
<1>8. RefusalHasCause'
  <2>1. Cause(r)'
    BY <1>1 DEF Cause, TornRemoval, RepeatedFact, CutReplacement, RestoredInBox
  <2> QED
    BY <2>1 DEF Cause, RefusalHasCause
<1>9. Listings'
  BY <1>1, <1>2, BlankIs DEF IInv, Listings, Distinct
<1>10. Staged'
  BY <1>1, <1>5 DEF IInv, Staged
<1> QED
  BY <1>3, <1>4, <1>6, <1>7, <1>8, <1>9, <1>10 DEF IInv

\* A listed Room whose directory is in neither place was removed by someone else.
LEMMA Missing ==
  ASSUME IInv, NEW r \in Rooms, ckpt[r] # None, at[r] \notin {"rooms", "box"}
  PROVE  at[r] = "lost"
BY DEF IInv, DiskTypes, Place, Listings, Erased, Unlisted

\* A checkpoint that does not load names a Room whose data someone else removed.
LEMMA StartOpenKeeps ==
  ASSUME IInv, StartOpen
  PROVE  IInv'
<1>1. phase \in {"down", "refused"} /\ op.pc = "idle" /\ mem = Blank
  BY DEF StartOpen, IInv, Listings
<1>2. CASE /\ CheckpointLoads /\ phase' = "boot" /\ op' = [NoOp EXCEPT !.pc = "recover", !.todo = Boxes]
           /\ UNCHANGED <<disk, claim, remote, projection>>
  <2>1. /\ op' \in Operation /\ op'.pc = "recover" /\ op'.todo = Boxes
    BY <1>2 DEF NoOp, Operation, Steps, Claims, Boxes
  <2>2. /\ phase' = "boot"
        /\ UNCHANGED <<at, log, box, ckpt, safe, claim, remote, mem, held, retired, poisoned>>
    BY <1>2 DEF disk, projection
  <2>3. DiskTypes' /\ ServiceTypes'
    BY <2>1, <2>2 DEF IInv, DiskTypes, ServiceTypes
  <2>4. \A o \in Rooms : (Unlisted(o)' <=> Unlisted(o)) /\ (Stands(o)' <=> Stands(o))
    BY <2>2 DEF Stands, Unlisted
  <2>5. Owners' /\ Reservations' /\ Erased'
    BY <2>2, <2>4, OwnersStill, ReservationsStill, ErasedStill
  <2>6. Binding' /\ Removing' /\ RefusalHasCause'
    BY <2>1, <2>2, Elsewhere
  <2>7. Listings'
    BY <1>1, <2>1, <2>2, <2>4 DEF IInv, Listings, Distinct
  <2>8. Staged'
    BY <2>1, <2>2, <2>4 DEF IInv, Staged
  <2>9. Opening'
    <3>1. \A o \in Rooms : ckpt[o] # None /\ ~ckpt[o].archived => at[o] = "rooms"
      BY <1>2 DEF CheckpointLoads
    <3>2. (\A o \in Boxes : box[o] # None) /\ \A o \in Rooms \ Boxes : at[o] # "box"
      BY DEF Boxes, IInv, Staged
    <3> QED
      BY <1>1, <2>1, <2>2, <3>1, <3>2 DEF Opening
  <2> QED
    BY <2>3, <2>5, <2>6, <2>7, <2>8, <2>9 DEF IInv
<1>3. CASE ~CheckpointLoads /\ Refuse
  <2>1. PICK r \in Rooms : ckpt[r] # None /\ ~(/\ ~ckpt[r].archived => at[r] = "rooms"
          /\ \A o \in Rooms \ {r} : ckpt[o] # None /\ ckpt[o].session # None => ckpt[o].session # ckpt[r].session)
    BY <1>3 DEF CheckpointLoads
  <2>2. ~ckpt[r].archived /\ at[r] # "rooms"
    BY <2>1 DEF IInv, Listings, Distinct
  <2>3. at[r] # "box"
    BY <2>1, <2>2 DEF IInv, Staged
  <2>4. at[r] = "lost"
    BY <2>1, <2>2, <2>3, Missing
  <2> QED
    BY <1>1, <1>3, <2>4, RefuseKeeps DEF Cause
<1> QED
  BY <1>2, <1>3 DEF StartOpen

\* The marker, or the checkpoint without the Room, is proof of the removal.
LEMMA CompleteRemovalKeeps ==
  ASSUME IInv, NEW b \in Rooms, CompleteRemoval(b)
  PROVE  IInv'
<1>1. /\ op.pc = "recover" /\ b \in op.todo /\ ~Unreadable(b) /\ RemovalCommitted(b) /\ Processed(b)
      /\ UNCHANGED <<log, ckpt, safe, remote, phase, mem, poisoned>>
  BY DEF CompleteRemoval, At
<1>2. box[b] # None /\ phase # "up"
  BY <1>1 DEF IInv, Opening, Listings
<1>3. Unlisted(b)
  BY <1>1, <1>2 DEF RemovalCommitted, IInv, Staged, Listings, Unlisted
<1>4. at[b] # "rooms" /\ (at[b] = "box" => log[b].archived)
  BY <1>1, <1>2, <1>3 DEF Unreadable, Verified, IInv, Staged, Unlisted
<1>5. PICK h : h = HeldBy(b)
  OBVIOUS
<1>6. PICK rt : rt = RetiredBy(b)
  OBVIOUS
<1>7. \/ /\ claim' = Released(box[b].claims \cup KnownClaims(b, h, rt))
         /\ held' = [held EXCEPT ![b] = None]
         /\ retired' = {c \in retired : c.owner # b}
         /\ EraseBox(b)
      \/ held' = h /\ retired' = rt /\ UNCHANGED <<at, box, claim>>
  BY <1>5, <1>6 DEF CompleteRemoval, HeldBy, RetiredBy
<1> QED
  BY <1>1, <1>2, <1>3, <1>4, <1>5, <1>6, <1>7, CleansKeep

\* Without either, both checkpoints list the Room, and it goes back.
LEMMA UndoRemovalKeeps ==
  ASSUME IInv, NEW b \in Rooms, UndoRemoval(b)
  PROVE  IInv'
<1>1. /\ op.pc = "recover" /\ b \in op.todo /\ ~Unreadable(b) /\ (~MetadataOnly(b) => ~RemovalCommitted(b))
      /\ at' = [at EXCEPT ![b] = IF @ = "box" THEN "rooms" ELSE @]
      /\ UNCHANGED <<log, ckpt, safe, claim, remote>>
  BY DEF UndoRemoval, At
<1>2. box[b] # None /\ phase = "boot" /\ op \in Operation /\ at \in [Rooms -> Place] /\ box \in [Rooms -> Box \cup {None}]
  BY <1>1 DEF IInv, Opening, Listings, ServiceTypes, DiskTypes
<1>3. at[b] = "box" => ckpt[b] # None /\ safe[b] # None /\ ~box[b].committed
  BY <1>1, <1>2 DEF MetadataOnly, RemovalCommitted, IInv, Staged
<1>4. at[b] # "torn"
  BY <1>1 DEF Unreadable
<1>5. /\ at' \in [Rooms -> Place] /\ \A o \in Rooms \ {b} : at'[o] = at[o]
      /\ at'[b] = (IF at[b] = "box" THEN "rooms" ELSE at[b])
  <2>1. PICK p \in Place : p = IF at[b] = "box" THEN "rooms" ELSE at[b]
    BY <1>2 DEF Place
  <2> QED
    BY <1>1, <1>2, <2>1
<1>6. \A o \in Rooms : (Unlisted(o)' <=> Unlisted(o)) /\ (Stands(o)' => Stands(o))
  BY <1>1, <1>3, <1>5 DEF Stands, Unlisted
<1>7. Reservations'
  BY <1>1, <1>6, ReservationsStill
<1>8. Erased'
  BY <1>1, <1>5, <1>6, ErasedStill
<1>9. \A o \in Rooms : at'[o] = "none" => at[o] = "none" /\ o # b
  BY <1>2, <1>5 DEF IInv, Listings
<1>10. CASE box' = [box EXCEPT ![b] = None] /\ Processed(b) /\ UNCHANGED <<phase, projection>>
  <2>1. UNCHANGED <<phase, mem, held, retired, poisoned>>
    BY <1>10 DEF projection
  <2>2. /\ op' \in Operation /\ op'.pc = "recover" /\ op'.todo = op.todo \ {b} /\ op.todo \subseteq Rooms
    BY <1>1, <1>2, <1>10, ProcessedIs DEF Operation
  <2>3. box' \in [Rooms -> Box \cup {None}] /\ \A o \in Rooms : box'[o] = IF o = b THEN None ELSE box[o]
    BY <1>2, <1>10
  <2>4. DiskTypes' /\ ServiceTypes'
    BY <1>1, <1>5, <2>1, <2>2, <2>3 DEF IInv, DiskTypes, ServiceTypes
  <2>5. Owners'
    <3>1. \A o \in Rooms : box'[o] # None => \A c \in box'[o].claims : c.owner = o
      BY <2>3 DEF IInv, Owners
    <3> QED
      BY <1>1, <2>1, <3>1 DEF IInv, Owners, LogClaims
  <2>6. Binding' /\ RefusalHasCause' /\ Removing'
    BY <1>2, <2>1, <2>2, Elsewhere
  <2>7. Listings'
    <3>1. \A o \in Rooms : mem[o] # None => at'[o] = "rooms" \/ ~Unlisted(o)
      BY <1>5 DEF IInv, Listings
    <3> QED
      BY <1>1, <1>2, <1>6, <1>9, <2>1, <2>2, <2>3, <3>1 DEF IInv, Listings, Distinct
  <2>8. Staged'
    BY <1>1, <1>2, <1>3, <1>4, <1>5, <1>6, <2>1, <2>2, <2>3 DEF IInv, Staged
  <2>9. Opening'
    <3>1. \A o \in Rooms : ckpt[o] # None /\ ~ckpt[o].archived => at'[o] = "rooms"
      BY <1>1, <1>5 DEF IInv, Opening
    <3>2. \A o \in Rooms \ op'.todo : at'[o] = "box" => ckpt[o] = None
      BY <1>1, <1>5, <2>2 DEF IInv, Opening
    <3>3. \A o \in op'.todo : box'[o] # None
      BY <1>1, <2>2, <2>3 DEF IInv, Opening
    <3> QED
      BY <1>1, <2>1, <2>2, <3>1, <3>2, <3>3 DEF IInv, Opening
  <2> QED
    BY <1>7, <1>8, <2>4, <2>5, <2>6, <2>7, <2>8, <2>9 DEF IInv
<1>11. CASE UNCHANGED box /\ at[b] = "box" /\ phase' = "down" /\ ForgetAll
  <2>1. /\ op'.pc = "idle" /\ ~poisoned' /\ mem' = Blank
    BY <1>11, Forgotten
  <2>2. ServiceTypes' /\ Binding' /\ Opening' /\ Removing'
    BY <1>11, Forgotten
  <2>3. DiskTypes'
    BY <1>1, <1>5, <1>11 DEF IInv, DiskTypes
  <2>4. Owners'
    BY <1>1, <1>11, ForgottenOwners DEF IInv, Owners
  <2>5. RefusalHasCause'
    BY <1>11, Elsewhere
  <2>6. Listings'
    BY <1>1, <1>2, <1>6, <1>9, <1>11, <2>1, BlankIs DEF IInv, Listings, Distinct
  <2>7. Staged'
    BY <1>1, <1>3, <1>5, <1>6, <1>11 DEF IInv, Staged
  <2> QED
    BY <1>7, <1>8, <2>2, <2>3, <2>4, <2>5, <2>6, <2>7 DEF IInv
<1> QED
  BY <1>10, <1>11 DEF UndoRemoval

\* An unreadable container was torn, or its log tells against its removal.
LEMMA RefuseEntryKeeps ==
  ASSUME IInv, NEW b \in Rooms, RefuseEntry(b)
  PROVE  IInv'
<1>1. op.pc = "recover" /\ b \in op.todo /\ Unreadable(b) /\ Refuse
  BY DEF RefuseEntry, At
<1>2. box[b] # None /\ phase # "up"
  BY <1>1 DEF IInv, Opening, Listings
<1>3. Cause(b)
  BY <1>1, <1>2 DEF Unreadable, Verified, Cause, TornRemoval, RepeatedFact, RestoredInBox
<1> QED
  BY <1>1, <1>2, <1>3, RefuseKeeps

\* What the scan finds: a Room of which the data is there, or the listing of one
\* whose data someone else removed.
LEMMA FoundIs ==
  ASSUME IInv, op.pc \in {"recover", "reserve"}, op.pc = "recover" => op.todo = {}, NEW r \in Rooms
  PROVE  /\ Found(r) \in Entry \cup {None}
         /\ at[r] = "rooms" => Found(r) = EntryOf(log[r]) /\ Found(r) # None
         /\ at[r] # "rooms" => Found(r) = ckpt[r]
         /\ at[r] # "rooms" /\ Found(r) # None => at[r] = "lost"
<1>1. /\ EntryOf(log[r]) \in Entry /\ ckpt[r] \in Entry \cup {None}
  <2>1. log[r] \in Log /\ ckpt[r] \in Entry \cup {None}
    BY DEF IInv, DiskTypes, Listing
  <2>2. SessionIn(log[r].bound) \in Sessions \cup {None} /\ log[r].archived \in BOOLEAN
    BY <2>1 DEF Log, SessionIn, Claims, Claim
  <2> QED
    BY <2>1, <2>2 DEF EntryOf, Entry
<1>2. at[r] = "rooms" => Found(r) = EntryOf(log[r]) /\ Found(r) # None
  BY <1>1, NoneIsNothing DEF Found
<1>3. at[r] # "rooms" => ckpt[r] = None \/ ckpt[r].archived
  BY DEF IInv, Opening
<1>4. at[r] # "rooms" => Found(r) = ckpt[r]
  BY <1>3 DEF Found
<1>5. at[r] = "box" => ckpt[r] = None
  BY DEF IInv, Opening
<1>6. at[r] # "rooms" /\ Found(r) # None => at[r] = "lost"
  BY <1>4, <1>5, Missing
<1> QED
  BY <1>1, <1>2, <1>4, <1>6

\* Two Rooms that stand never use one session, so a conflict has a lost Room in it.
LEMMA ScanKeeps ==
  ASSUME IInv, Scan
  PROVE  IInv'
<1>1. op.pc = "recover" /\ op.todo = {} /\ phase = "boot"
  BY DEF Scan, At, IInv, Listings
<1>2. CASE /\ \E r \in Rooms : (at[r] = "rooms" /\ log[r].broken) \/ (Found(r) # None /\ Conflict(r))
           /\ Refuse
  <2>1. PICK r \in Rooms : (at[r] = "rooms" /\ log[r].broken) \/ (Found(r) # None /\ Conflict(r))
    BY <1>2
  <2>2. CASE at[r] = "rooms" /\ log[r].broken
    BY <1>1, <1>2, <2>2, RefuseKeeps DEF Cause, RepeatedFact
  <2>3. CASE Found(r) # None /\ at[r] # "rooms"
    <3>1. at[r] = "lost"
      BY <1>1, <2>3, FoundIs
    <3> QED
      BY <1>1, <1>2, <3>1, RefuseKeeps DEF Cause
  <2>4. CASE at[r] = "rooms" /\ Conflict(r)
    <3>1. PICK s : s = SessionIn(log[r].bound)
      OBVIOUS
    <3>2. Found(r).session = s
      BY <1>1, <2>4, <3>1, FoundIs DEF EntryOf
    <3>3. s # None
      BY <2>4, <3>2 DEF Conflict
    <3>4. log[r].bound # None /\ s = log[r].bound.session /\ claim[s] # None /\ claim[s].owner = r
      BY <2>4, <3>1, <3>3 DEF SessionIn, IInv, Reservations, Stands
    <3>5. PICK o \in Rooms \ {r} : Found(o) # None /\ Found(o).session = s
      BY <2>4, <3>2, <3>4 DEF Conflict
    <3>6. at[o] # "rooms"
      <4> SUFFICES ASSUME at[o] = "rooms"
                   PROVE  FALSE
        OBVIOUS
      <4>1. s = SessionIn(log[o].bound)
        BY <1>1, <3>5, FoundIs DEF EntryOf
      <4>2. log[o].bound # None /\ log[o].bound.session = s
        BY <3>3, <4>1 DEF SessionIn
      <4>3. claim[s].owner = o
        BY <4>2 DEF IInv, Reservations, Stands
      <4> QED
        BY <3>4, <3>5, <4>3
    <3>7. at[o] = "lost"
      BY <1>1, <3>5, <3>6, FoundIs
    <3> QED
      BY <1>1, <1>2, <3>5, <3>7, RefuseKeeps DEF Cause
  <2> QED
    BY <2>1, <2>2, <2>3, <2>4
<1>3. CASE /\ \A r \in Rooms : Found(r) # None => ~Conflict(r)
           /\ mem' = [r \in Rooms |-> Found(r)]
           /\ held' = [r \in Rooms |-> IF at[r] = "rooms" THEN log[r].bound ELSE held[r]]
           /\ retired' = retired \cup UNION {log[r].retired \ {log[r].bound} : r \in {q \in Rooms : at[q] = "rooms"}}
           /\ op' = [NoOp EXCEPT !.pc = "reserve",
                                 !.todo = {r \in Rooms : Found(r) # None /\ Found(r).session # None}]
           /\ UNCHANGED <<disk, claim, remote, phase, poisoned>>
  <2>1. UNCHANGED <<at, log, box, ckpt, safe, claim, remote, phase, poisoned>>
    BY <1>3 DEF disk
  <2>2. PICK todo : todo = {r \in Rooms : Found(r) # None /\ Found(r).session # None}
    OBVIOUS
  <2>3. /\ op' \in Operation /\ op'.pc = "reserve" /\ op'.todo = todo /\ todo \subseteq Rooms
    BY <1>3, <2>2 DEF NoOp, Operation, Steps, Claims
  <2>4. mem' \in Listing /\ \A r \in Rooms : mem'[r] = Found(r)
    <3>1. \A r \in Rooms : Found(r) \in Entry \cup {None}
      BY <1>1, FoundIs
    <3> QED
      BY <1>3, <3>1 DEF Listing
  <2>5. /\ held' \in [Rooms -> Claims] /\ \A r \in Rooms : held'[r] # None => held'[r].owner = r
        /\ \A r \in Rooms : at[r] = "rooms" => held'[r] = log[r].bound
    BY <1>3 DEF IInv, DiskTypes, ServiceTypes, Log, Owners, LogClaims
  <2>6. retired' \in SUBSET Claim /\ \A c \in retired' : c.owner \in Rooms /\ c \in log[c.owner].retired
    <3>1. ASSUME NEW c \in retired'
          PROVE  c \in Claim /\ c.owner \in Rooms /\ c \in log[c.owner].retired
      <4>1. CASE c \in retired
        BY <4>1 DEF IInv, ServiceTypes, Owners
      <4>2. CASE c \in UNION {log[r].retired \ {log[r].bound} : r \in {q \in Rooms : at[q] = "rooms"}}
        <5>1. PICK r \in Rooms : c \in log[r].retired
          BY <4>2
        <5>2. log[r].retired \in SUBSET Claim
          BY DEF IInv, DiskTypes, Log
        <5>3. c \in Claim /\ c # None
          BY <5>1, <5>2, NoneIsNothing
        <5>4. c.owner = r
          BY <5>1, <5>3 DEF IInv, Owners, LogClaims
        <5> QED
          BY <5>1, <5>3, <5>4
      <4> QED
        BY <1>3, <3>1, <4>1, <4>2
    <3> QED
      BY <3>1
  <2> HIDE <1>3
  <2>7. DiskTypes' /\ ServiceTypes'
    BY <2>1, <2>3, <2>4, <2>5, <2>6 DEF IInv, DiskTypes, ServiceTypes
  <2>8. \A o \in Rooms : (Unlisted(o)' <=> Unlisted(o)) /\ (Stands(o)' <=> Stands(o))
    BY <2>1 DEF Stands, Unlisted
  <2>9. Owners'
    BY <2>1, <2>5, <2>6 DEF IInv, Owners, LogClaims
  <2>10. Reservations' /\ Erased'
    BY <2>1, <2>8, ReservationsStill, ErasedStill
  <2>11. Binding' /\ Removing' /\ RefusalHasCause'
    BY <1>1, <2>1, <2>3, Elsewhere
  <2>12. Distinct(mem')
    <3> SUFFICES ASSUME NEW r \in Rooms, NEW o \in Rooms, r # o, Found(r) # None, Found(o) # None,
                        Found(r).session = Found(o).session, Found(r).session # None
                 PROVE  FALSE
      BY <2>4 DEF Distinct
    <3> QED
      BY <1>3 DEF Conflict
  <2>13. Listings'
    <3>1. \A o \in Rooms : mem'[o] # None => at[o] = "rooms" \/ ~Unlisted(o)
      BY <1>1, <2>4, FoundIs DEF Unlisted
    <3>2. \A o \in Rooms : at[o] = "none" => mem'[o] = None
      BY <1>1, <2>4, FoundIs DEF IInv, Listings
    <3>3. /\ phase' = "boot" /\ ~poisoned'
      BY <1>1, <2>1 DEF IInv, Listings
    <3> QED
      BY <2>1, <2>3, <2>8, <2>12, <3>1, <3>2, <3>3 DEF IInv, Listings, Distinct
  <2>14. Staged'
    BY <1>1, <2>1, <2>8 DEF IInv, Staged
  <2>15. Opening'
    <3>1. \A r \in Rooms : Found(r)' = Found(r)
      BY <2>1 DEF Found
    <3>2. \A r \in Rooms : at[r] = "box" => ckpt[r] = None
      BY <1>1 DEF IInv, Opening
    <3>3. \A r \in Rooms : ckpt[r] # None /\ ~ckpt[r].archived => at[r] = "rooms"
      BY <1>1 DEF IInv, Opening
    <3>4. \A r \in todo : mem'[r] # None /\ mem'[r].session # None
      BY <2>2, <2>4
    <3> QED
      BY <2>1, <2>3, <2>4, <2>5, <3>1, <3>2, <3>3, <3>4 DEF Opening
  <2> QED
    BY <2>7, <2>9, <2>10, <2>11, <2>13, <2>14, <2>15 DEF IInv
<1> QED
  BY <1>2, <1>3 DEF Scan

\* The claim is there or free, or a replacement was cut before its fact.
LEMMA ReserveKeeps ==
  ASSUME IInv, NEW r \in Rooms, Reserve(r)
  PROVE  IInv'
<1>1. /\ op.pc = "reserve" /\ r \in op.todo /\ phase = "boot" /\ mem[r] # None /\ mem[r].session # None
      /\ mem[r] = Found(r) /\ mem[r] \in Entry
  BY DEF Reserve, At, IInv, Opening, Listings, ServiceTypes, Listing
<1>2. /\ at[r] = "rooms" => mem[r] = EntryOf(log[r])
      /\ at[r] # "rooms" => at[r] = "lost"
  BY <1>1, FoundIs
<1>3. PICK s : s = mem[r].session
  OBVIOUS
<1>4. s \in Sessions
  BY <1>1, <1>3 DEF Entry
<1>5. PICK c : c = IF held[r] # None THEN held[r]
                   ELSE IF claim[s] # None THEN claim[s]
                   ELSE [owner |-> r, session |-> s, bind |-> 0]
  OBVIOUS
<1>6. c \in Claim /\ c # None /\ c.session \in Sessions
  <2>1. [owner |-> r, session |-> s, bind |-> 0] \in Claim
    BY <1>4, RegistryAssumption DEF Claim
  <2>2. held[r] \in Claims /\ claim[s] \in Claims
    BY <1>4 DEF IInv, ServiceTypes, DiskTypes
  <2>3. c \in Claim
    BY <1>5, <2>1, <2>2 DEF Claims
  <2> QED
    BY <2>3, NoneIsNothing DEF Claim
<1>7. at[r] = "rooms" => /\ log[r].bound # None /\ held[r] = log[r].bound /\ c = log[r].bound /\ c.owner = r
                         /\ claim[c.session] # None /\ claim[c.session].owner = r
  <2> SUFFICES ASSUME at[r] = "rooms"
               PROVE  /\ log[r].bound # None /\ held[r] = log[r].bound /\ c = log[r].bound /\ c.owner = r
                      /\ claim[c.session] # None /\ claim[c.session].owner = r
    OBVIOUS
  <2>1. log[r].bound # None
    BY <1>1, <1>2 DEF EntryOf, SessionIn
  <2>2. held[r] = log[r].bound
    BY <1>1 DEF IInv, Opening
  <2>3. c = log[r].bound
    BY <1>5, <2>1, <2>2
  <2>4. c.owner = r
    BY <1>6, <2>3 DEF IInv, Owners, LogClaims
  <2>5. claim[c.session] # None /\ claim[c.session].owner = r
    BY <2>1, <2>3 DEF IInv, Reservations, Stands
  <2> QED
    BY <2>1, <2>2, <2>3, <2>4, <2>5
<1>8. CASE c.owner = r /\ MayCommit(None, c) /\ claim' = Reserved(c) /\ held' = [held EXCEPT ![r] = c] /\ Processed(r)
           /\ UNCHANGED <<disk, remote, phase, mem, retired, poisoned>>
  <2>1. UNCHANGED <<at, log, box, ckpt, safe, remote, phase, mem, retired, poisoned>>
    BY <1>8 DEF disk
  <2>2. claim[c.session] \in {None, c}
    BY <1>6, <1>8 DEF MayCommit
  <2>3. claim' \in [Sessions -> Claims] /\ \A t \in Sessions : claim'[t] = IF t = c.session THEN c ELSE claim[t]
    BY <1>6, <1>8 DEF Reserved, IInv, DiskTypes, Claims
  <2>4. held' \in [Rooms -> Claims] /\ \A o \in Rooms : held'[o] = IF o = r THEN c ELSE held[o]
    BY <1>6, <1>8 DEF IInv, ServiceTypes, Claims
  <2>5. /\ op' \in Operation /\ op'.pc = "reserve" /\ op'.todo = op.todo \ {r}
    BY <1>1, <1>8, ProcessedIs DEF IInv, ServiceTypes
  <2>6. DiskTypes' /\ ServiceTypes'
    BY <2>1, <2>3, <2>4, <2>5 DEF IInv, DiskTypes, ServiceTypes
  <2>7. \A o \in Rooms : (Unlisted(o)' <=> Unlisted(o)) /\ (Stands(o)' <=> Stands(o))
    BY <2>1 DEF Stands, Unlisted
  <2>8. Owners'
    <3>1. \A o \in Rooms : held'[o] # None => held'[o].owner = o
      BY <1>8, <2>4 DEF IInv, Owners
    <3>2. \A t \in Sessions : claim'[t] # None => claim'[t].session = t
      BY <2>3 DEF IInv, Owners
    <3> QED
      BY <2>1, <3>1, <3>2 DEF IInv, Owners, LogClaims
  <2>9. \A t \in Sessions : claim[t] # None => claim'[t] = claim[t]
    BY <2>2, <2>3
  <2>10. Reservations'
    <3>1. ASSUME NEW o \in Rooms, Stands(o), log[o].bound # None
          PROVE  claim'[log[o].bound.session] = claim[log[o].bound.session]
      <4>1. log[o].bound.session \in Sessions /\ claim[log[o].bound.session] # None
        BY <3>1 DEF IInv, Reservations, DiskTypes, Log, Claims, Claim
      <4> QED
        BY <2>9, <4>1
    <3>2. ASSUME NEW x \in Remotes, remote[x] # None
          PROVE  claim'[remote[x]] = claim[remote[x]]
      <4>1. claim[remote[x]] = [owner |-> x, session |-> remote[x], bind |-> 0] /\ remote[x] \in Sessions
        BY <3>2 DEF IInv, Reservations, DiskTypes
      <4>2. claim[remote[x]] \in Claim
        BY <4>1, RegistryAssumption DEF Claim
      <4> QED
        BY <2>9, <4>1, <4>2, NoneIsNothing
    <3> QED
      BY <2>1, <2>7, <3>1, <3>2 DEF IInv, Reservations
  <2>11. Binding' /\ Removing' /\ RefusalHasCause'
    BY <1>1, <2>1, <2>5, Elsewhere
  <2>12. Listings'
    BY <1>1, <2>1, <2>5, <2>7 DEF IInv, Listings, Distinct
  <2>13. Staged'
    BY <1>1, <2>1, <2>5, <2>7 DEF IInv, Staged
  <2>14. Opening'
    <3>1. \A o \in Rooms : Found(o)' = Found(o)
      BY <2>1 DEF Found
    <3>2. \A o \in Rooms : at[o] = "rooms" => held'[o] = log[o].bound
      BY <1>1, <1>7, <2>4 DEF IInv, Opening
    <3>3. /\ \A o \in Rooms : ckpt[o] # None /\ ~ckpt[o].archived => at[o] = "rooms"
          /\ \A o \in Rooms : at[o] = "box" => ckpt[o] = None
          /\ \A o \in Rooms : mem[o] = Found(o)
          /\ \A o \in op.todo : mem[o] # None /\ mem[o].session # None
      BY <1>1 DEF IInv, Opening
    <3> QED
      BY <2>1, <2>5, <3>1, <3>2, <3>3 DEF Opening
  <2>15. Erased'
    <3>1. ASSUME NEW o \in Rooms, at[o] \in {"torn", "erased"}, NEW d \in LogClaims(o)
          PROVE  claim'[d.session] # d
      <4>1. claim[d.session] # d /\ d \in Claim /\ d.owner = o /\ d.session \in Sessions
        BY <3>1, LogClaimsAre DEF IInv, Erased, Freed
      <4>2. o # r
        BY <1>2, <3>1
      <4> QED
        BY <1>8, <2>3, <4>1, <4>2
    <3> QED
      BY <2>1, <2>7, <3>1 DEF IInv, Erased, Freed, LogClaims
  <2> QED
    BY <2>6, <2>8, <2>10, <2>11, <2>12, <2>13, <2>14, <2>15 DEF IInv
<1>9. CASE ~(c.owner = r /\ MayCommit(None, c)) /\ Refuse
  <2>1. CASE at[r] # "rooms"
    BY <1>1, <1>2, <1>9, <2>1, RefuseKeeps DEF Cause
  <2>2. CASE at[r] = "rooms"
    <3>1. claim[c.session] # c
      BY <1>6, <1>7, <1>9, <2>2 DEF MayCommit
    <3>2. SessionIn(log[r].bound) = c.session
      BY <1>7, <2>2 DEF SessionIn
    <3>3. CutReplacement(r)
      BY <1>6, <1>7, <2>2, <3>1, <3>2 DEF CutReplacement
    <3> QED
      BY <1>1, <1>9, <3>3, RefuseKeeps DEF Cause
  <2> QED
    BY <2>1, <2>2
<1> QED
  BY <1>3, <1>5, <1>8, <1>9 DEF Reserve

\* No log rests on a retired claim, and what the checkpoint listed was found.
LEMMA FinishOpenKeeps ==
  ASSUME IInv, FinishOpen
  PROVE  IInv'
<1>1. /\ op.pc = "reserve" /\ phase = "boot" /\ ~poisoned /\ poisoned \in BOOLEAN /\ op.todo = {}
      /\ claim' = Released(retired) /\ ckpt' = mem /\ mem \in Listing /\ Distinct(mem)
      /\ UNCHANGED <<at, log, box, remote>>
  BY DEF FinishOpen, At, Checkpointed, Unsynced, IInv, Listings, ServiceTypes
<1>2. \A r \in Rooms : /\ at[r] = "rooms" => mem[r] # None
                       /\ at[r] # "rooms" => mem[r] = ckpt[r]
                       /\ at[r] = "box" => ckpt[r] = None
                       /\ safe[r] # None => ckpt[r] # None
  <2>1. ASSUME NEW r \in Rooms
        PROVE  /\ at[r] = "rooms" => Found(r) # None
               /\ at[r] # "rooms" => Found(r) = ckpt[r]
    BY <1>1, FoundIs
  <2>2. \A r \in Rooms : mem[r] = Found(r) /\ (at[r] = "box" => ckpt[r] = None)
    BY <1>1 DEF IInv, Opening
  <2>3. \A r \in Rooms : safe[r] # None => ckpt[r] # None
    BY <1>1 DEF IInv, Listings
  <2> QED
    BY <2>1, <2>2, <2>3
<1>3. /\ claim' \in [Sessions -> Claims] /\ \A s \in Sessions : claim'[s] = IF claim[s] \in retired THEN None ELSE claim[s]
  BY <1>1 DEF Released, IInv, DiskTypes, Claims
<1>4. \A s \in Sessions : claim'[s] # None => claim'[s].session = s
  BY <1>3 DEF IInv, Owners
<1>5. \A c \in retired : c.owner \in Rooms /\ c \in log[c.owner].retired
  BY DEF IInv, Owners
<1>6. \A o \in Rooms : /\ at[o] # "rooms" => mem[o] = ckpt[o]
                       /\ Unlisted(o) /\ at[o] # "rooms" => mem[o] = None
  BY <1>2 DEF Unlisted
<1>7. safe' \in {mem, safe}
  BY DEF FinishOpen, Checkpointed, Unsynced
<1>8. \A o \in Rooms : (at[o] # "rooms" /\ Unlisted(o) => Unlisted(o)') /\ (Stands(o)' => Stands(o))
  BY <1>1, <1>2, <1>6, <1>7 DEF Stands, Unlisted
<1>9. Reservations'
  <2>1. ASSUME NEW o \in Rooms, Stands(o), log[o].bound # None
        PROVE  claim'[log[o].bound.session] = claim[log[o].bound.session]
    <3>1. log[o].bound.session \in Sessions
      BY <2>1 DEF IInv, DiskTypes, Log, Claims, Claim
    <3>2. LET c == claim[log[o].bound.session] IN c # None /\ c.owner = o /\ c \notin log[o].retired
      BY <2>1 DEF IInv, Reservations
    <3> QED
      BY <1>3, <1>5, <3>1, <3>2
  <2>2. ASSUME NEW x \in Remotes, remote[x] # None
        PROVE  claim'[remote[x]] = claim[remote[x]]
    <3>1. claim[remote[x]] = [owner |-> x, session |-> remote[x], bind |-> 0] /\ remote[x] \in Sessions
      BY <2>2 DEF IInv, Reservations, DiskTypes
    <3>2. claim[remote[x]].owner = x /\ x \notin Rooms
      BY <3>1, RegistryAssumption
    <3> QED
      BY <1>3, <1>5, <3>1, <3>2
  <2> QED
    BY <1>1, <1>8, <2>1, <2>2 DEF IInv, Reservations
<1>10. \A o \in Rooms : Freed(o) => Freed(o)'
  BY <1>1, <1>3, ErasedShrinks
<1>11. Erased'
  BY <1>1, <1>8, <1>10 DEF IInv, Erased
<1>12. DiskTypes'
  <2>1. ckpt' \in Listing /\ safe' \in Listing
    BY <1>1, <1>7 DEF IInv, DiskTypes
  <2> QED
    BY <1>1, <1>3, <2>1 DEF IInv, DiskTypes
<1>13. CASE safe' = mem /\ phase' = "up" /\ retired' = {} /\ op' = NoOp /\ UNCHANGED <<mem, held, poisoned>>
  <2>1. ServiceTypes'
    BY <1>13, NoOpIs DEF IInv, ServiceTypes
  <2>2. Owners'
    BY <1>1, <1>4, <1>13 DEF IInv, Owners, LogClaims
  <2>3. Binding' /\ Opening' /\ Removing' /\ RefusalHasCause'
    BY <1>13, NoOpIs, Elsewhere
  <2>4. Listings'
    <3>1. \A o \in Rooms : mem[o] # None => at[o] = "rooms" \/ ~Unlisted(o)'
      BY <1>1 DEF Unlisted
    <3>2. \A o \in Rooms : at[o] = "none" => log[o] = EmptyLog /\ box[o] = None /\ mem[o] = None
      BY DEF IInv, Listings
    <3>3. Distinct(ckpt') /\ Distinct(safe') /\ Distinct(mem')
      BY <1>1, <1>13
    <3> QED
      BY <1>1, <1>13, <3>1, <3>2, <3>3, NoOpIs DEF Listings, Distinct
  <2>5. Staged'
    BY <1>1, <1>2, <1>6, <1>8, <1>13 DEF IInv, Staged
  <2> QED
    BY <1>9, <1>11, <1>12, <2>1, <2>2, <2>3, <2>4, <2>5 DEF IInv
<1>14. CASE safe' = safe /\ phase' = "down" /\ ForgetAll
  <2>1. op'.pc = "idle" /\ ~poisoned' /\ mem' = Blank
    BY <1>14, Forgotten
  <2>2. ServiceTypes' /\ Binding' /\ Opening' /\ Removing'
    BY <1>14, Forgotten
  <2>3. Owners'
    BY <1>1, <1>4, <1>14, ForgottenOwners
  <2>4. RefusalHasCause'
    BY <1>14, Elsewhere
  <2>5. Listings'
    <3>1. \A o \in Rooms : mem'[o] = None
      BY <2>1, BlankIs
    <3>2. \A o \in Rooms : at[o] = "none" => log[o] = EmptyLog /\ box[o] = None /\ mem[o] = None /\ safe[o] = None
      BY DEF IInv, Listings
    <3>3. Distinct(ckpt') /\ Distinct(safe') /\ Distinct(mem')
      BY <1>1, <1>14, <2>1, BlankIs DEF IInv, Listings
    <3>4. \A o \in Rooms : safe'[o] # None => ckpt'[o] # None
      BY <1>1, <1>2, <1>14
    <3> QED
      BY <1>1, <1>14, <2>1, <3>1, <3>2, <3>3, <3>4 DEF Listings, Distinct
  <2>6. Staged'
    BY <1>1, <1>2, <1>6, <1>8, <1>14 DEF IInv, Staged
  <2> QED
    BY <1>9, <1>11, <1>12, <2>2, <2>3, <2>4, <2>5, <2>6 DEF IInv
<1> QED
  BY <1>13, <1>14 DEF FinishOpen, Checkpointed, Unsynced, Finish

-----------------------------------------------------------------------------
(* Safety *)

\* The empty data root.
LEMMA Initially == Init => IInv
<1> SUFFICES ASSUME Init
             PROVE  IInv
  OBVIOUS
<1>1. /\ at = [r \in Rooms |-> "none"] /\ log = [r \in Rooms |-> EmptyLog] /\ box = Blank
      /\ ckpt = Blank /\ safe = Blank
      /\ claim = [s \in Sessions |-> None] /\ remote = [x \in Remotes |-> None]
      /\ phase = "down" /\ mem = Blank /\ held = Blank /\ retired = {}
      /\ poisoned = FALSE /\ op = NoOp
  BY DEF Init
<1>2. EmptyLog \in Log /\ EmptyLog.bound = None /\ EmptyLog.retired = {}
  BY DEF EmptyLog, Log, Claims
<1>3. \A r \in Rooms : /\ at[r] = "none" /\ log[r] = EmptyLog /\ box[r] = None /\ ckpt[r] = None /\ safe[r] = None
                       /\ mem[r] = None /\ held[r] = None
  BY <1>1, BlankIs
<1>4. DiskTypes
  <2>1. Blank \in [Rooms -> Box \cup {None}]
    BY DEF Blank
  <2> QED
    BY <1>1, <1>2, <2>1, BlankIs DEF DiskTypes, Place, Claims
<1>5. ServiceTypes
  BY <1>1, BlankIs, NoOpIs DEF ServiceTypes
<1>6. Owners /\ Reservations
  BY <1>1, <1>2, <1>3, NoneIsNothing DEF Owners, Reservations, LogClaims
<1>7. Listings
  BY <1>1, <1>3, BlankIs, NoOpIs DEF Listings
<1>8. Staged /\ Erased
  BY <1>3 DEF Staged, Erased
<1>9. Binding /\ Removing /\ Opening /\ RefusalHasCause
  BY <1>1, NoOpIs DEF Binding, Removing, Opening, RefusalHasCause
<1> QED
  BY <1>4, <1>5, <1>6, <1>7, <1>8, <1>9 DEF IInv

\* One lemma per action, put together.
LEMMA NextKeeps == IInv /\ [Next]_vars => IInv'
<1> SUFFICES ASSUME IInv, [Next]_vars
             PROVE  IInv'
  OBVIOUS
<1>1. ASSUME NEW r \in Rooms,
             \/ Publish(r) \/ Unbind(r) \/ AppendLifecycle(r) \/ Remove(r)
             \/ SkipBox(r) \/ CleanBox(r) \/ Reserve(r) \/ LoseData(r)
             \/ CompleteRemoval(r) \/ UndoRemoval(r) \/ RefuseEntry(r)
             \/ \E s \in Sessions, b \in 1..MaxBinds : Bind(r, s, b)
      PROVE  IInv'
  BY <1>1, PublishKeeps, StartsKeep, AppendLifecycleKeeps, CleanBoxKeeps, ReserveKeeps, LoseDataKeeps,
     CompleteRemovalKeeps, UndoRemovalKeeps, RefuseEntryKeeps, BindKeeps
<1>2. ASSUME NEW x \in Remotes, RemoteLeave(x) \/ \E s \in Sessions : RemoteBind(x, s)
      PROVE  IInv'
  BY <1>2, RemoteLeaveKeeps, RemoteBindKeeps
<1>3. CASE Index \/ AppendBinding \/ ProjectBinding \/ ReleasePrevious \/ Relive
  BY <1>3, RelistersKeep, AppendBindingKeeps, ReleasePreviousKeeps
<1>4. CASE RetryCleanup \/ CleanupDone
  <2>2. CASE Rooms # {}
    BY <1>4, <2>2, StartsKeep
  <2>3. CASE Rooms = {}
    <3>1. CleanupDone
      BY <1>4, <2>3 DEF RetryCleanup, Boxes
    <3>2. op' = NoOp /\ op.pc = "clean" /\ UNCHANGED <<disk, claim, remote, phase, projection>>
      BY <3>1 DEF CleanupDone, Finish, At
    <3> QED
      BY <3>2, NoOpIs, Elsewhere, OpMoves
  <2> QED
    BY <2>2, <2>3
<1>5. CASE StageIntent \/ StageMove \/ StageFails \/ Unlist \/ Disclaim \/ Mark \/ Erase
  BY <1>5, StageIntentKeeps, StageMoveKeeps, StageFailsKeeps, UnlistKeeps, DisclaimKeeps, MarkKeeps, EraseKeeps
<1>6. CASE StartOpen \/ Scan \/ FinishOpen \/ Crash
  BY <1>6, StartOpenKeeps, ScanKeeps, FinishOpenKeeps, CrashKeeps
<1>7. CASE UNCHANGED vars
  <2>1. UNCHANGED <<at, log, box, ckpt, safe, claim, remote, phase, mem, held, retired, poisoned, op>>
    BY <1>7 DEF vars
  <2>2. \A r \in Rooms : (Unlisted(r)' <=> Unlisted(r)) /\ (Stands(r)' <=> Stands(r))
    BY <2>1 DEF Stands, Unlisted
  <2>3. DiskTypes' /\ ServiceTypes' /\ Owners' /\ Reservations' /\ Erased'
    BY <2>1, <2>2, OwnersStill, ReservationsStill, ErasedStill DEF IInv, DiskTypes, ServiceTypes
  <2>4. Binding' /\ Listings' /\ Staged'
    BY <2>1, <2>2 DEF IInv, Binding, LogClaims, Listings, Distinct, Staged
  <2>5. Removing'
    BY <2>1, <2>2 DEF IInv, Removing, Recalled, LogClaims, KnownClaims, Freed
  <2>6. Opening' /\ RefusalHasCause'
    BY <2>1 DEF IInv, Opening, Found, RefusalHasCause, TornRemoval, RepeatedFact, CutReplacement, RestoredInBox
  <2> QED
    BY <2>3, <2>4, <2>5, <2>6 DEF IInv
<1> QED
  BY <1>1, <1>2, <1>3, <1>4, <1>5, <1>6, <1>7 DEF Next

\* The inductive invariant holds of every state: between any two durable writes of
\* an operation, after a crash at any of them, and while OpenRegistry recovers.
THEOREM Invariance == Spec => []IInv
<1> QED
  BY Initially, NextKeeps, PTL DEF Spec

\* Every variable keeps its type: what the files, the store, the Registry and the
\* operation under provisionMu hold stays within its sets.
THEOREM TypeCorrect == Spec => []TypeOK
<1>1. IInv => TypeOK
  <2> SUFFICES ASSUME IInv
               PROVE  TypeOK
    OBVIOUS
  <2>1. \A r \in Rooms : /\ DOMAIN log[r] = DOMAIN EmptyLog
                         /\ log[r].bound \in Claims /\ log[r].retired \subseteq Claim
                         /\ log[r].archived \in BOOLEAN /\ log[r].broken \in BOOLEAN
    BY DEF IInv, DiskTypes, Log, EmptyLog
  <2>2. op.room \in Rooms \cup {None} /\ op.next \in Claims /\ op.prev \in Claims /\ op.todo \subseteq Rooms
    BY DEF IInv, ServiceTypes, Operation
  <2> QED
    BY <2>1, <2>2 DEF TypeOK, IInv, DiskTypes, ServiceTypes
<1> QED
  BY <1>1, Invariance, PTL

\* A native session has at most one association on this machine, whatever binds,
\* removals and remote processes run, fail, crash and are recovered.
THEOREM OneAssociationHolds == Spec => []OneAssociation
<1>1. IInv => OneAssociation
  <2> SUFFICES ASSUME IInv, NEW s \in Sessions
               PROVE  Cardinality(Users(s)) <= 1
    BY DEF OneAssociation
  <2>1. ASSUME NEW u \in Users(s)
        PROVE  u = claim[s].owner
    <3>1. CASE u \in Rooms /\ Stands(u) /\ SessionIn(log[u].bound) = s
      <4>1. log[u].bound # None /\ log[u].bound.session = s
        BY <3>1, RegistryAssumption DEF SessionIn
      <4> QED
        BY <3>1, <4>1 DEF IInv, Reservations
    <3>2. CASE u \in Remotes /\ remote[u] = s
      <4>1. remote[u] # None
        BY <3>2, RegistryAssumption
      <4>2. claim[s] = [owner |-> u, session |-> s, bind |-> 0]
        BY <3>2, <4>1 DEF IInv, Reservations
      <4> QED
        BY <4>2
    <3> QED
      BY <2>1, <3>1, <3>2 DEF Users
  <2>2. PICK o : o = claim[s].owner
    OBVIOUS
  <2>3. PICK us : us = Users(s)
    OBVIOUS
  <2>4. us = {} \/ us = {o}
    BY <2>1, <2>2, <2>3
  <2>5. Cardinality(us) <= 1
    <3>1. Cardinality({}) = 0 /\ Cardinality({o}) = 1
      BY FS_EmptySet, FS_Singleton
    <3> QED
      BY <2>4, <3>1
  <2> QED
    BY <2>3, <2>5
<1> QED
  BY <1>1, Invariance, PTL

\* A step brings back no Room that no checkpoint lists.
LEMMA NoneComesBack ==
  ASSUME IInv, Next, NEW r \in Rooms, Unlisted(r), at[r] \in {"box", "torn", "erased"}
  PROVE  Unlisted(r)' /\ at'[r] # "rooms"
<1>1. mem[r] = None /\ at[r] # "rooms"
  BY DEF IInv, Listings
<1>2. CASE UNCHANGED <<at, ckpt, safe>>
  BY <1>2 DEF Unlisted
<1>3. ASSUME NEW b \in Rooms, Publish(b) \/ LoseData(b)
      PROVE  Unlisted(r)' /\ at'[r] # "rooms"
  BY <1>1, <1>3 DEF Publish, LoseData, IInv, DiskTypes, Unlisted
<1>4. ASSUME NEW b \in Rooms, box[b] # None, EraseBox(b), UNCHANGED <<ckpt, safe>>
      PROVE  Unlisted(r)' /\ at'[r] # "rooms"
  BY <1>1, <1>4, EraseBoxIs DEF ErasedFrom, Unlisted
<1>5. ASSUME NEW b \in Rooms, UndoRemoval(b)
      PROVE  Unlisted(r)' /\ at'[r] # "rooms"
  <2>1. b = r => at[b] # "box"
    BY <1>5 DEF UndoRemoval, MetadataOnly, RemovalCommitted, Unlisted
  <2> QED
    BY <1>1, <1>5, <2>1 DEF UndoRemoval, IInv, DiskTypes, Unlisted
<1>6. CASE Index \/ ProjectBinding \/ Relive
  <2>1. op.room \in Rooms /\ at[op.room] = "rooms"
    BY <1>6 DEF Index, ProjectBinding, Relive, At, IInv, Binding, Removing
  <2>2. mem'[r] = mem[r] /\ UNCHANGED at
    BY <1>1, <1>6, <2>1 DEF Index, ProjectBinding, Relive, IInv, ServiceTypes, Listing
  <2>3. ckpt' \in {ckpt, mem'} /\ safe' \in {safe, mem'}
    BY <1>6 DEF Index, ProjectBinding, Relive, CheckpointOrPoison, Checkpointed, Unpublished, Unsynced
  <2> QED
    BY <1>1, <2>2, <2>3 DEF Unlisted
<1>7. CASE StageMove \/ StageFails
  <2>1. op.room \in Rooms /\ at[op.room] = "rooms"
    BY <1>7 DEF StageMove, StageFails, At, IInv, Removing
  <2> QED
    BY <1>1, <1>7, <2>1 DEF StageMove, StageFails, IInv, DiskTypes, Unlisted
<1>8. CASE Unlist
  <2>1. op.room \in Rooms /\ mem[op.room] # None /\ op.room # r
    BY <1>1, <1>8 DEF Unlist, At, IInv, Removing
  <2>2. at'[r] = at[r]
    BY <1>8, <2>1 DEF Unlist, RollBack, IInv, DiskTypes
  <2>3. PICK m : m = [mem EXCEPT ![op.room] = None]
    OBVIOUS
  <2>4. ckpt' \in {ckpt, m} /\ safe' \in {safe, m}
    BY <1>8, <2>3 DEF Unlist, Checkpointed, Unpublished, Unsynced
  <2>5. m[r] = None
    BY <1>1, <2>1, <2>3 DEF IInv, ServiceTypes, Listing
  <2> QED
    BY <1>1, <2>2, <2>4, <2>5 DEF Unlisted
<1>9. CASE FinishOpen
  <2>1. ckpt' = mem /\ safe' \in {safe, mem} /\ UNCHANGED at
    BY <1>9 DEF FinishOpen, Checkpointed, Unsynced
  <2> QED
    BY <1>1, <2>1 DEF Unlisted
<1>10. CASE Crash
  BY <1>1, <1>10 DEF Crash, Unlisted
<1>11. ASSUME NEW b \in Rooms, CleanBox(b) \/ CompleteRemoval(b)
       PROVE  Unlisted(r)' /\ at'[r] # "rooms"
  <2>1. box[b] # None
    BY <1>11 DEF CleanBox, CompleteRemoval, At, IInv, Removing, Opening
  <2>2. UNCHANGED <<ckpt, safe>> /\ (UNCHANGED at \/ EraseBox(b))
    BY <1>11 DEF CleanBox, CompleteRemoval
  <2> QED
    BY <1>2, <1>4, <2>1, <2>2
<1>12. CASE Erase
  <2>1. op.room \in Rooms /\ box[op.room] # None
    BY <1>12 DEF Erase, At, IInv, Removing
  <2>2. EraseBox(op.room) /\ UNCHANGED <<ckpt, safe>>
    BY <1>12 DEF Erase
  <2> QED
    BY <1>4, <2>1, <2>2
<1>13. ASSUME NEW b \in Rooms,
              \/ Unbind(b) \/ AppendLifecycle(b) \/ Remove(b) \/ SkipBox(b) \/ Reserve(b) \/ RefuseEntry(b)
              \/ \E s \in Sessions, d \in 1..MaxBinds : Bind(b, s, d)
       PROVE  UNCHANGED <<at, ckpt, safe>>
  BY <1>13 DEF Unbind, AppendLifecycle, Remove, SkipBox, Reserve, RefuseEntry, Refuse, Bind, disk
<1>14. ASSUME NEW x \in Remotes, RemoteLeave(x) \/ \E s \in Sessions : RemoteBind(x, s)
       PROVE  UNCHANGED <<at, ckpt, safe>>
  BY <1>14 DEF RemoteLeave, RemoteBind, disk
<1>15. CASE AppendBinding \/ ReleasePrevious \/ RetryCleanup \/ StageIntent \/ CleanupDone \/ Disclaim \/ Mark
            \/ StartOpen \/ Scan
  <2>1. UNCHANGED <<at, ckpt, safe>>
    BY <1>15 DEF AppendBinding, ReleasePrevious, RetryCleanup, StageIntent, CleanupDone, Disclaim, Mark,
                 StartOpen, Scan, Refuse, disk
  <2> QED
    BY <1>2, <2>1
<1> QED
  BY <1>2, <1>3, <1>5, <1>6, <1>7, <1>8, <1>9, <1>10, <1>11, <1>12, <1>13, <1>14, <1>15 DEF Next

\* Data is erased only after its removal is certain, a removed Room never comes
\* back, and what its log was bound to is free when its entry is gone.
THEOREM RemovalIsFinalHolds == Spec => RemovalIsFinal
<1>1. IInv => ErasesOnlyRemoved
  BY DEF IInv, Erased, Freed, LogClaims, ErasesOnlyRemoved
<1>2. IInv /\ IInv' /\ [Next]_vars =>
        [\A r \in Rooms : Unlisted(r) /\ at[r] \in {"box", "torn", "erased"} =>
           mem'[r] = None /\ ckpt'[r] = None /\ at'[r] # "rooms"]_vars
  <2> SUFFICES ASSUME IInv, IInv', Next, NEW r \in Rooms, Unlisted(r), at[r] \in {"box", "torn", "erased"}
               PROVE  mem'[r] = None /\ ckpt'[r] = None /\ at'[r] # "rooms"
    OBVIOUS
  <2>1. Unlisted(r)' /\ at'[r] # "rooms"
    BY NoneComesBack
  <2> QED
    BY <2>1 DEF IInv, Listings, Unlisted
<1> QED
  BY <1>1, <1>2, Invariance, PTL DEF RemovalIsFinal, StaysRemoved, Spec

\* OpenRegistry refuses only what RefusalHasCause names: no other crash or failure
\* of an operation leaves a data root that the Service does not start from.
THEOREM RefusalHasCauseHolds == Spec => []RefusalHasCause
<1>1. IInv => RefusalHasCause
  BY DEF IInv
<1> QED
  BY <1>1, Invariance, PTL
=============================================================================
