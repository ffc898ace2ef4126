----------------------------- MODULE RoomRegistry -----------------------------
(***************************************************************************)
(* The Service's Registry of Rooms and the per-user store of native        *)
(* session reservations (internal/service: registry.go, provision.go,      *)
(* lifecycle.go, room_deletion.go, native_host_registry.go;                *)
(* internal/nativeidentity).  A Room is a directory with an Event Log; the *)
(* checkpoint lists the Rooms; a session may be associated with one Room   *)
(* slot, or with one remote association, on this machine.  Every operation *)
(* is a sequence of durable writes that a crash can cut anywhere, and      *)
(* OpenRegistry must make sense of what is left.                           *)
(*                                                                         *)
(* provisionMu admits one operation at a time, `op`.  Other processes that *)
(* reserve sessions for remote Rooms run beside it, kept out of the        *)
(* reservations a commit has locked.                                       *)
(*                                                                         *)
(* Abstractions: native Rooms, one bindable slot each; the Projects, names *)
(* and schemas of Rooms, and checkpoints that do not parse, are left out;  *)
(* a directory rename is durable when it is visible, and only the          *)
(* checkpoint's may be undone by a power failure after a failed sync.      *)
(***************************************************************************)
EXTENDS Naturals, FiniteSets

CONSTANTS
  Rooms,      \* Room IDs, each provisioned at most once
  Sessions,   \* native sessions of one runtime
  Remotes,    \* LAN and enterprise associations of other processes
  MaxBinds,   \* bound: bind IDs that something still refers to
  None        \* no claim, no Room, no session

ASSUME RegistryAssumption ==
  /\ Rooms \cap Remotes = {} /\ MaxBinds \in Nat
  /\ None \notin Rooms \cup Remotes \cup Sessions

VARIABLES
  at,       \* where a Room's directory is
  log,      \* what a Room's Event Log says
  box,      \* the deletion quarantine container of a Room, or None
  ckpt,     \* the checkpoint as it reads
  safe,     \* the checkpoint a power failure is sure to leave
  claim,    \* the reservation of each session, or None
  remote,   \* the session each remote association uses, or None
  phase,    \* the Service: "down", "boot", "up", or "refused" when it cannot start
  mem,      \* Registry.rooms
  held,     \* Registry.nativeClaims
  retired,  \* Registry.nativeRetired
  poisoned, \* Registry.poisoned
  op        \* the operation under provisionMu, or OpenRegistry's progress
disk == <<at, log, box, ckpt, safe>>
projection == <<mem, held, retired, poisoned>>
vars == <<at, log, box, ckpt, safe, claim, remote, phase, mem, held, retired,
          poisoned, op>>

Claim == [owner : Rooms \cup Remotes, session : Sessions, bind : 0..MaxBinds]
Claims == Claim \cup {None}

\* "rooms": published under rooms/; "box": moved whole into its container;
\* "torn": there, with some of its files removed; "erased"; "lost": removed by
\* someone else.
Place == {"none", "rooms", "box", "torn", "erased", "lost"}
Entry == [archived : BOOLEAN, session : Sessions \cup {None}]
Listing == [Rooms -> Entry \cup {None}]
Box == [intent : BOOLEAN, claims : SUBSET Claim, committed : BOOLEAN]

\* None is no record either.
ASSUME NoneIsNothing == None \notin Claim /\ None \notin Entry /\ None \notin Box

-------------------------------------------------------------------------------
(* What a Room's Event Log says, as readRoomFacts replays it *)

EmptyLog == [bound |-> None, retired |-> {}, archived |-> FALSE, broken |-> FALSE]

\* A binding fact replaces the bound claim, which becomes retired; in the log of
\* an archived Room it is not readable.
Rebound(l, c) ==
  [l EXCEPT !.bound = c, !.retired = @ \cup ({l.bound} \ {None}), !.broken = @ \/ l.archived]

\* A lifecycle fact that repeats the lifecycle makes the log unreadable.
Relived(l, archive) ==
  [l EXCEPT !.archived = archive, !.broken = @ \/ l.archived = archive]

SessionIn_Owner(c) == IF c = None THEN None ELSE c.owner
SessionIn(c) == IF c = None THEN None ELSE c.session
EntryOf(l) == [archived |-> l.archived, session |-> SessionIn(l.bound)]

\* readRoomFacts adds what it read to nativeClaims and nativeRetired.
HeldAfterReading(r) == [held EXCEPT ![r] = IF log[r].bound = None THEN @ ELSE log[r].bound]
RetiredAfterReading(r) == retired \cup (log[r].retired \ {log[r].bound})

-------------------------------------------------------------------------------
(* The reservation store: nativeidentity.Store *)

\* Commit(previous, next): may `next` be written, and `previous` be replaced?
MayCommit_Steals(previous, next) == TRUE
MayCommit(previous, next) ==
  /\ previous # None => claim[previous.session] \in {None, previous, next}
  /\ previous # None /\ next = None => claim[previous.session] \in {None, previous}
  /\ next # None => claim[next.session] \in {None, next} \cup {previous}

Reserved(c) == IF c = None THEN claim ELSE [claim EXCEPT ![c.session] = c]

\* ReleaseIfHeld: only the exact claim is released, never a newer owner's.
Released_AnyOwner(cs) == [s \in Sessions |-> IF \E c \in cs : c.session = s THEN None ELSE claim[s]]
Released(cs) == [s \in Sessions |-> IF claim[s] \in cs THEN None ELSE claim[s]]

-------------------------------------------------------------------------------
(* The Registry *)

NoOp == [pc |-> "idle", room |-> None, next |-> None, prev |-> None, todo |-> {}]
At(pc) == op.pc = pc

Idle_Poisoned == phase = "up" /\ At("idle")
Idle == phase = "up" /\ At("idle") /\ ~poisoned
Finish == op' = NoOp
Goto(pc) == op' = IF pc = "idle" THEN NoOp ELSE [op EXCEPT !.pc = pc]

\* The sessions whose reservations a running commit has locked.
Locked ==
  IF op.pc \in {"fact", "project", "release"}
  THEN {SessionIn(op.next), SessionIn(op.prev)} ELSE {}

\* writeCheckpointLocked: it succeeds, or the old file stays, or the new one is
\* visible and its directory was not synced.
Checkpointed(m) == ckpt' = m /\ safe' = m
Unpublished == UNCHANGED <<ckpt, safe>>
Unsynced(m) == ckpt' = m /\ UNCHANGED safe

\* After a committed fact every checkpoint failure fails the Registry closed.
CheckpointOrPoison(m, then) ==
  \/ Checkpointed(m) /\ UNCHANGED poisoned /\ Goto(then)
  \/ Unpublished /\ poisoned' = TRUE /\ Finish
  \/ Unsynced(m) /\ poisoned' = TRUE /\ Finish

(* ProvisionRoom: publish the staged directory; index and checkpoint it *)

Publish(r) ==
  /\ Idle /\ at[r] = "none"
  /\ at' = [at EXCEPT ![r] = "rooms"]
  /\ op' = [NoOp EXCEPT !.pc = "index", !.room = r]
  /\ UNCHANGED <<log, box, ckpt, safe, claim, remote, phase, projection>>

Index ==
  /\ At("index")
  /\ mem' = [mem EXCEPT ![op.room] = EntryOf(EmptyLog)]
  /\ CheckpointOrPoison(mem', "idle")
  /\ UNCHANGED <<at, log, box, claim, remote, phase, held, retired>>

(* commitNativeBinding: bind, replace or unbind under the reservation *)

\* A new bind ID is one nothing remembers.
UsedBinds ==
  {c.bind : c \in {claim[s] : s \in Sessions} \ {None}}
    \cup {c.bind : c \in (UNION {log[r].retired \cup {log[r].bound} : r \in Rooms}) \ {None}}

Bind(r, s, b) ==
  LET next == [owner |-> r, session |-> s, bind |-> b] IN
  /\ Idle /\ mem[r] # None /\ at[r] = "rooms" /\ ~mem[r].archived
  /\ b \notin UsedBinds
  /\ \A o \in Rooms \ {r} : mem[o] # None => mem[o].session # s
  /\ MayCommit(held[r], next)
  /\ claim' = Reserved(next)
  /\ op' = [NoOp EXCEPT !.pc = "fact", !.room = r, !.next = next, !.prev = held[r]]
  /\ UNCHANGED <<disk, remote, phase, projection>>

Unbind(r) ==
  /\ Idle /\ mem[r] # None /\ at[r] = "rooms" /\ ~mem[r].archived /\ log[r].bound # None
  /\ MayCommit(held[r], None)
  /\ op' = [NoOp EXCEPT !.pc = "fact", !.room = r, !.prev = held[r]]
  /\ UNCHANGED <<disk, claim, remote, phase, projection>>

\* The binding fact.  A failed append may leave it in the log all the same.
AppendBinding ==
  /\ At("fact")
  /\ \/ /\ log' = [log EXCEPT ![op.room] = Rebound(@, op.next)]
        /\ (Goto("project") \/ Finish)
     \/ UNCHANGED log /\ Finish
  /\ UNCHANGED <<at, box, ckpt, safe, claim, remote, phase, projection>>

ProjectBinding ==
  /\ At("project")
  /\ mem' = [mem EXCEPT ![op.room].session = SessionIn(op.next)]
  /\ CheckpointOrPoison(mem', "release")
  /\ UNCHANGED <<at, log, box, claim, remote, phase, held, retired>>

\* The old session is free once the fact that leaves it is durable.
ReleasePrevious ==
  /\ At("release")
  /\ \/ /\ claim' = IF op.prev = None \/ SessionIn(op.prev) = SessionIn(op.next) THEN claim
                    ELSE [claim EXCEPT ![op.prev.session] = None]
        /\ held' = [held EXCEPT ![op.room] = op.next]
     \/ UNCHANGED <<claim, held>>
  /\ Finish
  /\ UNCHANGED <<disk, remote, phase, mem, retired, poisoned>>

(* ArchiveRoom and RestoreRoom: mutateRoom *)

AppendLifecycle(r) ==
  /\ Idle /\ mem[r] # None /\ at[r] = "rooms"
  /\ \/ log' = [log EXCEPT ![r] = Relived(@, ~mem[r].archived)]
        /\ op' = [NoOp EXCEPT !.pc = "relive", !.room = r]
     \/ log' = [log EXCEPT ![r] = Relived(@, ~mem[r].archived)] /\ Finish
  /\ UNCHANGED <<at, box, ckpt, safe, claim, remote, phase, projection>>

Relive ==
  /\ At("relive")
  /\ mem' = [mem EXCEPT ![op.room].archived = ~@]
  /\ CheckpointOrPoison(mem', "idle")
  /\ UNCHANGED <<at, log, box, claim, remote, phase, held, retired>>

-------------------------------------------------------------------------------
(* RemoveRoom: stage, unlist, release, mark, erase *)

Boxes == {r \in Rooms : box[r] # None}
NewBox(cs) == [intent |-> TRUE, claims |-> cs, committed |-> FALSE]

\* classifyQuarantinedRoomFacts: what moved is a readable, archived Room.
Verified(r) == ~log[r].broken /\ log[r].archived

\* inspectDeletionEntry and verifyQuarantinedRoomFacts.
Unreadable(r) == at[r] = "torn" \/ (at[r] = "box" /\ ~(box[r].intent /\ Verified(r)))
MetadataOnly(r) == at[r] \notin {"box", "torn"} /\ box[r].claims = {}

\* releaseNativeIdentitiesLocked: the Room's claims, as far as they are known.
KnownClaims_BoundOnly(r, h, rt) == {h[r]} \ {None}
KnownClaims(r, h, rt) == ({h[r]} \ {None}) \cup {c \in rt : c.owner = r}
Forget(r) ==
  /\ held' = [held EXCEPT ![r] = None]
  /\ retired' = {c \in retired : c.owner # r}

\* os.RemoveAll of the container: it removes entries in no particular order and
\* can fail, or be cut by a crash, after any of them.
EraseBox(r) ==
  \E place \in IF at[r] = "box" THEN {"box", "torn", "erased"} ELSE {at[r]},
     intent \in {FALSE, box[r].intent}, committed \in {FALSE, box[r].committed} :
    /\ at' = [at EXCEPT ![r] = place]
    /\ box' = [box EXCEPT ![r] =
                IF place \notin {"box", "torn"} /\ ~intent /\ ~committed THEN None
                ELSE [intent |-> intent, claims |-> IF intent THEN @.claims ELSE {},
                      committed |-> committed]]

\* rollbackStagedManagedRoom; a failure leaves the entry and fails closed.
RollBack(r) ==
  \/ /\ at' = [at EXCEPT ![r] = IF @ = "box" THEN "rooms" ELSE @]
     /\ box' = [box EXCEPT ![r] = None] /\ UNCHANGED poisoned
  \/ UNCHANGED <<at, box>> /\ poisoned' = TRUE

\* Both RemoveRoom and the maintenance request first retry the old entries.
Remove(r) ==
  /\ Idle /\ mem[r] # None /\ mem[r].archived
  /\ op' = [NoOp EXCEPT !.pc = "clean", !.room = r, !.todo = Boxes]
  /\ UNCHANGED <<disk, claim, remote, phase, projection>>

RetryCleanup ==
  /\ Idle /\ Boxes # {}
  /\ op' = [NoOp EXCEPT !.pc = "clean", !.todo = Boxes]
  /\ UNCHANGED <<disk, claim, remote, phase, projection>>

\* A prepared entry is kept while its Room is still registered.
MayErase(b) ==
  ~Unreadable(b) /\ (~MetadataOnly(b) /\ ~box[b].committed => mem[b] = None)
Processed(b) == op' = [op EXCEPT !.todo = @ \ {b}]

SkipBox(b) ==
  /\ At("clean") /\ b \in op.todo /\ ~MayErase(b)
  /\ Processed(b)
  /\ UNCHANGED <<disk, claim, remote, phase, projection>>

CleanBox(b) ==
  LET h == IF at[b] = "box" THEN HeldAfterReading(b) ELSE held
      rt == IF at[b] = "box" THEN RetiredAfterReading(b) ELSE retired IN
  /\ At("clean") /\ b \in op.todo /\ MayErase(b)
  /\ \/ /\ MetadataOnly(b)
        /\ box' = [box EXCEPT ![b] = None]
        /\ UNCHANGED <<at, claim, held, retired>>
     \/ /\ ~MetadataOnly(b)
        /\ claim' = Released(box[b].claims \cup KnownClaims(b, h, rt))
        /\ held' = [held EXCEPT ![b] = None]
        /\ retired' = {c \in retired : c.owner # b}
        /\ EraseBox(b)
     \/ /\ ~MetadataOnly(b)
        /\ held' = h /\ retired' = rt
        /\ UNCHANGED <<at, box, claim>>
  /\ Processed(b)
  /\ UNCHANGED <<log, ckpt, safe, remote, phase, mem, poisoned>>

\* stageManagedRoom: the intent names the claims to release.  A Room without
\* data and without claims needs no entry.
StageIntent ==
  LET r == op.room
      claims == {held[r]} \ {None} IN
  /\ At("clean") /\ op.todo = {} /\ r # None
  /\ box' = IF at[r] = "rooms" \/ claims # {} THEN [box EXCEPT ![r] = NewBox(claims)] ELSE box
  /\ Goto(IF at[r] = "rooms" THEN "move" ELSE "unlist")
  /\ UNCHANGED <<at, log, ckpt, safe, claim, remote, phase, projection>>

CleanupDone ==
  /\ At("clean") /\ op.todo = {} /\ op.room = None
  /\ Finish
  /\ UNCHANGED <<disk, claim, remote, phase, projection>>

\* The directory moves into the container; what moved is read again.
StageMove ==
  LET r == op.room IN
  /\ At("move")
  /\ Verified(r)
  /\ at' = [at EXCEPT ![r] = "box"]
  /\ held' = HeldAfterReading(r) /\ retired' = RetiredAfterReading(r)
  /\ Goto("unlist")
  /\ UNCHANGED <<log, box, ckpt, safe, claim, remote, phase, mem, poisoned>>

\* Moved, and then a sync, the context or the verification failed.
StageFails ==
  LET r == op.room IN
  /\ At("move")
  /\ \/ box' = [box EXCEPT ![r] = None] /\ UNCHANGED <<at, poisoned>>
     \/ at' = [at EXCEPT ![r] = "box"] /\ poisoned' = TRUE /\ UNCHANGED box
  /\ Finish
  /\ UNCHANGED <<log, ckpt, safe, claim, remote, phase, mem, held, retired>>

\* The checkpoint without the Room is what commits the removal.
Unlist ==
  LET r == op.room
      without == [mem EXCEPT ![r] = None] IN
  /\ At("unlist")
  /\ \/ /\ Checkpointed(without) /\ mem' = without
        /\ UNCHANGED <<at, box, poisoned>> /\ Goto("disclaim")
     \/ /\ Unsynced(without) /\ mem' = without
        /\ UNCHANGED <<at, box>> /\ poisoned' = TRUE /\ Finish
     \/ /\ Unpublished /\ UNCHANGED mem
        /\ IF box[r] = None THEN UNCHANGED <<at, box, poisoned>> ELSE RollBack(r)
        /\ Finish
  /\ UNCHANGED <<log, claim, remote, phase, held, retired>>

Disclaim ==
  LET r == op.room IN
  /\ At("disclaim")
  /\ \/ /\ claim' = Released(KnownClaims(r, held, retired))
        /\ Forget(r)
        /\ Goto(IF box[r] = None THEN "idle" ELSE "mark")
     \/ UNCHANGED <<claim, held, retired>> /\ Finish
  /\ UNCHANGED <<disk, remote, phase, mem, poisoned>>

Mark ==
  /\ At("mark")
  /\ \E written \in BOOLEAN : box' = [box EXCEPT ![op.room].committed = written]
  /\ Goto("erase")
  /\ UNCHANGED <<at, log, ckpt, safe, claim, remote, phase, projection>>

Erase ==
  /\ At("erase")
  /\ EraseBox(op.room)
  /\ Finish
  /\ UNCHANGED <<log, ckpt, safe, claim, remote, phase, projection>>

-------------------------------------------------------------------------------
(* OpenRegistry after a stop or a crash *)

Blank == [r \in Rooms |-> None]
ForgetAll ==
  /\ mem' = Blank /\ held' = Blank /\ retired' = {} /\ poisoned' = FALSE /\ op' = NoOp

\* The process dies; the power may fail with it.
Crash ==
  /\ phase \in {"boot", "up"} /\ phase' = "down" /\ ForgetAll
  /\ ckpt' \in {ckpt, safe} /\ safe' = ckpt'
  /\ UNCHANGED <<at, log, box, claim, remote>>

Refuse ==
  /\ phase' = "refused" /\ ForgetAll
  /\ UNCHANGED <<disk, claim, remote>>

\* loadCheckpointProjects: the checkpoint must be consistent and must not name an
\* active Room whose directory is gone.
CheckpointLoads ==
  \A r \in Rooms : ckpt[r] # None =>
    /\ ~ckpt[r].archived => at[r] = "rooms"
    /\ \A o \in Rooms \ {r} :
         ckpt[o] # None /\ ckpt[o].session # None => ckpt[o].session # ckpt[r].session

StartOpen ==
  /\ phase \in {"down", "refused"}
  /\ IF CheckpointLoads
     THEN /\ phase' = "boot" /\ op' = [NoOp EXCEPT !.pc = "recover", !.todo = Boxes]
          /\ UNCHANGED <<disk, claim, remote, projection>>
     ELSE Refuse

\* recoverRoomDeletionQuarantine, one entry: the removal is completed when it was
\* committed, by its marker or by a checkpoint without the Room, and undone
\* otherwise.
RemovalCommitted_MarkerOnly(b) == box[b].committed
RemovalCommitted(b) == box[b].committed \/ ckpt[b] = None

CompleteRemoval(b) ==
  LET h == IF at[b] = "box" THEN HeldAfterReading(b) ELSE held
      rt == IF at[b] = "box" THEN RetiredAfterReading(b) ELSE retired IN
  /\ At("recover") /\ b \in op.todo /\ ~Unreadable(b)
  /\ ~MetadataOnly(b) /\ RemovalCommitted(b)
  /\ \/ /\ claim' = Released(box[b].claims \cup KnownClaims(b, h, rt))
        /\ held' = [held EXCEPT ![b] = None]
        /\ retired' = {c \in retired : c.owner # b}
        /\ EraseBox(b)
     \/ held' = h /\ retired' = rt /\ UNCHANGED <<at, box, claim>>
  /\ Processed(b)
  /\ UNCHANGED <<log, ckpt, safe, remote, phase, mem, poisoned>>

UndoRemoval(b) ==
  /\ At("recover") /\ b \in op.todo /\ ~Unreadable(b)
  /\ ~MetadataOnly(b) => ~RemovalCommitted(b)
  /\ at' = [at EXCEPT ![b] = IF @ = "box" THEN "rooms" ELSE @]
  /\ \/ box' = [box EXCEPT ![b] = None] /\ Processed(b) /\ UNCHANGED <<phase, projection>>
     \/ UNCHANGED box /\ at[b] = "box" /\ phase' = "down" /\ ForgetAll
  /\ UNCHANGED <<log, ckpt, safe, claim, remote>>

RefuseEntry(b) ==
  /\ At("recover") /\ b \in op.todo /\ Unreadable(b)
  /\ Refuse

\* recoverMissingArchivedRoomsFromCheckpoint and scanRooms.
Found(r) ==
  IF at[r] = "rooms" THEN EntryOf(log[r])
  ELSE IF ckpt[r] # None /\ ckpt[r].archived THEN ckpt[r] ELSE None
Conflict(r) ==
  LET s == Found(r).session IN
  /\ s # None
  /\ \/ claim[s] # None /\ claim[s].owner # r
     \/ \E o \in Rooms \ {r} : Found(o) # None /\ Found(o).session = s

Scan ==
  /\ At("recover") /\ op.todo = {}
  /\ IF \E r \in Rooms : \/ at[r] = "rooms" /\ log[r].broken
                         \/ Found(r) # None /\ Conflict(r)
     THEN Refuse
     ELSE /\ mem' = [r \in Rooms |-> Found(r)]
          /\ held' = [r \in Rooms |-> IF at[r] = "rooms" THEN log[r].bound ELSE held[r]]
          /\ retired' = retired \cup UNION {log[r].retired \ {log[r].bound} :
                                            r \in {q \in Rooms : at[q] = "rooms"}}
          /\ op' = [NoOp EXCEPT !.pc = "reserve",
                    !.todo = {r \in Rooms : Found(r) # None /\ Found(r).session # None}]
          /\ UNCHANGED <<disk, claim, remote, phase, poisoned>>

\* reserveNativeIdentities, one Room: reserve exactly the claim its log names; a
\* Room known from the checkpoint alone keeps the claim it has.
Reserve(r) ==
  LET s == mem[r].session
      c == IF held[r] # None THEN held[r]
           ELSE IF claim[s] # None THEN claim[s]
           ELSE [owner |-> r, session |-> s, bind |-> 0] IN
  /\ At("reserve") /\ r \in op.todo
  /\ IF c.owner = r /\ MayCommit(None, c)
     THEN /\ claim' = Reserved(c) /\ held' = [held EXCEPT ![r] = c] /\ Processed(r)
          /\ UNCHANGED <<disk, remote, phase, mem, retired, poisoned>>
     ELSE Refuse

\* Superseded claims are released, and the rebuilt checkpoint is written.
FinishOpen ==
  /\ At("reserve") /\ op.todo = {}
  /\ claim' = Released(retired)
  /\ \/ /\ Checkpointed(mem)
        /\ phase' = "up" /\ retired' = {} /\ Finish
        /\ UNCHANGED <<mem, held, poisoned>>
     \/ Unsynced(mem) /\ phase' = "down" /\ ForgetAll
  /\ UNCHANGED <<at, log, box, remote>>

-------------------------------------------------------------------------------
(* The world around the Service *)

\* A process that joins a remote Room reserves the session, and later leaves.
RemoteBind(x, s) ==
  /\ remote[x] = None /\ s \notin Locked /\ claim[s] = None
  /\ claim' = [claim EXCEPT ![s] = [owner |-> x, session |-> s, bind |-> 0]]
  /\ remote' = [remote EXCEPT ![x] = s]
  /\ UNCHANGED <<disk, phase, projection, op>>

RemoteLeave(x) ==
  /\ remote[x] # None /\ remote[x] \notin Locked
  /\ claim' = Released({[owner |-> x, session |-> remote[x], bind |-> 0]})
  /\ remote' = [remote EXCEPT ![x] = None]
  /\ UNCHANGED <<disk, phase, projection, op>>

\* Someone removes the directory of a Room that is archived.
LoseData(r) ==
  /\ At("idle") /\ at[r] = "rooms" /\ log[r].archived
  /\ ckpt[r] # None /\ ckpt[r].archived
  /\ at' = [at EXCEPT ![r] = "lost"]
  /\ UNCHANGED <<log, box, ckpt, safe, claim, remote, phase, projection, op>>

-------------------------------------------------------------------------------
Init ==
  /\ at = [r \in Rooms |-> "none"] /\ log = [r \in Rooms |-> EmptyLog] /\ box = Blank
  /\ ckpt = Blank /\ safe = Blank
  /\ claim = [s \in Sessions |-> None] /\ remote = [x \in Remotes |-> None]
  /\ phase = "down" /\ mem = Blank /\ held = Blank /\ retired = {}
  /\ poisoned = FALSE /\ op = NoOp

Next ==
  \/ \E r \in Rooms : \/ Publish(r) \/ Unbind(r) \/ AppendLifecycle(r) \/ Remove(r)
                      \/ SkipBox(r) \/ CleanBox(r) \/ Reserve(r) \/ LoseData(r)
                      \/ CompleteRemoval(r) \/ UndoRemoval(r) \/ RefuseEntry(r)
                      \/ \E s \in Sessions, b \in 1..MaxBinds : Bind(r, s, b)
  \/ \E x \in Remotes : RemoteLeave(x) \/ \E s \in Sessions : RemoteBind(x, s)
  \/ Index \/ AppendBinding \/ ProjectBinding \/ ReleasePrevious \/ Relive
  \/ RetryCleanup \/ StageIntent \/ CleanupDone \/ StageMove \/ StageFails
  \/ Unlist \/ Disclaim \/ Mark \/ Erase
  \/ StartOpen \/ Scan \/ FinishOpen \/ Crash

Spec == Init /\ [][Next]_vars

-------------------------------------------------------------------------------
(* Properties *)

\* Every variable keeps its type.
TypeOK ==
  /\ at \in [Rooms -> Place]
  /\ \A r \in Rooms : /\ DOMAIN log[r] = DOMAIN EmptyLog
                      /\ log[r].bound \in Claims /\ log[r].retired \subseteq Claim
                      /\ log[r].archived \in BOOLEAN /\ log[r].broken \in BOOLEAN
  /\ \A r \in Rooms : box[r] = None \/ box[r] \in Box
  /\ ckpt \in Listing /\ safe \in Listing /\ mem \in Listing
  /\ claim \in [Sessions -> Claims] /\ remote \in [Remotes -> Sessions \cup {None}]
  /\ held \in [Rooms -> Claims] /\ retired \subseteq Claim
  /\ phase \in {"down", "boot", "up", "refused"} /\ poisoned \in BOOLEAN
  /\ op.room \in Rooms \cup {None} /\ op.next \in Claims /\ op.prev \in Claims
  /\ op.todo \subseteq Rooms

\* The Room exists: its data is there, and no checkpoint that can be read after a
\* crash has dropped it for good.
Unlisted(r) == ckpt[r] = None /\ safe[r] = None
Stands(r) == at[r] = "rooms" \/ (at[r] = "box" /\ ~Unlisted(r))

\* Who uses a session, by the facts that survive a crash.
Users(s) ==
  {r \in Rooms : Stands(r) /\ SessionIn(log[r].bound) = s} \cup {x \in Remotes : remote[x] = s}

\* A native session has at most one association on this machine, between the two
\* durable writes of a bind, across crashes, restarts and removals too.
OneAssociation == \A s \in Sessions : Cardinality(Users(s)) <= 1

\* A Room's data is erased only after its removal is certain, so that no checkpoint
\* that a crash can leave still lists the Room, and only if its own log says it is
\* archived: the projection that removal is asked of can lag behind the log.  What
\* the log was ever bound to is free again once the removal's entry is gone.
ErasesOnlyRemoved ==
  \A r \in Rooms :
    /\ at[r] \in {"torn", "erased"} => Unlisted(r) /\ log[r].archived
    /\ at[r] = "erased" /\ box[r] = None =>
         \A c \in (log[r].retired \cup {log[r].bound}) \ {None} : claim[c.session] # c

\* A removed Room never comes back, whatever is cut short and retried; with what
\* may be erased at all (ErasesOnlyRemoved), a removal is safe.
StaysRemoved ==
  [][\A r \in Rooms : Unlisted(r) /\ at[r] \in {"box", "torn", "erased"} =>
       mem'[r] = None /\ ckpt'[r] = None /\ at'[r] # "rooms"]_vars
RemovalIsFinal == []ErasesOnlyRemoved /\ StaysRemoved

\* What a Service that does not start has in front of it: data someone else
\* removed, a removal whose erasure was cut short, a lifecycle fact that was
\* repeated after a failed append, a Room whose restore fact was written by one
\* and that was staged after it, or a replacement cut between its reservation and
\* its fact.  Nothing else that can
\* be interrupted leaves a data root that OpenRegistry rejects.
TornRemoval(r) == box[r] # None /\ (at[r] = "torn" \/ (at[r] = "box" /\ ~box[r].intent))
RepeatedFact(r) == at[r] \in {"rooms", "box"} /\ log[r].broken
CutReplacement(r) ==
  \E s \in Sessions : /\ SessionIn(log[r].bound) = s /\ claim[s] # log[r].bound
                      /\ claim[s] # None /\ claim[s].owner = r
RestoredInBox(r) == at[r] = "box" /\ ~log[r].archived
RefusalHasCause ==
  phase = "refused" =>
    \E r \in Rooms : \/ at[r] = "lost" \/ TornRemoval(r) \/ RepeatedFact(r)
                     \/ CutReplacement(r) \/ RestoredInBox(r)

\* room_deletion.go:60: "Startup and later removals retry best-effort cleanup", so
\* an erasure that did not finish never keeps the Service from starting.  Not an
\* invariant: see TornRemoval.
CleanupIsBestEffort == phase = "refused" => \A r \in Rooms : ~TornRemoval(r)
=============================================================================
