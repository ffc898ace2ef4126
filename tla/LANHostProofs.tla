----------------------------- MODULE LANHostProofs -----------------------------
(***************************************************************************)
(* Safety of LAN sharing on the host's side, for every set of requests,    *)
(* keys and transfers and every bound.                                     *)
(*                                                                         *)
(* The argument is about Past, what the whole log replays as.  The engine  *)
(* and the Service's index are memories of it: what they hold is what it   *)
(* holds, what was admitted they hold (Remembers), and what they lack it   *)
(* would drop as well, as long as the clock never stepped back (Complete). *)
(* A fact that an operation appends is one that every memory may take, and *)
(* so is replay, unless the fact is stamped too late and ends the log.     *)
(***************************************************************************)
EXTENDS LANHost, FiniteSetTheorems, TLAPS

Invitation == [expires : Nat, consumed : BOOLEAN]
Join == [invite : Invites, key : Keys]
Maps(X, Y) == UNION {[D -> Y] : D \in SUBSET X}
Membership == [request : Requests \cup {Nobody}, join : Join \cup {NoJoin}, gen : Nat, active : BOOLEAN]
Projection == [invites : Maps(Invites, Invitation), requests : Maps(Requests, Join),
               latest : Maps(Keys, Requests), admitted : SUBSET Requests,
               attempts : [Invites -> Nat], keyAttempts : [Invites \X Keys -> Nat], member : Membership]
IndexTable == [invites : Maps(Invites, Invitation), requests : Maps(Requests, Join),
               latest : Maps(Keys, Requests), admitted : SUBSET Requests, member : Membership]

Fact == [kind : {"invite"}, invite : Invites, expires : Nat]
        \cup [kind : {"join"}, request : Requests, invite : Invites, key : Keys, late : BOOLEAN]
        \cup [kind : {"member"}, request : Requests, join : Join, gen : Nat, active : BOOLEAN, late : BOOLEAN]

-----------------------------------------------------------------------------
(* What a log reads as *)

LEMMA Greatest ==
  ASSUME NEW N \in Nat, NEW S \in SUBSET (0..N), S # {}
  PROVE  \E x \in S : \A y \in S : y <= x
<1> DEFINE above(n) == {x \in S : x >= n}
           T == {above(n) : n \in S}
<1>1. S \in SUBSET Nat /\ IsFiniteSet(S)
  <2> DEFINE R == 0..N
  <2>1. IsFiniteSet(R) /\ S \in SUBSET R /\ R \in SUBSET Nat
    BY FS_Interval
  <2> HIDE DEF R
  <2> QED
    BY <2>1, FS_Subset
<1>2. ASSUME NEW n \in S
      PROVE  above(n) \in FiniteSubsetsOf(Nat)
  <2>1. above(n) \in SUBSET S
    OBVIOUS
  <2> HIDE DEF above
  <2>2. IsFiniteSet(above(n)) /\ above(n) \in SUBSET Nat
    BY <1>1, <2>1, FS_Subset
  <2> QED
    BY <2>2 DEF FiniteSubsetsOf
<1> HIDE DEF above
<1>3. T \subseteq FiniteSubsetsOf(Nat) /\ T # {}
  BY <1>2
<1> HIDE DEF T
<1>4. PICK B \in T : \A C \in T : <<C, B>> \notin StrictSubsetOrdering(Nat)
  <2>1. IsWellFoundedOn(StrictSubsetOrdering(Nat), FiniteSubsetsOf(Nat))
    BY FS_StrictSubsetOrderingWellFounded
  <2> QED
    BY <1>3, <2>1, WFMin
<1>5. PICK n \in S : B = above(n)
  BY DEF T
<1>6. ASSUME NEW y \in S, y > n
      PROVE  FALSE
  <2>1. n \in Nat /\ y \in Nat
    BY <1>1
  <2>2. \A x \in Nat : x >= y => x >= n
    BY <1>6, <2>1
  <2>3. n >= n /\ ~(n >= y)
    BY <1>6, <2>1
  <2>4. above(y) \subseteq above(n) /\ n \in above(n) /\ n \notin above(y)
    BY <1>1, <2>1, <2>2, <2>3 DEF above
  <2>5. above(y) \in SUBSET Nat /\ above(n) \in SUBSET Nat
    BY <1>1 DEF above
  <2>6. <<above(y), above(n)>> \in StrictSubsetOrdering(Nat)
    BY <2>4, <2>5 DEF StrictSubsetOrdering
  <2> QED
    BY <1>4, <1>5, <2>6 DEF T
<1>7. \A y \in S : y <= n
  BY <1>1, <1>6
<1> QED
  BY <1>7


LEMMA Smallest ==
  ASSUME NEW S \in SUBSET Nat, S # {}
  PROVE  \E x \in S : \A y \in S : x <= y
<1>1. PICK n \in S : TRUE
  OBVIOUS
<1> DEFINE D == {k \in 0..n : \A y \in S : k <= y}
<1>2. n \in Nat /\ D \in SUBSET (0..n) /\ 0 \in D
  OBVIOUS
<1>3. PICK x \in D : \A y \in D : y <= x
  <2> HIDE DEF D
  <2> QED
    BY <1>2, Greatest
<1>4. x \in Nat /\ \A y \in S : y \in Nat /\ x <= y
  OBVIOUS
<1>5. ASSUME x \notin S
      PROVE  FALSE
  <2>1. \A y \in S : x + 1 <= y
    BY <1>4, <1>5
  <2>2. x + 1 \in D
    BY <1>2, <1>4, <2>1
  <2> QED
    BY <1>3, <1>4, <2>2
<1> QED
  BY <1>4, <1>5

\* A read g of the first n facts of h, by Replay or by Indexed.
Readers == {"engine", "index"}
Start(x) == IF x = "engine" THEN Unknown ELSE Unindexed
Step(x, q, f) == IF x = "engine" THEN ReplayStep(q, f) ELSE Index(q, f)
Read(x, l) == IF x = "engine" THEN Replay(l) ELSE Indexed(l)
Reads(x, g, h, n) == g = [i \in 0..n |-> IF i = 0 THEN Start(x) ELSE Step(x, g[i - 1], h[i])]

LEMMA ReadsExtends ==
  ASSUME NEW x, NEW h, NEW n \in Nat, NEW g, Reads(x, g, h, n)
  PROVE  \E e : Reads(x, e, h, n + 1) /\ \A i \in 0..n : e[i] = g[i]
<1> DEFINE e == [i \in 0..(n + 1) |-> IF i \in 0..n THEN g[i] ELSE Step(x, g[n], h[n + 1])]
<1>1. \A i \in 0..n : e[i] = g[i]
  OBVIOUS
<1>2. e[n + 1] = Step(x, g[n], h[n + 1]) /\ e[n] = g[n]
  OBVIOUS
<1>3. ASSUME NEW i \in 0..(n + 1)
      PROVE  e[i] = IF i = 0 THEN Start(x) ELSE Step(x, e[i - 1], h[i])
  <2>1. CASE i = n + 1
    <3>1. i # 0 /\ i - 1 = n
      BY <2>1
    <3> HIDE DEF e
    <3> QED
      BY <1>2, <2>1, <3>1
  <2>2. CASE i \in 0..n
    <3>1. g[i] = IF i = 0 THEN Start(x) ELSE Step(x, g[i - 1], h[i])
      BY <2>2 DEF Reads
    <3>2. i = 0 \/ i - 1 \in 0..n
      BY <2>2
    <3> HIDE DEF e
    <3> QED
      BY <1>1, <2>2, <3>1, <3>2
  <2> QED
    BY <2>1, <2>2
<1>4. e = [i \in 0..(n + 1) |-> e[i]]
  OBVIOUS
<1>5. Reads(x, e, h, n + 1)
  <2> HIDE DEF e
  <2> QED
    BY <1>3, <1>4 DEF Reads
<1> QED
  BY <1>1, <1>5

LEMMA ReadsExists ==
  ASSUME NEW x, NEW h, NEW n \in Nat
  PROVE  \E g : Reads(x, g, h, n)
<1> DEFINE B == {m \in Nat : ~\E g : Reads(x, g, h, m)}
<1>1. CASE B = {}
  BY <1>1
<1>2. CASE B # {}
  <2>1. PICK m \in B : \A k \in B : m <= k
    BY <1>2, Smallest
  <2>2. m # 0
    <3>1. Reads(x, [i \in 0..0 |-> Start(x)], h, 0)
      BY DEF Reads
    <3> QED
      BY <2>1, <3>1
  <2>3. m - 1 \in Nat /\ m - 1 \notin B /\ (m - 1) + 1 = m
    BY <2>1, <2>2
  <2>4. PICK g : Reads(x, g, h, m - 1)
    BY <2>3
  <2>5. \E e : Reads(x, e, h, (m - 1) + 1)
    BY <2>3, <2>4, ReadsExtends
  <2> QED
    BY <2>1, <2>3, <2>5
<1> QED
  BY <1>1, <1>2

\* A read of a longer log starts with the read of the shorter one.
LEMMA ReadsAgree ==
  ASSUME NEW x, NEW g, NEW e, NEW h, NEW l, NEW n \in Nat, NEW m \in Nat, n <= m,
         Reads(x, g, h, n), Reads(x, e, l, m), \A i \in 1..n : h[i] = l[i]
  PROVE  \A i \in 0..n : g[i] = e[i]
<1> DEFINE B == {i \in 0..n : g[i] # e[i]}
<1>1. CASE B = {}
  BY <1>1
<1>2. CASE B # {}
  <2>0. B \in SUBSET Nat
    OBVIOUS
  <2>1. PICK b \in B : \A k \in B : b <= k
    <3> HIDE DEF B
    <3> QED
      BY <1>2, <2>0, Smallest
  <2>2. b \in 0..n /\ b \in 0..m /\ g[b] # e[b]
    BY <2>1
  <2>3. /\ g[b] = IF b = 0 THEN Start(x) ELSE Step(x, g[b - 1], h[b])
        /\ e[b] = IF b = 0 THEN Start(x) ELSE Step(x, e[b - 1], l[b])
    BY <2>2 DEF Reads
  <2>4. b # 0 /\ b \in 1..n
    BY <2>2, <2>3
  <2>5. b - 1 \in 0..n /\ ~(b <= b - 1)
    BY <2>4
  <2>6. g[b - 1] = e[b - 1]
    BY <2>1, <2>5
  <2> QED
    BY <2>2, <2>3, <2>4, <2>6
<1> QED
  BY <1>1, <1>2

LEMMA ReadReads ==
  ASSUME NEW x \in Readers, NEW l, NEW g, Len(l) \in Nat, Reads(x, g, l, Len(l))
  PROVE  Read(x, l) = g[Len(l)]
<1>1. CASE x = "engine"
  <2> DEFINE read == CHOOSE f : f = [n \in 0..Len(l) |-> IF n = 0 THEN Unknown ELSE ReplayStep(f[n - 1], l[n])]
  <2>1. Read(x, l) = read[Len(l)]
    BY <1>1 DEF Read, Replay
  <2>2. Reads(x, read, l, Len(l))
    <3>1. g = [n \in 0..Len(l) |-> IF n = 0 THEN Unknown ELSE ReplayStep(g[n - 1], l[n])]
      BY <1>1 DEF Reads, Start, Step
    <3>2. read = [n \in 0..Len(l) |-> IF n = 0 THEN Unknown ELSE ReplayStep(read[n - 1], l[n])]
      BY <3>1
    <3> HIDE DEF read
    <3> QED
      BY <1>1, <3>2 DEF Reads, Start, Step
  <2> HIDE DEF read
  <2>3. read[Len(l)] = g[Len(l)]
    BY <2>2, ReadsAgree
  <2> QED
    BY <2>1, <2>3
<1>2. CASE x = "index"
  <2> DEFINE read == CHOOSE f : f = [n \in 0..Len(l) |-> IF n = 0 THEN Unindexed ELSE Index(f[n - 1], l[n])]
  <2>1. Read(x, l) = read[Len(l)]
    BY <1>2 DEF Read, Indexed
  <2>2. Reads(x, read, l, Len(l))
    <3>1. g = [n \in 0..Len(l) |-> IF n = 0 THEN Unindexed ELSE Index(g[n - 1], l[n])]
      BY <1>2 DEF Reads, Start, Step
    <3>2. read = [n \in 0..Len(l) |-> IF n = 0 THEN Unindexed ELSE Index(read[n - 1], l[n])]
      BY <3>1
    <3> HIDE DEF read
    <3> QED
      BY <1>2, <3>2 DEF Reads, Start, Step
  <2> HIDE DEF read
  <2>3. read[Len(l)] = g[Len(l)]
    BY <2>2, ReadsAgree
  <2> QED
    BY <2>1, <2>3
<1> QED
  BY <1>1, <1>2 DEF Readers

LEMMA ReadEmpty ==
  ASSUME NEW x \in Readers
  PROVE  Read(x, <<>>) = Start(x)
<1>1. PICK g : Reads(x, g, <<>>, 0)
  BY ReadsExists
<1>2. g[0] = Start(x)
  BY <1>1 DEF Reads
<1>3. Len(<<>>) = 0
  OBVIOUS
<1> QED
  BY <1>1, <1>2, <1>3, ReadReads

LEMMA ReadAppend ==
  ASSUME NEW x \in Readers, NEW l \in Seq(Fact), NEW f \in Fact
  PROVE  Read(x, l \o <<f>>) = Step(x, Read(x, l), f)
<1> DEFINE n == Len(l)
           m == n + 1
           h == l \o <<f>>
<1>1. n \in Nat /\ m \in Nat /\ n <= m /\ Len(h) = m /\ h[m] = f /\ \A i \in 1..n : l[i] = h[i]
  OBVIOUS
<1>2. m \in 0..m /\ n \in 0..n /\ m # 0 /\ m - 1 = n
  BY <1>1
<1> HIDE DEF h, n, m
<1>3. PICK g : Reads(x, g, l, n)
  BY <1>1, ReadsExists
<1>4. PICK e : Reads(x, e, h, m)
  BY <1>1, ReadsExists
<1>5. g[n] = e[n]
  BY <1>1, <1>2, <1>3, <1>4, ReadsAgree
<1>6. e[m] = Step(x, e[n], h[m])
  BY <1>2, <1>4 DEF Reads
<1>7. Read(x, l) = g[n]
  BY <1>1, <1>3, ReadReads DEF n
<1>8. Read(x, h) = e[m]
  BY <1>1, <1>4, ReadReads
<1> QED
  BY <1>1, <1>5, <1>6, <1>7, <1>8 DEF h

-----------------------------------------------------------------------------
(* Pruning *)

\* What the engine and the index both remember, typed.
Memory(q) ==
  /\ q.invites \in Maps(Invites, Invitation) /\ q.requests \in Maps(Requests, Join)
  /\ q.latest \in Maps(Keys, Requests) /\ q.admitted \subseteq Requests /\ q.member \in Membership

InTime(q, r, now) ==
  LET j == q.requests[r] IN
  /\ j.key \in DOMAIN q.latest /\ q.latest[j.key] = r
  /\ j.invite \in DOMAIN q.invites
  /\ now <= q.invites[j.invite].expires + Lifetime
Keep(q, now) == {r \in DOMAIN q.requests : Protected(q, r) \/ InTime(q, r, now)}
NewestKept(q, now) == {k \in DOMAIN q.latest : q.latest[k] \in Keep(q, now) /\ q.requests[q.latest[k]].key = k}

\* p is q without the requests that may go.
Pruned(p, q, now) ==
  /\ p.requests = Only(q.requests, Keep(q, now)) /\ p.latest = Only(q.latest, NewestKept(q, now))
  /\ p.admitted = q.admitted /\ p.member = q.member
SameCounts(p, q) == p.invites = q.invites /\ p.attempts = q.attempts /\ p.keyAttempts = q.keyAttempts

LEMMA OnlyIs ==
  ASSUME NEW X, NEW Y, NEW f \in Maps(X, Y), NEW S \in SUBSET DOMAIN f
  PROVE  /\ Only(f, S) \in Maps(X, Y) /\ DOMAIN Only(f, S) = S /\ \A x \in S : Only(f, S)[x] = f[x]
         /\ S \subseteq X /\ \A x \in S : f[x] \in Y
<1>1. PICK D \in SUBSET X : f \in [D -> Y]
  BY DEF Maps
<1>2. Only(f, S) \in [S -> Y] /\ S \in SUBSET X
  BY <1>1 DEF Only
<1> QED
  BY <1>1, <1>2 DEF Maps, Only

LEMMA PutIs ==
  ASSUME NEW X, NEW Y, NEW f \in Maps(X, Y), NEW x \in X, NEW y \in Y
  PROVE  /\ Put(f, x, y) \in Maps(X, Y) /\ DOMAIN Put(f, x, y) = DOMAIN f \cup {x}
         /\ Put(f, x, y)[x] = y /\ \A z \in DOMAIN f \ {x} : Put(f, x, y)[z] = f[z]
<1>1. PICK D \in SUBSET X : f \in [D -> Y]
  BY DEF Maps
<1>2. Put(f, x, y) \in [D \cup {x} -> Y] /\ D \cup {x} \in SUBSET X
  BY <1>1 DEF Put
<1> QED
  BY <1>1, <1>2 DEF Maps, Put

LEMMA MapIs ==
  ASSUME NEW X, NEW Y, NEW f \in Maps(X, Y)
  PROVE  /\ DOMAIN f \subseteq X /\ \A x \in DOMAIN f : f[x] \in Y
         /\ f = [x \in DOMAIN f |-> f[x]]
BY DEF Maps

LEMMA ProjectionIs ==
  ASSUME NEW q \in Projection
  PROVE  /\ Memory(q) /\ q.attempts \in [Invites -> Nat] /\ q.keyAttempts \in [Invites \X Keys -> Nat]
         /\ DOMAIN q = {"invites", "requests", "latest", "admitted", "attempts", "keyAttempts", "member"}
BY DEF Projection, Memory

LEMMA TableIs ==
  ASSUME NEW q \in IndexTable
  PROVE  /\ Memory(q) /\ DOMAIN q = {"invites", "requests", "latest", "admitted", "member"}
BY DEF IndexTable, Memory

LEMMA KeepIn ==
  ASSUME NEW q, NEW now
  PROVE  /\ Keep(q, now) \in SUBSET DOMAIN q.requests /\ NewestKept(q, now) \in SUBSET DOMAIN q.latest
         /\ Prune(q, now) = [q EXCEPT !.requests = Only(q.requests, Keep(q, now)),
                                      !.latest = Only(q.latest, NewestKept(q, now))]
BY DEF Prune, Keep, NewestKept, InTime, Latest

LEMMA PruneIs ==
  ASSUME NEW q \in Projection, NEW now
  PROVE  /\ Prune(q, now) \in Projection /\ Pruned(Prune(q, now), q, now)
         /\ SameCounts(Prune(q, now), q)
<1> DEFINE R == Only(q.requests, Keep(q, now))
           L == Only(q.latest, NewestKept(q, now))
<1>1. R \in Maps(Requests, Join) /\ L \in Maps(Keys, Requests)
  BY ProjectionIs, KeepIn, OnlyIs DEF Memory
<1>2. Prune(q, now) = [q EXCEPT !.requests = R, !.latest = L]
  BY KeepIn
<1> HIDE DEF R, L
<1>3. Prune(q, now) \in Projection
  BY <1>1, <1>2 DEF Projection
<1>4. /\ Prune(q, now).requests = R /\ Prune(q, now).latest = L
      /\ Prune(q, now).admitted = q.admitted /\ Prune(q, now).member = q.member
      /\ Prune(q, now).invites = q.invites
      /\ Prune(q, now).attempts = q.attempts /\ Prune(q, now).keyAttempts = q.keyAttempts
  BY <1>2 DEF Projection
<1> QED
  BY <1>3, <1>4 DEF Pruned, SameCounts, R, L

\* The invitations that the index keeps.
InvitesKept(q, p, now) ==
  {v \in DOMAIN q.invites : \/ v \in {p.requests[r].invite : r \in DOMAIN p.requests}
                            \/ ~q.invites[v].consumed /\ now < q.invites[v].expires}
LEMMA PruneTableIs ==
  ASSUME NEW q \in IndexTable, NEW now
  PROVE  LET p == PruneIndex(q, now) IN
         /\ p \in IndexTable /\ Pruned(p, q, now) /\ p.invites = Only(q.invites, InvitesKept(q, p, now))
<1> DEFINE R == Only(q.requests, Keep(q, now))
           L == Only(q.latest, NewestKept(q, now))
           y == Prune(q, now)
           p == PruneIndex(q, now)
           V == {v \in DOMAIN q.invites : \/ v \in {R[r].invite : r \in DOMAIN R}
                                          \/ ~q.invites[v].consumed /\ now < q.invites[v].expires}
<1>1. R \in Maps(Requests, Join) /\ L \in Maps(Keys, Requests)
  BY TableIs, KeepIn, OnlyIs DEF Memory
<1>2. y = [q EXCEPT !.requests = R, !.latest = L]
  BY KeepIn
<1>3. Only(q.invites, V) \in Maps(Invites, Invitation)
  BY TableIs, OnlyIs DEF Memory
<1>4. y.requests = R /\ y.invites = q.invites
  <2> HIDE DEF R, L, y
  <2> QED
    BY <1>1, <1>2 DEF IndexTable
<1>5. p = [y EXCEPT !.invites = Only(q.invites, V)]
  <2> HIDE DEF R, y
  <2> QED
    BY <1>4 DEF PruneIndex, p, y
<1> HIDE DEF R, L, y, p, V
<1>6. p \in IndexTable
  BY <1>1, <1>2, <1>3, <1>5 DEF IndexTable
<1>7. /\ p.requests = R /\ p.latest = L /\ p.admitted = q.admitted /\ p.member = q.member
      /\ p.invites = Only(q.invites, V)
  BY <1>1, <1>2, <1>3, <1>5 DEF IndexTable
<1>8. V = InvitesKept(q, p, now)
  BY <1>7 DEF InvitesKept, V
<1> QED
  BY <1>6, <1>7, <1>8 DEF Pruned, R, L, p

-----------------------------------------------------------------------------
(* Memories of what was replayed *)

\* What m holds is what d holds; what was admitted is never missing.
Remembers(m, d) ==
  /\ m.admitted = d.admitted /\ m.member = d.member /\ m.admitted \subseteq DOMAIN m.requests
  /\ DOMAIN m.requests \subseteq DOMAIN d.requests
  /\ \A r \in DOMAIN m.requests : m.requests[r] = d.requests[r] /\ m.requests[r].invite \in DOMAIN m.invites
  /\ DOMAIN m.invites \subseteq DOMAIN d.invites
  /\ \A v \in DOMAIN m.invites : m.invites[v] = d.invites[v]
  /\ \A k \in DOMAIN m.latest : /\ k \in DOMAIN d.latest /\ m.latest[k] = d.latest[k]
                                /\ m.latest[k] \in DOMAIN m.requests

\* What m misses, pruning d would drop too.
Complete(m, d, now) == Keep(d, now) \subseteq DOMAIN m.requests /\ NewestKept(d, now) \subseteq DOMAIN m.latest

\* What is not admitted is its key's newest request.
Tidy(q) ==
  \A r \in DOMAIN q.requests \ q.admitted :
    q.requests[r].key \in DOMAIN q.latest /\ q.latest[q.requests[r].key] = r
MemberKnown(q) == q.member.request \in q.admitted \cup {Nobody}

LEMMA KeptBelow ==
  ASSUME NEW m, NEW d, NEW now, Remembers(m, d)
  PROVE  Keep(m, now) \subseteq Keep(d, now) /\ NewestKept(m, now) \subseteq NewestKept(d, now)
<1>1. ASSUME NEW r \in Keep(m, now)
      PROVE  r \in Keep(d, now)
  BY <1>1 DEF Keep, Protected, InTime, Remembers
<1>2. ASSUME NEW k \in NewestKept(m, now)
      PROVE  k \in NewestKept(d, now)
  <2>1. k \in DOMAIN m.latest /\ m.latest[k] \in Keep(m, now) /\ m.requests[m.latest[k]].key = k
    BY DEF NewestKept
  <2>2. k \in DOMAIN d.latest /\ m.latest[k] = d.latest[k] /\ m.requests[m.latest[k]] = d.requests[m.latest[k]]
    BY <2>1 DEF Remembers
  <2> QED
    BY <1>1, <2>1, <2>2 DEF NewestKept
<1> QED
  BY <1>1, <1>2

LEMMA KeptAlike ==
  ASSUME NEW m, NEW d, NEW now, Remembers(m, d), Complete(m, d, now)
  PROVE  Keep(m, now) = Keep(d, now) /\ NewestKept(m, now) = NewestKept(d, now)
<1>1. ASSUME NEW r \in Keep(d, now)
      PROVE  r \in Keep(m, now)
  <2>1. r \in DOMAIN m.requests /\ m.requests[r] = d.requests[r]
    BY DEF Complete, Remembers
  <2>2. CASE Protected(d, r)
    BY <2>1, <2>2 DEF Keep, Protected, Remembers
  <2>3. CASE InTime(d, r, now)
    <3> DEFINE j == d.requests[r]
    <3>1. j.key \in NewestKept(d, now)
      BY <2>3, <1>1 DEF InTime, NewestKept
    <3>2. j.key \in DOMAIN m.latest /\ m.latest[j.key] = r
      BY <2>3, <3>1 DEF InTime, Complete, Remembers
    <3>3. j.invite \in DOMAIN m.invites /\ m.invites[j.invite] = d.invites[j.invite]
      BY <2>1 DEF Remembers
    <3> QED
      BY <2>1, <2>3, <3>2, <3>3 DEF InTime, Keep
  <2> QED
    BY <2>2, <2>3 DEF Keep
<1>2. ASSUME NEW k \in NewestKept(d, now)
      PROVE  k \in NewestKept(m, now)
  <2>1. k \in DOMAIN d.latest /\ d.latest[k] \in Keep(d, now) /\ d.requests[d.latest[k]].key = k
    BY DEF NewestKept
  <2>2. k \in DOMAIN m.latest
    BY DEF Complete
  <2>3. m.latest[k] = d.latest[k] /\ m.requests[m.latest[k]] = d.requests[m.latest[k]]
    BY <2>2 DEF Remembers
  <2> QED
    BY <1>1, <2>1, <2>2, <2>3 DEF NewestKept
<1> QED
  BY <1>1, <1>2, KeptBelow

LEMMA PrunedIs ==
  ASSUME NEW q, NEW p, NEW now, Memory(q), Pruned(p, q, now)
  PROVE  /\ DOMAIN p.requests = Keep(q, now) /\ DOMAIN p.latest = NewestKept(q, now)
         /\ \A r \in Keep(q, now) : p.requests[r] = q.requests[r]
         /\ \A k \in NewestKept(q, now) : p.latest[k] = q.latest[k]
<1> DEFINE K == Keep(q, now)
           N == NewestKept(q, now)
<1>1. K \in SUBSET DOMAIN q.requests /\ N \in SUBSET DOMAIN q.latest
  BY KeepIn
<1> HIDE DEF K, N
<1>2. DOMAIN Only(q.requests, K) = K /\ \A r \in K : Only(q.requests, K)[r] = q.requests[r]
  BY <1>1, OnlyIs DEF Memory
<1>3. DOMAIN Only(q.latest, N) = N /\ \A k \in N : Only(q.latest, N)[k] = q.latest[k]
  BY <1>1, OnlyIs DEF Memory
<1> QED
  BY <1>2, <1>3 DEF Pruned, K, N

\* p is m pruned, and has the invitations of what it kept.
LEMMA PrunedRemembers ==
  ASSUME NEW m, NEW d, NEW p, NEW now, Memory(m), Remembers(m, d), Pruned(p, m, now),
         DOMAIN p.invites \subseteq DOMAIN m.invites,
         \A v \in DOMAIN p.invites : p.invites[v] = m.invites[v],
         \A r \in DOMAIN p.requests : p.requests[r].invite \in DOMAIN p.invites
  PROVE  Remembers(p, d)
<1> DEFINE K == Keep(m, now)
           N == NewestKept(m, now)
<1>1. K \in SUBSET DOMAIN m.requests /\ N \in SUBSET DOMAIN m.latest
  BY KeepIn
<1>2. DOMAIN p.requests = K /\ \A r \in K : p.requests[r] = m.requests[r]
  BY PrunedIs
<1>3. DOMAIN p.latest = N /\ \A k \in N : p.latest[k] = m.latest[k]
  BY PrunedIs
<1>4. m.admitted \subseteq K /\ \A k \in N : m.latest[k] \in K
  BY DEF Remembers, Keep, Protected, NewestKept
<1> HIDE DEF K, N
<1>5. /\ p.admitted = d.admitted /\ p.member = d.member /\ p.admitted \subseteq DOMAIN p.requests
      /\ DOMAIN p.requests \subseteq DOMAIN d.requests /\ DOMAIN p.invites \subseteq DOMAIN d.invites
  BY <1>1, <1>2, <1>4 DEF Remembers, Pruned
<1>6. \A r \in DOMAIN p.requests : p.requests[r] = d.requests[r]
  BY <1>1, <1>2 DEF Remembers
<1>7. \A v \in DOMAIN p.invites : p.invites[v] = d.invites[v]
  BY DEF Remembers
<1>8. \A k \in DOMAIN p.latest : /\ k \in DOMAIN d.latest /\ p.latest[k] = d.latest[k]
                                 /\ p.latest[k] \in DOMAIN p.requests
  BY <1>1, <1>2, <1>3, <1>4 DEF Remembers
<1> QED
  BY <1>5, <1>6, <1>7, <1>8 DEF Remembers

LEMMA PrunedComplete ==
  ASSUME NEW m, NEW d, NEW p, NEW now, Memory(m), Remembers(m, d), Pruned(p, m, now), Complete(m, d, now)
  PROVE  Complete(p, d, now)
<1>1. DOMAIN p.requests = Keep(m, now) /\ DOMAIN p.latest = NewestKept(m, now)
  BY PrunedIs
<1> QED
  BY <1>1, KeptAlike DEF Complete

\* Both pruned, they are the same.
LEMMA PrunedAlike ==
  ASSUME NEW m, NEW d, NEW p, NEW b, NEW now, Memory(m), Memory(d), Remembers(m, d), Complete(m, d, now),
         Pruned(p, m, now), Pruned(b, d, now)
  PROVE  p.requests = b.requests /\ p.latest = b.latest
<1>1. Keep(m, now) = Keep(d, now) /\ NewestKept(m, now) = NewestKept(d, now)
  BY KeptAlike
<1>2. \A r \in Keep(m, now) : m.requests[r] = d.requests[r]
  BY DEF Keep, Remembers
<1>3. \A k \in NewestKept(m, now) : m.latest[k] = d.latest[k]
  BY DEF NewestKept, Remembers
<1> QED
  BY <1>1, <1>2, <1>3 DEF Pruned, Only

LEMMA CompleteLater ==
  ASSUME NEW m, NEW d, NEW now \in Nat, NEW later \in Nat, now <= later, Memory(d), Complete(m, d, now)
  PROVE  Complete(m, d, later) /\ Keep(d, later) \subseteq Keep(d, now)
<1>1. ASSUME NEW r \in Keep(d, later)
      PROVE  r \in Keep(d, now)
  <2>1. r \in DOMAIN d.requests /\ (Protected(d, r) \/ InTime(d, r, later))
    BY DEF Keep
  <2>2. CASE Protected(d, r)
    BY <2>1, <2>2 DEF Keep
  <2>3. CASE InTime(d, r, later)
    <3> DEFINE v == d.requests[r].invite
               e == d.invites[v].expires + Lifetime
    <3>1. v \in DOMAIN d.invites /\ d.invites[v] \in Invitation
      BY <2>3, MapIs DEF InTime, Memory
    <3>2. e \in Nat /\ later <= e
      BY <2>3, <3>1, LANConstants DEF InTime, Invitation
    <3>3. now <= e
      BY <3>2
    <3> QED
      BY <2>1, <2>3, <3>3 DEF Keep, InTime
  <2> QED
    BY <2>1, <2>2, <2>3
<1>2. NewestKept(d, later) \subseteq NewestKept(d, now)
  BY <1>1 DEF NewestKept
<1> QED
  BY <1>1, <1>2 DEF Complete

LEMMA PrunedTidy ==
  ASSUME NEW q, NEW p, NEW now, Memory(q), MemberKnown(q), Pruned(p, q, now)
  PROVE  Tidy(p) /\ MemberKnown(p)
<1>1. DOMAIN p.requests = Keep(q, now) /\ \A r \in Keep(q, now) : p.requests[r] = q.requests[r]
  BY PrunedIs
<1>2. DOMAIN p.latest = NewestKept(q, now) /\ \A k \in NewestKept(q, now) : p.latest[k] = q.latest[k]
  BY PrunedIs
<1>3. MemberKnown(p) /\ p.admitted = q.admitted
  BY DEF Pruned, MemberKnown
<1>4. ASSUME NEW r \in DOMAIN p.requests \ p.admitted
      PROVE  p.requests[r].key \in DOMAIN p.latest /\ p.latest[p.requests[r].key] = r
  <2>1. r \in Keep(q, now) /\ r \notin q.admitted
    BY <1>1, <1>3
  <2>2. r \in Requests /\ r # Nobody
    BY <2>1, MapIs, LANConstants DEF Keep, Memory
  <2>3. InTime(q, r, now)
    BY <2>1, <2>2 DEF Keep, Protected, MemberKnown
  <2>4. q.requests[r].key \in NewestKept(q, now) /\ q.latest[q.requests[r].key] = r
    BY <2>1, <2>3 DEF InTime, NewestKept
  <2> QED
    BY <1>1, <1>2, <2>1, <2>4
<1> QED
  BY <1>3, <1>4 DEF Tidy

-----------------------------------------------------------------------------
(* One fact *)

JoinOf(f) == [invite |-> f.invite, key |-> f.key]

\* p is q with the fact f, in what the engine and the index both remember.
TakesInvite(p, q, f) ==
  /\ p.invites = Put(q.invites, f.invite, [expires |-> f.expires, consumed |-> FALSE])
  /\ p.requests = q.requests /\ p.latest = q.latest /\ p.admitted = q.admitted /\ p.member = q.member
TakesJoin(p, q, f) ==
  /\ p.requests = Put(q.requests, f.request, JoinOf(f)) /\ p.latest = Put(q.latest, f.key, f.request)
  /\ p.invites = q.invites /\ p.admitted = q.admitted /\ p.member = q.member
TakesMember(p, q, f) ==
  /\ p.member = MemberOf(f) /\ p.admitted = q.admitted \cup {f.request}
  /\ p.invites = IF f.join.invite \in DOMAIN q.invites
                 THEN [q.invites EXCEPT ![f.join.invite].consumed = TRUE] ELSE q.invites
  /\ p.requests = q.requests /\ p.latest = q.latest
Takes(p, q, f) ==
  /\ f.kind = "invite" => TakesInvite(p, q, f)
  /\ f.kind = "join" => TakesJoin(p, q, f)
  /\ f.kind = "member" => TakesMember(p, q, f)
Counts(p, q, f) ==
  /\ f.kind = "join" => /\ p.attempts = [q.attempts EXCEPT ![f.invite] = @ + 1]
                        /\ p.keyAttempts = [q.keyAttempts EXCEPT ![<<f.invite, f.key>>] = @ + 1]
  /\ f.kind # "join" => p.attempts = q.attempts /\ p.keyAttempts = q.keyAttempts

LEMMA FactIs ==
  ASSUME NEW f \in Fact
  PROVE  /\ f.kind \in {"invite", "join", "member"}
         /\ f.kind = "invite" => f.invite \in Invites /\ f.expires \in Nat
         /\ f.kind = "join" => /\ f.request \in Requests /\ f.invite \in Invites /\ f.key \in Keys
                               /\ f.late \in BOOLEAN /\ JoinOf(f) \in Join
         /\ f.kind = "member" => /\ f.request \in Requests /\ f.join \in Join /\ f.gen \in Nat
                                 /\ f.active \in BOOLEAN /\ f.late \in BOOLEAN
                                 /\ MemberOf(f) \in Membership
                                 /\ f.join.invite \in Invites
BY DEF Fact, JoinOf, Join, MemberOf, Membership

LEMMA Consumed ==
  ASSUME NEW f \in Maps(Invites, Invitation), NEW v \in DOMAIN f
  PROVE  LET g == [f EXCEPT ![v].consumed = TRUE] IN
         /\ g \in Maps(Invites, Invitation) /\ DOMAIN g = DOMAIN f
         /\ g[v].consumed /\ g[v].expires = f[v].expires
         /\ \A w \in DOMAIN f \ {v} : g[w] = f[w]
<1>1. PICK D \in SUBSET Invites : f \in [D -> Invitation]
  BY DEF Maps
<1> DEFINE i == [f[v] EXCEPT !.consumed = TRUE]
<1>2. f[v] \in Invitation /\ i \in Invitation /\ i.consumed /\ i.expires = f[v].expires
  BY <1>1 DEF Invitation
<1>3. [f EXCEPT ![v].consumed = TRUE] = [f EXCEPT ![v] = i]
  OBVIOUS
<1> HIDE DEF i
<1>4. [f EXCEPT ![v] = i] \in [D -> Invitation]
  BY <1>1, <1>2
<1> QED
  BY <1>1, <1>2, <1>3, <1>4 DEF Maps

LEMMA ApplyIs ==
  ASSUME NEW q \in Projection, NEW f \in Fact, f.kind = "member" => f.join.invite \in DOMAIN q.invites
  PROVE  Apply(q, f) \in Projection /\ Takes(Apply(q, f), q, f) /\ Counts(Apply(q, f), q, f)
<1> DEFINE p == Apply(q, f)
<1>1. Memory(q) /\ q.attempts \in [Invites -> Nat] /\ q.keyAttempts \in [Invites \X Keys -> Nat]
  BY ProjectionIs
<1>2. CASE f.kind = "invite"
  <2> DEFINE i == [expires |-> f.expires, consumed |-> FALSE]
             V == Put(q.invites, f.invite, i)
  <2>1. i \in Invitation /\ f.invite \in Invites
    BY <1>2, FactIs DEF Invitation
  <2>2. V \in Maps(Invites, Invitation)
    <3> HIDE DEF i
    <3> QED
      BY <1>1, <2>1, PutIs DEF Memory
  <2>3. p = [q EXCEPT !.invites = V]
    BY <1>2 DEF Apply
  <2> HIDE DEF V, p
  <2>4. /\ p \in Projection /\ p.invites = V /\ p.requests = q.requests /\ p.latest = q.latest /\ p.admitted = q.admitted
        /\ p.member = q.member /\ p.attempts = q.attempts /\ p.keyAttempts = q.keyAttempts
    BY <2>2, <2>3 DEF Projection
  <2> QED
    BY <1>2, <2>4 DEF Takes, TakesInvite, Counts, V, p
<1>3. CASE f.kind = "join"
  <2> DEFINE R == Put(q.requests, f.request, JoinOf(f))
             L == Put(q.latest, f.key, f.request)
             A == [q.attempts EXCEPT ![f.invite] = @ + 1]
             B == [q.keyAttempts EXCEPT ![<<f.invite, f.key>>] = @ + 1]
  <2>1. R \in Maps(Requests, Join) /\ L \in Maps(Keys, Requests)
    BY <1>1, <1>3, FactIs, PutIs DEF Memory
  <2>2. A \in [Invites -> Nat] /\ B \in [Invites \X Keys -> Nat]
    BY <1>1, <1>3, FactIs
  <2>3. p = [q EXCEPT !.requests = R, !.latest = L, !.attempts = A, !.keyAttempts = B]
    BY <1>3 DEF Apply, ApplyJoin, JoinOf, Projection
  <2> HIDE DEF R, L, A, B, p
  <2>4. p \in Projection
    BY <2>1, <2>2, <2>3 DEF Projection
  <2>5. /\ p.invites = q.invites /\ p.requests = R /\ p.latest = L /\ p.admitted = q.admitted
        /\ p.member = q.member /\ p.attempts = A /\ p.keyAttempts = B
    BY <2>3 DEF Projection
  <2> QED
    BY <1>3, <2>4, <2>5 DEF Takes, TakesJoin, Counts, R, L, A, B, p
<1>4. CASE f.kind = "member"
  <2> DEFINE V == [q.invites EXCEPT ![f.join.invite].consumed = TRUE]
             A == q.admitted \cup {f.request}
             m == MemberOf(f)
  <2>1. V \in Maps(Invites, Invitation) /\ A \in SUBSET Requests /\ m \in Membership
    BY <1>1, <1>4, FactIs, Consumed DEF Memory
  <2>2. p = [q EXCEPT !.member = m, !.admitted = A, !.invites = V]
    BY <1>4 DEF Apply, ApplyMember, Projection
  <2> HIDE DEF V, A, m, p
  <2>3. p \in Projection
    BY <2>1, <2>2 DEF Projection
  <2>4. /\ p.invites = V /\ p.requests = q.requests /\ p.latest = q.latest /\ p.admitted = A
        /\ p.member = m /\ p.attempts = q.attempts /\ p.keyAttempts = q.keyAttempts
    BY <2>2 DEF Projection
  <2> QED
    BY <1>4, <2>3, <2>4 DEF Takes, TakesMember, Counts, V, A, m, p
<1> QED
  BY <1>2, <1>3, <1>4, FactIs

LEMMA IndexIs ==
  ASSUME NEW q \in IndexTable, NEW f \in Fact
  PROVE  Index(q, f) \in IndexTable /\ Takes(Index(q, f), q, f)
<1> DEFINE p == Index(q, f)
<1>1. Memory(q)
  BY TableIs
<1>2. CASE f.kind = "invite"
  <2> DEFINE i == [expires |-> f.expires, consumed |-> FALSE]
             V == Put(q.invites, f.invite, i)
  <2>1. i \in Invitation /\ f.invite \in Invites
    BY <1>2, FactIs DEF Invitation
  <2>2. V \in Maps(Invites, Invitation)
    <3> HIDE DEF i
    <3> QED
      BY <1>1, <2>1, PutIs DEF Memory
  <2>3. p = [q EXCEPT !.invites = V]
    BY <1>2 DEF Index
  <2> HIDE DEF V, p
  <2>4. /\ p \in IndexTable /\ p.invites = V /\ p.requests = q.requests /\ p.latest = q.latest
        /\ p.admitted = q.admitted /\ p.member = q.member
    BY <2>2, <2>3 DEF IndexTable
  <2> QED
    BY <1>2, <2>4 DEF Takes, TakesInvite, V, p
<1>3. CASE f.kind = "join"
  <2> DEFINE R == Put(q.requests, f.request, JoinOf(f))
             L == Put(q.latest, f.key, f.request)
  <2>1. R \in Maps(Requests, Join) /\ L \in Maps(Keys, Requests)
    BY <1>1, <1>3, FactIs, PutIs DEF Memory
  <2>2. p = [q EXCEPT !.requests = R, !.latest = L]
    BY <1>3 DEF Index, JoinOf, IndexTable
  <2> HIDE DEF R, L, p
  <2>3. /\ p \in IndexTable /\ p.invites = q.invites /\ p.requests = R /\ p.latest = L
        /\ p.admitted = q.admitted /\ p.member = q.member
    BY <2>1, <2>2 DEF IndexTable
  <2> QED
    BY <1>3, <2>3 DEF Takes, TakesJoin, R, L, p
<1>4. CASE f.kind = "member"
  <2> DEFINE v == f.join.invite
             V == IF v \in DOMAIN q.invites THEN [q.invites EXCEPT ![v].consumed = TRUE] ELSE q.invites
             A == q.admitted \cup {f.request}
             m == MemberOf(f)
  <2>1. V \in Maps(Invites, Invitation)
    <3>1. CASE v \in DOMAIN q.invites
      BY <1>1, <3>1, Consumed DEF Memory
    <3> QED
      BY <1>1, <3>1 DEF Memory
  <2>2. A \in SUBSET Requests /\ m \in Membership
    BY <1>1, <1>4, FactIs DEF Memory
  <2>3. p = [q EXCEPT !.member = m, !.admitted = A, !.invites = V]
    BY <1>4 DEF Index, IndexMember, IndexTable
  <2> HIDE DEF V, A, m, p
  <2>4. /\ p \in IndexTable /\ p.invites = V /\ p.requests = q.requests /\ p.latest = q.latest
        /\ p.admitted = A /\ p.member = m
    BY <2>1, <2>2, <2>3 DEF IndexTable
  <2> QED
    BY <1>4, <2>4 DEF Takes, TakesMember, V, A, m, p
<1> QED
  BY <1>2, <1>3, <1>4, FactIs

\* What the facts add up to before any pruning.
Sound(d) ==
  /\ d \in Projection
  /\ \E n \in Nat : DOMAIN d.invites = 1..n
  /\ \A r \in DOMAIN d.requests : d.requests[r].invite \in DOMAIN d.invites
  /\ \A k \in DOMAIN d.latest : d.latest[k] \in DOMAIN d.requests
  /\ d.admitted \subseteq DOMAIN d.requests
  /\ \A r \in d.admitted : d.invites[d.requests[r].invite].consumed
  /\ MemberKnown(d)
  /\ d.member.request # Nobody => d.member.join = d.requests[d.member.request]
  /\ d.member.request = Nobody => ~d.member.active
  /\ IsFiniteSet(DOMAIN d.requests)

\* A fact that the memory m of d may take.
Takeable(m, d, f) ==
  /\ f.kind = "invite" => f.invite \notin DOMAIN d.invites
  /\ f.kind = "join" => f.request \notin d.admitted /\ f.invite \in DOMAIN m.invites
  /\ f.kind = "member" => f.request \in DOMAIN m.requests /\ m.requests[f.request] = f.join

LEMMA TakesKnows ==
  ASSUME NEW q, NEW p, NEW f \in Fact, Takes(p, q, f), MemberKnown(q)
  PROVE  MemberKnown(p)
<1>1. CASE f.kind = "member"
  BY <1>1 DEF Takes, TakesMember, MemberKnown, MemberOf
<1>2. CASE f.kind # "member"
  BY <1>2, FactIs DEF Takes, TakesInvite, TakesJoin, MemberKnown
<1> QED
  BY <1>1, <1>2

\* What a fact does to the parts of a memory.
InvitesAt(p, q, f) ==
  /\ DOMAIN p.invites = DOMAIN q.invites \cup {f.invite}
  /\ p.invites[f.invite] = [expires |-> f.expires, consumed |-> FALSE]
  /\ \A v \in DOMAIN q.invites \ {f.invite} : p.invites[v] = q.invites[v]
JoinsAt(p, q, f) ==
  /\ DOMAIN p.requests = DOMAIN q.requests \cup {f.request}
  /\ p.requests[f.request] = JoinOf(f)
  /\ \A r \in DOMAIN q.requests \ {f.request} : p.requests[r] = q.requests[r]
  /\ DOMAIN p.latest = DOMAIN q.latest \cup {f.key} /\ p.latest[f.key] = f.request
  /\ \A k \in DOMAIN q.latest \ {f.key} : p.latest[k] = q.latest[k]
MemberAt(p, q, f) ==
  /\ DOMAIN p.invites = DOMAIN q.invites
  /\ \A v \in DOMAIN q.invites : p.invites[v].expires = q.invites[v].expires
  /\ \A v \in DOMAIN q.invites \ {f.join.invite} : p.invites[v] = q.invites[v]
  /\ f.join.invite \in DOMAIN q.invites => p.invites[f.join.invite].consumed

LEMMA TakesIs ==
  ASSUME NEW q, NEW p, NEW f \in Fact, Memory(q), Takes(p, q, f)
  PROVE  /\ f.kind = "invite" => InvitesAt(p, q, f)
         /\ f.kind = "join" => JoinsAt(p, q, f)
         /\ f.kind = "member" => MemberAt(p, q, f)
<1>1. CASE f.kind = "invite"
  <2>1. [expires |-> f.expires, consumed |-> FALSE] \in Invitation /\ f.invite \in Invites
    BY <1>1, FactIs DEF Invitation
  <2>2. PICK i \in Invitation : i = [expires |-> f.expires, consumed |-> FALSE]
    BY <2>1
  <2>3. p.invites = Put(q.invites, f.invite, i)
    BY <1>1, <2>2 DEF Takes, TakesInvite
  <2>4. /\ DOMAIN Put(q.invites, f.invite, i) = DOMAIN q.invites \cup {f.invite}
        /\ Put(q.invites, f.invite, i)[f.invite] = i
        /\ \A v \in DOMAIN q.invites \ {f.invite} : Put(q.invites, f.invite, i)[v] = q.invites[v]
    BY DEF Put
  <2> QED
    BY <1>1, <2>2, <2>3, <2>4 DEF InvitesAt
<1>2. CASE f.kind = "join"
  <2>1. f.request \in Requests /\ f.key \in Keys /\ JoinOf(f) \in Join
    BY <1>2, FactIs
  <2>2. p.requests = Put(q.requests, f.request, JoinOf(f)) /\ p.latest = Put(q.latest, f.key, f.request)
    BY <1>2 DEF Takes, TakesJoin
  <2>3. /\ DOMAIN p.requests = DOMAIN q.requests \cup {f.request} /\ p.requests[f.request] = JoinOf(f)
        /\ \A r \in DOMAIN q.requests \ {f.request} : p.requests[r] = q.requests[r]
    BY <2>2 DEF Put
  <2>4. /\ DOMAIN p.latest = DOMAIN q.latest \cup {f.key} /\ p.latest[f.key] = f.request
        /\ \A k \in DOMAIN q.latest \ {f.key} : p.latest[k] = q.latest[k]
    BY <2>2 DEF Put
  <2> QED
    BY <1>2, <2>3, <2>4 DEF JoinsAt
<1>3. CASE f.kind = "member"
  <2> DEFINE v == f.join.invite
  <2>1. p.invites = IF v \in DOMAIN q.invites THEN [q.invites EXCEPT ![v].consumed = TRUE] ELSE q.invites
    BY <1>3 DEF Takes, TakesMember
  <2>2. CASE v \in DOMAIN q.invites
    <3> DEFINE g == [q.invites EXCEPT ![v].consumed = TRUE]
    <3>1. /\ DOMAIN g = DOMAIN q.invites /\ g[v].consumed /\ g[v].expires = q.invites[v].expires
          /\ \A w \in DOMAIN q.invites \ {v} : g[w] = q.invites[w]
      BY <2>2, Consumed DEF Memory
    <3>2. p.invites = g
      BY <2>1, <2>2
    <3> HIDE DEF g, v
    <3> QED
      BY <1>3, <2>2, <3>1, <3>2 DEF v, MemberAt
  <2>3. CASE v \notin DOMAIN q.invites
    BY <1>3, <2>1, <2>3 DEF MemberAt
  <2> QED
    BY <2>2, <2>3
<1> QED
  BY <1>1, <1>2, <1>3, FactIs

LEMMA TakesRemembers ==
  ASSUME NEW m, NEW d, NEW p, NEW e, NEW f \in Fact, Memory(m), Memory(d), Remembers(m, d),
         Takes(p, m, f), Takes(e, d, f), Takeable(m, d, f)
  PROVE  Remembers(p, e)
<1>1. CASE f.kind = "invite"
  <2>1. /\ p.requests = m.requests /\ p.latest = m.latest /\ p.admitted = m.admitted /\ p.member = m.member
        /\ e.requests = d.requests /\ e.latest = d.latest /\ e.admitted = d.admitted /\ e.member = d.member
    BY <1>1 DEF Takes, TakesInvite
  <2>2. f.invite \notin DOMAIN d.invites /\ f.invite \notin DOMAIN m.invites
    BY <1>1 DEF Takeable, Remembers
  <2>3. /\ DOMAIN p.invites = DOMAIN m.invites \cup {f.invite}
        /\ p.invites[f.invite] = [expires |-> f.expires, consumed |-> FALSE]
        /\ \A v \in DOMAIN m.invites \ {f.invite} : p.invites[v] = m.invites[v]
    BY <1>1, TakesIs DEF InvitesAt
  <2>4. /\ DOMAIN e.invites = DOMAIN d.invites \cup {f.invite}
        /\ e.invites[f.invite] = [expires |-> f.expires, consumed |-> FALSE]
        /\ \A v \in DOMAIN d.invites \ {f.invite} : e.invites[v] = d.invites[v]
    BY <1>1, TakesIs DEF InvitesAt
  <2>5. \A v \in DOMAIN p.invites : v \in DOMAIN e.invites /\ p.invites[v] = e.invites[v]
    BY <2>2, <2>3, <2>4 DEF Remembers
  <2> QED
    BY <2>1, <2>3, <2>5 DEF Remembers
<1>2. CASE f.kind = "join"
  <2>1. /\ p.invites = m.invites /\ p.admitted = m.admitted /\ p.member = m.member
        /\ e.invites = d.invites /\ e.admitted = d.admitted /\ e.member = d.member
    BY <1>2 DEF Takes, TakesJoin
  <2>2. /\ DOMAIN p.requests = DOMAIN m.requests \cup {f.request}
        /\ p.requests[f.request] = JoinOf(f)
        /\ \A r \in DOMAIN m.requests \ {f.request} : p.requests[r] = m.requests[r]
        /\ DOMAIN p.latest = DOMAIN m.latest \cup {f.key} /\ p.latest[f.key] = f.request
        /\ \A k \in DOMAIN m.latest \ {f.key} : p.latest[k] = m.latest[k]
    BY <1>2, TakesIs DEF JoinsAt
  <2>3. /\ DOMAIN e.requests = DOMAIN d.requests \cup {f.request}
        /\ e.requests[f.request] = JoinOf(f)
        /\ \A r \in DOMAIN d.requests \ {f.request} : e.requests[r] = d.requests[r]
        /\ DOMAIN e.latest = DOMAIN d.latest \cup {f.key} /\ e.latest[f.key] = f.request
        /\ \A k \in DOMAIN d.latest \ {f.key} : e.latest[k] = d.latest[k]
    BY <1>2, TakesIs DEF JoinsAt
  <2>4. JoinOf(f).invite \in DOMAIN m.invites
    BY <1>2 DEF Takeable, JoinOf
  <2>5. \A r \in DOMAIN p.requests : r \in DOMAIN e.requests /\ p.requests[r] = e.requests[r]
                                     /\ p.requests[r].invite \in DOMAIN p.invites
    BY <2>1, <2>2, <2>3, <2>4 DEF Remembers
  <2>6. \A k \in DOMAIN p.latest : /\ k \in DOMAIN e.latest /\ p.latest[k] = e.latest[k]
                                   /\ p.latest[k] \in DOMAIN p.requests
    BY <2>2, <2>3 DEF Remembers
  <2> QED
    BY <2>1, <2>2, <2>3, <2>5, <2>6 DEF Remembers
<1>3. CASE f.kind = "member"
  <2>1. /\ p.requests = m.requests /\ p.latest = m.latest /\ p.admitted = m.admitted \cup {f.request}
        /\ p.member = MemberOf(f) /\ e.requests = d.requests /\ e.latest = d.latest
        /\ e.admitted = d.admitted \cup {f.request} /\ e.member = MemberOf(f)
    BY <1>3 DEF Takes, TakesMember
  <2>2. f.request \in DOMAIN m.requests /\ f.join.invite \in DOMAIN m.invites /\ f.join.invite \in DOMAIN d.invites
    BY <1>3 DEF Takeable, Remembers
  <2>3. /\ p.invites = [m.invites EXCEPT ![f.join.invite].consumed = TRUE]
        /\ e.invites = [d.invites EXCEPT ![f.join.invite].consumed = TRUE]
    BY <1>3, <2>2 DEF Takes, TakesMember
  <2>4. ASSUME NEW v \in DOMAIN p.invites
        PROVE  v \in DOMAIN e.invites /\ p.invites[v] = e.invites[v]
    <3>1. v \in DOMAIN m.invites /\ v \in DOMAIN d.invites /\ v \in DOMAIN e.invites /\ m.invites[v] = d.invites[v]
      BY <2>3 DEF Remembers
    <3>2. /\ p.invites[v] = IF v = f.join.invite THEN [m.invites[v] EXCEPT !.consumed = TRUE] ELSE m.invites[v]
          /\ e.invites[v] = IF v = f.join.invite THEN [d.invites[v] EXCEPT !.consumed = TRUE] ELSE d.invites[v]
      BY <2>3, <3>1
    <3> QED
      BY <3>1, <3>2
  <2>5. DOMAIN p.invites = DOMAIN m.invites
    BY <2>3
  <2> QED
    BY <2>1, <2>2, <2>4, <2>5 DEF Remembers
<1> QED
  BY <1>1, <1>2, <1>3, FactIs

LEMMA TakesComplete ==
  ASSUME NEW m, NEW d, NEW p, NEW e, NEW now, NEW f \in Fact, Memory(m), Memory(d), Remembers(m, d), MemberKnown(d),
         Takes(p, m, f), Takes(e, d, f), Takeable(m, d, f), Complete(m, d, now),
         \A r \in DOMAIN d.requests : d.requests[r].invite \in DOMAIN d.invites,
         f.kind = "member" => f.request \in d.admitted \/ f.join.key \in DOMAIN m.latest
  PROVE  Complete(p, e, now)
<1>1. CASE f.kind = "invite"
  <2>1. /\ p.requests = m.requests /\ p.latest = m.latest
        /\ e.requests = d.requests /\ e.latest = d.latest /\ e.admitted = d.admitted /\ e.member = d.member
    BY <1>1 DEF Takes, TakesInvite
  <2>2. \A v \in DOMAIN d.invites : e.invites[v] = d.invites[v]
    <3>1. InvitesAt(e, d, f) /\ f.invite \notin DOMAIN d.invites
      BY <1>1, TakesIs DEF Takeable
    <3> QED
      BY <3>1 DEF InvitesAt
  <2>3. Keep(e, now) \subseteq Keep(d, now)
    BY <2>1, <2>2 DEF Keep, Protected, InTime
  <2>4. NewestKept(e, now) \subseteq NewestKept(d, now)
    BY <2>1, <2>3 DEF NewestKept
  <2> QED
    BY <2>1, <2>3, <2>4 DEF Complete
<1>2. CASE f.kind = "join"
  <2>1. JoinsAt(p, m, f) /\ JoinsAt(e, d, f)
    BY <1>2, TakesIs
  <2>2. e.invites = d.invites /\ e.admitted = d.admitted /\ e.member = d.member
    BY <1>2 DEF Takes, TakesJoin
  <2>3. ASSUME NEW r \in Keep(e, now), r # f.request
        PROVE  r \in Keep(d, now)
    <3>1. r \in DOMAIN d.requests /\ e.requests[r] = d.requests[r]
      BY <2>1, <2>3 DEF Keep, JoinsAt
    <3>2. CASE Protected(e, r)
      BY <2>2, <3>1, <3>2 DEF Keep, Protected
    <3>3. CASE InTime(e, r, now)
      <4>1. d.requests[r].key # f.key
        BY <2>1, <2>3, <3>1, <3>3 DEF InTime, JoinsAt
      <4>2. d.requests[r].key \in DOMAIN d.latest /\ d.latest[d.requests[r].key] = r
        BY <2>1, <3>1, <3>3, <4>1 DEF InTime, JoinsAt
      <4> QED
        BY <2>2, <3>1, <3>3, <4>2 DEF InTime, Keep
    <3> QED
      BY <3>2, <3>3 DEF Keep
  <2>4. Keep(e, now) \subseteq DOMAIN p.requests
    BY <2>1, <2>3 DEF Complete, JoinsAt
  <2>5. ASSUME NEW k \in NewestKept(e, now), k # f.key
        PROVE  k \in NewestKept(d, now)
    <3>1. /\ k \in DOMAIN d.latest /\ e.latest[k] = d.latest[k]
          /\ e.latest[k] \in Keep(e, now) /\ e.requests[e.latest[k]].key = k
      BY <2>1, <2>5 DEF NewestKept, JoinsAt
    <3>2. e.latest[k] # f.request
      BY <2>1, <2>5, <3>1 DEF JoinsAt, JoinOf
    <3>3. d.latest[k] \in Keep(d, now) /\ e.requests[d.latest[k]] = d.requests[d.latest[k]]
      BY <2>1, <2>3, <3>1, <3>2 DEF Keep, JoinsAt
    <3> QED
      BY <3>1, <3>3 DEF NewestKept
  <2>6. NewestKept(e, now) \subseteq DOMAIN p.latest
    BY <2>1, <2>5 DEF Complete, JoinsAt
  <2> QED
    BY <2>4, <2>6 DEF Complete
<1>3. CASE f.kind = "member"
  <2>1. /\ p.requests = m.requests /\ p.latest = m.latest
        /\ e.requests = d.requests /\ e.latest = d.latest
        /\ e.admitted = d.admitted \cup {f.request} /\ e.member = MemberOf(f) /\ MemberOf(f).request = f.request
    BY <1>3 DEF Takes, TakesMember, MemberOf
  <2>2. MemberAt(e, d, f)
    BY <1>3, TakesIs
  <2>3. ASSUME NEW r \in Keep(e, now), r # f.request
        PROVE  r \in Keep(d, now)
    BY <2>1, <2>2, <2>3 DEF Keep, Protected, InTime, MemberAt
  <2>4. f.request \in DOMAIN m.requests
    BY <1>3 DEF Takeable
  <2>5. ASSUME NEW k \in NewestKept(e, now)
        PROVE  k \in DOMAIN m.latest
    <3>1. /\ k \in DOMAIN d.latest /\ d.latest[k] \in Keep(e, now) /\ d.requests[d.latest[k]].key = k
      BY <2>1 DEF NewestKept
    <3>2. CASE d.latest[k] # f.request
      BY <2>3, <3>1, <3>2 DEF NewestKept, Complete
    <3>3. CASE d.latest[k] = f.request
      <4>1. d.requests[f.request] = f.join /\ f.request \in DOMAIN d.requests
        BY <1>3 DEF Takeable, Remembers
      <4>2. CASE f.request \in d.admitted
        BY <3>1, <3>3, <4>1, <4>2 DEF Keep, Protected, NewestKept, Complete
      <4>3. CASE f.join.key \in DOMAIN m.latest
        BY <3>1, <3>3, <4>1, <4>3
      <4> QED
        BY <1>3, <4>2, <4>3
    <3> QED
      BY <3>2, <3>3
  <2> QED
    BY <2>1, <2>3, <2>4, <2>5 DEF Complete
<1> QED
  BY <1>1, <1>2, <1>3, FactIs

LEMMA Finitely ==
  ASSUME NEW S, NEW x, IsFiniteSet(S)
  PROVE  IsFiniteSet(S \cup {x})
BY FS_AddElement

LEMMA ApplySound ==
  ASSUME NEW d, NEW f \in Fact, Sound(d), Applies(d, f, TRUE),
         f.kind = "invite" => f.invite = Cardinality(DOMAIN d.invites) + 1
  PROVE  Sound(Apply(d, f))
<1> DEFINE e == Apply(d, f)
<1>1. d \in Projection /\ Memory(d) /\ (f.kind = "member" => f.join.invite \in DOMAIN d.invites)
  <2>1. f.kind = "member" => f.request \in DOMAIN d.requests /\ d.requests[f.request] = f.join
    BY DEF Applies
  <2> QED
    BY <2>1, ProjectionIs DEF Sound
<1>2. e \in Projection /\ Takes(e, d, f)
  BY <1>1, ApplyIs
<1>3. MemberKnown(e)
  BY <1>2, TakesKnows DEF Sound
<1> HIDE DEF e
<1>4. CASE f.kind = "invite"
  <2>1. /\ e.requests = d.requests /\ e.latest = d.latest /\ e.admitted = d.admitted /\ e.member = d.member
    BY <1>2, <1>4 DEF Takes, TakesInvite
  <2>2. InvitesAt(e, d, f) /\ f.invite \notin DOMAIN d.invites
    BY <1>1, <1>2, <1>4, TakesIs DEF Applies
  <2>3. \E n \in Nat : DOMAIN e.invites = 1..n
    <3>1. PICK n \in Nat : DOMAIN d.invites = 1..n
      BY DEF Sound
    <3>2. Cardinality(1..n) = n
      BY <3>1, FS_Interval
    <3>3. DOMAIN e.invites = 1..(n + 1)
      BY <1>4, <2>2, <3>1, <3>2 DEF InvitesAt
    <3> QED
      BY <3>1, <3>3
  <2>4. \A v \in DOMAIN d.invites : v \in DOMAIN e.invites /\ e.invites[v] = d.invites[v]
    BY <2>2 DEF InvitesAt
  <2>5. \A r \in d.admitted : e.invites[d.requests[r].invite].consumed
    BY <2>4 DEF Sound
  <2> QED
    BY <1>2, <1>3, <2>1, <2>3, <2>4, <2>5 DEF Sound, e
<1>5. CASE f.kind = "join"
  <2>1. e.invites = d.invites /\ e.admitted = d.admitted /\ e.member = d.member
    BY <1>2, <1>5 DEF Takes, TakesJoin
  <2>2. JoinsAt(e, d, f)
    BY <1>1, <1>2, <1>5, TakesIs
  <2>3. f.invite \in DOMAIN d.invites /\ f.request \notin d.admitted
    BY <1>5 DEF Applies, LiveJoin, Reusable, Sound
  <2>4. \A r \in DOMAIN e.requests : e.requests[r].invite \in DOMAIN e.invites
    BY <2>1, <2>2, <2>3 DEF Sound, JoinsAt, JoinOf
  <2>5. \A k \in DOMAIN e.latest : e.latest[k] \in DOMAIN e.requests
    BY <2>2 DEF Sound, JoinsAt
  <2>6. e.admitted \subseteq DOMAIN e.requests /\ \A r \in e.admitted : e.requests[r] = d.requests[r]
    BY <2>1, <2>2, <2>3 DEF Sound, JoinsAt
  <2>7. IsFiniteSet(DOMAIN e.requests)
    <3>1. IsFiniteSet(DOMAIN d.requests \cup {f.request})
      BY Finitely DEF Sound
    <3> QED
      BY <2>2, <3>1 DEF JoinsAt
  <2>8. e.member.request # Nobody => e.member.join = e.requests[e.member.request]
    BY <1>3, <2>1, <2>6 DEF Sound, MemberKnown
  <2>9. \A r \in e.admitted : e.invites[e.requests[r].invite].consumed
    BY <2>1, <2>6 DEF Sound
  <2> QED
    BY <1>2, <1>3, <2>1, <2>4, <2>5, <2>6, <2>7, <2>8, <2>9 DEF Sound, e
<1>6. CASE f.kind = "member"
  <2>1. /\ e.requests = d.requests /\ e.latest = d.latest /\ e.admitted = d.admitted \cup {f.request}
        /\ e.member = MemberOf(f) /\ MemberOf(f).request = f.request /\ MemberOf(f).join = f.join
    BY <1>2, <1>6 DEF Takes, TakesMember, MemberOf
  <2>2. MemberAt(e, d, f)
    BY <1>1, <1>2, <1>6, TakesIs
  <2>3. f.request \in DOMAIN d.requests /\ d.requests[f.request] = f.join /\ f.request # Nobody
    BY <1>6, FactIs, LANConstants DEF Applies
  <2>4. \A r \in e.admitted : e.invites[e.requests[r].invite].consumed
    <3>1. ASSUME NEW r \in e.admitted
          PROVE  e.invites[e.requests[r].invite].consumed
      <4> DEFINE v == d.requests[r].invite
      <4>1. CASE v = f.join.invite
        BY <1>1, <1>6, <2>1, <2>2, <4>1 DEF MemberAt
      <4>2. CASE v # f.join.invite
        <5>1. r \in d.admitted /\ v \in DOMAIN d.invites /\ d.invites[v].consumed
          BY <2>1, <2>3, <4>2 DEF Sound
        <5> QED
          BY <2>1, <2>2, <4>2, <5>1 DEF MemberAt
      <4> QED
        BY <4>1, <4>2
    <3> QED
      BY <3>1
  <2>5. DOMAIN e.invites = DOMAIN d.invites
    BY <2>2 DEF MemberAt
  <2> QED
    BY <1>2, <1>3, <2>1, <2>3, <2>4, <2>5 DEF Sound, e
<1> QED
  BY <1>4, <1>5, <1>6, FactIs

-----------------------------------------------------------------------------
(* The log grows *)

Past == Replay(log)
Admitted == {log[i].request : i \in Memberships}
Grows(f) == log' = log \o <<f>>

\* d adds up the facts.
AddsUp(d) ==
  /\ d.admitted = Admitted /\ d.member = Newest
  /\ \A v \in Invites : d.attempts[v] = Attempts(v, Keys)
  /\ \A v \in Invites, k \in Keys : d.keyAttempts[<<v, k>>] = Attempts(v, {k})

LEMMA LogGrows ==
  ASSUME log \in Seq(Fact), NEW f \in Fact, Grows(f)
  PROVE  LET n == Len(log) + 1 IN
         /\ log' \in Seq(Fact) /\ Len(log') = n /\ n \in Nat /\ n > 0
         /\ DOMAIN log = 1..Len(log) /\ DOMAIN log' = DOMAIN log \cup {n} /\ n \notin DOMAIN log
         /\ log'[n] = f /\ \A i \in DOMAIN log : log'[i] = log[i] /\ i < n
<1> DEFINE n == Len(log) + 1
           l == log \o <<f>>
<1>1. Len(log) \in Nat /\ DOMAIN log = 1..Len(log)
  OBVIOUS
<1>2. l \in Seq(Fact) /\ Len(l) = n /\ DOMAIN l = 1..n
  OBVIOUS
<1>3. l[n] = f /\ \A i \in DOMAIN log : l[i] = log[i] /\ i < n
  OBVIOUS
<1>4. 1..n = (1..Len(log)) \cup {n} /\ n \notin 1..Len(log) /\ n > 0 /\ n \in Nat
  BY <1>1
<1>5. log' = l
  BY DEF Grows
<1> HIDE DEF l
<1> QED
  BY <1>1, <1>2, <1>3, <1>4, <1>5

LEMMA MembershipsGrow ==
  ASSUME log \in Seq(Fact), NEW f \in Fact, Grows(f)
  PROVE  /\ f.kind # "member" => Memberships' = Memberships /\ Newest' = Newest /\ Admitted' = Admitted
         /\ f.kind = "member" => Newest' = MemberOf(f) /\ Admitted' = Admitted \cup {f.request}
<1> DEFINE n == Len(log) + 1
<1>1. /\ n \in Nat /\ DOMAIN log' = DOMAIN log \cup {n} /\ n \notin DOMAIN log
      /\ log'[n] = f /\ \A i \in DOMAIN log : log'[i] = log[i] /\ i < n /\ i \in Nat
  <2>1. DOMAIN log \in SUBSET Nat
    OBVIOUS
  <2> QED
    BY <2>1, LogGrows
<1> HIDE DEF n
<1>2. CASE f.kind # "member"
  <2>1. Memberships' = Memberships
    BY <1>1, <1>2 DEF Memberships
  <2>2. Admitted' = Admitted
    BY <1>1, <2>1 DEF Admitted, Memberships
  <2>3. Newest' = Newest
    <3>1. CASE Memberships = {}
      BY <2>1, <3>1 DEF Newest
    <3>2. CASE Memberships # {}
      <4> DEFINE top == CHOOSE i \in Memberships : \A j \in Memberships : j <= i
      <4>1. \E x \in Memberships : \A y \in Memberships : y <= x
        <5>1. Len(log) \in Nat /\ Memberships \in SUBSET (0..Len(log))
          BY DEF Memberships
        <5> QED
          BY <3>2, <5>1, Greatest
      <4>2. top \in Memberships
        BY <4>1
      <4>3. Newest = MemberOf(log[top])
        BY <3>2 DEF Newest
      <4>4. Newest' = MemberOf(log'[top])
        BY <2>1, <3>2 DEF Newest
      <4> HIDE DEF top
      <4> QED
        BY <1>1, <4>2, <4>3, <4>4 DEF Memberships
    <3> QED
      BY <3>1, <3>2
  <2> QED
    BY <1>2, <2>1, <2>2, <2>3
<1>3. CASE f.kind = "member"
  <2>1. Memberships' = Memberships \cup {n}
    BY <1>1, <1>3 DEF Memberships
  <2>2. Admitted' = Admitted \cup {f.request}
    BY <1>1, <2>1 DEF Admitted, Memberships
  <2>3. \A j \in Memberships' : j <= n
    BY <1>1, <2>1 DEF Memberships
  <2>4. \A i \in Memberships' : (\A j \in Memberships' : j <= i) => i = n
    BY <1>1, <2>1 DEF Memberships
  <2> DEFINE top == CHOOSE i \in Memberships' : \A j \in Memberships' : j <= i
  <2>5. top = n
    BY <2>1, <2>3, <2>4
  <2>6. Newest' = MemberOf(log'[top])
    BY <2>1 DEF Newest
  <2> HIDE DEF top
  <2> QED
    BY <1>1, <1>3, <2>2, <2>5, <2>6
<1> QED
  BY <1>2, <1>3

LEMMA AttemptsGrow ==
  ASSUME log \in Seq(Fact), NEW f \in Fact, Grows(f), NEW v, NEW K
  PROVE  /\ Attempts(v, K) \in Nat
         /\ Attempts(v, K)' = IF f.kind = "join" /\ f.invite = v /\ f.key \in K
                              THEN Attempts(v, K) + 1 ELSE Attempts(v, K)
<1> DEFINE n == Len(log) + 1
           S == {i \in DOMAIN log : log[i].kind = "join" /\ log[i].invite = v /\ log[i].key \in K}
           T == {i \in DOMAIN log' : log'[i].kind = "join" /\ log'[i].invite = v /\ log'[i].key \in K}
<1>1. /\ DOMAIN log' = DOMAIN log \cup {n} /\ n \notin DOMAIN log
      /\ log'[n] = f /\ \A i \in DOMAIN log : log'[i] = log[i]
  BY LogGrows
<1>2. IsFiniteSet(S)
  <2>1. IsFiniteSet(1..Len(log)) /\ S \in SUBSET (1..Len(log))
    BY FS_Interval
  <2> HIDE DEF S
  <2> QED
    BY <2>1, FS_Subset
<1>3. T = IF f.kind = "join" /\ f.invite = v /\ f.key \in K THEN S \cup {n} ELSE S
  BY <1>1
<1>4. n \notin S /\ Attempts(v, K) = Cardinality(S) /\ Attempts(v, K)' = Cardinality(T)
  BY <1>1 DEF Attempts
<1> HIDE DEF n, S, T
<1>5. Cardinality(S) \in Nat /\ Cardinality(S \cup {n}) = Cardinality(S) + 1
  BY <1>2, <1>4, FS_CardinalityType, FS_AddElement
<1> QED
  BY <1>3, <1>4, <1>5

LEMMA AddsUpGrows ==
  ASSUME log \in Seq(Fact), NEW f \in Fact, Grows(f), NEW d \in Projection, AddsUp(d),
         NEW e, Takes(e, d, f), Counts(e, d, f)
  PROVE  AddsUp(e)'
<1>2. e.admitted = Admitted' /\ e.member = Newest'
  BY MembershipsGrow, FactIs DEF AddsUp, Takes, TakesInvite, TakesJoin, TakesMember
<1>3. d.attempts \in [Invites -> Nat] /\ d.keyAttempts \in [Invites \X Keys -> Nat]
  BY ProjectionIs
<1>4. ASSUME NEW v \in Invites
      PROVE  e.attempts[v] = Attempts(v, Keys)'
  <2>1. Attempts(v, Keys)' = IF f.kind = "join" /\ f.invite = v /\ f.key \in Keys
                             THEN Attempts(v, Keys) + 1 ELSE Attempts(v, Keys)
    BY AttemptsGrow
  <2> QED
    BY <1>3, <2>1, FactIs DEF AddsUp, Counts
<1>5. ASSUME NEW v \in Invites, NEW k \in Keys
      PROVE  e.keyAttempts[<<v, k>>] = Attempts(v, {k})'
  <2>1. Attempts(v, {k})' = IF f.kind = "join" /\ f.invite = v /\ f.key \in {k}
                             THEN Attempts(v, {k}) + 1 ELSE Attempts(v, {k})
    BY AttemptsGrow
  <2>2. <<v, k>> \in Invites \X Keys /\ d.keyAttempts[<<v, k>>] = Attempts(v, {k})
    BY DEF AddsUp
  <2>3. CASE f.kind # "join"
    BY <2>1, <2>2, <2>3 DEF Counts
  <2>4. CASE f.kind = "join"
    <3> DEFINE w == <<f.invite, f.key>>
    <3>1. e.keyAttempts = [d.keyAttempts EXCEPT ![w] = @ + 1]
      BY <2>4 DEF Counts
    <3>2. e.keyAttempts[<<v, k>>] = IF w = <<v, k>> THEN d.keyAttempts[<<v, k>>] + 1 ELSE d.keyAttempts[<<v, k>>]
      <4> HIDE DEF w
      <4> QED
        BY <1>3, <2>2, <3>1
    <3>3. w = <<v, k>> <=> f.invite = v /\ f.key = k
      OBVIOUS
    <3> HIDE DEF w
    <3> QED
      BY <2>1, <2>2, <2>4, <3>2, <3>3
  <2> QED
    BY <2>3, <2>4
<1> QED
  BY <1>2, <1>4, <1>5 DEF AddsUp

-----------------------------------------------------------------------------
(* The inductive invariant *)

\* Live invitations are in m.
LiveKept(m, d, now) ==
  \A v \in DOMAIN d.invites : ~d.invites[v].consumed /\ now < d.invites[v].expires => v \in DOMAIN m.invites
\* The index before any pruning.
Mirrors(x, d) ==
  /\ x \in IndexTable /\ x.invites = d.invites /\ x.requests = d.requests /\ x.latest = d.latest
  /\ x.admitted = d.admitted /\ x.member = d.member
PendingOf(d, now, v) == {r \in Keep(d, now) : d.requests[r].invite = v /\ r \notin d.admitted}
FewPending(q) == \A v \in Invites : Cardinality(Pending(q, v)) <= MaxPending

Types ==
  /\ log \in Seq(Fact) /\ Len(log) <= MaxFacts /\ known \in Projection
  /\ phase \in {"open", "fatal", "closed"}
  /\ index \in IndexTable /\ missed \in BOOLEAN /\ clock \in 0..MaxClock /\ back \in 0..MaxBack
  /\ leaving \in [Callers -> [waits : BOOLEAN, gen : Nat, rebound : BOOLEAN]]
  /\ transfers \in [Transfers -> [pc : {"none", "begun", "authorized", "writing"}, gen : Nat, stopped : BOOLEAN]]
LateEnd == Len(log) > 0 /\ Last(log).kind \in {"join", "member"} /\ Last(log).late
Spent ==
  \A v \in Invites : /\ Attempts(v, Keys) <= MaxPerInvite
                     /\ \A k \in Keys : Attempts(v, {k}) <= MaxPerKey
LogOK ==
  /\ Past # Refused => Sound(Past) /\ AddsUp(Past) /\ Mirrors(Indexed(log), Past)
  /\ Past = Refused => LateEnd /\ ~Open
  /\ Spent
EngineOK ==
  /\ Open => /\ Remembers(known, Past) /\ SameCounts(known, Past) /\ Tidy(known)
             /\ back = 0 => Complete(known, Past, clock) /\ FewPending(known)
  /\ ~Open => known = Unknown
IndexOK ==
  ~missed /\ back = 0 /\ Past # Refused =>
    Remembers(index, Past) /\ Complete(index, Past, clock) /\ LiveKept(index, Past, clock)
PendingOK ==
  back = 0 /\ Past # Refused => \A v \in Invites : Cardinality(PendingOf(Past, clock, v)) <= MaxPending
TransfersOK ==
  \A t \in Transfers : transfers[t].pc \in {"authorized", "writing"} =>
    Newest.active /\ Newest.gen = transfers[t].gen

IInv == Types /\ LogOK /\ EngineOK /\ IndexOK /\ PendingOK /\ TransfersOK

-----------------------------------------------------------------------------
(* Engine.append *)

\* What an operation knows when it appends f, with the projection q it pruned.
Appends(q, f, at) ==
  /\ Open /\ q \in Projection /\ Remembers(q, Past) /\ SameCounts(q, Past) /\ Tidy(q)
  /\ back = 0 => Complete(q, Past, clock) /\ FewPending(q)
  /\ f \in Fact /\ at \in 0..MaxClock /\ clock <= at
  /\ Applies(q, f, FALSE) \/ (f.kind \in {"join", "member"} /\ f.late)
  /\ f.kind = "invite" => f.invite = Cardinality(DOMAIN q.invites) + 1
  /\ f.kind = "join" => /\ f.request \notin DOMAIN q.requests /\ f.invite \in DOMAIN q.invites
                        /\ ~q.invites[f.invite].consumed /\ clock < q.invites[f.invite].expires
                        /\ Cardinality(Pending(q, f.invite)) < MaxPending
                        /\ q.keyAttempts[<<f.invite, f.key>>] < MaxPerKey
                        /\ q.attempts[f.invite] < MaxPerInvite
  /\ f.kind = "member" => /\ f.request \in DOMAIN q.requests /\ q.requests[f.request] = f.join
                          /\ \/ f.request \in q.admitted
                             \/ clock < q.invites[f.join.invite].expires

LEMMA NotRefused ==
  ASSUME NEW q \in Projection
  PROVE  q # Refused
<1>1. "member" \in DOMAIN q /\ "member" \notin DOMAIN Refused
  BY ProjectionIs DEF Refused
<1> QED
  BY <1>1

LEMMA OpenPast ==
  ASSUME IInv, Open
  PROVE  /\ Past # Refused /\ Sound(Past) /\ AddsUp(Past) /\ Mirrors(Indexed(log), Past)
         /\ Past \in Projection /\ Memory(Past) /\ Memory(known)
BY ProjectionIs DEF IInv, LogOK, Types, Sound

LEMMA CanTake ==
  ASSUME IInv, NEW q, NEW f, NEW at, Appends(q, f, at)
  PROVE  /\ Takeable(q, Past, f)
         /\ Applies(q, f, FALSE) => Applies(Past, f, TRUE)
         /\ f.kind = "member" => f.request \in Past.admitted \/ f.join.key \in DOMAIN q.latest
         /\ f.kind = "member" => f.join.invite \in DOMAIN q.invites /\ f.join.invite \in DOMAIN Past.invites
<1>1. Past # Refused /\ Sound(Past) /\ Remembers(q, Past) /\ q.invites = Past.invites /\ f \in Fact
  BY OpenPast DEF Appends, SameCounts
<1> DEFINE d == Past
<1> HIDE DEF d
<1>2. CASE f.kind = "invite"
  <2>1. f.invite \notin DOMAIN d.invites
    <3>1. PICK n \in Nat : DOMAIN d.invites = 1..n
      BY <1>1 DEF Sound, d
    <3>2. Cardinality(1..n) = n
      BY <3>1, FS_Interval
    <3>3. f.invite = n + 1
      BY <1>1, <1>2, <3>1, <3>2 DEF Appends, d
    <3> QED
      BY <3>1, <3>3
  <2> QED
    BY <1>2, <2>1 DEF Takeable, Applies, d
<1>3. CASE f.kind = "join"
  <2>1. f.request \notin d.admitted /\ f.invite \in DOMAIN q.invites
    BY <1>1, <1>3 DEF Appends, Remembers, d
  <2>2. Applies(q, f, FALSE) => Applies(d, f, TRUE)
    BY <1>1, <1>3, <2>1 DEF Applies, LiveJoin, Reusable, d
  <2> QED
    BY <1>3, <2>1, <2>2 DEF Takeable, d
<1>4. CASE f.kind = "member"
  <2>1. f.request \in DOMAIN q.requests /\ q.requests[f.request] = f.join
    BY <1>4 DEF Appends
  <2>2. f.request \in DOMAIN d.requests /\ d.requests[f.request] = f.join /\ f.join.invite \in DOMAIN q.invites
    BY <1>1, <2>1 DEF Remembers, d
  <2>3. f.request \in d.admitted \/ f.join.key \in DOMAIN q.latest
    BY <1>1, <2>1 DEF Appends, Tidy, Remembers, d
  <2>4. Applies(q, f, FALSE) => Applies(d, f, TRUE)
    BY <1>1, <1>4, <2>1, <2>2 DEF Applies, Continues, Admits, Remembers, d
  <2> QED
    BY <1>1, <1>4, <2>1, <2>2, <2>3, <2>4 DEF Takeable, d
<1> QED
  BY <1>1, <1>2, <1>3, <1>4, FactIs

LEMMA Few ==
  ASSUME NEW S, NEW T \in SUBSET S, NEW N \in Nat, IsFiniteSet(S), Cardinality(S) <= N
  PROVE  IsFiniteSet(T) /\ Cardinality(T) <= N
<1>1. IsFiniteSet(T) /\ Cardinality(T) <= Cardinality(S) /\ Cardinality(S) \in Nat /\ Cardinality(T) \in Nat
  BY FS_Subset, FS_CardinalityType
<1> QED
  BY <1>1

\* What the longer log reads as.
LEMMA PastGrows ==
  ASSUME IInv, NEW q, NEW f, NEW at, Appends(q, f, at), Grows(f)
  PROVE  /\ Past' = IF Applies(Past, f, TRUE) THEN Apply(Past, f) ELSE Refused
         /\ Indexed(log)' = Index(Indexed(log), f)
<1>1. log \in Seq(Fact) /\ f \in Fact /\ Past # Refused
  BY OpenPast DEF Appends, IInv, Types
<1>2. Read("engine", log \o <<f>>) = Step("engine", Read("engine", log), f)
  BY <1>1, ReadAppend DEF Readers
<1>3. Read("index", log \o <<f>>) = Step("index", Read("index", log), f)
  BY <1>1, ReadAppend DEF Readers
<1>4. Past' = ReplayStep(Past, f)
  BY <1>2 DEF Read, Step, Past, Grows
<1>5. Indexed(log)' = Index(Indexed(log), f)
  BY <1>3 DEF Read, Step, Grows
<1> QED
  BY <1>1, <1>4, <1>5 DEF ReplayStep

LEMMA MirrorsStill ==
  ASSUME NEW x, NEW d \in Projection, NEW f \in Fact, Mirrors(x, d),
         f.kind = "member" => f.join.invite \in DOMAIN d.invites
  PROVE  Mirrors(Index(x, f), Apply(d, f))
<1>1. Apply(d, f) \in Projection /\ Takes(Apply(d, f), d, f)
  BY ApplyIs
<1>2. Index(x, f) \in IndexTable /\ Takes(Index(x, f), x, f)
  BY IndexIs DEF Mirrors
<1> DEFINE e == Apply(d, f)
           y == Index(x, f)
<1> HIDE DEF e, y
<1>3. CASE f.kind = "invite"
  BY <1>1, <1>2, <1>3 DEF Mirrors, Takes, TakesInvite, e, y
<1>4. CASE f.kind = "join"
  BY <1>1, <1>2, <1>4 DEF Mirrors, Takes, TakesJoin, e, y
<1>5. CASE f.kind = "member"
  BY <1>1, <1>2, <1>5 DEF Mirrors, Takes, TakesMember, e, y
<1> QED
  BY <1>3, <1>4, <1>5, FactIs DEF e, y

LEMMA SpentKeeps ==
  ASSUME IInv, NEW q, NEW f, NEW at, Appends(q, f, at), Grows(f)
  PROVE  Spent'
<1>1. log \in Seq(Fact) /\ f \in Fact /\ Spent /\ AddsUp(Past)
  BY OpenPast DEF Appends, IInv, Types, LogOK
<1>2. ASSUME NEW v \in Invites
      PROVE  Attempts(v, Keys)' <= MaxPerInvite
  <2>1. /\ Attempts(v, Keys) \in Nat
        /\ Attempts(v, Keys)' = IF f.kind = "join" /\ f.invite = v /\ f.key \in Keys
                                THEN Attempts(v, Keys) + 1 ELSE Attempts(v, Keys)
    BY <1>1, AttemptsGrow
  <2>2. Attempts(v, Keys) <= MaxPerInvite /\ MaxPerInvite \in Nat
    BY <1>1, LANConstants DEF Spent
  <2>3. f.kind = "join" /\ f.invite = v => Attempts(v, Keys) < MaxPerInvite
    BY <1>1 DEF Appends, SameCounts, AddsUp
  <2> QED
    BY <2>1, <2>2, <2>3
<1>3. ASSUME NEW v \in Invites, NEW k \in Keys
      PROVE  Attempts(v, {k})' <= MaxPerKey
  <2>1. /\ Attempts(v, {k}) \in Nat
        /\ Attempts(v, {k})' = IF f.kind = "join" /\ f.invite = v /\ f.key \in {k}
                                THEN Attempts(v, {k}) + 1 ELSE Attempts(v, {k})
    BY <1>1, AttemptsGrow
  <2>2. Attempts(v, {k}) <= MaxPerKey /\ MaxPerKey \in Nat
    BY <1>1, LANConstants DEF Spent
  <2>3. f.kind = "join" /\ f.invite = v /\ f.key = k => Attempts(v, {k}) < MaxPerKey
    BY <1>1 DEF Appends, SameCounts, AddsUp
  <2> QED
    BY <2>1, <2>2, <2>3
<1> QED
  BY <1>2, <1>3 DEF Spent

LEMMA LogKeeps ==
  ASSUME IInv, NEW q, NEW f, NEW at, Appends(q, f, at), Grows(f),
         Open' => Applies(q, f, FALSE)
  PROVE  LogOK'
<1>1. /\ log \in Seq(Fact) /\ f \in Fact /\ Past # Refused /\ Past \in Projection
      /\ Sound(Past) /\ AddsUp(Past) /\ Mirrors(Indexed(log), Past)
  BY OpenPast DEF Appends, IInv, Types
<1>2. /\ Past' = IF Applies(Past, f, TRUE) THEN Apply(Past, f) ELSE Refused
      /\ Indexed(log)' = Index(Indexed(log), f)
  BY PastGrows
<1>3. f.kind = "member" => f.join.invite \in DOMAIN Past.invites
  BY CanTake
<1>4. CASE Applies(Past, f, TRUE)
  <2>1. q.invites = Past.invites
    BY DEF Appends, SameCounts
  <2>2. Sound(Apply(Past, f))
    BY <1>1, <1>4, <2>1, ApplySound DEF Appends
  <2> PICK d \in Projection : d = Past
    BY <1>1
  <2>3. PICK e : e = Apply(d, f) /\ d = Past
    OBVIOUS
  <2>4. AddsUp(e)'
    <3>1. AddsUp(d)
      BY <1>1, <2>3
    <3>2. Takes(e, d, f) /\ Counts(e, d, f)
      BY <1>1, <1>3, <2>3, ApplyIs
    <3> QED
      BY <1>1, <3>1, <3>2, AddsUpGrows
  <2>5. Mirrors(Index(Indexed(log), f), e)
    BY <1>1, <1>3, <2>3, MirrorsStill
  <2>6. Past' = e /\ Sound(e) /\ e # Refused
    BY <1>2, <1>4, <2>2, <2>3, NotRefused DEF Sound
  <2>7. AddsUp(Past)' /\ Mirrors(Indexed(log), Past)' /\ Sound(Past)'
    BY <1>2, <2>4, <2>5, <2>6 DEF AddsUp
  <2> QED
    BY <2>6, <2>7, SpentKeeps DEF LogOK
<1>5. CASE ~Applies(Past, f, TRUE)
  <2>1. ~Applies(q, f, FALSE) /\ Past' = Refused
    BY <1>2, <1>5, CanTake
  <2>2. f.kind \in {"join", "member"} /\ f.late
    BY <2>1 DEF Appends
  <2>3. Len(log') > 0 /\ Last(log') = f
    BY <1>1, LogGrows DEF Last
  <2> QED
    BY <2>1, <2>2, <2>3, SpentKeeps DEF LogOK, LateEnd
<1> QED
  BY <1>4, <1>5

LEMMA PruneMemory ==
  ASSUME NEW m \in Projection, NEW d, NEW now, Remembers(m, d), SameCounts(m, d), MemberKnown(m)
  PROVE  LET p == Prune(m, now) IN
         /\ p \in Projection /\ Remembers(p, d) /\ SameCounts(p, d) /\ Tidy(p) /\ MemberKnown(p)
         /\ Complete(m, d, now) => Complete(p, d, now)
<1> DEFINE p == Prune(m, now)
<1>1. p \in Projection /\ Pruned(p, m, now) /\ SameCounts(p, m) /\ Memory(m)
  BY PruneIs, ProjectionIs
<1> HIDE DEF p
<1>2. \A r \in DOMAIN p.requests : p.requests[r].invite \in DOMAIN p.invites
  <2>1. DOMAIN p.requests = Keep(m, now) /\ \A r \in Keep(m, now) : p.requests[r] = m.requests[r]
    BY <1>1, PrunedIs
  <2> QED
    BY <1>1, <2>1 DEF Remembers, SameCounts, Keep
<1>3. p.invites = m.invites
  BY <1>1 DEF SameCounts
<1>4. Remembers(p, d)
  BY <1>1, <1>2, <1>3, PrunedRemembers
<1>5. Complete(m, d, now) => Complete(p, d, now)
  BY <1>1, PrunedComplete
<1>6. Tidy(p) /\ MemberKnown(p)
  BY <1>1, PrunedTidy
<1>7. SameCounts(p, d)
  BY <1>1 DEF SameCounts
<1> QED
  BY <1>1, <1>4, <1>5, <1>6, <1>7 DEF p

LEMMA PrunePending ==
  ASSUME NEW m \in Projection, NEW now, IsFiniteSet(DOMAIN m.requests), FewPending(m)
  PROVE  FewPending(Prune(m, now))
<1> DEFINE p == Prune(m, now)
<1>1. Pruned(p, m, now) /\ Memory(m)
  BY PruneIs, ProjectionIs
<1> HIDE DEF p
<1>2. /\ DOMAIN p.requests = Keep(m, now) /\ \A r \in Keep(m, now) : p.requests[r] = m.requests[r]
      /\ p.admitted = m.admitted /\ Keep(m, now) \subseteq DOMAIN m.requests
  <2>1. DOMAIN p.requests = Keep(m, now) /\ \A r \in Keep(m, now) : p.requests[r] = m.requests[r]
    BY <1>1, PrunedIs
  <2>2. p.admitted = m.admitted
    BY <1>1 DEF Pruned
  <2>3. Keep(m, now) \subseteq DOMAIN m.requests
    BY DEF Keep
  <2> QED
    BY <2>1, <2>2, <2>3
<1>3. ASSUME NEW v \in Invites
      PROVE  Cardinality(Pending(p, v)) <= MaxPending
  <2>1. Pending(p, v) \in SUBSET Pending(m, v) /\ Pending(m, v) \in SUBSET DOMAIN m.requests
    BY <1>2 DEF Pending
  <2>2. IsFiniteSet(Pending(m, v)) /\ Cardinality(Pending(m, v)) <= MaxPending /\ MaxPending \in Nat
    BY <2>1, FS_Subset, LANConstants DEF FewPending
  <2> QED
    BY <2>1, <2>2, Few
<1> QED
  BY <1>3 DEF FewPending, p

\* What remembers the past is finite, as the past is.
LEMMA MemoryFinite ==
  ASSUME NEW m, NEW d, Remembers(m, d), IsFiniteSet(DOMAIN d.requests)
  PROVE  IsFiniteSet(DOMAIN m.requests)
<1>1. DOMAIN m.requests \in SUBSET DOMAIN d.requests
  BY DEF Remembers
<1> QED
  BY <1>1, FS_Subset

\* The projection and the past, each with the fact that is appended.
LEMMA BothTake ==
  ASSUME IInv, NEW q, NEW f, NEW at, Appends(q, f, at)
  PROVE  LET p == Apply(q, f)
             e == Apply(Past, f) IN
         /\ p \in Projection /\ e \in Projection /\ Takes(p, q, f) /\ Takes(e, Past, f)
         /\ Remembers(p, e) /\ SameCounts(p, e) /\ MemberKnown(p)
         /\ back = 0 => Complete(p, e, at)
<1> DEFINE p == Apply(q, f)
           d == Past
           e == Apply(d, f)
<1>1. /\ q \in Projection /\ f \in Fact /\ Sound(d) /\ Remembers(q, d) /\ SameCounts(q, d) /\ d \in Projection
      /\ Memory(q) /\ Memory(d)
  BY OpenPast, ProjectionIs DEF Appends
<1>2. /\ Takeable(q, d, f)
      /\ f.kind = "member" => f.request \in d.admitted \/ f.join.key \in DOMAIN q.latest
      /\ f.kind = "member" => f.join.invite \in DOMAIN q.invites /\ f.join.invite \in DOMAIN d.invites
  BY CanTake
<1> HIDE DEF d
<1>3. p \in Projection /\ Takes(p, q, f) /\ Counts(p, q, f)
  BY <1>1, <1>2, ApplyIs
<1>4. e \in Projection /\ Takes(e, d, f) /\ Counts(e, d, f)
  BY <1>1, <1>2, ApplyIs
<1> HIDE DEF p, e
<1>5. Remembers(p, e)
  BY <1>1, <1>2, <1>3, <1>4, TakesRemembers
<1>6. SameCounts(p, e)
  <2>1. q.invites = d.invites /\ q.attempts = d.attempts /\ q.keyAttempts = d.keyAttempts
    BY <1>1 DEF SameCounts
  <2>2. p.invites = e.invites
    BY <1>1, <1>3, <1>4, <2>1, FactIs DEF Takes, TakesInvite, TakesJoin, TakesMember
  <2>3. p.attempts = e.attempts /\ p.keyAttempts = e.keyAttempts
    BY <1>3, <1>4, <2>1 DEF Counts
  <2> QED
    BY <2>2, <2>3 DEF SameCounts
<1>7. MemberKnown(p)
  <2>1. MemberKnown(q)
    BY <1>1 DEF Sound, Remembers, MemberKnown
  <2> QED
    BY <1>1, <1>3, <2>1, TakesKnows
<1>8. ASSUME back = 0
      PROVE  Complete(p, e, at)
  <2>1. Complete(q, d, clock) /\ MemberKnown(d) /\ \A r \in DOMAIN d.requests : d.requests[r].invite \in DOMAIN d.invites
    BY <1>1, <1>8 DEF Appends, Sound, d
  <2>2. Complete(p, e, clock)
    BY <1>1, <1>2, <1>3, <1>4, <2>1, TakesComplete
  <2>3. clock \in Nat /\ at \in Nat /\ clock <= at /\ Memory(e)
    BY <1>4, ProjectionIs, LANConstants DEF Appends, IInv, Types
  <2> QED
    BY <2>2, <2>3, CompleteLater
<1> QED
  BY <1>3, <1>4, <1>5, <1>6, <1>7, <1>8 DEF p, e, d

\* At most one more request is pending, and only where there was room.
LEMMA PendingFew ==
  ASSUME IInv, NEW q, NEW f, NEW at, Appends(q, f, at), back = 0, NEW v \in Invites
  PROVE  LET p == Apply(q, f) IN
         /\ IsFiniteSet(Pending(p, v)) /\ Cardinality(Pending(p, v)) <= MaxPending
<1> DEFINE p == Apply(q, f)
<1>1. /\ p \in Projection /\ Takes(p, q, f) /\ f \in Fact /\ Memory(q) /\ MaxPending \in Nat
  BY BothTake, ProjectionIs, LANConstants DEF Appends
<1>2. IsFiniteSet(DOMAIN q.requests)
  BY OpenPast, MemoryFinite DEF Appends, Sound
<1>3. FewPending(q)
  BY DEF Appends
<1> DEFINE S == Pending(q, v)
<1>4. IsFiniteSet(S) /\ Cardinality(S) <= MaxPending /\ Cardinality(S) \in Nat
  <2>1. S \in SUBSET DOMAIN q.requests
    BY DEF Pending
  <2> QED
    BY <1>2, <1>3, <2>1, FS_Subset, FS_CardinalityType DEF FewPending
<1> HIDE DEF p
<1>5. CASE f.kind = "join"
  <2>1. JoinsAt(p, q, f) /\ p.admitted = q.admitted
    BY <1>1, <1>5, TakesIs DEF Takes, TakesJoin
  <2>2. f.request \notin DOMAIN q.requests /\ Cardinality(Pending(q, f.invite)) < MaxPending
    BY <1>5 DEF Appends
  <2>3. CASE f.invite = v
    <3>1. Pending(p, v) \in SUBSET (S \cup {f.request})
      BY <2>1 DEF Pending, JoinsAt
    <3>2. f.request \notin S
      BY <2>2 DEF Pending
    <3> HIDE DEF S
    <3>3. IsFiniteSet(S \cup {f.request}) /\ Cardinality(S \cup {f.request}) = Cardinality(S) + 1
      BY <1>4, <3>2, FS_AddElement
    <3>4. Cardinality(S) + 1 <= MaxPending
      BY <1>1, <1>4, <2>2, <2>3 DEF S
    <3> QED
      BY <1>1, <3>1, <3>3, <3>4, Few DEF p
  <2>4. CASE f.invite # v
    <3>1. Pending(p, v) \in SUBSET S
      BY <2>1, <2>4 DEF Pending, JoinsAt, JoinOf
    <3> HIDE DEF S
    <3> QED
      BY <1>1, <1>4, <3>1, Few DEF p
  <2> QED
    BY <2>3, <2>4
<1>6. CASE f.kind # "join"
  <2>1. p.requests = q.requests /\ q.admitted \subseteq p.admitted
    BY <1>1, <1>6, FactIs DEF Takes, TakesInvite, TakesMember
  <2>2. Pending(p, v) \in SUBSET S
    BY <2>1 DEF Pending
  <2> HIDE DEF S
  <2> QED
    BY <1>1, <1>4, <2>2, Few DEF p
<1> QED
  BY <1>5, <1>6

\* The engine takes the fact.
LEMMA EngineTakes ==
  ASSUME IInv, NEW q, NEW f, NEW at, Appends(q, f, at), Past' = Apply(Past, f), clock' = at,
         known' = (IF f.kind = "invite" THEN Apply(q, f) ELSE Prune(Apply(q, f), at)),
         UNCHANGED <<phase, back>>
  PROVE  known' \in Projection /\ EngineOK'
<1> PICK p : p = Apply(q, f)
  OBVIOUS
<1> PICK e : e = Apply(Past, f)
  OBVIOUS
<1>1. /\ p \in Projection /\ Takes(p, q, f) /\ f \in Fact /\ q \in Projection
      /\ Remembers(p, e) /\ SameCounts(p, e) /\ MemberKnown(p) /\ Tidy(q)
      /\ back = 0 => Complete(p, e, at) /\ FewPending(p)
  BY BothTake, PendingFew DEF Appends, FewPending
<1>2. IsFiniteSet(DOMAIN p.requests)
  <2>1. IsFiniteSet(DOMAIN q.requests)
    BY OpenPast, MemoryFinite DEF Appends, Sound
  <2>2. CASE f.kind = "join"
    <3>1. DOMAIN p.requests = DOMAIN q.requests \cup {f.request}
      BY <1>1, <2>2, ProjectionIs, TakesIs DEF JoinsAt
    <3> QED
      BY <2>1, <3>1, Finitely
  <2>3. CASE f.kind # "join"
    BY <1>1, <2>1, <2>3, FactIs DEF Takes, TakesInvite, TakesMember
  <2> QED
    BY <2>2, <2>3
<1>3. CASE f.kind = "invite"
  <2>1. Tidy(p)
    BY <1>1, <1>3 DEF Takes, TakesInvite, Tidy
  <2>2. known' = p
    BY <1>3
  <2>3. Past' = e /\ clock' = at /\ back' = back /\ phase' = phase /\ phase = "open"
    BY DEF Appends, Open
  <2>4. Remembers(known, Past)' /\ SameCounts(known, Past)' /\ Tidy(known)'
    BY <1>1, <2>1, <2>2, <2>3
  <2>5. (back = 0)' => Complete(known, Past, clock)' /\ FewPending(known)'
    BY <1>1, <2>2, <2>3
  <2> QED
    BY <1>1, <2>2, <2>3, <2>4, <2>5 DEF EngineOK, Open
<1>4. CASE f.kind # "invite"
  <2>1. known' = Prune(p, at)
    BY <1>4
  <2>2. /\ known' \in Projection /\ Remembers(known', e) /\ SameCounts(known', e) /\ Tidy(known')
        /\ Complete(p, e, at) => Complete(known', e, at)
    BY <1>1, <2>1, PruneMemory
  <2>3. FewPending(p) => FewPending(known')
    BY <1>1, <1>2, <2>1, PrunePending
  <2>4. Past' = e /\ clock' = at /\ back' = back /\ phase' = phase /\ phase = "open"
    BY DEF Appends, Open
  <2>5. Remembers(known, Past)' /\ SameCounts(known, Past)' /\ Tidy(known)'
    BY <2>2, <2>4
  <2>6. (back = 0)' => Complete(known, Past, clock)' /\ FewPending(known)'
    BY <1>1, <2>2, <2>3, <2>4
  <2> QED
    BY <2>2, <2>4, <2>5, <2>6 DEF EngineOK, Open
<1> QED
  BY <1>3, <1>4

\* The index takes the fact.
LEMMA IndexTakes ==
  ASSUME IInv, NEW q, NEW f, NEW at, Appends(q, f, at), Applies(q, f, FALSE), back = 0, ~missed
  PROVE  LET x == PruneIndex(Index(index, f), at)
             e == Apply(Past, f) IN
         Remembers(x, e) /\ Complete(x, e, at) /\ LiveKept(x, e, at)
<1> DEFINE d == Past
           e == Apply(d, f)
           y == Index(index, f)
           x == PruneIndex(y, at)
<1>1. /\ q \in Projection /\ f \in Fact /\ Sound(d) /\ Remembers(q, d) /\ d \in Projection /\ d # Refused
      /\ Memory(d) /\ index \in IndexTable /\ Memory(index) /\ q.invites = d.invites /\ Tidy(q)
      /\ Complete(q, d, clock) /\ clock \in Nat /\ at \in Nat /\ clock <= at
  BY OpenPast, ProjectionIs, TableIs, LANConstants DEF Appends, SameCounts, IInv, Types
<1>2. Remembers(index, d) /\ Complete(index, d, clock) /\ LiveKept(index, d, clock)
  BY <1>1 DEF IInv, IndexOK
<1>3. e \in Projection /\ Takes(e, d, f) /\ Memory(e)
  BY BothTake, ProjectionIs
<1>4. Takeable(q, d, f)
  BY CanTake
<1>5. y \in IndexTable /\ Takes(y, index, f) /\ Memory(y)
  BY <1>1, IndexIs, TableIs
<1>6. x \in IndexTable /\ Pruned(x, y, at) /\ x.invites = Only(y.invites, InvitesKept(y, x, at))
  BY <1>5, PruneTableIs
<1> HIDE DEF x, y, e, d
<1>7. Takeable(index, d, f) /\ (f.kind = "member" => f.request \in d.admitted \/ f.join.key \in DOMAIN index.latest)
  <2>1. CASE f.kind = "invite"
    BY <1>4, <2>1 DEF Takeable
  <2>2. CASE f.kind = "join"
    <3>1. f.invite \in DOMAIN index.invites
      BY <1>1, <1>2, <2>2 DEF Appends, LiveKept
    <3> QED
      BY <1>4, <2>2, <3>1 DEF Takeable
  <2>3. CASE f.kind = "member"
    <3> DEFINE r == f.request
    <3>1. r \in DOMAIN q.requests /\ q.requests[r] = f.join /\ q.requests[r] = d.requests[r]
          /\ (r \in d.admitted \/ clock < q.invites[f.join.invite].expires)
      BY <1>1, <2>3 DEF Appends, Remembers
    <3>2. r \in DOMAIN index.requests /\ (r \in d.admitted \/ f.join.key \in DOMAIN index.latest)
      <4>1. CASE r \in d.admitted
        BY <1>2, <4>1 DEF Remembers
      <4>2. CASE r \notin d.admitted
        <5>1. f.join.key \in DOMAIN q.latest /\ q.latest[f.join.key] = r
          BY <1>1, <3>1, <4>2 DEF Tidy, Remembers
        <5>2. f.join.invite \in DOMAIN q.invites /\ q.invites[f.join.invite].expires \in Nat
          <6>1. f.join.invite \in DOMAIN q.invites
            BY <1>1, <3>1 DEF Remembers
          <6>2. d.invites \in Maps(Invites, Invitation)
            BY <1>1 DEF Memory
          <6>3. d.invites[f.join.invite] \in Invitation
            BY <1>1, <6>1, <6>2, MapIs
          <6> QED
            BY <1>1, <6>1, <6>3 DEF Invitation
        <5>3. clock <= q.invites[f.join.invite].expires + Lifetime
          BY <1>1, <3>1, <4>2, <5>2, LANConstants
        <5>4. r \in Keep(q, clock) /\ f.join.key \in NewestKept(q, clock)
          BY <3>1, <5>1, <5>2, <5>3 DEF Keep, InTime, NewestKept
        <5> QED
          BY <1>1, <1>2, <5>4, KeptBelow DEF Complete
      <4> QED
        BY <4>1, <4>2
    <3>3. index.requests[r] = f.join
      BY <1>2, <3>1, <3>2 DEF Remembers
    <3> QED
      BY <2>3, <3>2, <3>3 DEF Takeable
  <2> QED
    BY <1>1, <2>1, <2>2, <2>3, FactIs
<1>8. Remembers(y, e)
  BY <1>1, <1>2, <1>3, <1>5, <1>7, TakesRemembers
<1>9. Complete(y, e, at)
  <2>1. MemberKnown(d) /\ \A r \in DOMAIN d.requests : d.requests[r].invite \in DOMAIN d.invites
    BY <1>1 DEF Sound
  <2>2. Complete(y, e, clock)
    BY <1>1, <1>2, <1>3, <1>5, <1>7, <2>1, TakesComplete
  <2> QED
    BY <1>1, <1>3, <2>2, CompleteLater
<1>10. LiveKept(y, e, clock)
  <2>1. CASE f.kind = "invite"
    <3>1. InvitesAt(y, index, f) /\ InvitesAt(e, d, f) /\ f.invite \notin DOMAIN d.invites
      BY <1>1, <1>3, <1>4, <1>5, <2>1, TakesIs DEF Takeable
    <3> QED
      BY <1>2, <3>1 DEF LiveKept, InvitesAt
  <2>2. CASE f.kind = "join"
    BY <1>2, <1>3, <1>5, <2>2 DEF LiveKept, Takes, TakesJoin
  <2>3. CASE f.kind = "member"
    <3>1. MemberAt(y, index, f) /\ MemberAt(e, d, f) /\ f.join.invite \in DOMAIN d.invites
      BY <1>1, <1>3, <1>5, <2>3, TakesIs, CanTake DEF d
    <3>2. ASSUME NEW v \in DOMAIN e.invites, ~e.invites[v].consumed, clock < e.invites[v].expires
          PROVE  v \in DOMAIN y.invites
      <4>1. v # f.join.invite /\ v \in DOMAIN d.invites
        BY <3>1, <3>2 DEF MemberAt
      <4>2. e.invites[v] = d.invites[v]
        BY <3>1, <4>1 DEF MemberAt
      <4> QED
        BY <1>2, <3>1, <3>2, <4>1, <4>2 DEF LiveKept, MemberAt
    <3> QED
      BY <3>2 DEF LiveKept
  <2> QED
    BY <1>1, <2>1, <2>2, <2>3, FactIs
<1>11. /\ DOMAIN x.requests = Keep(y, at) /\ Keep(y, at) \subseteq DOMAIN y.requests
       /\ \A r \in Keep(y, at) : x.requests[r] = y.requests[r]
  <2>1. DOMAIN x.requests = Keep(y, at) /\ \A r \in Keep(y, at) : x.requests[r] = y.requests[r]
    BY <1>5, <1>6, PrunedIs
  <2>2. Keep(y, at) \subseteq DOMAIN y.requests
    BY DEF Keep
  <2> QED
    BY <2>1, <2>2
<1>12. /\ DOMAIN x.invites = InvitesKept(y, x, at) /\ InvitesKept(y, x, at) \subseteq DOMAIN y.invites
       /\ \A v \in DOMAIN x.invites : x.invites[v] = y.invites[v]
  BY <1>6 DEF Only, InvitesKept
<1>13. \A r \in DOMAIN x.requests : x.requests[r].invite \in DOMAIN x.invites
  <2>1. \A r \in DOMAIN x.requests : x.requests[r].invite \in DOMAIN y.invites
    BY <1>8, <1>11 DEF Remembers
  <2> QED
    BY <1>12, <2>1 DEF InvitesKept
<1>14. Remembers(x, e)
  BY <1>5, <1>6, <1>8, <1>12, <1>13, PrunedRemembers
<1>15. Complete(x, e, at)
  BY <1>5, <1>6, <1>8, <1>9, PrunedComplete
<1>16. LiveKept(x, e, at)
  <2>1. ASSUME NEW v \in DOMAIN e.invites, ~e.invites[v].consumed, at < e.invites[v].expires
        PROVE  v \in DOMAIN x.invites
    <3>1. e.invites[v] \in Invitation
      <4>1. e.invites \in Maps(Invites, Invitation)
        BY <1>3 DEF Memory
      <4> QED
        BY <4>1, MapIs
    <3>2. PICK n \in Nat : n = e.invites[v].expires
      BY <3>1 DEF Invitation
    <3>3. clock < e.invites[v].expires
      BY <1>1, <2>1, <3>2
    <3>4. v \in DOMAIN y.invites /\ y.invites[v] = e.invites[v]
      BY <1>8, <1>10, <2>1, <3>3 DEF LiveKept, Remembers
    <3> QED
      BY <1>12, <2>1, <3>4 DEF InvitesKept
  <2> QED
    BY <2>1 DEF LiveKept
<1> QED
  BY <1>14, <1>15, <1>16 DEF x, y, e, d
\* Time passes for the index and for what is pending.
LEMMA LaterKeeps ==
  ASSUME IInv, UNCHANGED <<log, index, missed>>, clock' \in Nat, back' = 0 => back = 0 /\ clock <= clock'
  PROVE  IndexOK' /\ PendingOK'
<1>1. Past' = Past /\ clock \in Nat
  BY LANConstants DEF Past, IInv, Types
<1> PICK now \in Nat : now = clock'
  OBVIOUS
<1>2. SUFFICES ASSUME back' = 0, Past # Refused
               PROVE  IndexOK' /\ PendingOK'
  BY <1>1 DEF IndexOK, PendingOK
<1>3. back = 0 /\ clock <= now /\ Memory(Past) /\ IsFiniteSet(DOMAIN Past.requests)
  BY <1>2, ProjectionIs DEF IInv, LogOK, Sound
<1>4. ASSUME ~missed
      PROVE  Complete(index, Past, now) /\ LiveKept(index, Past, now) /\ Remembers(index, Past)
  <2>1. Complete(index, Past, clock) /\ LiveKept(index, Past, clock) /\ Remembers(index, Past)
    BY <1>2, <1>3, <1>4 DEF IInv, IndexOK
  <2>2. Complete(index, Past, now)
    BY <1>1, <1>3, <2>1, CompleteLater
  <2>3. ASSUME NEW v \in DOMAIN Past.invites, ~Past.invites[v].consumed, now < Past.invites[v].expires
        PROVE  v \in DOMAIN index.invites
    <3>1. Past.invites[v] \in Invitation
      <4>1. Past.invites \in Maps(Invites, Invitation)
        BY <1>3 DEF Memory
      <4> QED
        BY <4>1, MapIs
    <3>2. PICK n \in Nat : n = Past.invites[v].expires
      BY <3>1 DEF Invitation
    <3>3. clock < n
      BY <1>1, <1>3, <2>3, <3>2
    <3> QED
      BY <2>1, <2>3, <3>2, <3>3 DEF LiveKept
  <2> QED
    BY <2>1, <2>2, <2>3 DEF LiveKept
<1>5. IndexOK'
  BY <1>1, <1>4 DEF IndexOK
<1>6. ASSUME NEW v \in Invites
      PROVE  Cardinality(PendingOf(Past, now, v)) <= MaxPending
  <2>1. Keep(Past, now) \subseteq Keep(Past, clock)
    <3>1. Complete(Past, Past, clock)
      BY KeepIn DEF Complete
    <3> QED
      BY <1>1, <1>3, <3>1, CompleteLater
  <2>2. /\ PendingOf(Past, now, v) \in SUBSET PendingOf(Past, clock, v)
        /\ PendingOf(Past, clock, v) \in SUBSET DOMAIN Past.requests
    BY <2>1 DEF PendingOf, Keep
  <2>3. Cardinality(PendingOf(Past, clock, v)) <= MaxPending
    BY <1>2, <1>3 DEF IInv, PendingOK
  <2>4. IsFiniteSet(PendingOf(Past, clock, v)) /\ MaxPending \in Nat
    BY <1>3, <2>2, FS_Subset, LANConstants
  <2> QED
    BY <2>2, <2>3, <2>4, Few
<1>7. PendingOK'
  BY <1>1, <1>6 DEF PendingOK
<1> QED
  BY <1>5, <1>7

LEMMA PendingTakes ==
  ASSUME IInv, NEW q, NEW f, NEW at, Appends(q, f, at), Past' = Apply(Past, f), clock' = at, UNCHANGED back
  PROVE  PendingOK'
<1> PICK p : p = Apply(q, f)
  OBVIOUS
<1> PICK e : e = Apply(Past, f)
  OBVIOUS
<1>1. Remembers(p, e) /\ (back = 0 => Complete(p, e, at))
  BY BothTake
<1>2. ASSUME back = 0, NEW v \in Invites
      PROVE  Cardinality(PendingOf(e, at, v)) <= MaxPending
  <2>1. PendingOf(e, at, v) \in SUBSET Pending(p, v)
    BY <1>1, <1>2 DEF PendingOf, Pending, Complete, Remembers
  <2>2. IsFiniteSet(Pending(p, v)) /\ Cardinality(Pending(p, v)) <= MaxPending /\ MaxPending \in Nat
    BY <1>2, PendingFew, LANConstants
  <2> QED
    BY <2>1, <2>2, Few
<1> QED
  BY <1>2 DEF PendingOK

LEMMA UnknownIs == Unknown \in Projection /\ Unindexed \in IndexTable
<1>1. <<>> \in Maps(Invites, Invitation) /\ <<>> \in Maps(Requests, Join) /\ <<>> \in Maps(Keys, Requests)
  <2>1. \A X, Y : <<>> \in Maps(X, Y)
    <3>1. ASSUME NEW X, NEW Y
          PROVE  <<>> \in Maps(X, Y)
      <4>1. <<>> \in [{} -> Y] /\ {} \in SUBSET X
        OBVIOUS
      <4> QED
        BY <4>1 DEF Maps
    <3> QED
      BY <3>1
  <2> QED
    BY <2>1
<1>2. NoMember \in Membership
  BY DEF NoMember, Membership
<1>3. [v \in Invites |-> 0] \in [Invites -> Nat] /\ [w \in Invites \X Keys |-> 0] \in [Invites \X Keys -> Nat]
  OBVIOUS
<1> QED
  BY <1>1, <1>2, <1>3 DEF Unknown, Unindexed, Projection, IndexTable

\* What Engine.append leaves, whatever became of the fact.
LEMMA RecordKeeps ==
  ASSUME IInv, NEW q, NEW f, NEW at, Appends(q, f, at), Record(q, f, at), UNCHANGED transfers,
         leaving' \in [Callers -> [waits : BOOLEAN, gen : Nat, rebound : BOOLEAN]],
         f.kind = "member" => \A t \in Transfers : transfers[t].pc \notin {"authorized", "writing"}
  PROVE  IInv'
<1>1. /\ f \in Fact /\ at \in 0..MaxClock /\ at \in Nat /\ clock <= at /\ clock' = at /\ back' = back
      /\ log \in Seq(Fact) /\ Len(log) < MaxFacts /\ MaxFacts \in Nat /\ phase = "open" /\ Types
      /\ index \in IndexTable
  BY LANConstants DEF Appends, Record, IInv, Types, Open
<1>2. Grows(f) => log' \in Seq(Fact) /\ Len(log') <= MaxFacts
  BY <1>1, LogGrows
<1>3. TransfersOK'
  <2>1. Grows(f) \/ UNCHANGED log
    BY DEF Record, Grows
  <2>2. CASE f.kind = "member"
    BY <2>2 DEF TransfersOK
  <2>3. CASE f.kind # "member"
    <3>1. Newest' = Newest
      <4>1. CASE Grows(f)
        BY <1>1, <2>3, <4>1, MembershipsGrow
      <4>2. CASE UNCHANGED log
        BY <4>2 DEF Newest, Memberships
      <4> QED
        BY <2>1, <4>1, <4>2
    <3> QED
      BY <3>1 DEF TransfersOK, IInv
  <2> QED
    BY <2>2, <2>3
<1>4. CASE Grows(f) /\ Applies(q, f, FALSE) /\ phase' = "open"
  <2>1. /\ known' = (IF f.kind = "invite" THEN Apply(q, f) ELSE Prune(Apply(q, f), at))
        /\ index' = PruneIndex(Index(index, f), at) /\ phase' = phase /\ missed' = missed
    BY <1>4 DEF Record, Fails
  <2>2. Past' = Apply(Past, f)
    BY <1>4, CanTake, PastGrows
  <2>3. LogOK'
    BY <1>4, LogKeeps
  <2>4. known' \in Projection /\ EngineOK'
    BY <1>1, <2>1, <2>2, EngineTakes
  <2>5. index' \in IndexTable
    BY <1>1, <2>1, IndexIs, PruneTableIs
  <2>6. IndexOK'
    <3> PICK x : x = PruneIndex(Index(index, f), at)
      OBVIOUS
    <3> PICK e : e = Apply(Past, f)
      OBVIOUS
    <3>1. back = 0 /\ ~missed => Remembers(x, e) /\ Complete(x, e, at) /\ LiveKept(x, e, at)
      BY <1>4, IndexTakes
    <3> QED
      BY <1>1, <2>1, <2>2, <3>1 DEF IndexOK
  <2>7. PendingOK'
    BY <1>1, <2>2, PendingTakes
  <2>8. Types'
    BY <1>1, <1>2, <1>4, <2>1, <2>4, <2>5 DEF Types
  <2> QED
    BY <1>3, <2>3, <2>4, <2>6, <2>7, <2>8 DEF IInv
<1>5. CASE Fails
  <2>1. phase' = "fatal" /\ known' = Unknown /\ index' = index /\ ~Open'
    BY <1>5 DEF Fails, Open
  <2>2. EngineOK'
    BY <2>1 DEF EngineOK, Unknown
  <2>3. (Grows(f) /\ missed' = TRUE) \/ UNCHANGED <<log, missed>>
    BY <1>5, <1>1, <2>1 DEF Record, Grows, Fails
  <2>4. CASE Grows(f) /\ missed' = TRUE
    <3>1. LogOK'
      BY <2>1, <2>4, LogKeeps
    <3>2. IndexOK'
      BY <2>4 DEF IndexOK
    <3>3. PendingOK'
      <4>1. CASE Past' = Refused
        BY <4>1 DEF PendingOK
      <4>2. CASE Past' # Refused
        <5>1. Past' = Apply(Past, f)
          BY <2>4, <4>2, PastGrows
        <5> QED
          BY <1>1, <5>1, PendingTakes
      <4> QED
        BY <4>1, <4>2
    <3>4. Types'
      BY <1>1, <1>2, <2>1, <2>4, UnknownIs DEF Types
    <3> QED
      BY <1>3, <2>2, <3>1, <3>2, <3>3, <3>4 DEF IInv
  <2>5. CASE UNCHANGED <<log, missed>>
    <3>1. IndexOK' /\ PendingOK'
      BY <1>1, <2>1, <2>5, LaterKeeps
    <3>2. LogOK'
      <4>1. Past' = Past /\ Past # Refused /\ Indexed(log)' = Indexed(log) /\ Sound(Past) /\ AddsUp(Past)
            /\ Mirrors(Indexed(log), Past) /\ Spent
        BY <2>5, OpenPast DEF Past, Appends, IInv, LogOK
      <4>2. Spent' /\ AddsUp(Past)'
        BY <2>5, <4>1 DEF Spent, AddsUp, Attempts, Admitted, Newest, Memberships
      <4> QED
        BY <4>1, <4>2 DEF LogOK
    <3>3. Types'
      BY <1>1, <2>1, <2>5, UnknownIs DEF Types
    <3> QED
      BY <1>3, <2>2, <3>1, <3>2, <3>3 DEF IInv
  <2> QED
    BY <2>3, <2>4, <2>5
<1> QED
  BY <1>1, <1>4, <1>5 DEF Record, Grows

-----------------------------------------------------------------------------
(* The operations *)

\* The member, where the Room is open.
LEMMA MemberIs ==
  ASSUME IInv, Open
  PROVE  /\ Member = Newest /\ Member \in Membership /\ Member = Past.member
         /\ Member.active =>
              /\ Member.request \in Requests /\ Member.request \in known.admitted
              /\ Member.request \in DOMAIN known.requests /\ known.requests[Member.request] = Member.join
              /\ Member.join \in Join
<1>1. /\ Sound(Past) /\ AddsUp(Past) /\ Remembers(known, Past) /\ Memory(known) /\ Memory(Past)
  BY OpenPast DEF IInv, EngineOK
<1>2. Member = Newest /\ Member \in Membership /\ Member = Past.member
  BY <1>1 DEF Member, Remembers, AddsUp, Memory
<1>3. ASSUME Member.active
      PROVE  /\ Member.request \in Requests /\ Member.request \in known.admitted
             /\ Member.request \in DOMAIN known.requests /\ known.requests[Member.request] = Member.join
             /\ Member.join \in Join
  <2>1. Member.request # Nobody /\ Member.request \in Past.admitted
    BY <1>1, <1>2, <1>3 DEF Sound, MemberKnown
  <2>2. Member.request \in known.admitted /\ Member.request \in DOMAIN known.requests
    BY <1>1, <2>1 DEF Remembers
  <2>3. known.requests[Member.request] = Member.join
    BY <1>1, <1>2, <2>1, <2>2 DEF Remembers, Sound
  <2>4. known.requests \in Maps(Requests, Join)
    BY <1>1 DEF Memory
  <2> QED
    BY <2>1, <2>2, <2>3, <2>4, MapIs
<1> QED
  BY <1>2, <1>3

\* An expiry is a number.
LEMMA Expiries ==
  ASSUME NEW q \in Projection, NEW v \in DOMAIN q.invites
  PROVE  q.invites[v].expires \in Nat /\ v \in Invites
<1>1. q.invites \in Maps(Invites, Invitation)
  BY DEF Projection
<1>2. q.invites[v] \in Invitation /\ v \in Invites
  BY <1>1, MapIs
<1> QED
  BY <1>2 DEF Invitation

LEMMA InviteKeeps ==
  ASSUME IInv, CreateLANInvite
  PROVE  IInv'
<1> DEFINE v == Cardinality(DOMAIN known.invites) + 1
           f == InviteFact(v, clock + Lifetime)
<1>1. Open /\ v \in Invites /\ Record(known, f, clock) /\ UNCHANGED <<leaving, transfers>>
  BY DEF CreateLANInvite
<1>2. /\ Remembers(known, Past) /\ SameCounts(known, Past) /\ Tidy(known) /\ known \in Projection
      /\ back = 0 => Complete(known, Past, clock) /\ FewPending(known)
      /\ clock \in Nat /\ clock \in 0..MaxClock /\ Lifetime \in Nat
      /\ leaving \in [Callers -> [waits : BOOLEAN, gen : Nat, rebound : BOOLEAN]]
  BY <1>1, LANConstants DEF IInv, EngineOK, Types
<1>3. v \notin DOMAIN known.invites
  <2>1. PICK n \in Nat : DOMAIN known.invites = 1..n
    BY <1>1, <1>2, OpenPast DEF SameCounts, Sound
  <2>2. Cardinality(1..n) = n
    BY <2>1, FS_Interval
  <2> QED
    BY <2>1, <2>2
<1> HIDE DEF v
<1>4. f \in Fact /\ f.kind = "invite" /\ f.invite = v
  BY <1>1, <1>2 DEF InviteFact, Fact
<1>5. Applies(known, f, FALSE)
  BY <1>3, <1>4 DEF Applies
<1> HIDE DEF f
<1>6. clock <= clock /\ f.invite = Cardinality(DOMAIN known.invites) + 1
  BY <1>2, <1>4 DEF v
<1>7. Appends(known, f, clock)
  BY <1>1, <1>2, <1>4, <1>5, <1>6 DEF Appends
<1> QED
  BY <1>1, <1>2, <1>4, <1>7, RecordKeeps

LEMMA JoinKeeps ==
  ASSUME IInv, NEW r \in Requests, NEW v \in Invites, NEW k \in Keys, RequestLANJoin(r, v, k)
  PROVE  IInv'
<1> DEFINE q == Prune(known, clock)
<1>1. PICK at \in {clock, clock + 1} : Record(q, JoinFact(r, v, k, Over(q, v, at)), at)
  BY DEF RequestLANJoin
<1> DEFINE f == JoinFact(r, v, k, Over(q, v, at))
<1>2. /\ Open /\ r \notin DOMAIN q.requests /\ v \in DOMAIN q.invites /\ ~q.invites[v].consumed /\ ~Over(q, v, clock)
      /\ Cardinality(Pending(q, v)) < MaxPending
      /\ q.keyAttempts[<<v, k>>] < MaxPerKey /\ q.attempts[v] < MaxPerInvite
      /\ UNCHANGED <<leaving, transfers>>
  BY DEF RequestLANJoin, LiveJoin, JoinFact, KeyAttempts
<1>3. /\ Remembers(known, Past) /\ SameCounts(known, Past) /\ known \in Projection
      /\ back = 0 => Complete(known, Past, clock) /\ FewPending(known)
      /\ clock \in Nat /\ clock \in 0..MaxClock /\ MaxClock \in Nat
      /\ leaving \in [Callers -> [waits : BOOLEAN, gen : Nat, rebound : BOOLEAN]]
  BY <1>2, LANConstants DEF IInv, EngineOK, Types
<1>4. MemberKnown(known) /\ IsFiniteSet(DOMAIN known.requests)
  <2>1. Sound(Past)
    BY <1>2, OpenPast
  <2> QED
    BY <1>3, <2>1, MemoryFinite DEF Remembers, MemberKnown, Sound
<1>5. /\ q \in Projection /\ Remembers(q, Past) /\ SameCounts(q, Past) /\ Tidy(q)
      /\ back = 0 => Complete(q, Past, clock) /\ FewPending(q)
  BY <1>3, <1>4, PruneMemory, PrunePending
<1> HIDE DEF q
<1>6. clock < q.invites[v].expires
  BY <1>2, <1>3, <1>5, Expiries DEF Over
<1>7. at \in 0..MaxClock /\ clock <= at
  BY <1>1, <1>3 DEF Record
<1>8. /\ f \in Fact /\ f.kind = "join" /\ f.request = r /\ f.invite = v /\ f.key = k /\ f.late = Over(q, v, at)
  <2>1. Over(q, v, at) \in BOOLEAN
    BY DEF Over
  <2> QED
    BY <2>1 DEF JoinFact, Fact
<1> HIDE DEF f
<1>9. Applies(q, f, FALSE) \/ f.late
  BY <1>2, <1>8 DEF Applies, LiveJoin
<1>10. Appends(q, f, at)
  BY <1>2, <1>5, <1>6, <1>7, <1>8, <1>9 DEF Appends
<1> QED
  BY <1>1, <1>2, <1>3, <1>8, <1>10, RecordKeeps DEF f

LEMMA AcceptKeeps ==
  ASSUME IInv, NEW r \in Requests, NEW k \in Keys, AcceptLANJoin(r, k)
  PROVE  IInv'
<1> DEFINE j == known.requests[r]
<1>1. PICK at \in {clock, clock + 1} :
        Record(known, MemberFact(r, j, Member.gen + 1, TRUE, Over(known, j.invite, at)), at)
  BY DEF AcceptLANJoin
<1> DEFINE f == MemberFact(r, j, Member.gen + 1, TRUE, Over(known, j.invite, at))
<1>2. /\ Open /\ ~Member.active /\ r \in DOMAIN known.requests
      /\ ~known.invites[j.invite].consumed /\ ~Over(known, j.invite, clock)
      /\ UNCHANGED <<leaving, transfers>>
  BY DEF AcceptLANJoin
<1>3. /\ Remembers(known, Past) /\ SameCounts(known, Past) /\ Tidy(known) /\ known \in Projection
      /\ back = 0 => Complete(known, Past, clock) /\ FewPending(known)
      /\ clock \in Nat /\ clock \in 0..MaxClock /\ MaxClock \in Nat
      /\ leaving \in [Callers -> [waits : BOOLEAN, gen : Nat, rebound : BOOLEAN]]
  BY <1>2, LANConstants DEF IInv, EngineOK, Types
<1>4. Member = Newest /\ Member.gen + 1 \in Nat
  BY <1>2, MemberIs DEF Membership
<1>5. \A t \in Transfers : transfers[t].pc \notin {"authorized", "writing"}
  BY <1>2, <1>4 DEF IInv, TransfersOK
<1>6. j \in Join /\ j.invite \in DOMAIN known.invites
  <2>1. known.requests \in Maps(Requests, Join)
    BY <1>3 DEF Projection
  <2> QED
    BY <1>2, <1>3, <2>1, MapIs DEF Remembers
<1>7. clock < known.invites[j.invite].expires
  BY <1>2, <1>3, <1>6, Expiries DEF Over
<1>8. at \in 0..MaxClock /\ clock <= at
  BY <1>1, <1>3 DEF Record
<1>9. /\ f \in Fact /\ f.kind = "member" /\ f.request = r /\ f.join = j /\ f.gen = Member.gen + 1
      /\ f.active = TRUE /\ f.late = Over(known, j.invite, at)
  <2>1. Over(known, j.invite, at) \in BOOLEAN
    BY DEF Over
  <2> HIDE DEF j
  <2> QED
    BY <1>4, <1>6, <2>1 DEF MemberFact, Fact
<1> HIDE DEF f
<1>10. Applies(known, f, FALSE) \/ f.late
  BY <1>2, <1>9 DEF Applies, Admits, Member
<1>11. Appends(known, f, at)
  BY <1>2, <1>3, <1>7, <1>8, <1>9, <1>10 DEF Appends
<1> QED
  BY <1>1, <1>2, <1>3, <1>5, <1>11, RecordKeeps DEF f

LEMMA RetireKeeps ==
  ASSUME IInv, Open, Member.active, NEW gen, gen = Member.gen, Retire(gen), UNCHANGED transfers,
         leaving' \in [Callers -> [waits : BOOLEAN, gen : Nat, rebound : BOOLEAN]],
         \A t \in Transfers : transfers[t].pc \notin {"authorized", "writing"}
  PROVE  IInv'
<1> DEFINE f == MemberFact(Member.request, Member.join, gen, FALSE, FALSE)
<1>1. Record(known, f, clock)
  BY DEF Retire
<1>2. /\ Remembers(known, Past) /\ SameCounts(known, Past) /\ Tidy(known) /\ known \in Projection
      /\ back = 0 => Complete(known, Past, clock) /\ FewPending(known)
      /\ clock \in Nat /\ clock \in 0..MaxClock
  BY LANConstants DEF IInv, EngineOK, Types
<1>3. /\ Member.request \in Requests /\ Member.request \in known.admitted
      /\ Member.request \in DOMAIN known.requests /\ known.requests[Member.request] = Member.join
      /\ Member.join \in Join /\ gen \in Nat
  BY MemberIs DEF Membership
<1>4. /\ f \in Fact /\ f.kind = "member" /\ f.request = Member.request /\ f.join = Member.join /\ f.gen = Member.gen
      /\ f.late = FALSE
  BY <1>3 DEF MemberFact, Fact
<1> HIDE DEF f
<1>5. Applies(known, f, FALSE)
  BY <1>3, <1>4 DEF Applies, Continues, Member
<1>6. clock <= clock
  BY <1>2
<1>7. Appends(known, f, clock)
  BY <1>2, <1>3, <1>4, <1>5, <1>6 DEF Appends
<1> QED
  BY <1>1, <1>7, RecordKeeps

\* Steps that change nobody's memory: only who leaves and which transfers run.
LEMMA ElsewhereKeeps ==
  ASSUME IInv, UNCHANGED <<log, known, phase, index, missed, clock, back>>,
         leaving' \in [Callers -> [waits : BOOLEAN, gen : Nat, rebound : BOOLEAN]],
         transfers' \in [Transfers -> [pc : {"none", "begun", "authorized", "writing"}, gen : Nat, stopped : BOOLEAN]],
         \A t \in Transfers : transfers'[t].pc \in {"authorized", "writing"} =>
           Newest.active /\ Newest.gen = transfers'[t].gen
  PROVE  IInv'
<1>1. Past' = Past /\ Indexed(log)' = Indexed(log) /\ Newest' = Newest /\ Admitted' = Admitted
  BY DEF Past, Newest, Admitted, Memberships
<1>2. Spent' /\ (AddsUp(Past) => AddsUp(Past)')
  BY <1>1 DEF Spent, AddsUp, Attempts, IInv, LogOK
<1>3. LogOK'
  BY <1>1, <1>2 DEF LogOK, IInv, LateEnd, Open
<1>4. EngineOK' /\ IndexOK' /\ PendingOK'
  BY <1>1 DEF EngineOK, IndexOK, PendingOK, IInv, Open
<1>5. Types' /\ TransfersOK'
  BY <1>1 DEF Types, TransfersOK, IInv
<1> QED
  BY <1>3, <1>4, <1>5 DEF IInv

LEMMA RevokeKeeps ==
  ASSUME IInv, NEW c \in Callers, Revoke(c)
  PROVE  IInv'
<1>1. /\ Open /\ Member.active /\ Member = Newest /\ Member.gen \in Nat /\ Types /\ TransfersOK
  BY MemberIs DEF Revoke, Membership, IInv
<1>2. CASE Quiesced = {}
  <2>1. \A t \in Transfers : transfers[t].pc \notin {"authorized", "writing"}
    BY <1>1, <1>2 DEF Quiesced, Working, TransfersOK
  <2>2. PICK gen : gen = Member.gen
    OBVIOUS
  <2>3. Retire(gen) /\ UNCHANGED <<leaving, transfers>>
    BY <1>2, <2>2 DEF Revoke
  <2> QED
    BY <1>1, <2>1, <2>2, <2>3, RetireKeeps DEF Types
<1>3. CASE Quiesced # {}
  <2>1. /\ leaving' = [leaving EXCEPT ![c] = [waits |-> TRUE, gen |-> Member.gen, rebound |-> FALSE]]
        /\ transfers' = [t \in Transfers |-> IF t \in Quiesced
                             THEN [transfers[t] EXCEPT !.stopped = TRUE] ELSE transfers[t]]
        /\ UNCHANGED <<log, known, phase, index, missed, clock, back>>
    BY <1>3 DEF Revoke
  <2>2. leaving' \in [Callers -> [waits : BOOLEAN, gen : Nat, rebound : BOOLEAN]]
    BY <1>1, <2>1 DEF Types
  <2>3. ASSUME NEW t \in Transfers
        PROVE  /\ transfers'[t] \in [pc : {"none", "begun", "authorized", "writing"}, gen : Nat, stopped : BOOLEAN]
               /\ transfers'[t].pc = transfers[t].pc /\ transfers'[t].gen = transfers[t].gen
    BY <1>1, <2>1 DEF Types
  <2>4. transfers' \in [Transfers -> [pc : {"none", "begun", "authorized", "writing"}, gen : Nat, stopped : BOOLEAN]]
    BY <2>1, <2>3
  <2> QED
    BY <1>1, <2>1, <2>2, <2>3, <2>4, ElsewhereKeeps DEF TransfersOK
<1> QED
  BY <1>2, <1>3

LEMMA ResumeKeeps ==
  ASSUME IInv, NEW c \in Callers, ResumeRevoke(c)
  PROVE  IInv'
<1>1. /\ leaving' = [leaving EXCEPT ![c] = Stays] /\ UNCHANGED transfers /\ Types /\ TransfersOK
      /\ \A t \in Transfers : transfers[t].pc = "none"
  BY DEF ResumeRevoke, Joined, Working, IInv
<1>2. leaving' \in [Callers -> [waits : BOOLEAN, gen : Nat, rebound : BOOLEAN]]
  BY <1>1 DEF Types, Stays
<1>3. CASE Open /\ Unchanged(c)
  <2>1. PICK gen : gen = leaving[c].gen
    OBVIOUS
  <2>2. Retire(gen) /\ Member.active /\ gen = Member.gen
    BY <1>3, <2>1 DEF ResumeRevoke, Unchanged
  <2> QED
    BY <1>1, <1>2, <1>3, <2>2, RetireKeeps
<1>4. CASE ~(Open /\ Unchanged(c))
  <2>1. UNCHANGED <<log, known, phase, index, missed, clock, back>>
    BY <1>4 DEF ResumeRevoke
  <2> QED
    BY <1>1, <1>2, <2>1, ElsewhereKeeps DEF Types
<1> QED
  BY <1>3, <1>4

LEMMA RebindKeeps ==
  ASSUME IInv, OwnerRebinds
  PROVE  IInv'
<1>1. /\ leaving' = [c \in Callers |-> [leaving[c] EXCEPT !.rebound = @ \/ leaving[c].waits]]
      /\ UNCHANGED <<log, known, phase, index, missed, clock, back, transfers>> /\ Types /\ TransfersOK
  BY DEF OwnerRebinds, IInv
<1>2. leaving' \in [Callers -> [waits : BOOLEAN, gen : Nat, rebound : BOOLEAN]]
  <2>1. ASSUME NEW c \in Callers
        PROVE  [leaving[c] EXCEPT !.rebound = leaving[c].rebound \/ leaving[c].waits]
                 \in [waits : BOOLEAN, gen : Nat, rebound : BOOLEAN]
    <3>1. leaving[c] \in [waits : BOOLEAN, gen : Nat, rebound : BOOLEAN]
      BY <1>1 DEF Types
    <3> QED
      BY <3>1
  <2> QED
    BY <1>1, <2>1
<1> QED
  BY <1>1, <1>2, ElsewhereKeeps DEF Types, TransfersOK

\* One transfer moves.
LEMMA TransferKeeps ==
  ASSUME IInv, NEW t \in Transfers, BeginLANTransfer(t) \/ TransferMoves(t)
  PROVE  IInv'
<1> DEFINE T == [pc : {"none", "begun", "authorized", "writing"}, gen : Nat, stopped : BOOLEAN]
<1>1. /\ UNCHANGED <<log, known, phase, index, missed, clock, back, leaving>> /\ Types /\ TransfersOK
      /\ transfers \in [Transfers -> T]
  BY DEF BeginLANTransfer, TransferMoves, Authorize, Write, Written, CloseTransfer, TransferStep, IInv, Types
<1>2. PICK w : w = transfers[t]
  OBVIOUS
<1>3. w \in T
  BY <1>1, <1>2
<1>4. ASSUME NEW u \in T, transfers' = [transfers EXCEPT ![t] = u],
             u.pc \in {"authorized", "writing"} => Newest.active /\ Newest.gen = u.gen
      PROVE  IInv'
  <2>1. transfers' \in [Transfers -> T]
    BY <1>1, <1>4
  <2>2. \A x \in Transfers : transfers'[x] = IF x = t THEN u ELSE transfers[x]
    BY <1>1, <1>4
  <2> HIDE DEF T
  <2>3. \A x \in Transfers : transfers'[x].pc \in {"authorized", "writing"} =>
           Newest.active /\ Newest.gen = transfers'[x].gen
    BY <1>1, <1>4, <2>2 DEF TransfersOK
  <2> QED
    BY <1>1, <2>1, <2>3, ElsewhereKeeps DEF Types, T
<1>5. ASSUME NEW pc \in {"none", "begun", "authorized", "writing"}, Set(t, pc),
             pc \in {"authorized", "writing"} => Newest.active /\ Newest.gen = transfers[t].gen
      PROVE  IInv'
  <2>1. PICK u : u = [transfers[t] EXCEPT !.pc = pc]
    OBVIOUS
  <2>2. u \in T /\ u.pc = pc /\ u.gen = transfers[t].gen
    BY <1>1, <2>1
  <2>3. transfers' = [transfers EXCEPT ![t] = u]
    BY <1>1, <1>5, <2>1 DEF Set
  <2> HIDE DEF T
  <2> QED
    BY <1>4, <1>5, <2>2, <2>3
<1>6. CASE BeginLANTransfer(t)
  <2>1. PICK u : u = [pc |-> "begun", gen |-> Member.gen, stopped |-> FALSE]
    OBVIOUS
  <2>2. u \in T /\ u.pc = "begun"
    BY <1>6, <2>1, MemberIs DEF BeginLANTransfer, Membership
  <2>3. transfers' = [transfers EXCEPT ![t] = u]
    BY <1>6, <2>1 DEF BeginLANTransfer
  <2> HIDE DEF T
  <2> QED
    BY <1>4, <2>2, <2>3
<1>7. CASE Authorize(t)
  <2>1. Open /\ Member.active /\ Member.gen = transfers[t].gen /\ Set(t, "authorized")
    BY <1>7 DEF Authorize, StillMember
  <2> HIDE DEF T
  <2> QED
    BY <1>5, <2>1, MemberIs
<1>8. CASE Write(t)
  <2>1. /\ transfers[t].pc = "authorized" /\ Newest.active /\ Newest.gen = transfers[t].gen
        /\ Set(t, IF transfers[t].stopped THEN "begun" ELSE "writing")
    BY <1>1, <1>8 DEF Write, TransfersOK
  <2>2. PICK pc \in {"begun", "writing"} : pc = IF transfers[t].stopped THEN "begun" ELSE "writing"
    OBVIOUS
  <2> HIDE DEF T
  <2> QED
    BY <1>5, <2>1, <2>2
<1>9. CASE Written(t)
  <2> HIDE DEF T
  <2> QED
    BY <1>5, <1>9 DEF Written
<1>10. CASE CloseTransfer(t)
  <2>1. PICK u : u = NoTransfer
    OBVIOUS
  <2>2. u \in T /\ u.pc = "none" /\ transfers' = [transfers EXCEPT ![t] = u]
    BY <1>10, <2>1 DEF NoTransfer, CloseTransfer
  <2> HIDE DEF T
  <2> QED
    BY <1>4, <2>2
<1> QED
  BY <1>6, <1>7, <1>8, <1>9, <1>10 DEF TransferMoves

\* A log that does not change.
LEMMA LogStill ==
  ASSUME IInv, UNCHANGED log, Past = Refused => ~Open'
  PROVE  /\ LogOK' /\ Past' = Past /\ Newest' = Newest
         /\ UNCHANGED transfers => TransfersOK'
<1>1. Past' = Past /\ Indexed(log)' = Indexed(log) /\ Newest' = Newest /\ Admitted' = Admitted
  BY DEF Past, Newest, Admitted, Memberships
<1>2. Spent' /\ (AddsUp(Past) => AddsUp(Past)')
  BY <1>1 DEF Spent, AddsUp, Attempts, IInv, LogOK
<1>3. LogOK'
  BY <1>1, <1>2 DEF LogOK, IInv, LateEnd
<1>4. UNCHANGED transfers => TransfersOK'
  BY <1>1 DEF TransfersOK, IInv
<1> QED
  BY <1>1, <1>3, <1>4

LEMMA StatusKeeps ==
  ASSUME IInv, LANJoinStatus
  PROVE  IInv'
<1> PICK q : q = Prune(known, clock)
  OBVIOUS
<1>1. /\ known' = q /\ UNCHANGED <<log, phase, index, missed, clock, back, leaving, transfers>>
      /\ Open /\ Open'
  BY DEF LANJoinStatus, Open
<1>2. /\ Remembers(known, Past) /\ SameCounts(known, Past) /\ known \in Projection /\ Sound(Past)
      /\ back = 0 => Complete(known, Past, clock) /\ FewPending(known)
      /\ Types /\ clock \in Nat
  BY <1>1, OpenPast, LANConstants DEF IInv, EngineOK, Types
<1>3. MemberKnown(known) /\ IsFiniteSet(DOMAIN known.requests)
  BY <1>2, MemoryFinite DEF Remembers, MemberKnown, Sound
<1>4. /\ q \in Projection /\ Remembers(q, Past) /\ SameCounts(q, Past) /\ Tidy(q)
      /\ back = 0 => Complete(q, Past, clock) /\ FewPending(q)
  BY <1>2, <1>3, PruneMemory, PrunePending
<1>5. LogOK' /\ TransfersOK' /\ Past' = Past
  BY <1>1, LogStill, OpenPast
<1>6. EngineOK'
  BY <1>1, <1>4, <1>5 DEF EngineOK
<1>7. clock <= clock
  BY <1>2
<1>8. IndexOK' /\ PendingOK'
  BY <1>1, <1>2, <1>7, LaterKeeps
<1>9. Types'
  BY <1>1, <1>2, <1>4 DEF Types
<1> QED
  BY <1>5, <1>6, <1>8, <1>9 DEF IInv

LEMMA ClockKeeps ==
  ASSUME IInv, Tick \/ ClockStepsBack
  PROVE  IInv'
<1>1. /\ UNCHANGED <<log, known, phase, index, missed, leaving, transfers>> /\ Types /\ Open' = Open
      /\ clock \in Nat /\ clock' \in 0..MaxClock /\ clock' \in Nat /\ back' \in 0..MaxBack
      /\ back' = 0 => back = 0 /\ clock <= clock'
  BY LANConstants DEF Tick, ClockStepsBack, IInv, Types, Open
<1>2. LogOK' /\ TransfersOK' /\ Past' = Past
  BY <1>1, LogStill DEF IInv, LogOK
<1>3. IndexOK' /\ PendingOK'
  BY <1>1, LaterKeeps
<1> PICK now \in Nat : now = clock'
  BY <1>1
<1>4. ASSUME Open, back' = 0
      PROVE  Complete(known, Past, now) /\ FewPending(known)
  <2>1. Complete(known, Past, clock) /\ FewPending(known) /\ Memory(Past) /\ clock <= now
    BY <1>1, <1>4, OpenPast DEF IInv, EngineOK
  <2> QED
    BY <1>1, <2>1, CompleteLater
<1>5. EngineOK'
  BY <1>1, <1>2, <1>4 DEF EngineOK, IInv
<1>6. Types'
  BY <1>1 DEF Types
<1> QED
  BY <1>2, <1>3, <1>5, <1>6 DEF IInv

LEMMA SuspendKeeps ==
  ASSUME IInv, Suspend
  PROVE  IInv'
<1>1. /\ phase' = "closed" /\ known' = Unknown /\ ~Open' /\ Types /\ clock \in Nat
      /\ UNCHANGED <<log, index, missed, clock, back, leaving, transfers>>
  BY LANConstants DEF Suspend, Open, IInv, Types
<1>2. LogOK' /\ TransfersOK'
  BY <1>1, LogStill
<1>3. EngineOK'
  BY <1>1 DEF EngineOK, Unknown
<1>4. clock <= clock
  BY <1>1
<1>5. IndexOK' /\ PendingOK'
  BY <1>1, <1>4, LaterKeeps
<1>6. Types'
  BY <1>1, UnknownIs DEF Types
<1> QED
  BY <1>2, <1>3, <1>5, <1>6 DEF IInv

\* The index that a start of the Service reads from the log.
LEMMA Rebuilt ==
  ASSUME NEW d, Sound(d), NEW y, Mirrors(y, d), NEW now
  PROVE  LET x == PruneIndex(y, now) IN
         x \in IndexTable /\ Remembers(x, d) /\ Complete(x, d, now) /\ LiveKept(x, d, now)
<1> DEFINE x == PruneIndex(y, now)
<1>1. y \in IndexTable /\ Memory(y) /\ Memory(d)
  BY TableIs, ProjectionIs DEF Mirrors, Sound
<1>2. Remembers(y, d) /\ Complete(y, d, now) /\ y.invites = d.invites
  <2>1. y.invites = d.invites /\ y.requests = d.requests /\ y.latest = d.latest /\ y.admitted = d.admitted
        /\ y.member = d.member
    BY DEF Mirrors
  <2>2. Complete(y, d, now)
    BY <2>1, KeepIn DEF Complete
  <2> QED
    BY <2>1, <2>2 DEF Remembers, Sound
<1>3. x \in IndexTable /\ Pruned(x, y, now) /\ x.invites = Only(y.invites, InvitesKept(y, x, now))
  BY <1>1, PruneTableIs
<1> HIDE DEF x
<1>4. /\ DOMAIN x.invites = InvitesKept(y, x, now) /\ InvitesKept(y, x, now) \subseteq DOMAIN y.invites
      /\ \A v \in DOMAIN x.invites : x.invites[v] = y.invites[v]
  BY <1>3 DEF Only, InvitesKept
<1>5. \A r \in DOMAIN x.requests : x.requests[r].invite \in DOMAIN x.invites
  <2>1. DOMAIN x.requests = Keep(y, now) /\ \A r \in Keep(y, now) : x.requests[r] = y.requests[r]
    BY <1>1, <1>3, PrunedIs
  <2>2. \A r \in DOMAIN x.requests : x.requests[r].invite \in DOMAIN y.invites
    BY <1>2, <2>1 DEF Remembers, Keep
  <2> QED
    BY <1>4, <2>2 DEF InvitesKept
<1>6. Remembers(x, d)
  BY <1>1, <1>2, <1>3, <1>4, <1>5, PrunedRemembers
<1>7. Complete(x, d, now)
  BY <1>1, <1>2, <1>3, PrunedComplete
<1>8. LiveKept(x, d, now)
  BY <1>2, <1>4 DEF LiveKept, InvitesKept
<1> QED
  BY <1>3, <1>6, <1>7, <1>8 DEF x

LEMMA RestartKeeps ==
  ASSUME IInv, Restart
  PROVE  IInv'
<1> PICK x : x = IF Past = Refused THEN Unindexed ELSE PruneIndex(Indexed(log), clock)
  OBVIOUS
<1>1. /\ phase' = "closed" /\ known' = Unknown /\ ~Open' /\ Types /\ clock \in Nat
      /\ leaving' = [c \in Callers |-> Stays] /\ transfers' = [t \in Transfers |-> NoTransfer]
      /\ index' = x /\ missed' = FALSE /\ UNCHANGED <<log, clock, back>>
  BY LANConstants DEF Restart, Open, IInv, Types, Past, IndexOf
<1>2. LogOK' /\ Past' = Past
  BY <1>1, LogStill
<1>3. EngineOK'
  BY <1>1 DEF EngineOK, Unknown
<1>4. TransfersOK'
  BY <1>1 DEF TransfersOK, NoTransfer
<1>5. /\ x \in IndexTable
      /\ Past # Refused => Remembers(x, Past) /\ Complete(x, Past, clock) /\ LiveKept(x, Past, clock)
  <2>1. CASE Past = Refused
    BY <2>1, UnknownIs
  <2>2. CASE Past # Refused
    <3>1. Sound(Past) /\ Mirrors(Indexed(log), Past)
      BY <2>2 DEF IInv, LogOK
    <3> QED
      BY <2>2, <3>1, Rebuilt
  <2> QED
    BY <2>1, <2>2
<1>6. IndexOK'
  BY <1>1, <1>2, <1>5 DEF IndexOK
<1>7. PendingOK'
  BY <1>1, <1>2 DEF PendingOK, IInv
<1>8. Types'
  BY <1>1, <1>5, UnknownIs DEF Types, Stays, NoTransfer
<1> QED
  BY <1>2, <1>3, <1>4, <1>6, <1>7, <1>8 DEF IInv

LEMMA ActivateKeeps ==
  ASSUME IInv, Activate
  PROVE  IInv'
<1> PICK q : q = Prune(Past, clock)
  OBVIOUS
<1>1. /\ Past # Refused /\ phase' = "open" /\ known' = q /\ Open' /\ Types /\ clock \in Nat
      /\ UNCHANGED <<log, index, missed, clock, back, leaving, transfers>>
  BY LANConstants DEF Activate, Open, IInv, Types, Past
<1>2. LogOK' /\ TransfersOK' /\ Past' = Past
  BY <1>1, LogStill
<1>3. Sound(Past) /\ Past \in Projection /\ Memory(Past)
  BY <1>1, ProjectionIs DEF IInv, LogOK, Sound
<1>4. Remembers(Past, Past) /\ SameCounts(Past, Past) /\ MemberKnown(Past) /\ Complete(Past, Past, clock)
  <2>1. Complete(Past, Past, clock)
    BY KeepIn DEF Complete
  <2> QED
    BY <1>3, <2>1 DEF Remembers, SameCounts, Sound
<1>5. q \in Projection /\ Remembers(q, Past) /\ SameCounts(q, Past) /\ Tidy(q) /\ Complete(q, Past, clock)
  BY <1>3, <1>4, PruneMemory
<1>6. back = 0 => FewPending(q)
  <2>1. ASSUME back = 0, NEW v \in Invites
        PROVE  Cardinality(Pending(q, v)) <= MaxPending
    <3>1. Pruned(q, Past, clock)
      BY <1>3, PruneIs
    <3>2. DOMAIN q.requests = Keep(Past, clock) /\ \A r \in Keep(Past, clock) : q.requests[r] = Past.requests[r]
      BY <1>3, <3>1, PrunedIs
    <3>3. Pending(q, v) = PendingOf(Past, clock, v)
      BY <3>1, <3>2 DEF Pending, PendingOf, Pruned
    <3> QED
      BY <1>1, <2>1, <3>3 DEF IInv, PendingOK
  <2> QED
    BY <2>1 DEF FewPending
<1>7. EngineOK'
  BY <1>1, <1>2, <1>5, <1>6 DEF EngineOK
<1>8. clock <= clock
  BY <1>1
<1>9. IndexOK' /\ PendingOK'
  BY <1>1, <1>8, LaterKeeps
<1>10. Types'
  BY <1>1, <1>5 DEF Types
<1> QED
  BY <1>2, <1>7, <1>9, <1>10 DEF IInv

LEMMA Initially ==
  ASSUME Init
  PROVE  IInv
<1>1. /\ log = <<>> /\ known = Unknown /\ phase = "open" /\ index = Unindexed /\ missed = FALSE
      /\ clock = 0 /\ back = 0 /\ leaving = [c \in Callers |-> Stays]
      /\ transfers = [t \in Transfers |-> NoTransfer] /\ Open
  BY DEF Init, Open
<1>2. Past = Unknown /\ Indexed(log) = Unindexed
  <2>1. Read("engine", <<>>) = Start("engine") /\ Read("index", <<>>) = Start("index")
    BY ReadEmpty DEF Readers
  <2> QED
    BY <1>1, <2>1 DEF Past, Read, Start
<1>3. Unknown \in Projection /\ Unindexed \in IndexTable
  BY UnknownIs
<1>4. /\ DOMAIN Unknown.invites = {} /\ DOMAIN Unknown.requests = {} /\ DOMAIN Unknown.latest = {}
      /\ Unknown.admitted = {} /\ Unknown.member = NoMember
      /\ \A v \in Invites : Unknown.attempts[v] = 0
      /\ \A v \in Invites, k \in Keys : Unknown.keyAttempts[<<v, k>>] = 0
  BY DEF Unknown
<1>5. /\ Unindexed.invites = Unknown.invites /\ Unindexed.requests = Unknown.requests
      /\ Unindexed.latest = Unknown.latest /\ Unindexed.admitted = Unknown.admitted
      /\ Unindexed.member = Unknown.member
  BY DEF Unindexed, Unknown
<1>6. NoMember.request = Nobody /\ NoMember.active = FALSE
  BY DEF NoMember
<1> DEFINE e == Unknown
           x == Unindexed
<1> HIDE DEF e, x
<1>7. /\ \A v, K : Attempts(v, K) = 0
      /\ Admitted = {} /\ Newest = NoMember /\ log \in Seq(Fact) /\ Len(log) = 0
  <2>1. DOMAIN log = {} /\ log \in Seq(Fact) /\ Len(log) = 0 /\ Memberships = {}
    BY <1>1 DEF Memberships
  <2>2. \A v, K : Attempts(v, K) = 0
    BY <2>1, FS_EmptySet DEF Attempts
  <2> QED
    BY <2>1, <2>2 DEF Admitted, Newest
<1>8. Sound(e)
  <2>1. 0 \in Nat /\ 1..0 = {} /\ IsFiniteSet({})
    BY FS_EmptySet
  <2> QED
    BY <1>3, <1>4, <1>6, <2>1 DEF Sound, MemberKnown, e
<1>9. AddsUp(e) /\ Mirrors(x, e)
  BY <1>3, <1>4, <1>5, <1>7 DEF AddsUp, Mirrors, e, x
<1>10. Spent
  BY <1>7, LANConstants DEF Spent
<1>11. Past = e /\ Indexed(log) = x /\ e # Refused
  BY <1>2, <1>3, NotRefused DEF e, x
<1>12. LogOK
  BY <1>8, <1>9, <1>10, <1>11 DEF LogOK
<1>13. Remembers(e, e) /\ SameCounts(e, e) /\ Tidy(e) /\ Complete(e, e, clock)
  BY <1>4, KeepIn DEF Remembers, SameCounts, Tidy, Complete, e
<1>14. Keep(e, clock) = {} /\ NewestKept(e, clock) = {}
  BY <1>4 DEF Keep, NewestKept, e
<1>15. FewPending(e) /\ \A v \in Invites : Cardinality(PendingOf(e, clock, v)) <= MaxPending
  <2>1. \A v \in Invites : Pending(e, v) = {} /\ PendingOf(e, clock, v) = {}
    BY <1>4, <1>14 DEF Pending, PendingOf, e
  <2> QED
    BY <2>1, FS_EmptySet, LANConstants DEF FewPending
<1>16. EngineOK
  BY <1>1, <1>11, <1>13, <1>15 DEF EngineOK, e
<1>17. IndexOK
  <2>1. Remembers(x, e) /\ Complete(x, e, clock) /\ LiveKept(x, e, clock)
    BY <1>4, <1>5, <1>14 DEF Remembers, Complete, LiveKept, e, x
  <2> QED
    BY <1>1, <1>11, <2>1 DEF IndexOK, x
<1>18. PendingOK
  BY <1>11, <1>15 DEF PendingOK
<1>19. TransfersOK
  BY <1>1 DEF TransfersOK, NoTransfer
<1>20. Types
  <2>1. 0 \in 0..MaxClock /\ 0 \in 0..MaxBack /\ Len(log) <= MaxFacts
    BY <1>7, LANConstants
  <2>2. leaving \in [Callers -> [waits : BOOLEAN, gen : Nat, rebound : BOOLEAN]]
    BY <1>1 DEF Stays
  <2>3. transfers \in [Transfers -> [pc : {"none", "begun", "authorized", "writing"}, gen : Nat, stopped : BOOLEAN]]
    BY <1>1 DEF NoTransfer
  <2> QED
    BY <1>1, <1>3, <1>7, <2>1, <2>2, <2>3 DEF Types
<1> QED
  BY <1>12, <1>16, <1>17, <1>18, <1>19, <1>20 DEF IInv

LEMMA NextKeeps ==
  ASSUME IInv, [Next]_vars
  PROVE  IInv'
<1>1. CASE UNCHANGED vars
  BY <1>1, ElsewhereKeeps DEF vars, IInv, Types, TransfersOK
<1>2. CASE CreateLANInvite
  BY <1>2, InviteKeeps
<1>3. ASSUME NEW r \in Requests, NEW v \in Invites, NEW k \in Keys, RequestLANJoin(r, v, k)
      PROVE  IInv'
  BY <1>3, JoinKeeps
<1>4. CASE LANJoinStatus
  BY <1>4, StatusKeeps
<1>5. ASSUME NEW r \in Requests, NEW k \in Keys, AcceptLANJoin(r, k)
      PROVE  IInv'
  BY <1>5, AcceptKeeps
<1>6. ASSUME NEW c \in Callers, Revoke(c) \/ ResumeRevoke(c)
      PROVE  IInv'
  BY <1>6, RevokeKeeps, ResumeKeeps
<1>7. CASE OwnerRebinds
  BY <1>7, RebindKeeps
<1>8. ASSUME NEW t \in Transfers, BeginLANTransfer(t) \/ TransferMoves(t)
      PROVE  IInv'
  BY <1>8, TransferKeeps
<1>9. CASE Tick \/ ClockStepsBack
  BY <1>9, ClockKeeps
<1>10. CASE Suspend \/ Restart \/ Activate
  BY <1>10, SuspendKeeps, RestartKeeps, ActivateKeeps
<1> QED
  BY <1>1, <1>2, <1>3, <1>4, <1>5, <1>6, <1>7, <1>8, <1>9, <1>10 DEF Next

\* The inductive invariant holds of every state: appends that fail and facts that
\* land all the same, prunings, restarts and steps of the clock included.
THEOREM Invariance == Spec => []IInv
<1>1. Init => IInv
  BY Initially
<1>2. IInv /\ [Next]_vars => IInv'
  BY NextKeeps
<1> QED
  BY <1>1, <1>2, PTL DEF Spec

-----------------------------------------------------------------------------
(* The theorems *)

\* Every projection, index and transfer stays within its sets: what is remembered
\* of a key or of an admission is a request that is remembered too.
THEOREM TypeCorrect == Spec => []TypeOK
<1>1. ASSUME IInv
      PROVE  TypeOK
  <2>1. Types /\ Memory(known) /\ Memory(index)
    BY <1>1, ProjectionIs, TableIs DEF IInv, Types
  <2>2. DOMAIN known.invites \subseteq Invites /\ DOMAIN known.requests \subseteq Requests
        /\ DOMAIN known.latest \subseteq Keys
    BY <2>1, MapIs DEF Memory
  <2>3. /\ known.admitted \subseteq DOMAIN known.requests
        /\ \A k \in DOMAIN known.latest : known.latest[k] \in DOMAIN known.requests
    <3>1. CASE Open
      BY <1>1, <3>1 DEF IInv, EngineOK, Remembers
    <3>2. CASE ~Open
      BY <1>1, <3>2 DEF IInv, EngineOK, Unknown
    <3> QED
      BY <3>1, <3>2
  <2>4. index.member.request \in Requests \cup {Nobody}
    BY <2>1 DEF Memory, Membership
  <2> QED
    BY <2>1, <2>2, <2>3, <2>4 DEF Types, TypeOK
<1> QED
  BY <1>1, Invariance, PTL

\* A request that the log admits is never answered pending, expired or unknown.
THEOREM AdmissionHolds == Spec => []AdmissionSticks
<1>1. ASSUME IInv, Open, NEW f \in Facts, f.kind = "member"
      PROVE  /\ f.request \in DOMAIN known.requests
             /\ Status(known, f.request, clock) =
                  IF Newest.request = f.request /\ Newest.active THEN "accepted" ELSE "revoked"
  <2>1. known.admitted = Admitted /\ known.member = Newest /\ known.admitted \subseteq DOMAIN known.requests
    BY <1>1, OpenPast DEF IInv, EngineOK, Remembers, AddsUp
  <2>2. f.request \in Admitted
    BY <1>1 DEF Facts, Admitted, Memberships
  <2> QED
    BY <2>1, <2>2 DEF Status
<1>2. IInv => AdmissionSticks
  BY <1>1 DEF AdmissionSticks
<1> QED
  BY <1>2, Invariance, PTL

\* No pruning, replay, restart or failed append lets an invitation or a key spend
\* more attempts than it has, or a key wait twice.
THEOREM BudgetsKept == Spec => []BudgetsHold
<1>1. ASSUME IInv
      PROVE  BudgetsHold
  <2>1. Spent /\ Types /\ EngineOK
    BY <1>1 DEF IInv, LogOK
  <2>2. ASSUME NEW r \in DOMAIN known.requests \ known.admitted,
               NEW s \in DOMAIN known.requests \ known.admitted,
               known.requests[r].key = known.requests[s].key
        PROVE  r = s
    <3>1. CASE Open
      BY <2>1, <2>2, <3>1 DEF EngineOK, Tidy
    <3>2. CASE ~Open
      BY <2>1, <2>2, <3>2 DEF EngineOK, Unknown
    <3> QED
      BY <3>1, <3>2
  <2>3. Open /\ back = 0 => \A v \in Invites : Cardinality(Pending(known, v)) <= MaxPending
    BY <2>1 DEF EngineOK, FewPending
  <2> QED
    BY <2>1, <2>2, <2>3 DEF BudgetsHold, Spent
<1> QED
  BY <1>1, Invariance, PTL

LEMMA SameProjection ==
  ASSUME NEW p \in Projection, NEW q \in Projection,
         p.invites = q.invites, p.requests = q.requests, p.latest = q.latest, p.admitted = q.admitted,
         p.attempts = q.attempts, p.keyAttempts = q.keyAttempts, p.member = q.member
  PROVE  p = q
BY DEF Projection

LEMMA EngineMatches ==
  ASSUME IInv
  PROVE  EngineAgrees
<1>1. CASE Past = Refused
  BY <1>1 DEF IInv, LogOK, LateEnd, EngineAgrees, Past
<1>2. CASE ~Open /\ Past # Refused
  BY <1>2 DEF EngineAgrees, Past
<1>3. CASE Open
  <2> PICK b : b = Prune(Past, clock)
    OBVIOUS
  <2> PICK a : a = Prune(known, clock)
    OBVIOUS
  <2>1. /\ Past # Refused /\ Past \in Projection /\ known \in Projection /\ Memory(Past) /\ Memory(known)
        /\ Remembers(known, Past) /\ SameCounts(known, Past)
        /\ back = 0 => Complete(known, Past, clock)
    BY <1>3, OpenPast DEF IInv, EngineOK, Types
  <2>2. a \in Projection /\ Pruned(a, known, clock) /\ SameCounts(a, known)
    BY <2>1, PruneIs
  <2>3. b \in Projection /\ Pruned(b, Past, clock) /\ SameCounts(b, Past)
    BY <2>1, PruneIs
  <2>4. /\ a.invites = b.invites /\ a.attempts = b.attempts /\ a.keyAttempts = b.keyAttempts
        /\ a.admitted = b.admitted /\ a.member = b.member
    BY <2>1, <2>2, <2>3 DEF SameCounts, Pruned, Remembers
  <2>5. b = [a EXCEPT !.requests = b.requests, !.latest = b.latest]
    <3> PICK c : c = [a EXCEPT !.requests = b.requests, !.latest = b.latest]
      OBVIOUS
    <3>1. b.requests \in Maps(Requests, Join) /\ b.latest \in Maps(Keys, Requests)
      BY <2>3 DEF Projection
    <3>2. c \in Projection
      BY <2>2, <3>1 DEF Projection
    <3>3. /\ c.invites = a.invites /\ c.requests = b.requests /\ c.latest = b.latest /\ c.admitted = a.admitted
          /\ c.attempts = a.attempts /\ c.keyAttempts = a.keyAttempts /\ c.member = a.member
      BY <2>2 DEF Projection
    <3>4. /\ b.invites = c.invites /\ b.requests = c.requests /\ b.latest = c.latest /\ b.admitted = c.admitted
          /\ b.attempts = c.attempts /\ b.keyAttempts = c.keyAttempts /\ b.member = c.member
      BY <2>4, <3>3
    <3>5. b = c
      BY <2>3, <3>2, <3>4, SameProjection
    <3> QED
      BY <3>5
  <2>6. ASSUME NEW r \in DOMAIN a.requests
        PROVE  r \in DOMAIN b.requests /\ a.requests[r] = b.requests[r]
    <3>1. DOMAIN a.requests = Keep(known, clock) /\ \A s \in Keep(known, clock) : a.requests[s] = known.requests[s]
      BY <2>1, <2>2, PrunedIs
    <3>2. DOMAIN b.requests = Keep(Past, clock) /\ \A s \in Keep(Past, clock) : b.requests[s] = Past.requests[s]
      BY <2>1, <2>3, PrunedIs
    <3>3. r \in Keep(Past, clock) /\ r \in DOMAIN known.requests
      BY <2>1, <3>1, KeptBelow, KeepIn
    <3> QED
      BY <2>1, <3>1, <3>2, <3>3 DEF Remembers
  <2>7. back = 0 => a = b
    BY <2>1, <2>2, <2>3, <2>4, PrunedAlike, SameProjection
  <2> QED
    BY <1>3, <2>1, <2>5, <2>6, <2>7 DEF EngineAgrees, Past
<1> QED
  BY <1>1, <1>2, <1>3

LEMMA IndexMatches ==
  ASSUME IInv
  PROVE  IndexAgrees
<1> PICK x : x = PruneIndex(index, clock)
  OBVIOUS
<1> PICK b : b = Prune(Past, clock)
  OBVIOUS
<1>1. SUFFICES ASSUME ~missed, back = 0, Past # Refused
               PROVE  /\ x.requests = b.requests /\ x.latest = b.latest
                      /\ x.admitted = b.admitted /\ x.member = b.member
                      /\ LiveInvites(x) = LiveInvites(b)
  BY DEF IndexAgrees, Past
<1>2. /\ index \in IndexTable /\ Memory(index) /\ Past \in Projection /\ Memory(Past)
      /\ Remembers(index, Past) /\ Complete(index, Past, clock) /\ LiveKept(index, Past, clock)
  BY <1>1, ProjectionIs, TableIs DEF IInv, Types, LogOK, Sound, IndexOK
<1>3. Pruned(x, index, clock) /\ x.invites = Only(index.invites, InvitesKept(index, x, clock))
  BY <1>2, PruneTableIs
<1>4. Pruned(b, Past, clock) /\ b.invites = Past.invites
  BY <1>2, PruneIs DEF SameCounts
<1>5. x.requests = b.requests /\ x.latest = b.latest
  BY <1>2, <1>3, <1>4, PrunedAlike
<1>6. x.admitted = b.admitted /\ x.member = b.member
  BY <1>2, <1>3, <1>4 DEF Pruned, Remembers
<1>7. /\ DOMAIN x.invites = InvitesKept(index, x, clock)
      /\ \A v \in DOMAIN x.invites : v \in DOMAIN index.invites /\ x.invites[v] = index.invites[v]
  BY <1>3 DEF Only, InvitesKept
<1>8. ASSUME NEW v \in LiveInvites(x)
      PROVE  v \in LiveInvites(b)
  BY <1>2, <1>4, <1>7 DEF LiveInvites, Remembers
<1>9. ASSUME NEW v \in LiveInvites(b)
      PROVE  v \in LiveInvites(x)
  <2>1. v \in DOMAIN Past.invites /\ ~Past.invites[v].consumed /\ clock < Past.invites[v].expires
    BY <1>4 DEF LiveInvites
  <2>2. v \in DOMAIN index.invites /\ index.invites[v] = Past.invites[v]
    BY <1>2, <2>1 DEF LiveKept, Remembers
  <2>3. v \in InvitesKept(index, x, clock)
    BY <2>1, <2>2 DEF InvitesKept
  <2> QED
    BY <1>7, <2>1, <2>2, <2>3 DEF LiveInvites
<1> QED
  BY <1>5, <1>6, <1>8, <1>9

\* The running engine and the Service's index, each maintained one fact at a time
\* and pruned on the way, hold what a restart would read from the whole log.
THEOREM RestartHolds == Spec => []RestartAgrees
<1>1. IInv => RestartAgrees
  BY EngineMatches, IndexMatches DEF RestartAgrees
<1> QED
  BY <1>1, Invariance, PTL

\* No attachment effect of a membership runs once its revocation is in the log.
THEOREM RevocationIsTheEnd == Spec => []NothingAfterRevocation
<1>1. IInv => NothingAfterRevocation
  BY DEF IInv, TransfersOK, NothingAfterRevocation
<1> QED
  BY <1>1, Invariance, PTL
=============================================================================
