------------------------------ MODULE RoomProofs ------------------------------
(***************************************************************************)
(* Safety of an Embedded Room, for every number of messages, every bound   *)
(* and both kinds of runtime: first of its engine (EmbeddedRoom), then of  *)
(* the Event Log that the engine records in (EventLog).                    *)
(*                                                                         *)
(* Of the engine.  Most steps only record something: no message is opened, *)
(* put into the FIFO or handed to a runtime by them (Calm).  Core is what  *)
(* the others, which move a goroutine, the FIFO or the Turn, leave each    *)
(* other; IInv adds the runtimes' types, the delivery locks and what a     *)
(* restart begins with.  The folds of the model (Kept, InLogOrder) are     *)
(* reasoned about by the least index at which a statement would fail.      *)
(***************************************************************************)
EXTENDS EmbeddedRoom, EventLog, FiniteSetTheorems, WellFoundedInduction, SequenceTheorems, TLAPS

LEMMA LeastElement ==
  ASSUME NEW S, S \subseteq Nat, S # {}
  PROVE  \E x \in S : \A y \in S : x <= y
<1>1. \E x \in S : \A y \in S : ~(<<y, x>> \in OpToRel(<, Nat))
  BY NatLessThanWellFounded, WFMin
<1>2. PICK x \in S : \A y \in S : ~(<<y, x>> \in OpToRel(<, Nat))
  BY <1>1
<1>3. \A y \in S : x <= y
  <2>1. SUFFICES ASSUME NEW y \in S, ~(x <= y) PROVE FALSE
    OBVIOUS
  <2>2. x \in Nat /\ y \in Nat /\ y < x
    BY <2>1
  <2>3. <<y, x>> \in OpToRel(<, Nat)
    BY <2>2 DEF OpToRel
  <2> QED BY <1>2, <2>1, <2>3
<1> QED BY <1>3

LEMMA MinOf ==
  ASSUME NEW S, S \subseteq Nat, S # {}
  PROVE  Min(S) \in S /\ \A y \in S : Min(S) <= y
<1>1. \E x \in S : \A y \in S : x <= y
  BY LeastElement
<1> QED BY <1>1 DEF Min

LEMMA MaxOf ==
  ASSUME NEW S, NEW n \in Nat, S \subseteq 0..n, S # {}
  PROVE  Max(S) \in S /\ \A y \in S : Max(S) >= y
<1> DEFINE B == {k \in Nat : \A y \in S : y <= k}
<1>1. n \in B
  OBVIOUS
<1>2. PICK b \in B : \A k \in B : b <= k
  <2> B \subseteq Nat /\ B # {}
    BY <1>1
  <2> HIDE DEF B
  <2> QED BY LeastElement
<1>3. b \in S
  <2>1. SUFFICES ASSUME b \notin S PROVE FALSE
    OBVIOUS
  <2>2. \A y \in S : y < b
    BY <1>2, <2>1
  <2>3. b - 1 \in B
    <3>1. PICK y \in S : TRUE
      OBVIOUS
    <3>2. b \in Nat /\ y \in Nat /\ y < b
      BY <1>2, <2>2
    <3>3. b - 1 \in Nat
      BY <3>2
    <3>4. \A z \in S : z <= b - 1
      BY <1>2, <2>2
    <3> QED BY <3>3, <3>4
  <2> QED BY <1>2, <2>3
<1>4. \E x \in S : \A y \in S : x >= y
  BY <1>2, <1>3
<1> QED BY <1>4 DEF Max

-----------------------------------------------------------------------------
Increasing(q) == \A i, j \in DOMAIN q : i < j => q[i] < q[j]
KeptTo(q, S, n, g) ==
  g = [i \in 0..n |-> IF i = 0 THEN <<>>
                      ELSE IF q[i] \in S THEN Append(g[i - 1], q[i]) ELSE g[i - 1]]

LEMMA KeptExists ==
  ASSUME NEW q, NEW S, NEW n \in Nat
  PROVE  \E g : KeptTo(q, S, n, g)
<1> DEFINE Bad == {k \in Nat : ~ \E g : KeptTo(q, S, k, g)}
<1>1. SUFFICES ASSUME Bad # {} PROVE FALSE
  OBVIOUS
<1>2. PICK k \in Bad : \A j \in Bad : k <= j
  <2> Bad \subseteq Nat
    OBVIOUS
  <2> HIDE DEF Bad
  <2> QED BY <1>1, LeastElement
<1>3. k # 0
  <2>1. KeptTo(q, S, 0, [i \in 0..0 |-> <<>>])
    BY DEF KeptTo
  <2> QED BY <2>1, <1>2
<1>4. k - 1 \in Nat /\ k - 1 \notin Bad
  BY <1>2, <1>3
<1>5. PICK g : KeptTo(q, S, k - 1, g)
  BY <1>4
<1> DEFINE h == [i \in 0..k |-> IF i = k THEN IF q[k] \in S THEN Append(g[k - 1], q[k]) ELSE g[k - 1]
                                ELSE g[i]]
<1>6. KeptTo(q, S, k, h)
  <2>1. \A i \in 0..(k - 1) : g[i] = IF i = 0 THEN <<>>
                      ELSE IF q[i] \in S THEN Append(g[i - 1], q[i]) ELSE g[i - 1]
    BY <1>5 DEF KeptTo
  <2>2. \A i \in 0..k : h[i] = IF i = 0 THEN <<>>
                      ELSE IF q[i] \in S THEN Append(h[i - 1], q[i]) ELSE h[i - 1]
    BY <2>1, <1>3, <1>2
  <2>3. DOMAIN h = 0..k
    OBVIOUS
  <2>4. h = [i \in 0..k |-> h[i]]
    OBVIOUS
  <2> HIDE DEF h
  <2>5. [i \in 0..k |-> h[i]] = [i \in 0..k |-> IF i = 0 THEN <<>>
                      ELSE IF q[i] \in S THEN Append(h[i - 1], q[i]) ELSE h[i - 1]]
    BY <2>2
  <2> QED BY <2>4, <2>5 DEF KeptTo
<1> QED BY <1>2, <1>6

LEMMA KeptDefinition ==
  ASSUME NEW q, NEW S, Len(q) \in Nat
  PROVE  \E g : KeptTo(q, S, Len(q), g) /\ Kept(q, S) = g[Len(q)]
<1> DEFINE f == CHOOSE g : KeptTo(q, S, Len(q), g)
<1>1. \E g : KeptTo(q, S, Len(q), g)
  BY KeptExists
<1>2. KeptTo(q, S, Len(q), f)
  BY <1>1
<1>3. Kept(q, S) = f[Len(q)]
  BY DEF Kept, KeptTo
<1> QED BY <1>2, <1>3

LEMMA KeptElements ==
  ASSUME NEW X \in SUBSET Nat, NEW q \in Seq(X), NEW S
  PROVE  /\ Kept(q, S) \in Seq(X)
         /\ ToSet(Kept(q, S)) = ToSet(q) \cap S
         /\ Increasing(q) => Increasing(Kept(q, S))
<1> Len(q) \in Nat /\ DOMAIN q = 1..Len(q) /\ \A i \in 1..Len(q) : q[i] \in X
  OBVIOUS
<1>1. PICK g : KeptTo(q, S, Len(q), g) /\ Kept(q, S) = g[Len(q)]
  BY KeptDefinition
<1>2. /\ g[0] = <<>>
      /\ \A i \in 1..Len(q) : g[i] = IF q[i] \in S THEN Append(g[i - 1], q[i]) ELSE g[i - 1]
  <2>1. \A i \in 0..Len(q) : g[i] = IF i = 0 THEN <<>>
                      ELSE IF q[i] \in S THEN Append(g[i - 1], q[i]) ELSE g[i - 1]
    BY <1>1 DEF KeptTo
  <2>2. 0 \in 0..Len(q) /\ \A i \in 1..Len(q) : i \in 0..Len(q) /\ i # 0
    OBVIOUS
  <2> QED BY <2>1, <2>2
<1> DEFINE Good(k) ==
      /\ g[k] \in Seq(X)
      /\ \A x : x \in ToSet(g[k]) <=> x \in S /\ \E i \in 1..k : x = q[i]
      /\ Increasing(q) => Increasing(g[k])
    Bad == {k \in 0..Len(q) : ~Good(k)}
<1>3. Bad = {}
  <2>1. SUFFICES ASSUME Bad # {} PROVE FALSE
    OBVIOUS
  <2>2. PICK k \in Bad : \A j \in Bad : k <= j
    <3> Bad \subseteq Nat
      OBVIOUS
    <3> HIDE DEF Bad
    <3> QED BY <2>1, LeastElement
  <2>3. k # 0
    <3>1. Good(0)
      BY <1>2 DEF ToSet, Increasing
    <3> QED BY <3>1, <2>2
  <2>4. k \in 1..Len(q) /\ k - 1 \in 0..Len(q) /\ k - 1 \notin Bad
    <3>1. k \in 0..Len(q)
      BY <2>2
    <3>2. k \in 1..Len(q) /\ k - 1 \in 0..Len(q) /\ k - 1 < k
      BY <3>1, <2>3
    <3> HIDE DEF Bad
    <3> QED BY <3>1, <3>2, <2>2
  <2>5. Good(k - 1)
    BY <2>4
  <2>6. Good(k)
    <3>1. CASE q[k] \notin S
      <4>1. g[k] = g[k - 1]
        BY <1>2, <2>4, <3>1
      <4>2. \A x : (x \in S /\ \E i \in 1..k : x = q[i]) <=> (x \in S /\ \E i \in 1..(k - 1) : x = q[i])
        BY <3>1, <2>4
      <4> QED BY <4>1, <4>2, <2>5
    <3>2. CASE q[k] \in S
      <4> DEFINE p == g[k - 1]
      <4>1. g[k] = Append(p, q[k]) /\ p \in Seq(X) /\ q[k] \in X
        BY <1>2, <2>4, <2>5, <3>2
      <4> HIDE DEF p
      <4>2. /\ g[k] \in Seq(X) /\ Len(p) \in Nat /\ DOMAIN p = 1..Len(p)
            /\ DOMAIN g[k] = 1..(Len(p) + 1) /\ g[k][Len(p) + 1] = q[k]
            /\ \A i \in 1..Len(p) : g[k][i] = p[i]
        BY <4>1
      <4>3. \A x : x \in ToSet(g[k]) <=> x \in ToSet(p) \/ x = q[k]
        BY <4>2 DEF ToSet
      <4>4. \A x : x \in ToSet(p) <=> x \in S /\ \E i \in 1..(k - 1) : x = q[i]
        BY <2>5 DEF p
      <4>5. \A x : x \in ToSet(g[k]) <=> x \in S /\ \E i \in 1..k : x = q[i]
        <5>1. \A x : (\E i \in 1..k : x = q[i]) <=> (x = q[k] \/ \E i \in 1..(k - 1) : x = q[i])
          BY <2>4
        <5> QED BY <4>3, <4>4, <3>2, <5>1
      <4>6. ASSUME Increasing(q) PROVE Increasing(g[k])
        <5>1. Increasing(p)
          BY <2>5, <4>6 DEF p
        <5>2. \A i \in 1..Len(p) : p[i] < q[k]
          <6>1. SUFFICES ASSUME NEW i \in 1..Len(p) PROVE p[i] < q[k]
            OBVIOUS
          <6>2. p[i] \in ToSet(p)
            BY <4>2 DEF ToSet
          <6>3. PICK j \in 1..(k - 1) : p[i] = q[j]
            BY <6>2, <4>4
          <6>4. j \in DOMAIN q /\ k \in DOMAIN q /\ j < k
            BY <2>4
          <6> QED BY <6>3, <6>4, <4>6 DEF Increasing
        <5>3. \A i, j \in 1..Len(p) : i < j => p[i] < p[j]
          BY <5>1, <4>2 DEF Increasing
        <5>4. SUFFICES ASSUME NEW i \in 1..(Len(p) + 1), NEW j \in 1..(Len(p) + 1), i < j
                       PROVE  g[k][i] < g[k][j]
          BY <4>2 DEF Increasing
        <5>5. i \in 1..Len(p) /\ g[k][i] = p[i]
          BY <4>2, <5>4
        <5>6. CASE j = Len(p) + 1
          BY <5>5, <5>6, <5>2, <4>2
        <5>7. CASE j # Len(p) + 1
          <6>1. j \in 1..Len(p) /\ g[k][j] = p[j]
            BY <4>2, <5>4, <5>7
          <6> QED BY <6>1, <5>5, <5>3, <5>4
        <5> QED BY <5>6, <5>7
      <4> QED BY <4>2, <4>5, <4>6
    <3> QED BY <3>1, <3>2
  <2> QED BY <2>2, <2>6
<1>4. Good(Len(q))
  BY <1>3
<1>5. \A x : x \in ToSet(q) <=> \E i \in 1..Len(q) : x = q[i]
  BY DEF ToSet
<1> HIDE DEF Bad
<1> QED BY <1>1, <1>4, <1>5

LEMMA InLogOrderElements ==
  ASSUME NEW S \in SUBSET Numbers
  PROVE  /\ InLogOrder(S) \in Seq(Numbers)
         /\ ToSet(InLogOrder(S)) = S
         /\ Increasing(InLogOrder(S))
<1> DEFINE all == [n \in Numbers |-> n]
<1> MaxMessages \in Nat /\ Numbers = 1..MaxMessages /\ Numbers \in SUBSET Nat
  BY Bounds DEF Numbers
<1>1. all \in Seq(Numbers)
  OBVIOUS
<1>2. ToSet(all) = Numbers /\ Increasing(all)
  BY DEF ToSet, Increasing
<1> HIDE DEF all
<1>3. /\ Kept(all, S) \in Seq(Numbers) /\ ToSet(Kept(all, S)) = ToSet(all) \cap S
      /\ Increasing(all) => Increasing(Kept(all, S))
  BY <1>1, KeptElements
<1>4. InLogOrder(S) = Kept(all, S)
  BY DEF InLogOrder, all
<1> QED BY <1>2, <1>3, <1>4

LEMMA EnqueuedElements ==
  ASSUME NEW q \in Seq(Numbers), NEW m \in Numbers
  PROVE  /\ Enqueued(q, m) \in Seq(Numbers)
         /\ ToSet(Enqueued(q, m)) = ToSet(q) \cup {m}
         /\ Increasing(q) /\ m \notin ToSet(q) => Increasing(Enqueued(q, m))
<1> MaxMessages \in Nat /\ Numbers \in SUBSET Nat
  BY Bounds DEF Numbers
<1> Len(q) \in Nat /\ DOMAIN q = 1..Len(q) /\ \A i \in 1..Len(q) : q[i] \in Numbers
  OBVIOUS
<1> m \in Nat /\ \A i \in 1..Len(q) : q[i] \in Nat
  OBVIOUS
<1> DEFINE later == {i \in DOMAIN q : m < q[i]}
           p == IF later = {} THEN Len(q) + 1 ELSE Min(later)
           e == SubSeq(q, 1, p - 1) \o <<m>> \o SubSeq(q, p, Len(q))
<1>1. p \in 1..(Len(q) + 1) /\ (\A i \in later : p <= i) /\ (p <= Len(q) => m < q[p])
  <2>1. CASE later = {}
    BY <2>1
  <2>2. CASE later # {}
    <3>1. Min(later) \in later /\ \A y \in later : Min(later) <= y
      <4> later \subseteq Nat
        OBVIOUS
      <4> HIDE DEF later
      <4> QED BY <2>2, MinOf
    <3> QED BY <2>2, <3>1
  <2> QED BY <2>1, <2>2
<1>2. Enqueued(q, m) = e
  BY DEF Enqueued, InsertAt
<1> HIDE DEF p
<1>3. /\ e \in Seq(Numbers) /\ Len(e) = Len(q) + 1 /\ e[p] = m
      /\ \A i \in 1..(p - 1) : e[i] = q[i]
      /\ \A i \in (p + 1)..(Len(q) + 1) : e[i] = q[i - 1]
  <2> DEFINE a == SubSeq(q, 1, p - 1)
             b == SubSeq(q, p, Len(q))
  <2>1. a \in Seq(Numbers) /\ Len(a) = p - 1 /\ \A i \in 1..(p - 1) : a[i] = q[i]
    BY <1>1
  <2>2. b \in Seq(Numbers) /\ Len(b) = Len(q) + 1 - p /\ \A i \in 1..(Len(q) + 1 - p) : b[i] = q[p + i - 1]
    BY <1>1
  <2>3. e = a \o <<m>> \o b
    OBVIOUS
  <2> HIDE DEF a, b, e
  <2>4. /\ a \o <<m>> \in Seq(Numbers) /\ Len(a \o <<m>>) = p /\ (a \o <<m>>)[p] = m
        /\ \A i \in 1..(p - 1) : (a \o <<m>>)[i] = a[i]
    BY <2>1, <1>1
  <2> DEFINE c == a \o <<m>>
  <2> HIDE DEF c
  <2>5. c \in Seq(Numbers) /\ Len(c) = p /\ c[p] = m /\ \A i \in 1..(p - 1) : c[i] = a[i]
    BY <2>4 DEF c
  <2>6. e = c \o b
    BY <2>3 DEF c
  <2>7. e \in Seq(Numbers) /\ Len(e) = Len(q) + 1 /\ \A i \in 1..p : e[i] = c[i]
    <3>1. c \in Seq(Numbers) /\ b \in Seq(Numbers) /\ Len(c) = p /\ Len(b) = Len(q) + 1 - p
      BY <2>5, <2>2
    <3>2. c \o b \in Seq(Numbers)
      BY <3>1, ConcatProperties
    <3>3. Len(c \o b) = Len(c) + Len(b)
      BY <3>1, ConcatProperties
    <3>4. \A i \in 1..p : (c \o b)[i] = c[i]
      BY <3>1
    <3>5. Len(c) + Len(b) = Len(q) + 1
      BY <3>1, <1>1
    <3> QED BY <2>6, <3>2, <3>3, <3>4, <3>5
  <2>8. \A i \in (p + 1)..(Len(q) + 1) : e[i] = b[i - p]
    BY <2>5, <2>2, <2>6, <1>1
  <2>9. \A i \in (p + 1)..(Len(q) + 1) : b[i - p] = q[i - 1]
    BY <2>2, <1>1
  <2>10. p \in 1..p /\ \A i \in 1..(p - 1) : i \in 1..p
    BY <1>1
  <2> QED BY <2>1, <2>5, <2>7, <2>8, <2>9, <2>10
<1> HIDE DEF e
<1>4. DOMAIN e = 1..(Len(q) + 1)
  BY <1>3
<1>5. ToSet(e) = ToSet(q) \cup {m}
  <2>1. ASSUME NEW x \in ToSet(e) PROVE x \in ToSet(q) \cup {m}
    <3>1. PICK i \in 1..(Len(q) + 1) : x = e[i]
      BY <2>1, <1>4 DEF ToSet
    <3>2. i \in 1..(p - 1) \/ i = p \/ i \in (p + 1)..(Len(q) + 1)
      BY <1>1
    <3>3. i \in 1..(p - 1) => i \in DOMAIN q
      BY <1>1
    <3>4. i \in (p + 1)..(Len(q) + 1) => i - 1 \in DOMAIN q
      BY <1>1
    <3> QED BY <3>1, <3>2, <3>3, <3>4, <1>3 DEF ToSet
  <2>2. ASSUME NEW i \in DOMAIN q PROVE q[i] \in ToSet(e)
    <3>1. CASE i < p
      <4>1. i \in 1..(p - 1) /\ i \in DOMAIN e
        BY <3>1, <1>1, <1>4
      <4> QED BY <4>1, <1>3 DEF ToSet
    <3>2. CASE i >= p
      <4>1. i + 1 \in (p + 1)..(Len(q) + 1) /\ i + 1 \in DOMAIN e /\ (i + 1) - 1 = i
        BY <3>2, <1>1, <1>4
      <4>2. e[i + 1] = q[i]
        BY <4>1, <1>3
      <4> QED BY <4>1, <4>2 DEF ToSet
    <3> QED BY <3>1, <3>2, <1>1
  <2>3. m \in ToSet(e)
    BY <1>1, <1>3, <1>4 DEF ToSet
  <2>4. ToSet(q) \subseteq ToSet(e)
    BY <2>2 DEF ToSet
  <2> QED BY <2>1, <2>3, <2>4
<1>6. ASSUME Increasing(q), m \notin ToSet(q) PROVE Increasing(e)
  <2>1. \A i, j \in 1..Len(q) : i < j => q[i] < q[j]
    BY <1>6 DEF Increasing
  <2>2. \A i \in 1..(p - 1) : q[i] < m
    <3>1. SUFFICES ASSUME NEW i \in 1..(p - 1) PROVE q[i] < m
      OBVIOUS
    <3>2. i \in DOMAIN q /\ ~(p <= i)
      BY <1>1
    <3>3. ~(m < q[i])
      BY <3>2, <1>1
    <3>4. q[i] # m
      BY <3>2, <1>6 DEF ToSet
    <3> QED BY <3>2, <3>3, <3>4
  <2>3. \A i \in p..Len(q) : m < q[i]
    <3>1. SUFFICES ASSUME NEW i \in p..Len(q) PROVE m < q[i]
      OBVIOUS
    <3>2. p \in 1..Len(q) /\ i \in 1..Len(q) /\ m < q[p]
      BY <1>1
    <3>3. p = i \/ q[p] < q[i]
      BY <3>2, <2>1
    <3> QED BY <3>2, <3>3
  <2>4. SUFFICES ASSUME NEW i \in 1..(Len(q) + 1), NEW j \in 1..(Len(q) + 1), i < j
                 PROVE  e[i] < e[j]
    BY <1>4 DEF Increasing
  <2>5. CASE j < p
    BY <2>5, <2>4, <2>1, <1>1, <1>3
  <2>6. CASE j = p
    BY <2>6, <2>4, <2>2, <1>1, <1>3
  <2>7. CASE p < j
    <3>1. j \in (p + 1)..(Len(q) + 1) /\ j - 1 \in p..Len(q) /\ j - 1 \in 1..Len(q) /\ e[j] = q[j - 1]
      BY <2>7, <1>1, <1>3
    <3>2. CASE i < p
      <4>1. i \in 1..(p - 1) /\ e[i] = q[i] /\ q[i] < m /\ i \in 1..Len(q)
        BY <3>2, <2>2, <1>1, <1>3
      <4>2. m < q[j - 1] /\ j - 1 \in 1..Len(q)
        BY <3>1, <2>3
      <4> QED BY <3>1, <4>1, <4>2
    <3>3. CASE i = p
      BY <3>1, <3>3, <2>3, <1>1, <1>3
    <3>4. CASE p < i
      <4>1. i \in (p + 1)..(Len(q) + 1) /\ i - 1 \in 1..Len(q) /\ i - 1 < j - 1 /\ e[i] = q[i - 1]
        BY <3>4, <1>1, <1>3, <2>4
      <4> QED BY <3>1, <4>1, <2>1
    <3> QED BY <3>2, <3>3, <3>4, <1>1
  <2> QED BY <2>5, <2>6, <2>7, <1>1
<1> QED BY <1>2, <1>3, <1>5, <1>6

-----------------------------------------------------------------------------
Tame(r, q) ==
  /\ q \in Message
  /\ q.from = r.from /\ q.to = r.to /\ q.steer = r.steer /\ q.retryOf = r.retryOf
  /\ InFifo(q) => InFifo(r)
  /\ Open(q) => Open(r)
  /\ AtNative(q) => AtNative(r)
Calm(ms, ns) ==
  /\ ns \in Seq(Message) /\ Len(ns) = Len(ms) /\ DOMAIN ns = DOMAIN ms
  /\ \A m \in DOMAIN ms : Tame(ms[m], ns[m])

LEMMA TameTransitive ==
  ASSUME NEW r \in Message, NEW q \in Message, NEW p \in Message, Tame(r, q), Tame(q, p)
  PROVE  Tame(r, p)
BY DEF Tame

LEMMA TameSame == ASSUME NEW r \in Message PROVE Tame(r, r)
BY DEF Tame

LEMMA DeliveredTame ==
  ASSUME NEW r \in Message, NEW d \in {"started", "injected", "failed", "skipped"}
  PROVE  Tame(r, Delivered(r, d))
<1>1. CASE ~DeliveryAllowed(r.del, d)
  BY <1>1, TameSame DEF Delivered
<1>2. CASE DeliveryAllowed(r.del, d)
  <2>1. Delivered(r, d) = [r EXCEPT !.del = d]
    BY <1>2 DEF Delivered
  <2>2. d \in {"started", "injected"} => r.del \in {"submitting", "started", "injected"}
    BY <1>2 DEF DeliveryAllowed
  <2> QED BY <2>1, <2>2 DEF Tame, Message, InFifo, Open, AtNative
<1> QED BY <1>1, <1>2

LEMMA QueuedTame ==
  ASSUME NEW r \in Message, ~AtNative(r)
  PROVE  Tame(r, Delivered(r, "queued"))
<1>1. CASE ~DeliveryAllowed(r.del, "queued")
  BY <1>1, TameSame DEF Delivered
<1>2. CASE DeliveryAllowed(r.del, "queued")
  <2>1. Delivered(r, "queued") = [r EXCEPT !.del = "queued"]
    BY <1>2 DEF Delivered
  <2>2. r.del \in {"pending", "queued"}
    BY <1>2 DEF DeliveryAllowed, AtNative
  <2> QED BY <2>1, <2>2 DEF Tame, Message, InFifo, Open, AtNative
<1> QED BY <1>1, <1>2

LEMMA UnsureTame ==
  ASSUME NEW r \in Message, NEW u \in BOOLEAN
  PROVE  Tame(r, [r EXCEPT !.unsure = u])
BY DEF Tame, Message, InFifo, Open, AtNative

LEMMA ProcessedTame ==
  ASSUME NEW r \in Message, NEW p \in {"waiting", "working"} \cup Settled, NEW t \in 0..MaxMessages
  PROVE  Tame(r, Processed(r, p, t))
<1>1. CASE ~ProcessingAllowed(r.proc, p)
  BY <1>1, TameSame DEF Processed
<1>2. CASE ProcessingAllowed(r.proc, p) /\ p = "waiting"
  BY <1>2 DEF Processed, Tame, Message, InFifo, Open, AtNative
<1>3. CASE ProcessingAllowed(r.proc, p) /\ p # "waiting"
  <2> DEFINE q == [r EXCEPT !.proc = p, !.turn = t]
  <2>1. q \in Message /\ Tame(r, q)
    <3>1. r.proc \in Settled => p \in Settled
      BY <1>3 DEF ProcessingAllowed, Settled
    <3> QED BY <3>1 DEF Tame, Message, InFifo, Open, AtNative
  <2>2. Processed(r, p, t) = Resolved(q)
    BY <1>3 DEF Processed
  <2> HIDE DEF q
  <2>3. Tame(q, Resolved(q))
    <3>1. CASE ~q.unsure \/ q.proc = "waiting"
      BY <2>1, <3>1, TameSame DEF Resolved
    <3>2. CASE ~(~q.unsure \/ q.proc = "waiting")
      <4> DEFINE d == IF q.proc \in {"working", "completed"} THEN "started" ELSE "failed"
      <4>1. Resolved(q) = [Delivered(q, d) EXCEPT !.unsure = FALSE]
        BY <3>2 DEF Resolved
      <4>2. Tame(q, Delivered(q, d)) /\ Delivered(q, d) \in Message
        <5>1. d \in {"started", "injected", "failed", "skipped"}
          OBVIOUS
        <5> HIDE DEF d
        <5>2. Tame(q, Delivered(q, d))
          BY <5>1, <2>1, DeliveredTame
        <5> QED BY <5>2 DEF Tame
      <4> DEFINE e == Delivered(q, d)
      <4> HIDE DEF e
      <4>3. Tame(e, [e EXCEPT !.unsure = FALSE])
        BY <4>2, UnsureTame DEF e
      <4>4. [e EXCEPT !.unsure = FALSE] \in Message
        BY <4>3 DEF Tame
      <4> QED BY <4>1, <4>2, <4>3, <4>4, <2>1, TameTransitive DEF e
    <3> QED BY <3>1, <3>2
  <2>4. Resolved(q) \in Message
    BY <2>3 DEF Tame
  <2> QED BY <2>1, <2>2, <2>3, <2>4, TameTransitive
<1> QED BY <1>1, <1>2, <1>3

LEMMA FallbackTame ==
  ASSUME NEW r \in Message
  PROVE  Tame(r, FallbackWorking(r))
<1> 0 \in 0..MaxMessages
  BY Bounds
<1>1. CASE r.proc = "waiting"
  BY <1>1 DEF FallbackWorking, Tame, Message, InFifo, Open, AtNative, Settled
<1>2. CASE r.proc # "waiting"
  BY <1>2, TameSame DEF FallbackWorking
<1> QED BY <1>1, <1>2

LEMMA SkippedFailed ==
  ASSUME NEW r \in Message
  PROVE  /\ Tame(r, Skipped(r)) /\ ~InFifo(Skipped(r))
         /\ Tame(r, Failed(r))
         /\ Tame(r, Failed(Skipped(r))) /\ ~InFifo(Failed(Skipped(r)))
<1> 0 \in 0..MaxMessages
  BY Bounds
<1>1. Tame(r, Skipped(r))
  BY DeliveredTame DEF Skipped
<1>2. Skipped(r) \in Message
  BY <1>1 DEF Tame
<1>3. ~InFifo(Skipped(r))
  BY DEF Skipped, Delivered, DeliveryAllowed, InFifo, Message
<1>4. Tame(r, Failed(r)) /\ Tame(Skipped(r), Failed(Skipped(r)))
  BY <1>2, ProcessedTame DEF Failed, Settled
<1>5. Failed(Skipped(r)) \in Message
  BY <1>4 DEF Tame
<1>6. Tame(r, Failed(Skipped(r)))
  BY <1>1, <1>2, <1>4, <1>5, TameTransitive
<1>7. ~InFifo(Failed(Skipped(r)))
  BY <1>3, <1>4 DEF Tame
<1> QED BY <1>1, <1>3, <1>4, <1>6, <1>7

LEMMA CalmFunction ==
  ASSUME NEW ms \in Seq(Message), NEW f, f = [i \in DOMAIN ms |-> f[i]],
         \A i \in DOMAIN ms : Tame(ms[i], f[i])
  PROVE  Calm(ms, f)
<1>1. Len(ms) \in Nat /\ DOMAIN ms = 1..Len(ms)
  OBVIOUS
<1>2. \A i \in 1..Len(ms) : f[i] \in Message
  BY <1>1 DEF Tame
<1>3. f \in [1..Len(ms) -> Message]
  BY <1>1, <1>2
<1>4. f \in Seq(Message)
  BY <1>1, <1>3, SeqDef
<1>5. Len(f) = Len(ms)
  BY <1>1, <1>3, <1>4, LenProperties
<1> QED BY <1>1, <1>3, <1>4, <1>5 DEF Calm

LEMMA CalmExcept ==
  ASSUME NEW ms \in Seq(Message), NEW m \in DOMAIN ms, NEW q, Tame(ms[m], q)
  PROVE  Calm(ms, [ms EXCEPT ![m] = q])
<1> DEFINE f == [ms EXCEPT ![m] = q]
<1>1. f = [i \in DOMAIN ms |-> f[i]]
  OBVIOUS
<1>2. \A i \in DOMAIN ms : ms[i] \in Message
  OBVIOUS
<1>3. \A i \in DOMAIN ms : f[i] = IF i = m THEN q ELSE ms[i]
  OBVIOUS
<1>4. \A i \in DOMAIN ms : Tame(ms[i], f[i])
  BY <1>2, <1>3, TameSame
<1> HIDE DEF f
<1> QED BY <1>1, <1>4, CalmFunction DEF f

LEMMA CalmSame == ASSUME NEW ms \in Seq(Message) PROVE Calm(ms, ms)
<1> \A m \in DOMAIN ms : ms[m] \in Message
  OBVIOUS
<1> QED BY TameSame DEF Calm

LEMMA CalmTransitive ==
  ASSUME NEW ms \in Seq(Message), NEW ns, NEW os, Calm(ms, ns), Calm(ns, os)
  PROVE  Calm(ms, os)
<1> ns \in Seq(Message) /\ os \in Seq(Message) /\ DOMAIN ns = DOMAIN ms /\ DOMAIN os = DOMAIN ms
    /\ Len(os) = Len(ms)
  BY DEF Calm
<1> \A m \in DOMAIN ms : ms[m] \in Message /\ ns[m] \in Message /\ os[m] \in Message
  OBVIOUS
<1> QED BY TameTransitive DEF Calm

LEMMA EachSkipped ==
  ASSUME NEW ms \in Seq(Message), NEW S
  PROVE  /\ Calm(ms, Each(ms, S, Skipped))
         /\ \A m \in S \cap DOMAIN ms : ~InFifo(Each(ms, S, Skipped)[m])
         /\ \A m \in DOMAIN ms \ S : Each(ms, S, Skipped)[m] = ms[m]
<1> DEFINE f == Each(ms, S, Skipped)
<1>1. f = [i \in DOMAIN ms |-> f[i]] /\ \A i \in DOMAIN ms : f[i] = IF i \in S THEN Skipped(ms[i]) ELSE ms[i]
  BY DEF Each
<1>2. \A i \in DOMAIN ms : ms[i] \in Message
  OBVIOUS
<1>3. \A i \in DOMAIN ms : Tame(ms[i], f[i])
  BY <1>1, <1>2, TameSame, SkippedFailed
<1>4. \A i \in S \cap DOMAIN ms : ~InFifo(f[i])
  BY <1>1, <1>2, SkippedFailed
<1> HIDE DEF f
<1>5. Calm(ms, f)
  BY <1>1, <1>3, CalmFunction
<1> QED BY <1>1, <1>4, <1>5 DEF f

LEMMA EachFailed ==
  ASSUME NEW ms \in Seq(Message), NEW S
  PROVE  Calm(ms, Each(ms, S, Failed))
<1> DEFINE f == Each(ms, S, Failed)
<1>1. f = [i \in DOMAIN ms |-> f[i]] /\ \A i \in DOMAIN ms : f[i] = IF i \in S THEN Failed(ms[i]) ELSE ms[i]
  BY DEF Each
<1>2. \A i \in DOMAIN ms : ms[i] \in Message
  OBVIOUS
<1>3. \A i \in DOMAIN ms : Tame(ms[i], f[i])
  BY <1>1, <1>2, TameSame, SkippedFailed
<1> HIDE DEF f
<1> QED BY <1>1, <1>3, CalmFunction DEF f

-----------------------------------------------------------------------------
TurnState == [ owner: Slots \cup {None}, queue: Seq(Numbers), submitting: Nat, boundary: BOOLEAN ]
Queued(ms, t) == ToSet(t.queue) \subseteq DOMAIN ms /\ Increasing(t.queue)

\* What reserveNextLocked leaves: either nothing in the queue was still awaiting, or
\* the oldest that was has the Turn and the later ones are the queue.
Reserved(t, ms, res) ==
  /\ Calm(ms, res.msgs) /\ res.turn \in TurnState
  /\ \A m \in DOMAIN ms : Awaiting(res.msgs[m]) <=> Awaiting(ms[m])
  /\ Queued(ms, res.turn) /\ ToSet(res.turn.queue) \subseteq ToSet(t.queue)
  /\ res.start = 0 =>
       /\ res.turn = [t EXCEPT !.queue = <<>>]
       /\ \A m \in ToSet(t.queue) : ~Awaiting(ms[m])
  /\ res.start # 0 =>
       /\ res.start \in ToSet(t.queue) /\ Awaiting(ms[res.start])
       /\ \A m \in ToSet(res.turn.queue) : res.start < m
       /\ res.turn.owner = ms[res.start].to /\ res.turn.submitting = 1 /\ res.turn.boundary = FALSE
       /\ \A m \in ToSet(t.queue) :
            m \in ToSet(res.turn.queue) \/ m = res.start \/ (m < res.start /\ ~Awaiting(ms[m]))

LEMMA ReserveResult ==
  ASSUME NEW ms \in Seq(Message), NEW t \in TurnState, Queued(ms, t)
  PROVE  Reserved(t, ms, Reserve(t, ms))
<1> DEFINE q == t.queue
           n == Len(q)
           live == {i \in DOMAIN q : Awaiting(ms[q[i]])}
           first == IF live = {} THEN n + 1 ELSE Min(live)
           dropped == {m \in ToSet(SubSeq(q, 1, first - 1)) : ~Open(ms[m]) /\ InFifo(ms[m])}
           rest == SubSeq(q, first + 1, n)
           res == Reserve(t, ms)
<1>1. /\ res.msgs = Each(ms, dropped, Skipped)
      /\ res.start = IF live = {} THEN 0 ELSE q[first]
      /\ res.turn = IF live = {} THEN [t EXCEPT !.queue = rest]
                    ELSE [ owner |-> ms[q[first]].to, queue |-> rest, submitting |-> 1, boundary |-> FALSE ]
  BY DEF Reserve
<1>2. /\ q \in Seq(Numbers) /\ n \in Nat /\ DOMAIN q = 1..n /\ Numbers \in SUBSET Nat /\ 0 \notin Numbers
      /\ \A i \in 1..n : q[i] \in Numbers /\ q[i] \in DOMAIN ms /\ q[i] \in ToSet(q) /\ q[i] \in Nat
      /\ \A i, j \in 1..n : i < j => q[i] < q[j]
  <2>1. q \in Seq(Numbers) /\ Numbers \in SUBSET Nat /\ 0 \notin Numbers
    BY Bounds DEF TurnState, Numbers
  <2>2. n \in Nat /\ DOMAIN q = 1..n /\ \A i \in 1..n : q[i] \in Numbers
    BY <2>1
  <2>3. \A i \in 1..n : q[i] \in ToSet(q)
    BY <2>2 DEF ToSet
  <2> QED BY <2>1, <2>2, <2>3 DEF Queued, Increasing
<1>3. first \in 1..(n + 1) /\ (\A i \in live : first <= i) /\ (live # {} => first \in live)
  <2>1. CASE live = {}
    BY <2>1, <1>2
  <2>2. CASE live # {}
    <3>1. Min(live) \in live /\ \A y \in live : Min(live) <= y
      <4> live \subseteq Nat
        BY <1>2
      <4> HIDE DEF live
      <4> QED BY <2>2, MinOf
    <3>2. first = Min(live)
      BY <2>2
    <3>3. Min(live) \in 1..n
      BY <3>1, <1>2
    <3> HIDE DEF first, live
    <3> QED BY <2>2, <3>1, <3>2, <3>3, <1>2
  <2> QED BY <2>1, <2>2
<1> DEFINE A == Each(ms, dropped, Skipped)
<1>4. /\ Calm(ms, A)
      /\ \A m \in DOMAIN ms : Awaiting(A[m]) <=> Awaiting(ms[m])
  <2> HIDE DEF dropped
  <2>1. /\ Calm(ms, A) /\ \A m \in DOMAIN ms \ dropped : A[m] = ms[m]
    BY EachSkipped
  <2>2. \A m \in DOMAIN ms : Tame(ms[m], A[m])
    BY <2>1 DEF Calm
  <2>3. \A m \in dropped : ~Awaiting(ms[m])
    BY DEF Awaiting, dropped
  <2>4. \A m \in DOMAIN ms : Awaiting(A[m]) => Awaiting(ms[m])
    BY <2>2 DEF Tame, Awaiting
  <2> HIDE DEF A
  <2> QED BY <2>1, <2>3, <2>4
<1> HIDE DEF A, dropped
<1>5. /\ rest \in Seq(Numbers) /\ Len(rest) = IF first + 1 <= n THEN n - first ELSE 0
      /\ \A i \in 1..(n - first) : rest[i] = q[first + i]
  <2> HIDE DEF first, q, n
  <2>1. first + 1 \in Int /\ n \in Int /\ \A i \in (first + 1)..n : q[i] \in Numbers
    BY <1>2, <1>3
  <2>2. /\ rest \in Seq(Numbers) /\ Len(rest) = IF first + 1 <= n THEN n - (first + 1) + 1 ELSE 0
        /\ \A i \in 1..(n - (first + 1) + 1) : rest[i] = q[(first + 1) + i - 1]
    BY <2>1, SubSeqProperties
  <2>3. n - (first + 1) + 1 = n - first /\ \A i \in 1..(n - first) : (first + 1) + i - 1 = first + i
    BY <1>2, <1>3
  <2> QED BY <2>2, <2>3
<1> HIDE DEF first, rest
<1>6. DOMAIN rest = 1..Len(rest) /\ Len(rest) \in Nat /\ (\A i \in 1..Len(rest) : first + i \in 1..n /\ rest[i] = q[first + i])
  BY <1>5, <1>3, <1>2
<1>7. ToSet(rest) \subseteq ToSet(q) /\ Increasing(rest)
  <2>1. \A i \in 1..Len(rest) : rest[i] \in ToSet(q)
    BY <1>6, <1>2
  <2>2. \A i, j \in 1..Len(rest) : i < j => rest[i] < rest[j]
    <3>1. SUFFICES ASSUME NEW i \in 1..Len(rest), NEW j \in 1..Len(rest), i < j PROVE rest[i] < rest[j]
      OBVIOUS
    <3>2. first + i \in 1..n /\ first + j \in 1..n /\ first + i < first + j
      BY <1>6, <1>3, <1>2, <3>1
    <3> QED BY <3>2, <1>6, <1>2
  <2>3. ToSet(rest) \subseteq ToSet(q)
    BY <2>1, <1>6 DEF ToSet
  <2>4. Increasing(rest)
    BY <2>2, <1>6 DEF Increasing
  <2> QED BY <2>3, <2>4
<1>8. ToSet(q) \subseteq DOMAIN ms
  BY DEF Queued
<1>9. CASE live = {}
  <2>1. res.start = 0 /\ res.turn = [t EXCEPT !.queue = rest] /\ res.msgs = A
    BY <1>1, <1>9 DEF A
  <2>2. rest = <<>>
    <3>1. first = n + 1
      BY <1>9 DEF first
    <3>2. Len(rest) = 0
      BY <3>1, <1>5, <1>2
    <3> QED BY <3>2, <1>5
  <2>3. \A m \in ToSet(q) : ~Awaiting(ms[m])
    BY <1>9 DEF ToSet
  <2>4. res.turn \in TurnState /\ res.turn.queue = rest
    BY <2>1, <1>5 DEF TurnState
  <2>5. Queued(ms, res.turn)
    BY <2>4, <1>7, <1>8 DEF Queued
  <2>6. ToSet(res.turn.queue) \subseteq ToSet(t.queue)
    BY <2>4, <1>7
  <2>7. res.turn = [t EXCEPT !.queue = <<>>]
    BY <2>1, <2>2
  <2>8. Calm(ms, res.msgs) /\ \A m \in DOMAIN ms : Awaiting(res.msgs[m]) <=> Awaiting(ms[m])
    BY <2>1, <1>4
  <2> HIDE DEF live, n
  <2> QED BY <2>1, <2>3, <2>4, <2>5, <2>6, <2>7, <2>8 DEF Reserved
<1>10. CASE live # {}
  <2>1. first \in 1..n /\ first \in live /\ Awaiting(ms[q[first]])
    BY <1>10, <1>3, <1>2
  <2>2. res.start = q[first] /\ res.msgs = A
        /\ res.turn = [ owner |-> ms[q[first]].to, queue |-> rest, submitting |-> 1, boundary |-> FALSE ]
    BY <1>1, <1>10 DEF A
  <2>3. res.start # 0 /\ res.start \in ToSet(q) /\ Awaiting(ms[res.start])
    BY <2>1, <2>2, <1>2
  <2>4. ms[res.start].to \in Slots
    <3>1. res.start \in DOMAIN ms
      BY <2>3, <1>8
    <3>2. ms[res.start] \in Message
      BY <3>1
    <3> QED BY <3>2 DEF Message
  <2>5. res.turn \in TurnState /\ res.turn.queue = rest
    BY <2>2, <2>4, <1>5 DEF TurnState
  <2>6. Queued(ms, res.turn)
    BY <2>5, <1>7, <1>8 DEF Queued
  <2>7. \A m \in ToSet(rest) : res.start < m
    <3>1. SUFFICES ASSUME NEW i \in 1..Len(rest) PROVE q[first] < rest[i]
      BY <2>2, <1>6 DEF ToSet
    <3>2. first + i \in 1..n /\ rest[i] = q[first + i]
      BY <1>6
    <3>3. first < first + i
      BY <2>1, <1>6, <1>2
    <3> QED BY <3>2, <3>3, <2>1, <1>2
  <2>8. \A m \in ToSet(q) : m \in ToSet(rest) \/ m = res.start \/ (m < res.start /\ ~Awaiting(ms[m]))
    <3>1. SUFFICES ASSUME NEW i \in 1..n
                   PROVE q[i] \in ToSet(rest) \/ q[i] = res.start \/ (q[i] < res.start /\ ~Awaiting(ms[q[i]]))
      BY <1>2 DEF ToSet
    <3>2. CASE i < first
      <4>1. i \notin live
        <5>1. ~(first <= i)
          BY <3>2, <2>1, <1>2
        <5> QED BY <5>1, <1>3
      <4>2. ~Awaiting(ms[q[i]])
        BY <4>1, <1>2
      <4>3. q[i] < q[first]
        BY <3>2, <2>1, <1>2
      <4> QED BY <4>2, <4>3, <2>2
    <3>3. CASE i = first
      BY <3>3, <2>2
    <3>4. CASE first < i
      <4>1. i - first \in 1..Len(rest) /\ first + (i - first) = i
        <5>1. first \in Nat /\ i \in Nat /\ n \in Nat /\ first < i /\ i <= n
          BY <3>4, <2>1, <1>2
        <5>2. first + 1 <= n /\ i - first \in 1..(n - first) /\ first + (i - first) = i
          BY <5>1
        <5>3. Len(rest) = n - first
          BY <5>2, <1>5
        <5> QED BY <5>2, <5>3
      <4>2. rest[i - first] = q[i]
        BY <4>1, <1>6
      <4> QED BY <4>1, <4>2, <1>6 DEF ToSet
    <3> QED BY <3>2, <3>3, <3>4, <2>1, <1>2
  <2>9. ToSet(res.turn.queue) \subseteq ToSet(t.queue)
    BY <2>5, <1>7
  <2>10. Calm(ms, res.msgs) /\ \A m \in DOMAIN ms : Awaiting(res.msgs[m]) <=> Awaiting(ms[m])
    BY <2>2, <1>4
  <2>11. \A m \in ToSet(res.turn.queue) : res.start < m
    BY <2>7, <2>5
  <2>12. \A m \in ToSet(t.queue) :
            m \in ToSet(res.turn.queue) \/ m = res.start \/ (m < res.start /\ ~Awaiting(ms[m]))
    BY <2>8, <2>5
  <2>13. res.turn.owner = ms[res.start].to /\ res.turn.submitting = 1 /\ res.turn.boundary = FALSE
    BY <2>2
  <2>14. res.turn \in TurnState
    BY <2>5
  <2> HIDE DEF live, n
  <2> QED BY <2>3, <2>14, <2>6, <2>9, <2>10, <2>11, <2>12, <2>13 DEF Reserved
<1> QED BY <1>9, <1>10

Goroutine == [pc: Pcs, steer: BOOLEAN]
Admission == [msg: 0..MaxMessages, step: {"idle", "sweep", "place"}, cancelled: SUBSET Numbers]
Locking == {"native", "accepted", "failing"}
Running(tk) == {m \in Numbers : tk[m].pc # "none"}

Typed(ms, t, tk, rt, cr) ==
  /\ ms \in Seq(Message) /\ Len(ms) <= MaxMessages /\ t \in TurnState
  /\ tk \in [Numbers -> Goroutine] /\ rt \in Admission /\ cr \in [Numbers -> 0..2]
Fresh(ms, tk, cr) == \A m \in Numbers \ DOMAIN ms : tk[m].pc = "none" /\ cr[m] = 0
Admitted(ms, t, tk, rt, cr) ==
  IF rt.msg = 0 THEN rt = NoRouting
  ELSE /\ rt.msg = Len(ms) /\ rt.msg \notin ToSet(t.queue) /\ rt.step # "idle"
       /\ tk[rt.msg].pc = "none" /\ cr[rt.msg] = 0 /\ ~AtNative(ms[rt.msg])
Once(ms, tk, cr) ==
  \A m \in DOMAIN ms :
    /\ cr[m] <= 1
    /\ InFifo(ms[m]) \/ tk[m].pc = "native" => cr[m] = 0
    /\ tk[m].pc \in Locking => ~InFifo(ms[m])
    /\ tk[m].pc = "over" => ~Awaiting(ms[m])
Lanes(ms, tk) ==
  \A m, n \in DOMAIN ms :
    ms[m].to = ms[n].to /\ tk[m].pc \in Locking /\ tk[n].pc \in Locking => m = n
Counts(ms, t, tk, lax) ==
  /\ t.submitting <= Cardinality({m \in Running(tk) : ms[m].to = t.owner})
  /\ ~lax => /\ t.submitting = Cardinality(Running(tk))
             /\ \A m \in Running(tk) : ms[m].to = t.owner
Held(ms, t, lax) ==
  ~lax => \A m \in DOMAIN ms : Open(ms[m]) /\ AtNative(ms[m]) => ms[m].to = t.owner
Waits(ms, t, tk, rt, lax) ==
  ~lax => \A m \in DOMAIN ms :
            Awaiting(ms[m]) => m \in ToSet(t.queue) \/ tk[m].pc # "none" \/ m = rt.msg
Oldest(ms, tk, lax) ==
  ~lax => \A m \in DOMAIN ms : tk[m].pc = "wait" /\ ~tk[m].steer =>
            \A i \in DOMAIN ms : /\ i < m => ~Awaiting(ms[i])
                                 /\ i # m /\ tk[i].pc # "none" => m < i
Relays(ms, tk, rt, cd) ==
  /\ \A m \in DOMAIN ms : ms[m].from \in Slots => ~ms[m].steer
  /\ \A m \in DOMAIN ms : tk[m].steer /\ tk[m].pc # "none" => ms[m].steer
  /\ ~cd => \A m, h \in DOMAIN ms :
              /\ ms[m].from \in Slots /\ Awaiting(ms[m])
              /\ h > m /\ ms[h].from = User /\ ms[h].retryOf = 0
              => h = rt.msg /\ rt.step = "sweep"
Core(ms, t, tk, rt, cr, lax, cd) ==
  /\ Typed(ms, t, tk, rt, cr) /\ Queued(ms, t) /\ Fresh(ms, tk, cr) /\ Admitted(ms, t, tk, rt, cr)
  /\ Once(ms, tk, cr) /\ Lanes(ms, tk) /\ Counts(ms, t, tk, lax) /\ Held(ms, t, lax)
  /\ Waits(ms, t, tk, rt, lax /\ cd) /\ Oldest(ms, tk, lax) /\ Relays(ms, tk, rt, cd)

LEMMA NumberFacts ==
  /\ MaxMessages \in Nat /\ Numbers = 1..MaxMessages /\ 0 \notin Numbers
  /\ IsFiniteSet(Numbers) /\ Cardinality(Numbers) = MaxMessages
<1>1. MaxMessages \in Nat /\ Numbers = 1..MaxMessages
  BY Bounds DEF Numbers
<1>2. IsFiniteSet(1..MaxMessages) /\ Cardinality(1..MaxMessages) = MaxMessages
  BY <1>1, FS_Interval
<1> QED BY <1>1, <1>2

LEMMA DomainFacts ==
  ASSUME NEW ms, NEW t, NEW tk, NEW rt, NEW cr, Typed(ms, t, tk, rt, cr)
  PROVE  /\ DOMAIN ms = 1..Len(ms) /\ Len(ms) \in 0..MaxMessages /\ DOMAIN ms \subseteq Numbers
         /\ \A m \in DOMAIN ms : m \in Numbers /\ m \in Nat /\ ms[m] \in Message
BY NumberFacts DEF Typed

LEMMA CoreCalm ==
  ASSUME NEW ms, NEW t, NEW tk, NEW rt, NEW cr, NEW lax, NEW cd,
         Core(ms, t, tk, rt, cr, lax, cd), NEW ns, Calm(ms, ns)
  PROVE  Core(ns, t, tk, rt, cr, lax, cd)
<1>1. Typed(ns, t, tk, rt, cr)
  BY DEF Core, Typed, Calm
<1>2. DOMAIN ns = DOMAIN ms /\ Len(ns) = Len(ms)
  BY DEF Calm
<1>3. \A m \in DOMAIN ms :
        /\ ns[m].from = ms[m].from /\ ns[m].to = ms[m].to /\ ns[m].steer = ms[m].steer
        /\ ns[m].retryOf = ms[m].retryOf
        /\ InFifo(ns[m]) => InFifo(ms[m])
        /\ Open(ns[m]) => Open(ms[m])
        /\ AtNative(ns[m]) => AtNative(ms[m])
        /\ Awaiting(ns[m]) => Awaiting(ms[m])
  BY DEF Calm, Tame, Awaiting
<1>4. Running(tk) \subseteq DOMAIN ms
  BY DEF Core, Fresh, Running
<1>5. Queued(ns, t) /\ Fresh(ns, tk, cr)
  BY <1>2 DEF Core, Queued, Fresh
<1>6. Admitted(ns, t, tk, rt, cr)
  <2>1. rt.msg # 0 /\ rt.msg = Len(ms) => rt.msg \in DOMAIN ms
    BY DomainFacts DEF Core
  <2> QED BY <2>1, <1>2, <1>3 DEF Core, Admitted
<1>7. Once(ns, tk, cr) /\ Lanes(ns, tk)
  BY <1>2, <1>3 DEF Core, Once, Lanes
<1>8. Counts(ns, t, tk, lax)
  <2>1. {m \in Running(tk) : ns[m].to = t.owner} = {m \in Running(tk) : ms[m].to = t.owner}
    BY <1>3, <1>4
  <2> QED BY <2>1, <1>3, <1>4 DEF Core, Counts
<1>9. Held(ns, t, lax) /\ Waits(ns, t, tk, rt, lax /\ cd) /\ Oldest(ns, tk, lax)
  BY <1>2, <1>3 DEF Core, Held, Waits, Oldest
<1>10. Relays(ns, tk, rt, cd)
  BY <1>2, <1>3 DEF Core, Relays
<1> QED BY <1>1, <1>5, <1>6, <1>7, <1>8, <1>9, <1>10 DEF Core

LEMMA CoreBoundary ==
  ASSUME NEW ms, NEW t, NEW tk, NEW rt, NEW cr, NEW lax, NEW cd,
         Core(ms, t, tk, rt, cr, lax, cd), NEW b \in BOOLEAN
  PROVE  Core(ms, [t EXCEPT !.boundary = b], tk, rt, cr, lax, cd)
<1> DEFINE u == [t EXCEPT !.boundary = b]
<1>1. t \in TurnState
  BY DEF Core, Typed
<1>2. u \in TurnState /\ u.owner = t.owner /\ u.queue = t.queue /\ u.submitting = t.submitting
  BY <1>1 DEF TurnState
<1> HIDE DEF u
<1>3. Typed(ms, u, tk, rt, cr) /\ Queued(ms, u) /\ Admitted(ms, u, tk, rt, cr)
  BY <1>2 DEF Core, Typed, Queued, Admitted
<1>4. Counts(ms, u, tk, lax) /\ Held(ms, u, lax) /\ Waits(ms, u, tk, rt, lax /\ cd)
  BY <1>2 DEF Core, Counts, Held, Waits
<1> QED BY <1>3, <1>4 DEF Core, u

LEMMA TaskMoved ==
  ASSUME NEW tk \in [Numbers -> Goroutine], NEW m \in Numbers, NEW pc \in Pcs
  PROVE  LET tn == [tk EXCEPT ![m].pc = pc]
         IN /\ tn \in [Numbers -> Goroutine]
            /\ tn[m].pc = pc /\ tn[m].steer = tk[m].steer
            /\ \A i \in Numbers \ {m} : tn[i] = tk[i]
<1> DEFINE tn == [tk EXCEPT ![m].pc = pc]
<1>1. tk[m] \in Goroutine
  OBVIOUS
<1>2. [tk[m] EXCEPT !.pc = pc] \in Goroutine
  BY <1>1 DEF Goroutine
<1>3. tn = [tk EXCEPT ![m] = [tk[m] EXCEPT !.pc = pc]]
  OBVIOUS
<1>4. tn \in [Numbers -> Goroutine]
  BY <1>2, <1>3
<1>5. [tk[m] EXCEPT !.pc = pc].pc = pc /\ [tk[m] EXCEPT !.pc = pc].steer = tk[m].steer
  BY <1>1 DEF Goroutine
<1> QED BY <1>3, <1>4, <1>5

\* A goroutine goes on.
LEMMA CoreTask ==
  ASSUME NEW ms, NEW t, NEW tk, NEW rt, NEW cr, NEW lax, NEW cd,
         Core(ms, t, tk, rt, cr, lax, cd),
         NEW m \in DOMAIN ms, NEW pc \in Pcs \ {"none", "wait"}, tk[m].pc # "none",
         pc \in Locking => \/ tk[m].pc \in Locking
                           \/ \A n \in DOMAIN ms : ms[n].to = ms[m].to => tk[n].pc \notin Locking,
         pc \in Locking => ~InFifo(ms[m]),
         pc = "native" => cr[m] = 0,
         pc = "over" => ~Awaiting(ms[m])
  PROVE  Core(ms, t, [tk EXCEPT ![m].pc = pc], rt, cr, lax, cd)
<1> DEFINE tn == [tk EXCEPT ![m].pc = pc]
<1>1. /\ DOMAIN ms \subseteq Numbers /\ m \in Numbers
      /\ tk \in [Numbers -> Goroutine] /\ pc \in Pcs
  BY DomainFacts DEF Core, Typed
<1>2. /\ tn \in [Numbers -> Goroutine]
      /\ tn[m].pc = pc /\ tn[m].steer = tk[m].steer
      /\ \A i \in Numbers \ {m} : tn[i] = tk[i]
  BY <1>1, TaskMoved
<1> HIDE DEF tn
<1>3. Running(tn) = Running(tk)
  BY <1>1, <1>2 DEF Running
<1>4. \A i \in DOMAIN ms : i = m \/ tn[i] = tk[i]
  BY <1>1, <1>2
<1>5. Typed(ms, t, tn, rt, cr) /\ Fresh(ms, tn, cr)
  BY <1>2 DEF Core, Typed, Fresh
<1>6. Admitted(ms, t, tn, rt, cr)
  <2>1. CASE rt.msg = 0
    BY <2>1 DEF Core, Admitted
  <2>2. CASE rt.msg # 0
    <3>1. rt.msg # m /\ rt.msg = Len(ms) /\ tk[rt.msg].pc = "none"
      BY <2>2 DEF Core, Admitted
    <3>2. rt.msg \in Numbers
      BY <2>2, <3>1, DomainFacts DEF Core
    <3> QED BY <3>1, <3>2, <1>2, <2>2 DEF Core, Admitted
  <2> QED BY <2>1, <2>2
<1>7. Once(ms, tn, cr)
  BY <1>2, <1>4 DEF Core, Once, Locking
<1>8. Lanes(ms, tn)
  BY <1>2, <1>4 DEF Core, Lanes
<1>9. Counts(ms, t, tn, lax)
  BY <1>3 DEF Core, Counts
<1>10. Waits(ms, t, tn, rt, lax /\ cd)
  BY <1>2, <1>4 DEF Core, Waits
<1>11. Oldest(ms, tn, lax)
  BY <1>2, <1>4 DEF Core, Oldest
<1>12. Relays(ms, tn, rt, cd)
  BY <1>2, <1>4 DEF Core, Relays
<1> QED BY <1>5, <1>6, <1>7, <1>8, <1>9, <1>10, <1>11, <1>12 DEF Core, tn

\* A runtime may have taken what a goroutine hands it.
LEMMA CoreCross ==
  ASSUME NEW ms, NEW t, NEW tk, NEW rt, NEW cr, NEW lax, NEW cd,
         Core(ms, t, tk, rt, cr, lax, cd),
         NEW m \in DOMAIN ms, NEW pc \in {"accepted", "failing", "over"}, tk[m].pc = "native"
  PROVE  Core(ms, t, [tk EXCEPT ![m].pc = pc], rt, [cr EXCEPT ![m] = Min({2, @ + 1})], lax, cd)
<1> DEFINE cn == [cr EXCEPT ![m] = Min({2, @ + 1})]
           tn == [tk EXCEPT ![m].pc = pc]
<1>1. cr \in [Numbers -> 0..2] /\ m \in Numbers /\ cr[m] = 0 /\ ~InFifo(ms[m]) /\ DOMAIN ms \subseteq Numbers
  BY DomainFacts DEF Core, Typed, Once, Locking
<1>2. Min({2, 0 + 1}) = 1
  BY MinOf
<1>3. cn \in [Numbers -> 0..2] /\ cn[m] = 1 /\ \A i \in Numbers \ {m} : cn[i] = cr[i]
  BY <1>1, <1>2
<1>4. Core(ms, t, tn, rt, cr, lax, cd)
  BY <1>1, CoreTask DEF Pcs, Locking, Awaiting
<1>5. tn[m].pc = pc
  <2>1. tk \in [Numbers -> Goroutine] /\ pc \in Pcs
    BY DEF Core, Typed, Pcs
  <2> QED BY <2>1, <1>1, TaskMoved
<1> HIDE DEF cn, tn
<1>6. Typed(ms, t, tn, rt, cn) /\ Fresh(ms, tn, cn)
  BY <1>3, <1>4 DEF Core, Typed, Fresh
<1>7. Admitted(ms, t, tn, rt, cn)
  <2>1. CASE rt.msg = 0
    BY <2>1, <1>4 DEF Core, Admitted
  <2>2. CASE rt.msg # 0
    <3>1. rt.msg # m /\ rt.msg = Len(ms)
      BY <2>2, <1>4, <1>5 DEF Core, Admitted
    <3>2. rt.msg \in Numbers
      BY <2>2, <3>1, <1>4, DomainFacts DEF Core
    <3> QED BY <3>1, <3>2, <1>3, <1>4, <2>2 DEF Core, Admitted
  <2> QED BY <2>1, <2>2
<1>8. Once(ms, tn, cn)
  BY <1>1, <1>3, <1>4, <1>5 DEF Core, Once
<1> QED BY <1>4, <1>6, <1>7, <1>8 DEF Core, cn, tn

LEMMA MessageMoved ==
  ASSUME NEW ms \in Seq(Message), NEW m \in DOMAIN ms, NEW q \in Message
  PROVE  LET ns == [ms EXCEPT ![m] = q]
         IN /\ ns \in Seq(Message) /\ Len(ns) = Len(ms) /\ DOMAIN ns = DOMAIN ms
            /\ ns[m] = q /\ \A i \in DOMAIN ms \ {m} : ns[i] = ms[i]
<1> DEFINE ns == [ms EXCEPT ![m] = q]
<1>1. Len(ms) \in Nat /\ DOMAIN ms = 1..Len(ms)
  OBVIOUS
<1>2. \A i \in 1..Len(ms) : ms[i] \in Message
  OBVIOUS
<1>3. ns \in [1..Len(ms) -> Message] /\ ns[m] = q /\ \A i \in DOMAIN ms \ {m} : ns[i] = ms[i]
  BY <1>1, <1>2
<1> HIDE DEF ns
<1>4. ns \in Seq(Message) /\ DOMAIN ns = DOMAIN ms
  BY <1>1, <1>3, SeqDef
<1>5. Len(ns) = Len(ms)
  BY <1>1, <1>3, <1>4, LenProperties
<1> QED BY <1>3, <1>4, <1>5 DEF ns

\* A waiting delivery gets the lock and records the submission boundary.
LEMMA CoreSubmit ==
  ASSUME NEW ms, NEW t, NEW tk, NEW rt, NEW cr, NEW lax, NEW cd,
         Core(ms, t, tk, rt, cr, lax, cd),
         NEW m \in DOMAIN ms, tk[m].pc = "wait", Awaiting(ms[m]),
         \A n \in DOMAIN ms : ms[n].to = ms[m].to => tk[n].pc \notin Locking
  PROVE  Core([ms EXCEPT ![m] = Delivered(@, "submitting")], t, [tk EXCEPT ![m].pc = "native"],
              rt, cr, lax, cd)
<1> DEFINE q == Delivered(ms[m], "submitting")
           ns == [ms EXCEPT ![m] = q]
           tn == [tk EXCEPT ![m].pc = "native"]
<1>1. /\ DOMAIN ms \subseteq Numbers /\ m \in Numbers /\ ms \in Seq(Message) /\ ms[m] \in Message
      /\ tk \in [Numbers -> Goroutine] /\ "native" \in Pcs
  BY DomainFacts DEF Core, Typed, Pcs
<1>2. /\ q \in Message /\ q.from = ms[m].from /\ q.to = ms[m].to /\ q.steer = ms[m].steer
      /\ q.retryOf = ms[m].retryOf /\ ~InFifo(q) /\ AtNative(q) /\ ~Awaiting(q)
  BY <1>1 DEF Delivered, DeliveryAllowed, Awaiting, InFifo, AtNative, Message
<1>3. /\ ns \in Seq(Message) /\ Len(ns) = Len(ms) /\ DOMAIN ns = DOMAIN ms
      /\ ns[m] = q /\ \A i \in DOMAIN ms \ {m} : ns[i] = ms[i]
  BY <1>1, <1>2, MessageMoved
<1>4. /\ tn \in [Numbers -> Goroutine] /\ tn[m].pc = "native" /\ tn[m].steer = tk[m].steer
      /\ \A i \in Numbers \ {m} : tn[i] = tk[i]
  BY <1>1, TaskMoved
<1> HIDE DEF q, ns, tn
<1>5. Running(tn) = Running(tk) /\ m \in Running(tk) /\ Running(tk) \subseteq DOMAIN ms
  <2>1. Running(tk) \subseteq DOMAIN ms
    BY DEF Core, Fresh, Running
  <2> QED BY <2>1, <1>1, <1>4 DEF Running
<1>6. \A i \in DOMAIN ms : /\ i = m \/ (tn[i] = tk[i] /\ ns[i] = ms[i])
                           /\ ns[i].from = ms[i].from /\ ns[i].to = ms[i].to /\ ns[i].steer = ms[i].steer
                           /\ ns[i].retryOf = ms[i].retryOf
  BY <1>1, <1>2, <1>3, <1>4
<1>7. Typed(ns, t, tn, rt, cr) /\ Queued(ns, t) /\ Fresh(ns, tn, cr)
  BY <1>1, <1>3, <1>4 DEF Core, Typed, Queued, Fresh
<1>8. Admitted(ns, t, tn, rt, cr)
  <2>1. CASE rt.msg = 0
    BY <2>1 DEF Core, Admitted
  <2>2. CASE rt.msg # 0
    <3>1. rt.msg # m /\ rt.msg = Len(ms)
      BY <2>2 DEF Core, Admitted
    <3>2. rt.msg \in DOMAIN ms
      BY <2>2, <3>1, DomainFacts DEF Core
    <3> QED BY <3>1, <3>2, <1>3, <1>6, <2>2 DEF Core, Admitted
  <2> QED BY <2>1, <2>2
<1>9. Once(ns, tn, cr)
  <2>1. cr[m] = 0
    BY DEF Core, Once, Awaiting
  <2> QED BY <2>1, <1>2, <1>3, <1>4, <1>6 DEF Core, Once
<1>10. Lanes(ns, tn)
  BY <1>3, <1>4, <1>6 DEF Core, Lanes
<1>11. Counts(ns, t, tn, lax)
  <2>1. {i \in Running(tk) : ns[i].to = t.owner} = {i \in Running(tk) : ms[i].to = t.owner}
    BY <1>5, <1>6
  <2> QED BY <2>1, <1>5, <1>6 DEF Core, Counts
<1>12. Held(ns, t, lax)
  <2>1. ~lax => ms[m].to = t.owner
    BY <1>5 DEF Core, Counts
  <2> QED BY <2>1, <1>3, <1>6 DEF Core, Held
<1>13. Waits(ns, t, tn, rt, lax /\ cd) /\ Oldest(ns, tn, lax)
  BY <1>2, <1>3, <1>4, <1>6 DEF Core, Waits, Oldest
<1>14. Relays(ns, tn, rt, cd)
  BY <1>2, <1>3, <1>4, <1>6 DEF Core, Relays
<1> QED BY <1>7, <1>8, <1>9, <1>10, <1>11, <1>12, <1>13, <1>14 DEF Core, q, ns, tn

\* A refused steer goes back to the FIFO.
LEMMA CoreFallback ==
  ASSUME NEW ms, NEW t, NEW tk, NEW rt, NEW cr, NEW lax, NEW cd,
         Core(ms, t, tk, rt, cr, lax, cd),
         NEW m \in DOMAIN ms, tk[m].pc = "native", tk[m].steer = TRUE
  PROVE  Core([ms EXCEPT ![m] = Delivered(@, "queued")], t, [tk EXCEPT ![m].pc = "fellback"],
              rt, cr, lax, cd)
<1> DEFINE q == Delivered(ms[m], "queued")
           ns == [ms EXCEPT ![m] = q]
           tn == [tk EXCEPT ![m].pc = "fellback"]
<1>1. /\ DOMAIN ms \subseteq Numbers /\ m \in Numbers /\ ms \in Seq(Message) /\ ms[m] \in Message
      /\ tk \in [Numbers -> Goroutine] /\ "fellback" \in Pcs
  BY DomainFacts DEF Core, Typed, Pcs
<1>2. /\ q \in Message /\ q.from = ms[m].from /\ q.to = ms[m].to /\ q.steer = ms[m].steer
      /\ q.retryOf = ms[m].retryOf /\ (Open(q) => Open(ms[m])) /\ (AtNative(q) => AtNative(ms[m]))
  BY <1>1 DEF Delivered, Awaiting, InFifo, AtNative, Message, Open
<1>3. /\ ns \in Seq(Message) /\ Len(ns) = Len(ms) /\ DOMAIN ns = DOMAIN ms
      /\ ns[m] = q /\ \A i \in DOMAIN ms \ {m} : ns[i] = ms[i]
  BY <1>1, <1>2, MessageMoved
<1>4. /\ tn \in [Numbers -> Goroutine] /\ tn[m].pc = "fellback" /\ tn[m].steer = tk[m].steer
      /\ \A i \in Numbers \ {m} : tn[i] = tk[i]
  BY <1>1, TaskMoved
<1>s. ms[m].steer
  BY DEF Core, Relays
<1> HIDE DEF q, ns, tn
<1>5. Running(tn) = Running(tk) /\ m \in Running(tk) /\ Running(tk) \subseteq DOMAIN ms
  <2>1. Running(tk) \subseteq DOMAIN ms
    BY DEF Core, Fresh, Running
  <2> QED BY <2>1, <1>1, <1>4 DEF Running
<1>6. \A i \in DOMAIN ms : /\ i = m \/ (tn[i] = tk[i] /\ ns[i] = ms[i])
                           /\ ns[i].from = ms[i].from /\ ns[i].to = ms[i].to /\ ns[i].steer = ms[i].steer
                           /\ ns[i].retryOf = ms[i].retryOf
                           /\ Open(ns[i]) => Open(ms[i])
                           /\ AtNative(ns[i]) => AtNative(ms[i])
  BY <1>1, <1>2, <1>3, <1>4
<1>7. Typed(ns, t, tn, rt, cr) /\ Queued(ns, t) /\ Fresh(ns, tn, cr)
  BY <1>1, <1>3, <1>4 DEF Core, Typed, Queued, Fresh
<1>8. Admitted(ns, t, tn, rt, cr)
  <2>1. CASE rt.msg = 0
    BY <2>1 DEF Core, Admitted
  <2>2. CASE rt.msg # 0
    <3>1. rt.msg # m /\ rt.msg = Len(ms)
      BY <2>2 DEF Core, Admitted
    <3>2. rt.msg \in DOMAIN ms
      BY <2>2, <3>1, DomainFacts DEF Core
    <3> QED BY <3>1, <3>2, <1>3, <1>6, <2>2 DEF Core, Admitted
  <2> QED BY <2>1, <2>2
<1>9. Once(ns, tn, cr)
  <2>1. cr[m] = 0
    BY DEF Core, Once
  <2> QED BY <2>1, <1>2, <1>3, <1>4, <1>6 DEF Core, Once, Locking
<1>10. Lanes(ns, tn)
  BY <1>3, <1>4, <1>6 DEF Core, Lanes, Locking
<1>11. Counts(ns, t, tn, lax)
  <2>1. {i \in Running(tk) : ns[i].to = t.owner} = {i \in Running(tk) : ms[i].to = t.owner}
    BY <1>5, <1>6
  <2> QED BY <2>1, <1>5, <1>6 DEF Core, Counts
<1>12. Held(ns, t, lax)
  BY <1>3, <1>6 DEF Core, Held
<1>13. Waits(ns, t, tn, rt, lax /\ cd)
  BY <1>3, <1>4, <1>6 DEF Core, Waits
<1>14. Oldest(ns, tn, lax)
  <2>1. SUFFICES ASSUME ~lax, NEW w \in DOMAIN ms, tn[w].pc = "wait", ~tn[w].steer, NEW i \in DOMAIN ms
                 PROVE  /\ i < w => ~Awaiting(ns[i])
                        /\ i # w /\ tn[i].pc # "none" => w < i
    BY <1>3 DEF Oldest
  <2>2. w # m /\ tk[w].pc = "wait" /\ ~tk[w].steer
    BY <2>1, <1>4, <1>6
  <2>3. w < m
    BY <2>1, <2>2 DEF Core, Oldest
  <2>4. w \in Nat /\ m \in Nat /\ i \in Nat
    BY DomainFacts DEF Core
  <2>5. i # m => (i < w => ~Awaiting(ns[i])) /\ (i # w /\ tn[i].pc # "none" => w < i)
    BY <2>1, <2>2, <1>6 DEF Core, Oldest
  <2> QED BY <2>3, <2>4, <2>5
<1>15. Relays(ns, tn, rt, cd)
  <2>1. ms[m].from \notin Slots
    BY <1>s DEF Core, Relays
  <2> QED BY <2>1, <1>3, <1>4, <1>6 DEF Core, Relays
<1> QED BY <1>7, <1>8, <1>9, <1>10, <1>11, <1>12, <1>13, <1>14, <1>15 DEF Core, q, ns, tn

LEMMA RunningFacts ==
  ASSUME NEW tk
  PROVE  /\ IsFiniteSet(Running(tk)) /\ Cardinality(Running(tk)) \in Nat
         /\ Cardinality(Running(tk)) <= MaxMessages
         /\ (Cardinality(Running(tk)) = 0 => Running(tk) = {})
         /\ \A S \in SUBSET Running(tk) :
              /\ IsFiniteSet(S) /\ Cardinality(S) \in Nat /\ Cardinality(S) <= Cardinality(Running(tk))
              /\ Cardinality(S) = 0 => S = {}
<1>1. Running(tk) \subseteq Numbers
  BY DEF Running
<1>2. IsFiniteSet(Running(tk)) /\ Cardinality(Running(tk)) <= MaxMessages
  BY <1>1, NumberFacts, FS_Subset
<1>3. Cardinality(Running(tk)) \in Nat /\ (Cardinality(Running(tk)) = 0 => Running(tk) = {})
  BY <1>2, FS_CardinalityType, FS_EmptySet
<1>4. ASSUME NEW S \in SUBSET Running(tk)
      PROVE  /\ IsFiniteSet(S) /\ Cardinality(S) \in Nat /\ Cardinality(S) <= Cardinality(Running(tk))
             /\ Cardinality(S) = 0 => S = {}
  <2>1. IsFiniteSet(S) /\ Cardinality(S) <= Cardinality(Running(tk))
    BY <1>2, FS_Subset
  <2> QED BY <2>1, FS_CardinalityType, FS_EmptySet
<1> QED BY <1>2, <1>3, <1>4

\* The Turn is given up when nothing of its owner runs or is open at the runtime.
LEMMA CoreRelease ==
  ASSUME NEW ms, NEW t, NEW tk, NEW rt, NEW cr, NEW lax, NEW cd,
         Core(ms, t, tk, rt, cr, lax, cd),
         lax \/ (t.submitting = 0 /\ \A m \in DOMAIN ms : ms[m].to = t.owner => ~(Open(ms[m]) /\ AtNative(ms[m])))
  PROVE  Core(ms, [t EXCEPT !.owner = None, !.submitting = 0, !.boundary = FALSE], tk, rt, cr, lax, cd)
<1> DEFINE u == [t EXCEPT !.owner = None, !.submitting = 0, !.boundary = FALSE]
<1>1. t \in TurnState
  BY DEF Core, Typed
<1>2. u \in TurnState /\ u.owner = None /\ u.queue = t.queue /\ u.submitting = 0
  BY <1>1 DEF TurnState
<1> HIDE DEF u
<1>3. Typed(ms, u, tk, rt, cr) /\ Queued(ms, u) /\ Admitted(ms, u, tk, rt, cr)
  BY <1>2 DEF Core, Typed, Queued, Admitted
<1>4. Counts(ms, u, tk, lax)
  <2> DEFINE S == {m \in Running(tk) : ms[m].to = u.owner}
  <2>1. Cardinality(S) \in Nat
    BY RunningFacts
  <2>2. u.submitting <= Cardinality(S)
    BY <2>1, <1>2
  <2>3. ~lax => Cardinality(Running(tk)) = 0 /\ Running(tk) = {}
    BY RunningFacts DEF Core, Counts
  <2> QED BY <2>2, <2>3, <1>2 DEF Counts
<1>5. Held(ms, u, lax)
  BY DEF Core, Held
<1>6. Waits(ms, u, tk, rt, lax /\ cd)
  BY <1>2 DEF Core, Waits
<1> QED BY <1>3, <1>4, <1>5, <1>6 DEF Core, u

LEMMA Begun0 == ASSUME NEW tk, NEW st PROVE Begun(tk, 0, st) = tk
BY DEF Begun

LEMMA BegunMoved ==
  ASSUME NEW tk \in [Numbers -> Goroutine], NEW m \in Numbers, NEW st \in BOOLEAN
  PROVE  LET tn == Begun(tk, m, st)
         IN /\ tn \in [Numbers -> Goroutine]
            /\ tn[m].pc = "wait" /\ tn[m].steer = st
            /\ \A i \in Numbers \ {m} : tn[i] = tk[i]
<1> DEFINE g == [pc |-> "wait", steer |-> st]
           tn == [tk EXCEPT ![m] = g]
<1>1. m # 0
  BY NumberFacts
<1>2. g \in Goroutine
  BY DEF Goroutine, Pcs
<1>3. tn \in [Numbers -> Goroutine] /\ tn[m] = g /\ \A i \in Numbers \ {m} : tn[i] = tk[i]
  BY <1>2
<1>4. g.pc = "wait" /\ g.steer = st
  OBVIOUS
<1>5. Begun(tk, m, st) = tn
  BY <1>1 DEF Begun
<1> HIDE DEF tn, g
<1> QED BY <1>3, <1>4, <1>5

\* The Turn that nobody owns goes to the oldest waiting message.
LEMMA CoreReserve ==
  ASSUME NEW ms, NEW t, NEW tk, NEW rt, NEW cr, NEW lax, NEW cd,
         Core(ms, t, tk, rt, cr, lax, cd), t.owner = None
  PROVE  LET res == Reserve(t, ms)
         IN /\ Core(res.msgs, res.turn, Begun(tk, res.start, FALSE), rt, cr, lax, cd)
            /\ Calm(ms, res.msgs)
<1> DEFINE res == Reserve(t, ms)
           ns == res.msgs
           u == res.turn
           k == res.start
           tn == Begun(tk, k, FALSE)
<1>1. Typed(ms, t, tk, rt, cr) /\ ms \in Seq(Message) /\ t \in TurnState /\ Queued(ms, t)
      /\ tk \in [Numbers -> Goroutine] /\ Running(tk) \subseteq DOMAIN ms
  BY DEF Core, Typed, Fresh, Running
<1>2. Reserved(t, ms, res)
  BY <1>1, ReserveResult
<1>3. Calm(ms, ns) /\ u \in TurnState /\ Queued(ms, u) /\ DOMAIN ns = DOMAIN ms
  BY <1>2 DEF Reserved, Calm
<1>4. Core(ns, t, tk, rt, cr, lax, cd)
  BY <1>3, CoreCalm
<1>5. \A m \in DOMAIN ms : /\ Awaiting(ns[m]) <=> Awaiting(ms[m])
                           /\ ns[m].to = ms[m].to
  BY <1>2, <1>3 DEF Reserved, Calm, Tame
<1>n. /\ \A m \in DOMAIN ms : m \in Numbers /\ m \in Nat /\ ms[m] \in Message
      /\ DOMAIN ms \subseteq Numbers
  BY <1>1, DomainFacts
<1>6. ~lax => /\ Running(tk) = {}
              /\ \A m \in DOMAIN ms : ~(Open(ns[m]) /\ AtNative(ns[m]))
  <2>1. \A m \in DOMAIN ms : ns[m].to # None
    <3>1. \A m \in DOMAIN ms : ns[m].to \in Slots
      BY <1>n, <1>5 DEF Message
    <3> QED BY <3>1, TwoSlots
  <2>2. ~lax => /\ \A m \in Running(tk) : ns[m].to = None
                /\ \A m \in DOMAIN ms : Open(ns[m]) /\ AtNative(ns[m]) => ns[m].to = None
    BY <1>4, <1>3 DEF Core, Counts, Held
  <2> HIDE DEF ns
  <2> QED BY <2>1, <2>2, <1>1
<1>7. CASE k = 0
  <2>1. tn = tk
    BY <1>7, Begun0
  <2>2. u = [t EXCEPT !.queue = <<>>] /\ \A m \in ToSet(t.queue) : ~Awaiting(ms[m])
    BY <1>2, <1>7 DEF Reserved
  <2>3. u.owner = t.owner /\ u.submitting = t.submitting /\ ToSet(u.queue) \subseteq ToSet(t.queue)
    BY <2>2, <1>1, <1>2 DEF TurnState, Reserved
  <2> HIDE DEF res, ns, u, k, tn
  <2>4. Typed(ns, u, tk, rt, cr) /\ Queued(ns, u)
    BY <1>3, <1>4 DEF Core, Typed, Queued
  <2>5. Admitted(ns, u, tk, rt, cr)
    BY <2>3, <1>4 DEF Core, Admitted
  <2>6. Counts(ns, u, tk, lax) /\ Held(ns, u, lax)
    BY <2>3, <1>4 DEF Core, Counts, Held
  <2>7. Waits(ns, u, tk, rt, lax /\ cd)
    <3>1. \A m \in DOMAIN ms : Awaiting(ns[m]) => m \notin ToSet(t.queue)
      BY <2>2, <1>5
    <3> QED BY <3>1, <1>3, <1>4 DEF Core, Waits
  <2>8. Core(ns, u, tk, rt, cr, lax, cd)
    BY <2>4, <2>5, <2>6, <2>7, <1>4 DEF Core
  <2> QED BY <2>8, <2>1, <1>3 DEF res, ns, u, k, tn
<1>8. CASE k # 0
  <2>1. /\ k \in ToSet(t.queue) /\ Awaiting(ms[k]) /\ u.owner = ms[k].to /\ u.submitting = 1
        /\ ToSet(u.queue) \subseteq ToSet(t.queue)
        /\ \A m \in ToSet(u.queue) : k < m
        /\ \A m \in ToSet(t.queue) :
             m \in ToSet(u.queue) \/ m = k \/ (m < k /\ ~Awaiting(ms[m]))
    BY <1>2, <1>8 DEF Reserved
  <2> HIDE DEF res, ns, u, k, tn
  <2>2. k \in DOMAIN ms /\ k \in Numbers /\ k \in Nat
    BY <2>1, <1>1, <1>n DEF Queued
  <2>3. /\ tn \in [Numbers -> Goroutine] /\ tn[k].pc = "wait" /\ tn[k].steer = FALSE
        /\ \A i \in Numbers \ {k} : tn[i] = tk[i]
    BY <2>2, <1>1, BegunMoved DEF tn
  <2>4. Running(tn) = Running(tk) \cup {k}
    BY <2>2, <2>3 DEF Running
  <2>5. Typed(ns, u, tn, rt, cr) /\ Queued(ns, u) /\ Fresh(ns, tn, cr)
    BY <1>3, <1>4, <2>2, <2>3 DEF Core, Typed, Queued, Fresh
  <2>6. Admitted(ns, u, tn, rt, cr)
    <3>1. CASE rt.msg = 0
      BY <3>1, <1>4 DEF Core, Admitted
    <3>2. CASE rt.msg # 0
      <4>1. rt.msg # k /\ rt.msg = Len(ns) /\ rt.msg \notin ToSet(u.queue)
        BY <3>2, <2>1, <1>4 DEF Core, Admitted
      <4>2. rt.msg \in Numbers
        BY <3>2, <4>1, <1>4, DomainFacts DEF Core
      <4> QED BY <4>1, <4>2, <3>2, <2>3, <1>4 DEF Core, Admitted
    <3> QED BY <3>1, <3>2
  <2>7. Once(ns, tn, cr)
    <3>1. InFifo(ns[k])
      BY <2>1, <2>2, <1>5 DEF Awaiting
    <3> QED BY <3>1, <2>2, <2>3, <1>3, <1>4, <1>n DEF Core, Once, Locking
  <2>8. Lanes(ns, tn)
    BY <2>2, <2>3, <1>3, <1>4, <1>n DEF Core, Lanes, Locking
  <2>9. Counts(ns, u, tn, lax)
    <3> DEFINE S == {m \in Running(tn) : ns[m].to = u.owner}
    <3>1. k \in S
      BY <2>1, <2>2, <2>4, <1>5
    <3>2. Cardinality(S) \in Nat /\ Cardinality(S) # 0
      <4>1. IsFiniteSet(S) /\ Cardinality(S) \in Nat /\ (Cardinality(S) = 0 => S = {})
        BY RunningFacts
      <4> QED BY <4>1, <3>1
    <3>3. ~lax => Running(tn) = {k}
      BY <2>4, <1>6
    <3>4. Cardinality({k}) = 1
      BY FS_Singleton
    <3>5. u.submitting <= Cardinality(S)
      BY <3>2, <2>1
    <3> QED BY <3>3, <3>4, <3>5, <2>1, <2>2, <1>5 DEF Counts
  <2>10. Held(ns, u, lax)
    BY <1>6, <1>3 DEF Held
  <2>11. Waits(ns, u, tn, rt, lax /\ cd)
    <3>1. SUFFICES ASSUME ~(lax /\ cd), NEW m \in DOMAIN ms, Awaiting(ns[m])
                   PROVE  m \in ToSet(u.queue) \/ tn[m].pc # "none" \/ m = rt.msg
      BY <1>3 DEF Waits
    <3>2. Awaiting(ms[m]) /\ m \in Numbers
      BY <3>1, <1>5, <1>n
    <3>3. m \in ToSet(t.queue) \/ tk[m].pc # "none" \/ m = rt.msg
      BY <3>1, <1>3, <1>4 DEF Core, Waits
    <3> QED BY <3>2, <3>3, <2>1, <2>3
  <2>12. Oldest(ns, tn, lax)
    <3>1. SUFFICES ASSUME ~lax, NEW w \in DOMAIN ms, tn[w].pc = "wait", NEW i \in DOMAIN ms
                   PROVE  (i < w => ~Awaiting(ns[i])) /\ (i # w /\ tn[i].pc # "none" => w < i)
      BY <1>3 DEF Oldest
    <3>2. w = k /\ (i # k => tn[i].pc = "none")
      <4>1. w \in Running(tn) /\ (tn[i].pc # "none" => i \in Running(tn))
        BY <3>1, <1>n DEF Running
      <4> QED BY <4>1, <3>1, <2>4, <1>6
    <3>3. ASSUME i < k, Awaiting(ns[i]) PROVE FALSE
      <4>1. Awaiting(ms[i]) /\ i \in Nat /\ i \in Numbers
        BY <3>3, <1>5, <1>n
      <4>2. i \in ToSet(t.queue) \/ tk[i].pc # "none" \/ i = rt.msg
        BY <3>1, <3>3, <1>3, <1>4 DEF Core, Waits
      <4>3. tk[i].pc = "none"
        BY <3>1, <4>1, <1>6 DEF Running
      <4>4. i # rt.msg
        <5>1. CASE rt.msg = 0
          BY <5>1, <4>1, NumberFacts
        <5>2. CASE rt.msg # 0
          <6>1. rt.msg = Len(ms)
            BY <5>2 DEF Core, Admitted
          <6>2. DOMAIN ms = 1..Len(ms) /\ Len(ms) \in Nat
            BY <1>1
          <6> QED BY <6>1, <6>2, <3>3, <2>2, <4>1
        <5> QED BY <5>1, <5>2
      <4>5. i \notin ToSet(u.queue)
        BY <3>3, <2>1, <2>2, <4>1
      <4> QED BY <4>1, <4>2, <4>3, <4>4, <4>5, <3>3, <2>1, <2>2
    <3> QED BY <3>2, <3>3
  <2>13. Relays(ns, tn, rt, cd)
    BY <2>2, <2>3, <1>3, <1>4, <1>n DEF Core, Relays
  <2>14. Core(ns, u, tn, rt, cr, lax, cd)
    BY <2>5, <2>6, <2>7, <2>8, <2>9, <2>10, <2>11, <2>12, <2>13 DEF Core
  <2> QED BY <2>14, <1>3 DEF res, ns, u, k, tn
<1> QED BY <1>7, <1>8

\* Only the queue of the Turn changes: what is still awaiting stays in it.
LEMMA CoreQueue ==
  ASSUME NEW ms, NEW t, NEW tk, NEW rt, NEW cr, NEW lax, NEW cd,
         Core(ms, t, tk, rt, cr, lax, cd), NEW q \in Seq(Numbers),
         Queued(ms, [t EXCEPT !.queue = q]), rt.msg \notin ToSet(q),
         \A m \in ToSet(t.queue) \cap DOMAIN ms : Awaiting(ms[m]) => m \in ToSet(q)
  PROVE  Core(ms, [t EXCEPT !.queue = q], tk, rt, cr, lax, cd)
<1> DEFINE u == [t EXCEPT !.queue = q]
<1>1. t \in TurnState
  BY DEF Core, Typed
<1>2. u \in TurnState /\ u.owner = t.owner /\ u.queue = q /\ u.submitting = t.submitting
  BY <1>1 DEF TurnState
<1> HIDE DEF u
<1>3. Typed(ms, u, tk, rt, cr) /\ Queued(ms, u)
  BY <1>2 DEF Core, Typed, u
<1>4. Admitted(ms, u, tk, rt, cr)
  BY <1>2 DEF Core, Admitted
<1>5. Counts(ms, u, tk, lax) /\ Held(ms, u, lax)
  BY <1>2 DEF Core, Counts, Held
<1>6. Waits(ms, u, tk, rt, lax /\ cd)
  BY <1>2 DEF Core, Waits
<1> QED BY <1>3, <1>4, <1>5, <1>6 DEF Core, u

LEMMA CoreEnqueue ==
  ASSUME NEW ms, NEW t, NEW tk, NEW rt, NEW cr, NEW lax, NEW cd,
         Core(ms, t, tk, rt, cr, lax, cd),
         NEW m \in DOMAIN ms, m \notin ToSet(t.queue), m # rt.msg
  PROVE  Core(ms, [t EXCEPT !.queue = Enqueued(t.queue, m)], tk, rt, cr, lax, cd)
<1> DEFINE q == Enqueued(t.queue, m)
<1>1. t \in TurnState /\ m \in Numbers /\ Queued(ms, t)
  BY DomainFacts DEF Core, Typed
<1>2. q \in Seq(Numbers) /\ ToSet(q) = ToSet(t.queue) \cup {m} /\ Increasing(q)
  BY <1>1, EnqueuedElements DEF TurnState, Queued
<1> HIDE DEF q
<1>3. Queued(ms, [t EXCEPT !.queue = q])
  BY <1>1, <1>2 DEF TurnState, Queued
<1>4. rt.msg \notin ToSet(q)
  <2>1. CASE rt.msg = 0
    <3>1. 0 \notin ToSet(t.queue)
      BY <1>1, DomainFacts, NumberFacts DEF Core, Queued
    <3> QED BY <2>1, <3>1, <1>2
  <2>2. CASE rt.msg # 0
    BY <2>2, <1>2 DEF Core, Admitted
  <2> QED BY <2>1, <2>2
<1> QED BY <1>2, <1>3, <1>4, CoreQueue DEF q

LEMMA CoreFilter ==
  ASSUME NEW ms, NEW t, NEW tk, NEW rt, NEW cr, NEW lax, NEW cd,
         Core(ms, t, tk, rt, cr, lax, cd),
         NEW S, \A m \in S \cap DOMAIN ms : ~Awaiting(ms[m])
  PROVE  Core(ms, [t EXCEPT !.queue = Kept(@, Numbers \ S)], tk, rt, cr, lax, cd)
<1> DEFINE q == Kept(t.queue, Numbers \ S)
<1>1. t \in TurnState /\ Queued(ms, t) /\ Numbers \in SUBSET Nat /\ t.queue \in Seq(Numbers)
  BY NumberFacts DEF Core, Typed, TurnState
<1>2. q \in Seq(Numbers) /\ ToSet(q) = ToSet(t.queue) \cap (Numbers \ S) /\ Increasing(q)
  BY <1>1, KeptElements DEF Queued
<1> HIDE DEF q
<1>3. Queued(ms, [t EXCEPT !.queue = q])
  BY <1>1, <1>2 DEF TurnState, Queued
<1>4. rt.msg \notin ToSet(q)
  <2>1. CASE rt.msg = 0
    BY <2>1, <1>2, NumberFacts
  <2>2. CASE rt.msg # 0
    BY <2>2, <1>2 DEF Core, Admitted
  <2> QED BY <2>1, <2>2
<1>5. \A m \in ToSet(t.queue) \cap DOMAIN ms : Awaiting(ms[m]) => m \in ToSet(q)
  BY <1>2, DomainFacts DEF Core
<1>6. Core(ms, [t EXCEPT !.queue = q], tk, rt, cr, lax, cd)
  BY <1>2, <1>3, <1>4, <1>5, CoreQueue
<1> QED BY <1>6 DEF q

\* The admission is over: its message has its place, or needs none.
LEMMA CoreAdmitted ==
  ASSUME NEW ms, NEW t, NEW tk, NEW rt, NEW cr, NEW lax, NEW cd,
         Core(ms, t, tk, rt, cr, lax, cd), rt.step # "sweep", rt.msg # 0, ~Awaiting(ms[rt.msg])
  PROVE  Core(ms, t, tk, NoRouting, cr, lax, cd)
<1>1. NoRouting \in Admission /\ NoRouting.msg = 0
  BY NumberFacts DEF NoRouting, Admission
<1>2. Typed(ms, t, tk, NoRouting, cr) /\ Admitted(ms, t, tk, NoRouting, cr)
  BY <1>1 DEF Core, Typed, Admitted
<1>3. Waits(ms, t, tk, NoRouting, lax /\ cd)
  BY DEF Core, Waits
<1>4. Relays(ms, tk, NoRouting, cd)
  BY DEF Core, Relays
<1> QED BY <1>2, <1>3, <1>4 DEF Core

LEMMA CorePlaced ==
  ASSUME NEW ms, NEW t, NEW tk, NEW rt, NEW cr, NEW lax, NEW cd,
         Core(ms, t, tk, rt, cr, lax, cd), rt.step # "sweep", rt.msg # 0
  PROVE  Core(ms, [t EXCEPT !.queue = Enqueued(t.queue, rt.msg)], tk, NoRouting, cr, lax, cd)
<1> DEFINE m == rt.msg
           q == Enqueued(t.queue, m)
           u == [t EXCEPT !.queue = q]
<1>1. /\ t \in TurnState /\ Queued(ms, t) /\ m = Len(ms) /\ m \notin ToSet(t.queue)
      /\ tk[m].pc = "none"
  BY DEF Core, Typed, Admitted
<1>2. m \in DOMAIN ms /\ m \in Numbers
  BY <1>1, DomainFacts DEF Core
<1>3. q \in Seq(Numbers) /\ ToSet(q) = ToSet(t.queue) \cup {m} /\ Increasing(q)
  BY <1>1, <1>2, EnqueuedElements DEF TurnState, Queued
<1> HIDE DEF q
<1>4. u \in TurnState /\ u.owner = t.owner /\ u.queue = q /\ u.submitting = t.submitting
  BY <1>1, <1>3 DEF TurnState
<1> HIDE DEF u, m
<1>5. NoRouting \in Admission /\ NoRouting.msg = 0
  BY NumberFacts DEF NoRouting, Admission
<1>6. Typed(ms, u, tk, NoRouting, cr) /\ Queued(ms, u) /\ Admitted(ms, u, tk, NoRouting, cr)
  BY <1>1, <1>2, <1>3, <1>4, <1>5 DEF Core, Typed, Admitted, Queued
<1>7. Counts(ms, u, tk, lax) /\ Held(ms, u, lax)
  BY <1>4 DEF Core, Counts, Held
<1>8. Waits(ms, u, tk, NoRouting, lax /\ cd)
  BY <1>3, <1>4 DEF Core, Waits, m
<1>9. Relays(ms, tk, NoRouting, cd)
  BY DEF Core, Relays
<1> QED BY <1>6, <1>7, <1>8, <1>9 DEF Core, u, q, m

\* The message that was admitted starts a Turn, or is steered into the running one.
LEMMA CoreStarted ==
  ASSUME NEW ms, NEW t, NEW tk, NEW rt, NEW cr, NEW lax, NEW cd,
         Core(ms, t, tk, rt, cr, lax, cd), rt.step # "sweep", rt.msg # 0, NEW st \in BOOLEAN,
         NEW u \in TurnState,
         u.owner = ms[rt.msg].to /\ u.queue = t.queue /\ u.submitting = t.submitting + 1,
         \/ t.owner = None /\ t.queue = <<>> /\ st = FALSE
         \/ t.owner = ms[rt.msg].to /\ ms[rt.msg].steer /\ st = TRUE
  PROVE  Core(ms, u, Begun(tk, rt.msg, st), NoRouting, cr, lax, cd)
<1> DEFINE m == rt.msg
           tn == Begun(tk, m, st)
<1>1. /\ t \in TurnState /\ Queued(ms, t) /\ m = Len(ms) /\ m \notin ToSet(t.queue)
      /\ tk[m].pc = "none" /\ tk \in [Numbers -> Goroutine]
  BY DEF Core, Typed, Admitted
<1>n. /\ \A i \in DOMAIN ms : i \in Numbers /\ i \in Nat /\ ms[i] \in Message
      /\ DOMAIN ms = 1..Len(ms) /\ Len(ms) \in Nat
  BY DomainFacts DEF Core
<1>2. m \in DOMAIN ms /\ m \in Numbers /\ m \in Nat /\ \A i \in DOMAIN ms : i # m => i < m
  BY <1>1, <1>n, DomainFacts DEF Core
<1> HIDE DEF m
<1>3. /\ tn \in [Numbers -> Goroutine] /\ tn[m].pc = "wait" /\ tn[m].steer = st
      /\ \A i \in Numbers \ {m} : tn[i] = tk[i]
  BY <1>1, <1>2, BegunMoved
<1> HIDE DEF tn
<1>4. Running(tn) = Running(tk) \cup {m} /\ m \notin Running(tk) /\ Running(tk) \subseteq DOMAIN ms
  <2>1. Running(tk) \subseteq DOMAIN ms
    BY DEF Core, Fresh, Running
  <2> QED BY <2>1, <1>1, <1>2, <1>3 DEF Running
<1>5. NoRouting \in Admission /\ NoRouting.msg = 0
  BY NumberFacts DEF NoRouting, Admission
<1>6. Typed(ms, u, tn, NoRouting, cr) /\ Queued(ms, u) /\ Fresh(ms, tn, cr) /\ Admitted(ms, u, tn, NoRouting, cr)
  BY <1>2, <1>3, <1>5 DEF Core, Typed, Queued, Fresh, Admitted
<1>7. Once(ms, tn, cr)
  BY <1>2, <1>3, <1>n DEF Core, Once, Locking
<1>8. Lanes(ms, tn)
  BY <1>2, <1>3, <1>n DEF Core, Lanes, Locking
<1>9. \A i \in Running(tk) : ms[i].to # None
  <2>1. \A i \in Running(tk) : ms[i].to \in Slots
    BY <1>4, <1>n DEF Message
  <2> QED BY <2>1, TwoSlots
<1>10. Counts(ms, u, tn, lax)
  <2> DEFINE A == {i \in Running(tk) : ms[i].to = t.owner}
             B == {i \in Running(tn) : ms[i].to = u.owner}
  <2>1. A \in SUBSET Running(tk) /\ B \in SUBSET Running(tn) /\ m \in B
    BY <1>4 DEF m
  <2>2. A \cup {m} \subseteq B
    BY <2>1, <1>4, <1>9 DEF m
  <2> HIDE DEF A, B
  <2>3. /\ IsFiniteSet(A) /\ IsFiniteSet(B) /\ Cardinality(A) \in Nat /\ Cardinality(B) \in Nat
        /\ IsFiniteSet(Running(tk)) /\ Cardinality(Running(tk)) \in Nat
    BY <2>1, RunningFacts
  <2>4. Cardinality(A \cup {m}) = Cardinality(A) + 1
    BY <2>1, <2>3, <1>4, FS_AddElement
  <2>5. Cardinality(A \cup {m}) <= Cardinality(B)
    BY <2>2, <2>3, FS_Subset
  <2>6. Cardinality(Running(tn)) = Cardinality(Running(tk)) + 1
    BY <2>3, <1>4, FS_AddElement
  <2>7. t.submitting <= Cardinality(A) /\ t.submitting \in Nat
    BY <1>1 DEF Core, Counts, A, TurnState
  <2>8. u.submitting <= Cardinality(B)
    BY <2>3, <2>4, <2>5, <2>7
  <2>9. ~lax => u.submitting = Cardinality(Running(tn))
    BY <2>6 DEF Core, Counts
  <2>10. ~lax => \A i \in Running(tn) : ms[i].to = u.owner
    BY <1>4, <1>9 DEF Core, Counts, m
  <2> QED BY <2>8, <2>9, <2>10 DEF Counts, B
<1>11. Held(ms, u, lax)
  <2>1. \A i \in DOMAIN ms : ms[i].to # None
    <3>1. \A i \in DOMAIN ms : ms[i].to \in Slots
      BY <1>n DEF Message
    <3> QED BY <3>1, TwoSlots
  <2> QED BY <2>1 DEF Core, Held
<1>12. Waits(ms, u, tn, NoRouting, lax /\ cd)
  BY <1>2, <1>3, <1>n DEF Core, Waits, m
<1>13. Oldest(ms, tn, lax)
  <2>1. SUFFICES ASSUME ~lax, NEW w \in DOMAIN ms, tn[w].pc = "wait", ~tn[w].steer, NEW i \in DOMAIN ms
                 PROVE  (i < w => ~Awaiting(ms[i])) /\ (i # w /\ tn[i].pc # "none" => w < i)
    BY DEF Oldest
  <2>2. CASE w # m
    <3>1. tk[w].pc = "wait" /\ ~tk[w].steer
      BY <2>1, <2>2, <1>3, <1>n
    <3>2. w < m
      BY <2>2, <1>2
    <3>3. i # m => tn[i] = tk[i]
      BY <1>3, <1>n
    <3> QED BY <2>1, <3>1, <3>2, <3>3 DEF Core, Oldest
  <2>3. CASE w = m
    <3>1. t.owner = None /\ t.queue = <<>>
      BY <2>1, <2>3, <1>3
    <3>2. Running(tk) = {}
      BY <2>1, <3>1, <1>9 DEF Core, Counts
    <3>3. i # m => tn[i].pc = "none" /\ tk[i].pc = "none"
      BY <3>2, <1>3, <1>n DEF Running
    <3>4. i < m => i # m
      BY <1>2
    <3>5. i < m => ~Awaiting(ms[i])
      <4>1. ToSet(t.queue) = {}
        BY <3>1 DEF ToSet
      <4> QED BY <2>1, <3>3, <3>4, <4>1 DEF Core, Waits, m
    <3> QED BY <2>3, <3>3, <3>5
  <2> QED BY <2>2, <2>3
<1>14. Relays(ms, tn, NoRouting, cd)
  BY <1>2, <1>3, <1>n DEF Core, Relays, m
<1> QED BY <1>6, <1>7, <1>8, <1>10, <1>11, <1>12, <1>13, <1>14 DEF Core, tn, m

LEMMA Appended ==
  ASSUME NEW ms \in Seq(Message), NEW r \in Message
  PROVE  LET ns == Append(ms, r)
         IN /\ ns \in Seq(Message) /\ Len(ns) = Len(ms) + 1 /\ DOMAIN ns = DOMAIN ms \cup {Len(ns)}
            /\ Len(ns) \notin DOMAIN ms /\ ns[Len(ns)] = r /\ \A i \in DOMAIN ms : ns[i] = ms[i]
<1> DEFINE ns == Append(ms, r)
<1>1. /\ ns \in Seq(Message) /\ Len(ns) = Len(ms) + 1 /\ Len(ms) \in Nat
      /\ ns[Len(ms) + 1] = r /\ \A i \in 1..Len(ms) : ns[i] = ms[i]
  BY AppendProperties
<1> HIDE DEF ns
<1>2. DOMAIN ns = 1..Len(ns) /\ DOMAIN ms = 1..Len(ms)
  BY <1>1
<1>3. 1..(Len(ms) + 1) = (1..Len(ms)) \cup {Len(ms) + 1} /\ Len(ms) + 1 \notin 1..Len(ms)
  BY <1>1
<1> QED BY <1>1, <1>2, <1>3 DEF ns

\* A new message and its admission.
LEMMA CoreAppend ==
  ASSUME NEW ms, NEW t, NEW tk, NEW cr, NEW lax, NEW cd,
         Core(ms, t, tk, NoRouting, cr, lax, cd), Len(ms) < MaxMessages,
         NEW r \in Message, r.del = "pending", r.from \in Slots => ~r.steer,
         NEW st \in {"sweep", "place"},
         st = "sweep" \/ r.from # User \/ r.retryOf # 0
  PROVE  Core(Append(ms, r), t, tk, [NoRouting EXCEPT !.msg = Len(ms) + 1, !.step = st], cr, lax, cd)
<1> DEFINE ns == Append(ms, r)
           m == Len(ms) + 1
           rt == [NoRouting EXCEPT !.msg = m, !.step = st]
<1>1. /\ ms \in Seq(Message) /\ t \in TurnState /\ Queued(ms, t)
      /\ DOMAIN ms \subseteq Numbers /\ Len(ms) \in Nat /\ DOMAIN ms = 1..Len(ms)
      /\ \A i \in DOMAIN ms : i \in Numbers /\ i \in Nat /\ ms[i] \in Message
  BY DomainFacts DEF Core, Typed
<1>2. /\ ns \in Seq(Message) /\ Len(ns) = m /\ DOMAIN ns = DOMAIN ms \cup {m}
      /\ m \notin DOMAIN ms /\ ns[m] = r /\ \A i \in DOMAIN ms : ns[i] = ms[i]
  BY <1>1, Appended
<1>3. m \in Numbers /\ m \in 0..MaxMessages /\ m # 0 /\ m \in Nat /\ \A i \in DOMAIN ms : i < m
  BY <1>1, NumberFacts
<1>4. rt \in Admission /\ rt.msg = m /\ rt.step = st
  BY <1>3 DEF NoRouting, Admission
<1> HIDE DEF ns, m, rt
<1>5. tk[m].pc = "none" /\ cr[m] = 0
  BY <1>2, <1>3 DEF Core, Fresh
<1>6. ~AtNative(r) /\ InFifo(r)
  BY DEF AtNative, InFifo
<1>7. Typed(ns, t, tk, rt, cr) /\ Queued(ns, t) /\ Fresh(ns, tk, cr)
  BY <1>2, <1>3, <1>4 DEF Core, Typed, Queued, Fresh
<1>8. Admitted(ns, t, tk, rt, cr)
  BY <1>1, <1>2, <1>3, <1>4, <1>5, <1>6 DEF Admitted, Queued
<1>9. Once(ns, tk, cr)
  BY <1>2, <1>5 DEF Core, Once, Locking
<1>10. Lanes(ns, tk)
  BY <1>2, <1>5 DEF Core, Lanes, Locking
<1>11. Counts(ns, t, tk, lax)
  <2>1. Running(tk) \subseteq DOMAIN ms
    BY DEF Core, Fresh, Running
  <2>2. {i \in Running(tk) : ns[i].to = t.owner} = {i \in Running(tk) : ms[i].to = t.owner}
    BY <2>1, <1>2
  <2> QED BY <2>1, <2>2, <1>2 DEF Core, Counts
<1>12. Held(ns, t, lax)
  BY <1>2, <1>6 DEF Core, Held
<1>13. Waits(ns, t, tk, rt, lax /\ cd)
  <2>1. \A i \in DOMAIN ms : i # 0
    BY <1>1, NumberFacts
  <2>2. NoRouting.msg = 0
    BY DEF NoRouting
  <2> QED BY <2>1, <2>2, <1>2, <1>4 DEF Core, Waits
<1>14. Oldest(ns, tk, lax)
  <2>1. SUFFICES ASSUME ~lax, NEW w \in DOMAIN ns, tk[w].pc = "wait", ~tk[w].steer, NEW i \in DOMAIN ns
                 PROVE  (i < w => ~Awaiting(ns[i])) /\ (i # w /\ tk[i].pc # "none" => w < i)
    BY DEF Oldest
  <2>2. w \in DOMAIN ms /\ w < m /\ w \in Nat
    BY <2>1, <1>1, <1>2, <1>3, <1>5
  <2>3. i \in DOMAIN ms => (i < w => ~Awaiting(ns[i])) /\ (i # w /\ tk[i].pc # "none" => w < i)
    BY <2>1, <2>2, <1>2 DEF Core, Oldest
  <2> QED BY <2>2, <2>3, <1>2, <1>3, <1>5
<1>15. Relays(ns, tk, rt, cd)
  <2>1. \A i \in DOMAIN ns : ns[i].from \in Slots => ~ns[i].steer
    BY <1>2 DEF Core, Relays
  <2>2. \A i \in DOMAIN ns : tk[i].steer /\ tk[i].pc # "none" => ns[i].steer
    BY <1>2, <1>5 DEF Core, Relays
  <2>3. SUFFICES ASSUME ~cd, NEW i \in DOMAIN ns, NEW h \in DOMAIN ns, ns[i].from \in Slots, Awaiting(ns[i]),
                        h > i, ns[h].from = User, ns[h].retryOf = 0
                 PROVE  h = rt.msg /\ rt.step = "sweep"
    BY <2>1, <2>2 DEF Relays
  <2>4. h = m
    <3>1. SUFFICES ASSUME h # m PROVE FALSE
      OBVIOUS
    <3>2. h \in DOMAIN ms /\ h < m /\ h \in Nat
      BY <3>1, <1>1, <1>2, <1>3
    <3>3. i \in DOMAIN ms
      <4>1. i # m
        BY <2>3, <3>2, <1>3
      <4> QED BY <4>1, <1>2
    <3>4. h = NoRouting.msg
      BY <2>3, <3>2, <3>3, <1>2 DEF Core, Relays
    <3>5. NoRouting.msg = 0
      BY DEF NoRouting
    <3> QED BY <3>2, <3>4, <3>5, <1>1, NumberFacts
  <2> QED BY <2>3, <2>4, <1>2, <1>4
<1> QED BY <1>7, <1>8, <1>9, <1>10, <1>11, <1>12, <1>13, <1>14, <1>15 DEF Core, ns, m, rt

\* The admission has cancelled what a new human message overtakes.
LEMMA CoreSwept ==
  ASSUME NEW ms, NEW t, NEW tk, NEW rt, NEW cr, NEW lax, NEW cd,
         Core(ms, t, tk, rt, cr, lax, cd), rt.msg # 0, NEW S \in SUBSET Numbers,
         \A i \in DOMAIN ms : i < rt.msg /\ ms[i].from \in Slots => ~Awaiting(ms[i])
  PROVE  Core(ms, t, tk, [rt EXCEPT !.step = "place", !.cancelled = S], cr, lax, cd)
<1> DEFINE rn == [rt EXCEPT !.step = "place", !.cancelled = S]
<1>1. rt \in Admission
  BY DEF Core, Typed
<1>2. rn \in Admission /\ rn.msg = rt.msg /\ rn.step = "place"
  BY <1>1 DEF Admission
<1> HIDE DEF rn
<1>3. Typed(ms, t, tk, rn, cr) /\ Admitted(ms, t, tk, rn, cr) /\ Waits(ms, t, tk, rn, lax /\ cd)
  BY <1>2 DEF Core, Typed, Admitted, Waits
<1>4. Relays(ms, tk, rn, cd)
  BY <1>2 DEF Core, Relays
<1> QED BY <1>3, <1>4 DEF Core, rn

\* A goroutine is done with its delivery.
LEMMA CoreReturned ==
  ASSUME NEW ms, NEW t, NEW tk, NEW rt, NEW cr, NEW lax, NEW cd,
         Core(ms, t, tk, rt, cr, lax, cd),
         NEW m \in DOMAIN ms, tk[m].pc # "none", m \in ToSet(t.queue) \/ ~Awaiting(ms[m])
  PROVE  Core(ms, [t EXCEPT !.submitting = IF t.owner = ms[m].to /\ @ > 0 THEN @ - 1 ELSE @],
              [tk EXCEPT ![m].pc = "none"], rt, cr, lax, cd)
<1> DEFINE n == IF t.owner = ms[m].to /\ t.submitting > 0 THEN t.submitting - 1 ELSE t.submitting
           u == [t EXCEPT !.submitting = n]
           tn == [tk EXCEPT ![m].pc = "none"]
<1>1. /\ t \in TurnState /\ t.submitting \in Nat /\ tk \in [Numbers -> Goroutine] /\ "none" \in Pcs
      /\ \A i \in DOMAIN ms : i \in Numbers /\ i \in Nat /\ ms[i] \in Message
  BY DomainFacts DEF Core, Typed, TurnState, Pcs
<1>2. n \in Nat
  BY <1>1
<1>3. /\ tn \in [Numbers -> Goroutine] /\ tn[m].pc = "none" /\ tn[m].steer = tk[m].steer
      /\ \A i \in Numbers \ {m} : tn[i] = tk[i]
  BY <1>1, TaskMoved
<1> HIDE DEF n, tn
<1>4. u \in TurnState /\ u.owner = t.owner /\ u.queue = t.queue /\ u.submitting = n
  BY <1>1, <1>2 DEF TurnState
<1> HIDE DEF u
<1>5. \A i \in DOMAIN ms : i = m \/ tn[i] = tk[i]
  BY <1>1, <1>3
<1>6. Running(tn) = Running(tk) \ {m} /\ m \in Running(tk)
  BY <1>1, <1>3 DEF Running
<1>7. Typed(ms, u, tn, rt, cr) /\ Queued(ms, u) /\ Fresh(ms, tn, cr)
  BY <1>1, <1>3, <1>4 DEF Core, Typed, Queued, Fresh
<1>8. Admitted(ms, u, tn, rt, cr)
  <2>1. CASE rt.msg = 0
    BY <2>1 DEF Core, Admitted
  <2>2. CASE rt.msg # 0
    <3>1. rt.msg # m /\ rt.msg = Len(ms)
      BY <2>2 DEF Core, Admitted
    <3>2. rt.msg \in DOMAIN ms
      BY <2>2, <3>1, DomainFacts DEF Core
    <3> QED BY <3>1, <3>2, <1>4, <1>5, <2>2 DEF Core, Admitted
  <2> QED BY <2>1, <2>2
<1>9. Once(ms, tn, cr)
  BY <1>3, <1>5 DEF Core, Once, Locking
<1>10. Lanes(ms, tn)
  BY <1>3, <1>5 DEF Core, Lanes, Locking
<1>11. Counts(ms, u, tn, lax)
  <2> DEFINE A == {i \in Running(tk) : ms[i].to = t.owner}
             B == {i \in Running(tn) : ms[i].to = u.owner}
  <2>1. A \in SUBSET Running(tk)
    OBVIOUS
  <2>2. B = A \ {m} /\ (t.owner = ms[m].to <=> m \in A)
    BY <1>4, <1>6
  <2> HIDE DEF A, B
  <2>3. /\ IsFiniteSet(A) /\ Cardinality(A) \in Nat
        /\ IsFiniteSet(Running(tk)) /\ Cardinality(Running(tk)) \in Nat
    BY <2>1, RunningFacts
  <2>4. Cardinality(A \ {m}) = IF m \in A THEN Cardinality(A) - 1 ELSE Cardinality(A)
    BY <2>3, FS_RemoveElement
  <2>5. Cardinality(Running(tn)) = Cardinality(Running(tk)) - 1
    BY <2>3, <1>6, FS_RemoveElement
  <2>6. t.submitting <= Cardinality(A)
    BY DEF Core, Counts, A
  <2>7. u.submitting <= Cardinality(B)
    <3>1. Cardinality(B) \in Nat
      <4>1. B \in SUBSET Running(tn)
        BY DEF B
      <4> QED BY <4>1, RunningFacts
    <3>2. CASE m \in A
      <4>1. Cardinality(B) = Cardinality(A) - 1
        BY <2>2, <2>4, <3>2
      <4>2. n = IF t.submitting > 0 THEN t.submitting - 1 ELSE t.submitting
        BY <2>2, <3>2 DEF n
      <4> QED BY <4>1, <4>2, <3>1, <2>3, <2>6, <1>1, <1>4
    <3>3. CASE m \notin A
      <4>1. Cardinality(B) = Cardinality(A)
        BY <2>2, <2>4, <3>3
      <4>2. n = t.submitting
        BY <2>2, <3>3 DEF n
      <4> QED BY <4>1, <4>2, <2>6, <1>4
    <3> QED BY <3>2, <3>3
  <2>8. ASSUME ~lax PROVE u.submitting = Cardinality(Running(tn)) /\ \A i \in Running(tn) : ms[i].to = u.owner
    <3>1. t.submitting = Cardinality(Running(tk)) /\ \A i \in Running(tk) : ms[i].to = t.owner
      BY <2>8 DEF Core, Counts
    <3>2. Cardinality(Running(tk)) # 0
      <4>1. Cardinality(Running(tk)) = 0 => Running(tk) = {}
        BY RunningFacts
      <4> QED BY <4>1, <1>6
    <3>3. n = t.submitting - 1
      BY <3>1, <3>2, <2>3, <1>6 DEF n
    <3> QED BY <3>1, <3>3, <2>5, <1>4, <1>6
  <2> QED BY <2>7, <2>8 DEF Counts, B
<1>12. Held(ms, u, lax)
  BY <1>4 DEF Core, Held
<1>13. Waits(ms, u, tn, rt, lax /\ cd)
  BY <1>4, <1>5 DEF Core, Waits
<1>14. Oldest(ms, tn, lax)
  BY <1>3, <1>5 DEF Core, Oldest
<1>15. Relays(ms, tn, rt, cd)
  BY <1>3, <1>5 DEF Core, Relays
<1>16. Core(ms, u, tn, rt, cr, lax, cd)
  BY <1>7, <1>8, <1>9, <1>10, <1>11, <1>12, <1>13, <1>14, <1>15 DEF Core
<1>17. u = [t EXCEPT !.submitting = IF t.owner = ms[m].to /\ @ > 0 THEN @ - 1 ELSE @]
  BY <1>1 DEF u, n
<1> QED BY <1>16, <1>17 DEF tn

LEMMA CoreFinish ==
  ASSUME NEW ms, NEW t, NEW tk, NEW rt, NEW cr, NEW lax, NEW cd,
         Core(ms, t, tk, rt, cr, lax, cd),
         lax \/ (t.submitting = 0 /\ \A m \in DOMAIN ms : ms[m].to = t.owner => ~(Open(ms[m]) /\ AtNative(ms[m])))
  PROVE  LET res == FinishTurn(t, ms)
         IN /\ Core(res.msgs, res.turn, Begun(tk, res.start, FALSE), rt, cr, lax, cd)
            /\ Calm(ms, res.msgs)
<1> DEFINE u == [t EXCEPT !.owner = None, !.submitting = 0, !.boundary = FALSE]
<1>1. Core(ms, u, tk, rt, cr, lax, cd)
  BY CoreRelease
<1>2. u.owner = None
  <2>1. t \in TurnState
    BY DEF Core, Typed
  <2> QED BY <2>1 DEF TurnState
<1> HIDE DEF u
<1>3. LET res == Reserve(u, ms)
      IN /\ Core(res.msgs, res.turn, Begun(tk, res.start, FALSE), rt, cr, lax, cd)
         /\ Calm(ms, res.msgs)
  BY <1>1, <1>2, CoreReserve
<1> QED BY <1>3 DEF FinishTurn, u

LEMMA CoreFinishIfIdle ==
  ASSUME NEW ms, NEW t, NEW tk, NEW rt, NEW cr, NEW lax, NEW cd,
         Core(ms, t, tk, rt, cr, lax, cd), NEW s, NEW without
  PROVE  LET res == FinishIfIdle(t, ms, s, without)
         IN /\ Core(res.msgs, res.turn, Begun(tk, res.start, FALSE), rt, cr, lax, cd)
            /\ Calm(ms, res.msgs)
<1>1. CASE Idle(t, ms, s, without)
  <2>1. t.submitting = 0 /\ \A m \in DOMAIN ms : ms[m].to = t.owner => ~(Open(ms[m]) /\ AtNative(ms[m]))
    BY <1>1 DEF Idle
  <2>2. LET res == FinishTurn(t, ms)
        IN /\ Core(res.msgs, res.turn, Begun(tk, res.start, FALSE), rt, cr, lax, cd)
           /\ Calm(ms, res.msgs)
    BY <2>1, CoreFinish
  <2>3. FinishIfIdle(t, ms, s, without) = FinishTurn(t, ms)
    BY <1>1 DEF FinishIfIdle
  <2> QED BY <2>2, <2>3
<1>2. CASE ~Idle(t, ms, s, without)
  <2>1. FinishIfIdle(t, ms, s, without) = [turn |-> t, msgs |-> ms, start |-> 0]
    BY <1>2 DEF FinishIfIdle
  <2>2. Begun(tk, 0, FALSE) = tk
    BY Begun0
  <2> DEFINE res == FinishIfIdle(t, ms, s, without)
  <2>3. res.msgs = ms /\ res.turn = t /\ res.start = 0
    BY <2>1
  <2> HIDE DEF res
  <2>4. Core(res.msgs, res.turn, Begun(tk, res.start, FALSE), rt, cr, lax, cd) /\ Calm(ms, res.msgs)
    <3>1. Calm(ms, ms)
      BY CalmSame DEF Core, Typed
    <3> QED BY <3>1, <2>2, <2>3
  <2> QED BY <2>4 DEF res
<1> QED BY <1>1, <1>2

\* scheduleDeliveryMode places the message under admission.
LEMMA CoreSchedule ==
  ASSUME NEW ms, NEW t, NEW tk, NEW rt, NEW cr, NEW lax, NEW cd,
         Core(ms, t, tk, rt, cr, lax, cd), rt.step # "sweep", rt.msg # 0
  PROVE  LET res == Schedule(t, ms, rt.msg)
         IN /\ Core(res.msgs, res.turn, Begun(tk, res.start, res.steer), NoRouting, cr, lax, cd)
            /\ ~ms[rt.msg].steer => res.steer = FALSE
            /\ Calm(ms, res.msgs)
<1> DEFINE m == rt.msg
           r == ms[m]
           queues == [t EXCEPT !.queue = Enqueued(t.queue, m)]
           queued == Each(ms, {m}, LAMBDA x : Delivered(x, "queued"))
           res == Schedule(t, ms, m)
           Good == /\ Core(res.msgs, res.turn, Begun(tk, res.start, res.steer), NoRouting, cr, lax, cd)
                   /\ ~r.steer => res.steer = FALSE
                   /\ Calm(ms, res.msgs)
<1>c. Calm(ms, ms)
  BY CalmSame DEF Core, Typed
<1>1. /\ t \in TurnState /\ t.submitting \in Nat /\ m = Len(ms) /\ ~AtNative(r) /\ ms \in Seq(Message)
      /\ tk[m].pc = "none" /\ m \in DOMAIN ms /\ r \in Message
  BY DomainFacts DEF Core, Typed, Admitted, TurnState
<1>2. Begun(tk, 0, FALSE) = tk
  BY Begun0
<1> SUFFICES Good
  OBVIOUS
<1> HIDE DEF m
<1>3. r.to \in Slots /\ r.steer \in BOOLEAN /\ r.to # None
  BY <1>1, TwoSlots DEF Message
<1>4. CASE t.owner = None /\ t.queue = <<>>
  <2> DEFINE u == [ owner |-> r.to, queue |-> <<>>, submitting |-> t.submitting + 1, boundary |-> FALSE ]
  <2>1. res.turn = u /\ res.msgs = ms /\ res.start = m /\ res.steer = FALSE
    BY <1>4, <1>3 DEF Schedule
  <2>2. u \in TurnState /\ u.owner = r.to /\ u.queue = t.queue /\ u.submitting = t.submitting + 1
    BY <1>4, <1>1, <1>3 DEF TurnState
  <2> HIDE DEF u
  <2>3. Core(ms, u, Begun(tk, m, FALSE), NoRouting, cr, lax, cd)
    BY <2>2, <1>4, CoreStarted DEF m
  <2> HIDE DEF res
  <2> QED BY <2>1, <2>3, <1>c DEF Good
<1>5. CASE ~(t.owner = None /\ t.queue = <<>>) /\ t.owner = r.to /\ r.steer
  <2> DEFINE u == [t EXCEPT !.submitting = @ + 1]
  <2>1. /\ res.turn = u /\ res.msgs = ms /\ res.start = m /\ res.steer = TRUE
    BY <1>5 DEF Schedule
  <2>2. u \in TurnState /\ u.owner = r.to /\ u.queue = t.queue /\ u.submitting = t.submitting + 1
    BY <1>1, <1>5 DEF TurnState
  <2> HIDE DEF u
  <2>3. Core(ms, u, Begun(tk, m, TRUE), NoRouting, cr, lax, cd)
    BY <2>2, <1>5, CoreStarted DEF m
  <2> HIDE DEF res
  <2> QED BY <2>1, <2>3, <1>5, <1>c DEF Good
<1>6. CASE ~(t.owner = None /\ t.queue = <<>>) /\ ~(t.owner = r.to /\ r.steer)
  <2>1. Calm(ms, queued)
    <3> DEFINE q == Delivered(r, "queued")
    <3>1. Tame(r, q)
      BY <1>1, QueuedTame
    <3>2. Calm(ms, [ms EXCEPT ![m] = q])
      BY <3>1, <1>1, CalmExcept
    <3>3. queued = [ms EXCEPT ![m] = q]
      BY DEF Each
    <3> QED BY <3>2, <3>3
  <2>2. Core(queued, t, tk, rt, cr, lax, cd)
    BY <2>1, CoreCalm
  <2>3. Core(queued, queues, tk, NoRouting, cr, lax, cd)
    BY <2>2, CorePlaced DEF m
  <2>4. queues.owner = t.owner
    BY <1>1 DEF TurnState
  <2>5. CASE ~DeliveryAllowed(r.del, "queued")
    <3>1. /\ res.turn = t /\ res.msgs = ms /\ res.start = 0 /\ res.steer = FALSE
      BY <2>5, <1>6 DEF Schedule
    <3>2. ~Awaiting(r)
      BY <2>5, <1>1 DEF DeliveryAllowed, Awaiting, InFifo
    <3>3. Core(ms, t, tk, NoRouting, cr, lax, cd)
      BY <3>2, CoreAdmitted DEF m
    <3> HIDE DEF res
    <3> QED BY <3>1, <3>3, <1>2, <1>c DEF Good
  <2>6. CASE DeliveryAllowed(r.del, "queued") /\ t.owner # None
    <3>1. /\ res.turn = queues /\ res.msgs = queued /\ res.start = 0 /\ res.steer = FALSE
      BY <2>6, <1>6 DEF Schedule
    <3> HIDE DEF res, queues, queued
    <3> QED BY <3>1, <2>1, <2>3, <1>2 DEF Good
  <2>7. CASE DeliveryAllowed(r.del, "queued") /\ ~(t.owner # None)
    <3> DEFINE next == Reserve(queues, queued)
    <3>1. /\ res.turn = next.turn /\ res.msgs = next.msgs /\ res.start = next.start /\ res.steer = FALSE
      BY <2>7, <1>6 DEF Schedule
    <3> HIDE DEF res, queues, queued
    <3>2. Core(next.msgs, next.turn, Begun(tk, next.start, FALSE), NoRouting, cr, lax, cd)
          /\ Calm(queued, next.msgs)
      BY <2>3, <2>4, <2>7, CoreReserve
    <3>3. Calm(ms, next.msgs)
      BY <3>2, <2>1, <1>1, CalmTransitive
    <3> HIDE DEF next
    <3> QED BY <3>1, <3>2, <3>3 DEF Good
  <2> QED BY <2>5, <2>6, <2>7
<1> HIDE DEF Good
<1> QED BY <1>4, <1>5, <1>6

Report == [kind: EventKinds, msg: Numbers, turn: 0..MaxMessages, outcome: Settled]
Runtime == [turn: 0..MaxMessages, inputs: SUBSET Numbers, staged: 0..MaxMessages]

Delivering == Core(msgs, turn, task, routing, crossed, stopped \/ phase # "up", crashed)
Around ==
  /\ tails \subseteq Ids /\ expiring \subseteq Ids
  /\ control \in [Slots -> {"none", "cancel", "stop"}]
  /\ native \in [Slots -> Runtime] /\ events \in [Slots -> Seq(Report)]
  /\ current \in [Slots -> 0..MaxMessages]
  /\ phase \in {"up", "down", "expiring"} /\ faults \in 0..MaxLoad
  /\ stopped \in BOOLEAN /\ crashed \in BOOLEAN
  /\ \A s \in Slots : native[s].turn # 0 => native[s].inputs # {}
Excluded ==
  \A s \in Slots : control[s] # "none" =>
    /\ \A m \in Ids : msgs[m].to = s => task[m].pc \notin Locking
    /\ control[s] = "stop" => stopped
Down ==
  phase # "up" =>
    /\ turn = FreeTurn /\ task = [m \in Numbers |-> NoTask] /\ tails = {} /\ routing = NoRouting
    /\ control = [s \in Slots |-> "none"] /\ native = [s \in Slots |-> IdleRuntime]
    /\ events = [s \in Slots |-> <<>>] /\ current = [s \in Slots |-> 0] /\ crashed
    /\ phase = "expiring" => \A m \in Ids : msgs[m].del # "submitting"
IInv == Delivering /\ Around /\ Excluded /\ Down

LEMMA InputEventsTyped ==
  ASSUME NEW S \in SUBSET Numbers, NEW k \in Settled, NEW t \in 0..MaxMessages
  PROVE  InputEvents(S, k, t) \in Seq(Report)
<1> DEFINE q == InLogOrder(S)
           e == [i \in DOMAIN q |-> Event(k, q[i], t, k)]
<1>1. q \in Seq(Numbers)
  BY InLogOrderElements
<1>2. InputEvents(S, k, t) = e
  BY DEF InputEvents
<1> HIDE DEF q
<1>3. Len(q) \in Nat /\ DOMAIN q = 1..Len(q) /\ \A i \in 1..Len(q) : q[i] \in Numbers
  BY <1>1
<1>4. \A i \in 1..Len(q) : Event(k, q[i], t, k) \in Report
  BY <1>3 DEF Event, Report, EventKinds
<1>5. e \in [1..Len(q) -> Report]
  BY <1>3, <1>4
<1> QED BY <1>2, <1>3, <1>5, SeqDef

LEMMA EndEventsTyped ==
  ASSUME NEW n \in Runtime, NEW o \in Settled, n.inputs \cup ({n.staged} \ {0}) # {}
  PROVE  EndEvents(n, o) \in Seq(Report)
<1> DEFINE S == n.inputs \cup ({n.staged} \ {0})
           a == IF o = "completed" THEN <<Event("final", Max(S), n.turn, o)>> ELSE <<>>
           b == InputEvents(S, o, n.turn)
           c == <<Event("boundary", Max(S), n.turn, o)>>
<1>1. S \subseteq Numbers /\ S # {} /\ n.turn \in 0..MaxMessages
  BY NumberFacts DEF Runtime
<1>2. Max(S) \in Numbers
  <2>1. S \subseteq 0..MaxMessages /\ MaxMessages \in Nat
    BY <1>1, NumberFacts
  <2> HIDE DEF S
  <2> QED BY <1>1, <2>1, MaxOf
<1>3. b \in Seq(Report)
  BY <1>1, InputEventsTyped
<1> HIDE DEF S
<1>4. Event("final", Max(S), n.turn, o) \in Report /\ Event("boundary", Max(S), n.turn, o) \in Report
  BY <1>1, <1>2 DEF Event, Report, EventKinds
<1>5. a \in Seq(Report) /\ c \in Seq(Report)
  BY <1>4
<1>6. EndEvents(n, o) = a \o b \o c
  BY DEF EndEvents, S
<1> HIDE DEF a, b, c
<1> QED BY <1>3, <1>5, <1>6, ConcatProperties

LEMMA IdleOrNot ==
  ASSUME NEW n \in Runtime, n.turn = 0, n.inputs = {}, n.staged = 0
  PROVE  n = IdleRuntime
<1>1. n = [turn |-> n.turn, inputs |-> n.inputs, staged |-> n.staged]
  BY DEF Runtime
<1> QED BY <1>1 DEF IdleRuntime

LEMMA RuntimeFacts ==
  ASSUME Around, NEW s \in Slots
  PROVE  /\ native[s] \in Runtime /\ events[s] \in Seq(Report) /\ current[s] \in 0..MaxMessages
         /\ control[s] \in {"none", "cancel", "stop"}
         /\ native[s] # IdleRuntime => native[s].inputs \cup ({native[s].staged} \ {0}) # {}
         /\ IdleRuntime \in Runtime
<1>1. /\ native[s] \in Runtime /\ events[s] \in Seq(Report) /\ current[s] \in 0..MaxMessages
      /\ control[s] \in {"none", "cancel", "stop"}
      /\ native[s].turn # 0 => native[s].inputs # {}
  BY DEF Around
<1>2. native[s] # IdleRuntime => native[s].inputs \cup ({native[s].staged} \ {0}) # {}
  <2> DEFINE n == native[s]
  <2>1. n \in Runtime /\ (n.turn # 0 => n.inputs # {})
    BY <1>1
  <2> HIDE DEF n
  <2>2. n # IdleRuntime => n.turn # 0 \/ n.inputs # {} \/ n.staged # 0
    BY <2>1, IdleOrNot
  <2>3. n # IdleRuntime => n.inputs \cup ({n.staged} \ {0}) # {}
    BY <2>1, <2>2
  <2> QED BY <2>3 DEF n
<1>3. IdleRuntime \in Runtime
  BY NumberFacts DEF Runtime, IdleRuntime
<1> QED BY <1>1, <1>2, <1>3

\* The end of a runtime's Turn leaves it idle and well-formed reports behind.
Ended(s) ==
  /\ native' \in [Slots -> Runtime] /\ events' \in [Slots -> Seq(Report)]
  /\ \A i \in Slots : native'[i].turn # 0 => native'[i].inputs # {}
LEMMA EndsTyped ==
  ASSUME Around, NEW s \in Slots, NEW o \in Settled, Ends(s, o)
  PROVE  Ended(s)
<1>1. /\ native \in [Slots -> Runtime] /\ events \in [Slots -> Seq(Report)]
      /\ \A i \in Slots : native[i].turn # 0 => native[i].inputs # {}
  BY DEF Around
<1>2. CASE native[s] = IdleRuntime
  BY <1>1, <1>2 DEF Ends, Ended
<1>3. CASE native[s] # IdleRuntime
  <2>1. EndEvents(native[s], o) \in Seq(Report) /\ events[s] \in Seq(Report) /\ IdleRuntime \in Runtime
    BY <1>3, RuntimeFacts, EndEventsTyped
  <2>2. events[s] \o EndEvents(native[s], o) \in Seq(Report)
    BY <2>1, ConcatProperties
  <2>3. native' = [native EXCEPT ![s] = IdleRuntime]
        /\ events' = [events EXCEPT ![s] = events[s] \o EndEvents(native[s], o)]
    BY <1>3 DEF Ends
  <2>4. IdleRuntime.turn = 0
    BY DEF IdleRuntime
  <2>5. native' \in [Slots -> Runtime] /\ events' \in [Slots -> Seq(Report)]
    BY <1>1, <2>1, <2>2, <2>3
  <2>6. \A i \in Slots : native'[i] = IF i = s THEN IdleRuntime ELSE native[i]
    BY <1>1, <2>3
  <2> QED BY <1>1, <2>4, <2>5, <2>6 DEF Ended
<1> QED BY <1>2, <1>3

LEMMA Step ==
  ASSUME IInv, phase = "up", phase' = phase, crashed' = crashed, stopped' = stopped, expiring' = expiring,
         Core(msgs', turn', task', routing', crossed', stopped, crashed),
         Ids \subseteq DOMAIN msgs', Excluded',
         control' \in [Slots -> {"none", "cancel", "stop"}],
         native' \in [Slots -> Runtime] /\ events' \in [Slots -> Seq(Report)],
         \A i \in Slots : native'[i].turn # 0 => native'[i].inputs # {},
         tails' \subseteq DOMAIN msgs', faults' \in 0..MaxLoad, current' \in [Slots -> 0..MaxMessages]
  PROVE  IInv'
<1>1. Delivering'
  <2>1. (stopped' \/ phase' # "up") <=> stopped
    BY DEF IInv, Around
  <2>2. Core(msgs', turn', task', routing', crossed', stopped' \/ phase' # "up", crashed')
    BY <2>1 DEF Core, Counts, Held, Waits, Oldest
  <2> QED BY <2>2 DEF Delivering
<1>2. Around'
  BY DEF IInv, Around, Ids
<1>3. Down'
  BY DEF Down
<1> QED BY <1>1, <1>2, <1>3 DEF IInv

LEMMA ExcludedStep ==
  ASSUME Excluded, Calm(msgs, msgs'), control' = control, stopped' = stopped,
         \A m \in Ids : task'[m].pc \in Locking => task[m].pc \in Locking
  PROVE  Excluded' /\ DOMAIN msgs' = DOMAIN msgs
<1>1. DOMAIN msgs' = DOMAIN msgs /\ \A m \in Ids : msgs'[m].to = msgs[m].to
  BY DEF Calm, Tame, Ids
<1> QED BY <1>1 DEF Excluded, Ids

\* What every step from an up state may use.
LEMMA Facts ==
  ASSUME IInv, phase = "up"
  PROVE  /\ Core(msgs, turn, task, routing, crossed, stopped, crashed)
         /\ Typed(msgs, turn, task, routing, crossed)
         /\ msgs \in Seq(Message) /\ Len(msgs) <= MaxMessages /\ Calm(msgs, msgs)
         /\ turn \in TurnState /\ task \in [Numbers -> Goroutine]
         /\ routing \in Admission /\ Ids \subseteq Numbers
         /\ \A m \in Ids : m \in Numbers /\ m \in Nat /\ msgs[m] \in Message /\ msgs[m].to \in Slots
         /\ Excluded /\ Around
<1>1. Core(msgs, turn, task, routing, crossed, stopped, crashed)
  <2>1. (stopped \/ phase # "up") => stopped
    OBVIOUS
  <2> QED BY <2>1 DEF IInv, Delivering, Core, Counts, Held, Waits, Oldest
<1>2. Typed(msgs, turn, task, routing, crossed) /\ Excluded /\ Around
  BY <1>1 DEF Core, IInv
<1>3. msgs \in Seq(Message) /\ Len(msgs) <= MaxMessages /\ turn \in TurnState
      /\ task \in [Numbers -> Goroutine] /\ routing \in Admission
  BY <1>2 DEF Typed
<1>4. Ids \subseteq Numbers /\ \A m \in Ids : m \in Numbers /\ m \in Nat /\ msgs[m] \in Message
  BY <1>2, DomainFacts DEF Ids
<1>5. \A m \in Ids : msgs[m].to \in Slots
  BY <1>4 DEF Message
<1>6. Calm(msgs, msgs)
  BY <1>3, CalmSame
<1> QED BY <1>1, <1>2, <1>3, <1>4, <1>5, <1>6

LEMMA FaultTyped == ASSUME IInv, phase = "up", Fault PROVE faults' \in 0..MaxLoad
<1>1. Len(msgs) \in Nat /\ faults \in 0..MaxLoad /\ MaxLoad \in Nat
  BY Facts, Bounds DEF Around
<1> QED BY <1>1 DEF Fault

\* A step that touches only the messages, the Turn and the goroutines.
LEMMA QuietStep ==
  ASSUME IInv, phase = "up", phase' = phase,
         Core(msgs', turn', task', routing', crossed', stopped, crashed),
         Ids \subseteq DOMAIN msgs', Excluded', faults' \in 0..MaxLoad, tails' \subseteq DOMAIN msgs',
         UNCHANGED <<control, native, events, current, expiring, stopped, crashed>>
  PROVE  IInv'
<1>1. /\ control' \in [Slots -> {"none", "cancel", "stop"}]
      /\ native' \in [Slots -> Runtime] /\ events' \in [Slots -> Seq(Report)]
      /\ \A i \in Slots : native'[i].turn # 0 => native'[i].inputs # {}
      /\ current' \in [Slots -> 0..MaxMessages]
  BY DEF IInv, Around
<1> QED BY <1>1, Step

LEMMA BegunLocking ==
  ASSUME NEW tk \in [Numbers -> Goroutine], NEW k, NEW st
  PROVE  \A m \in Numbers : Begun(tk, k, st)[m].pc \in Locking => tk[m].pc \in Locking
<1>1. CASE k = 0
  BY <1>1 DEF Begun
<1>2. CASE k # 0
  <2> DEFINE g == [pc |-> "wait", steer |-> st]
  <2>1. Begun(tk, k, st) = [tk EXCEPT ![k] = g]
    BY <1>2 DEF Begun
  <2>2. g.pc = "wait"
    OBVIOUS
  <2> HIDE DEF g
  <2> QED BY <2>1, <2>2 DEF Locking
<1> QED BY <1>1, <1>2

LEMMA NewExcluded ==
  ASSUME IInv, phase = "up", NEW r \in Message, msgs' = Append(msgs, r), Len(msgs) < MaxMessages,
         UNCHANGED <<task, control, stopped>>
  PROVE  Ids \subseteq DOMAIN msgs' /\ Excluded'
<1>1. Core(msgs, turn, task, routing, crossed, stopped, crashed) /\ msgs \in Seq(Message) /\ Excluded
  BY Facts
<1>2. /\ DOMAIN msgs' = Ids \cup {Len(msgs) + 1} /\ Len(msgs) + 1 \notin Ids
      /\ \A i \in Ids : msgs'[i] = msgs[i]
  BY <1>1, Appended DEF Ids
<1>3. Len(msgs) + 1 \in Numbers
  BY <1>1, NumberFacts
<1>4. task[Len(msgs) + 1].pc = "none"
  BY <1>1, <1>2, <1>3 DEF Core, Fresh, Ids
<1> QED BY <1>1, <1>2, <1>4 DEF Excluded, Locking, Ids

LEMMA SendStep ==
  ASSUME IInv, NEW to \in Slots, NEW steer \in BOOLEAN, Send(to, steer)
  PROVE  IInv'
<1> DEFINE r == NewMessage(User, to, steer, 0)
<1>1. /\ phase = "up" /\ routing = NoRouting /\ Len(msgs) < MaxMessages /\ msgs' = Append(msgs, r)
      /\ routing' = [NoRouting EXCEPT !.msg = Len(msgs) + 1, !.step = "sweep"]
      /\ UNCHANGED <<turn, task, tails, control, native, events, current, crossed, phase, expiring,
                     faults, stopped, crashed>>
  BY DEF Send, RoomToAdmit, MayAdd
<1>2. r \in Message /\ r.del = "pending" /\ r.from = User
  BY NumberFacts DEF NewMessage, Message
<1> HIDE DEF r
<1>3. Core(msgs', turn', task', routing', crossed', stopped, crashed)
  <2>1. Core(msgs, turn, task, NoRouting, crossed, stopped, crashed) /\ User \notin Slots
    BY <1>1, Facts, TwoSlots
  <2>2. Core(Append(msgs, r), turn, task, [NoRouting EXCEPT !.msg = Len(msgs) + 1, !.step = "sweep"],
             crossed, stopped, crashed)
    BY <2>1, <1>1, <1>2, CoreAppend
  <2> QED BY <2>2, <1>1
<1>4. Ids \subseteq DOMAIN msgs' /\ Excluded'
  BY <1>1, <1>2, NewExcluded
<1> QED BY <1>1, <1>3, <1>4, QuietStep DEF IInv, Around

LEMMA SweepStep == ASSUME IInv, Sweep PROVE IInv'
<1> DEFINE S == Overtaken(routing.msg)
           mid == [turn EXCEPT !.queue = Kept(@, Numbers \ S)]
<1>1. /\ phase = "up" /\ routing.step = "sweep" /\ msgs' = Each(msgs, S, Skipped) /\ turn' = mid
      /\ routing' = [routing EXCEPT !.step = "place", !.cancelled = S]
      /\ UNCHANGED <<task, tails, control, native, events, current, crossed, phase, expiring, faults,
                     stopped, crashed>>
  BY DEF Sweep
<1>2. /\ Core(msgs, turn, task, routing, crossed, stopped, crashed) /\ msgs \in Seq(Message)
      /\ Ids \subseteq Numbers
  BY <1>1, Facts
<1>3. S \in SUBSET Numbers
  BY <1>2 DEF Overtaken
<1>4. routing.msg # 0
  BY <1>1, <1>2 DEF Core, Admitted, NoRouting
<1>5. /\ Calm(msgs, msgs') /\ \A m \in S \cap DOMAIN msgs : ~InFifo(msgs'[m])
  <2> HIDE DEF S
  <2> QED BY <1>1, <1>2, EachSkipped
<1>6. DOMAIN msgs' = Ids /\ \A m \in Ids : msgs'[m].from = msgs[m].from /\ (Awaiting(msgs'[m]) => Awaiting(msgs[m]))
  BY <1>5 DEF Calm, Tame, Awaiting, Ids
<1>7. Core(msgs', turn, task, routing, crossed, stopped, crashed)
  BY <1>2, <1>5, CoreCalm
<1>8. \A m \in S \cap DOMAIN msgs' : ~Awaiting(msgs'[m])
  BY <1>5, <1>6 DEF Awaiting, Ids
<1>9. \A i \in DOMAIN msgs' : i < routing.msg /\ msgs'[i].from \in Slots => ~Awaiting(msgs'[i])
  BY <1>6, <1>8 DEF Overtaken
<1> HIDE DEF S
<1>10. Core(msgs', mid, task, routing, crossed, stopped, crashed)
  BY <1>7, <1>8, CoreFilter
<1> HIDE DEF mid
<1>11. Core(msgs', mid, task, [routing EXCEPT !.step = "place", !.cancelled = S], crossed, stopped, crashed)
  BY <1>10, <1>4, <1>3, <1>9, CoreSwept
<1>12. Core(msgs', turn', task', routing', crossed', stopped, crashed)
  BY <1>11, <1>1
<1>13. Excluded' /\ DOMAIN msgs' = DOMAIN msgs
  BY <1>1, <1>5, ExcludedStep DEF IInv
<1> QED BY <1>1, <1>12, <1>13, QuietStep DEF IInv, Around, Ids

LEMMA PlaceStep == ASSUME IInv, Place PROVE IInv'
<1> DEFINE ms == Each(msgs, routing.cancelled, Failed)
           res == Schedule(turn, ms, routing.msg)
<1>1. /\ phase = "up" /\ routing.step = "place" /\ msgs' = res.msgs /\ turn' = res.turn
      /\ task' = Begun(task, res.start, res.steer) /\ routing' = NoRouting
      /\ UNCHANGED <<tails, control, native, events, current, crossed, phase, expiring, faults, stopped, crashed>>
  BY DEF Place, Take
<1>2. /\ Core(msgs, turn, task, routing, crossed, stopped, crashed) /\ msgs \in Seq(Message)
      /\ Ids \subseteq Numbers /\ task \in [Numbers -> Goroutine]
  BY <1>1, Facts
<1>3. routing.msg # 0
  BY <1>1, <1>2 DEF Core, Admitted, NoRouting
<1>4. Calm(msgs, ms)
  BY <1>2, EachFailed
<1> HIDE DEF ms
<1>5. Core(ms, turn, task, routing, crossed, stopped, crashed)
  BY <1>2, <1>4, CoreCalm
<1>6. /\ Core(res.msgs, res.turn, Begun(task, res.start, res.steer), NoRouting, crossed, stopped, crashed)
      /\ Calm(ms, res.msgs)
  BY <1>1, <1>3, <1>5, CoreSchedule
<1>7. Calm(msgs, res.msgs)
  BY <1>2, <1>4, <1>6, CalmTransitive
<1> HIDE DEF res
<1>8. \A m \in Ids : task'[m].pc \in Locking => task[m].pc \in Locking
  BY <1>1, <1>2, BegunLocking
<1>9. Excluded' /\ DOMAIN msgs' = DOMAIN msgs
  BY <1>1, <1>7, <1>8, ExcludedStep DEF IInv
<1>10. Core(msgs', turn', task', routing', crossed', stopped, crashed)
  BY <1>1, <1>6
<1> QED BY <1>1, <1>9, <1>10, QuietStep DEF IInv, Around, Ids

LEMMA RetryStep == ASSUME IInv, NEW m \in Numbers, Retry(m) PROVE IInv'
<1> DEFINE r == NewMessage(msgs[m].from, msgs[m].to, msgs[m].steer, m)
<1>1. /\ phase = "up" /\ routing = NoRouting /\ Len(msgs) < MaxMessages /\ msgs' = Append(msgs, r) /\ m \in Ids
      /\ routing' = [NoRouting EXCEPT !.msg = Len(msgs) + 1, !.step = "place"]
      /\ UNCHANGED <<turn, task, tails, control, native, events, current, crossed, phase, expiring,
                     faults, stopped, crashed>>
  BY DEF Retry, RoomToAdmit, MayAdd
<1>2. msgs[m] \in Message /\ Core(msgs, turn, task, NoRouting, crossed, stopped, crashed)
  BY <1>1, Facts
<1>3. /\ r \in Message /\ r.del = "pending" /\ r.from = msgs[m].from /\ r.steer = msgs[m].steer
      /\ r.retryOf = m /\ m # 0
  BY <1>2, NumberFacts DEF NewMessage, Message
<1>4. r.from \in Slots => ~r.steer
  BY <1>1, <1>2, <1>3 DEF Core, Relays, Ids
<1> HIDE DEF r
<1>5. Core(msgs', turn', task', routing', crossed', stopped, crashed)
  <2>1. Core(Append(msgs, r), turn, task, [NoRouting EXCEPT !.msg = Len(msgs) + 1, !.step = "place"],
             crossed, stopped, crashed)
    BY <1>1, <1>2, <1>3, <1>4, CoreAppend
  <2> QED BY <2>1, <1>1
<1>6. Ids \subseteq DOMAIN msgs' /\ Excluded'
  BY <1>1, <1>3, NewExcluded
<1> QED BY <1>1, <1>5, <1>6, QuietStep DEF IInv, Around

LEMMA TailEvents ==
  ASSUME Around, NEW s \in Slots, events[s] # <<>>
  PROVE  /\ [events EXCEPT ![s] = Tail(@)] \in [Slots -> Seq(Report)]
         /\ Head(events[s]) \in Report
<1>1. events \in [Slots -> Seq(Report)] /\ events[s] \in Seq(Report)
  BY DEF Around
<1>2. Tail(events[s]) \in Seq(Report) /\ Head(events[s]) \in Report
  BY <1>1
<1> QED BY <1>1, <1>2

\* What handling a report may do to the scheduler.
LEMMA HandledStep ==
  ASSUME IInv, phase = "up", NEW s \in Slots, events[s] # <<>>, NEW ms, NEW t, Calm(msgs, ms),
         Core(ms, t, task, routing, crossed, stopped, crashed),
         events' = [events EXCEPT ![s] = Tail(@)],
         LET res == FinishIfIdle(t, ms, s, FALSE) IN Take(res, task, FALSE),
         current' \in [Slots -> 0..MaxMessages],
         UNCHANGED <<tails, routing, control, native, crossed, phase, expiring, faults, stopped, crashed>>
  PROVE  IInv'
<1> DEFINE res == FinishIfIdle(t, ms, s, FALSE)
<1>1. msgs' = res.msgs /\ turn' = res.turn /\ task' = Begun(task, res.start, FALSE)
  BY DEF Take
<1>2. /\ Core(res.msgs, res.turn, Begun(task, res.start, FALSE), routing, crossed, stopped, crashed)
      /\ Calm(ms, res.msgs)
  BY CoreFinishIfIdle
<1> HIDE DEF res
<1>3. msgs \in Seq(Message) /\ task \in [Numbers -> Goroutine] /\ Ids \subseteq Numbers /\ Around
  BY Facts
<1>4. Calm(msgs, msgs')
  BY <1>1, <1>2, <1>3, CalmTransitive
<1>5. \A m \in Ids : task'[m].pc \in Locking => task[m].pc \in Locking
  BY <1>1, <1>3, BegunLocking
<1>6. Excluded' /\ DOMAIN msgs' = DOMAIN msgs
  BY <1>4, <1>5, ExcludedStep DEF IInv
<1>7. Core(msgs', turn', task', routing', crossed', stopped, crashed)
  BY <1>1, <1>2
<1>8. events' \in [Slots -> Seq(Report)]
  BY <1>3, TailEvents
<1>9. /\ control' \in [Slots -> {"none", "cancel", "stop"}] /\ native' \in [Slots -> Runtime]
      /\ \A i \in Slots : native'[i].turn # 0 => native'[i].inputs # {}
      /\ tails' \subseteq DOMAIN msgs' /\ faults' \in 0..MaxLoad
  BY <1>3, <1>6 DEF Around, Ids
<1> QED BY <1>6, <1>7, <1>8, <1>9, Step DEF Ids

\* A step that leaves messages, Turn and goroutines alone.
LEMMA OutsideStep ==
  ASSUME IInv, phase = "up", Excluded',
         control' \in [Slots -> {"none", "cancel", "stop"}],
         native' \in [Slots -> Runtime] /\ events' \in [Slots -> Seq(Report)],
         \A i \in Slots : native'[i].turn # 0 => native'[i].inputs # {},
         faults' \in 0..MaxLoad, current' \in [Slots -> 0..MaxMessages],
         UNCHANGED <<msgs, turn, task, routing, crossed, tails, phase, expiring, stopped, crashed>>
  PROVE  IInv'
<1>1. Core(msgs', turn', task', routing', crossed', stopped, crashed)
  BY Facts
<1>2. Ids \subseteq DOMAIN msgs' /\ tails' \subseteq DOMAIN msgs'
  BY DEF IInv, Around, Ids
<1> QED BY <1>1, <1>2, Step

LEMMA SameExcluded == ASSUME Excluded, UNCHANGED <<msgs, task, control, stopped>> PROVE Excluded'
BY DEF Excluded, Ids

LEMMA PoppedStep ==
  ASSUME IInv, phase = "up", NEW s \in Slots, events[s] # <<>>,
         events' = [events EXCEPT ![s] = Tail(@)],
         UNCHANGED <<msgs, turn, task, current, tails, routing, control, native, crossed, phase, expiring,
                     faults, stopped, crashed>>
  PROVE  IInv'
<1>1. events' \in [Slots -> Seq(Report)] /\ Excluded'
  BY TailEvents, SameExcluded DEF IInv
<1> QED BY <1>1, OutsideStep DEF IInv, Around

LEMMA HandleInputStep == ASSUME IInv, NEW s \in Slots, HandleInput(s) PROVE IInv'
<1> DEFINE e == Head(events[s])
           done == [msgs EXCEPT ![e.msg] = Processed(@, e.kind, e.turn)]
<1>1. /\ phase = "up" /\ events[s] # <<>> /\ e.kind \in Settled
      /\ events' = [events EXCEPT ![s] = Tail(@)]
      /\ UNCHANGED <<tails, routing, control, native, current, crossed, phase, expiring, faults, stopped, crashed>>
      /\ IF TurnMatches(msgs, s, e.msg, e.turn)
         THEN Take(FinishIfIdle(turn, done, s, FALSE), task, FALSE)
         ELSE UNCHANGED <<turn, msgs, task>>
  BY DEF HandleInput
<1>2. CASE ~TurnMatches(msgs, s, e.msg, e.turn)
  BY <1>1, <1>2, PoppedStep
<1>3. CASE TurnMatches(msgs, s, e.msg, e.turn)
  <2>1. e \in Report /\ Core(msgs, turn, task, routing, crossed, stopped, crashed)
        /\ msgs \in Seq(Message) /\ Calm(msgs, msgs)
    BY <1>1, TailEvents, Facts
  <2>2. Calm(msgs, done)
    <3>1. CASE e.msg \in DOMAIN msgs
      <4>1. msgs[e.msg] \in Message /\ e.kind \in {"waiting", "working"} \cup Settled /\ e.turn \in 0..MaxMessages
        BY <3>1, <2>1, <1>1 DEF Report
      <4> HIDE DEF e
      <4>2. Tame(msgs[e.msg], Processed(msgs[e.msg], e.kind, e.turn))
        BY <4>1, ProcessedTame
      <4> QED BY <4>2, <3>1, <2>1, CalmExcept
    <3>2. CASE e.msg \notin DOMAIN msgs
      <4>1. done = msgs
        BY <3>2, <2>1
      <4> QED BY <4>1, <2>1
    <3> QED BY <3>1, <3>2
  <2>3. Core(done, turn, task, routing, crossed, stopped, crashed)
    BY <2>1, <2>2, CoreCalm
  <2>4. Take(FinishIfIdle(turn, done, s, FALSE), task, FALSE)
    BY <1>1, <1>3
  <2>5. current' \in [Slots -> 0..MaxMessages]
    BY <1>1 DEF IInv, Around
  <2> HIDE DEF done
  <2> QED BY <1>1, <2>2, <2>3, <2>4, <2>5, HandledStep
<1> QED BY <1>2, <1>3

LEMMA PeerIsSlot == ASSUME NEW s \in Slots PROVE Peer(s) \in Slots /\ Peer(s) # s
<1>1. \E p \in Slots : p # s
  <2>1. SUFFICES ASSUME Slots = {s} PROVE FALSE
    OBVIOUS
  <2>2. Cardinality({s}) = 1
    BY FS_Singleton
  <2> QED BY <2>1, <2>2, TwoSlots
<1> QED BY <1>1 DEF Peer

LEMMA EachProcessed ==
  ASSUME NEW ms \in Seq(Message), NEW S, NEW p \in {"waiting", "working"} \cup Settled,
         NEW t \in 0..MaxMessages
  PROVE  Calm(ms, Each(ms, S, LAMBDA r : Processed(r, p, t)))
<1> DEFINE f == Each(ms, S, LAMBDA r : Processed(r, p, t))
<1>1. f = [i \in DOMAIN ms |-> f[i]] /\ \A i \in DOMAIN ms : f[i] = IF i \in S THEN Processed(ms[i], p, t) ELSE ms[i]
  BY DEF Each
<1>2. \A i \in DOMAIN ms : ms[i] \in Message
  OBVIOUS
<1>3. \A i \in DOMAIN ms : Tame(ms[i], f[i])
  BY <1>1, <1>2, TameSame, ProcessedTame
<1> HIDE DEF f
<1> QED BY <1>1, <1>3, CalmFunction DEF f

LEMMA HandleBoundaryStep == ASSUME IInv, NEW s \in Slots, HandleBoundary(s) PROVE IInv'
<1> DEFINE e == Head(events[s])
           left == {m \in Ids : /\ msgs[m].to = s /\ Open(msgs[m])
                                /\ m = e.msg \/ (e.turn # 0 /\ msgs[m].turn = e.turn)}
           done == Each(msgs, left, LAMBDA r : Processed(r, e.outcome, e.turn))
           b == turn.boundary \/ turn.owner = s
           seen == [turn EXCEPT !.boundary = b]
<1>1. /\ phase = "up" /\ events[s] # <<>>
      /\ events' = [events EXCEPT ![s] = Tail(@)]
      /\ UNCHANGED <<tails, routing, control, native, crossed, phase, expiring, faults, stopped, crashed>>
      /\ IF TurnMatches(msgs, s, e.msg, e.turn)
         THEN /\ Take(FinishIfIdle(seen, done, s, FALSE), task, FALSE)
              /\ current' = [current EXCEPT ![s] = IF e.turn \in {0, @} THEN 0 ELSE @]
         ELSE UNCHANGED <<turn, msgs, task, current>>
  BY DEF HandleBoundary
<1>2. CASE ~TurnMatches(msgs, s, e.msg, e.turn)
  BY <1>1, <1>2, PoppedStep
<1>3. CASE TurnMatches(msgs, s, e.msg, e.turn)
  <2>1. /\ e \in Report /\ Core(msgs, turn, task, routing, crossed, stopped, crashed)
        /\ msgs \in Seq(Message) /\ turn \in TurnState /\ Around
    BY <1>1, TailEvents, Facts
  <2>2. e.outcome \in {"waiting", "working"} \cup Settled /\ e.turn \in 0..MaxMessages
    BY <2>1 DEF Report
  <2> HIDE DEF e, left
  <2>3. Calm(msgs, done)
    BY <2>1, <2>2, EachProcessed
  <2>4. Core(done, turn, task, routing, crossed, stopped, crashed)
    BY <2>1, <2>3, CoreCalm
  <2>5. b \in BOOLEAN
    BY <2>1 DEF TurnState
  <2> HIDE DEF done, b
  <2>6. Core(done, seen, task, routing, crossed, stopped, crashed)
    BY <2>4, <2>5, CoreBoundary
  <2>7. Take(FinishIfIdle(seen, done, s, FALSE), task, FALSE)
    BY <1>1, <1>3
  <2>8. current' \in [Slots -> 0..MaxMessages]
    <3>1. current' = [current EXCEPT ![s] = IF e.turn \in {0, @} THEN 0 ELSE @]
      BY <1>1, <1>3
    <3>2. 0 \in 0..MaxMessages /\ current \in [Slots -> 0..MaxMessages]
      BY <2>1, NumberFacts DEF Around
    <3> QED BY <3>1, <3>2
  <2> HIDE DEF seen
  <2> QED BY <1>1, <2>3, <2>6, <2>7, <2>8, HandledStep
<1> QED BY <1>2, <1>3

LEMMA HandleFinalStep == ASSUME IInv, NEW s \in Slots, HandleFinal(s) PROVE IInv'
<1> DEFINE r == NewMessage(s, Peer(s), FALSE, 0)
           ms == Append(msgs, r)
           m == Len(msgs) + 1
           rt == [NoRouting EXCEPT !.msg = m, !.step = "place"]
           res == Schedule(turn, ms, m)
<1>1. /\ phase = "up" /\ events[s] # <<>> /\ routing = NoRouting
      /\ events' = [events EXCEPT ![s] = Tail(@)]
      /\ UNCHANGED <<tails, routing, control, native, current, crossed, phase, expiring, faults, stopped, crashed>>
      /\ \/ UNCHANGED <<turn, msgs, task>>
         \/ MayAdd /\ Take(res, task, FALSE)
  BY DEF HandleFinal
<1>2. CASE UNCHANGED <<turn, msgs, task>>
  BY <1>1, <1>2, PoppedStep
<1>3. CASE MayAdd /\ Take(res, task, FALSE)
  <2>1. /\ Core(msgs, turn, task, NoRouting, crossed, stopped, crashed) /\ msgs \in Seq(Message)
        /\ task \in [Numbers -> Goroutine] /\ Around /\ Len(msgs) < MaxMessages
        /\ Ids \subseteq Numbers
    BY <1>1, <1>3, Facts DEF MayAdd
  <2>2. Peer(s) \in Slots
    BY PeerIsSlot
  <2>3. r \in Message /\ r.del = "pending" /\ r.from = s /\ r.steer = FALSE
    BY <2>2, NumberFacts DEF NewMessage, Message
  <2>4. r.from # User
    BY <2>3, TwoSlots
  <2> HIDE DEF r
  <2>5. Core(ms, turn, task, rt, crossed, stopped, crashed)
    BY <2>1, <2>3, <2>4, CoreAppend
  <2>6. ms[m] = r /\ DOMAIN ms = Ids \cup {m} /\ m \notin Ids /\ m \in Numbers
        /\ \A i \in Ids : ms[i] = msgs[i]
    BY <2>1, <2>3, Appended, NumberFacts DEF Ids
  <2>7. rt.msg = m /\ rt.step = "place" /\ m # 0
    BY <2>6, NumberFacts DEF NoRouting
  <2> HIDE DEF ms, m, rt
  <2>8. /\ Core(res.msgs, res.turn, Begun(task, res.start, res.steer), NoRouting, crossed, stopped, crashed)
        /\ ~ms[m].steer => res.steer = FALSE
        /\ Calm(ms, res.msgs)
    <3>1. LET q == Schedule(turn, ms, rt.msg)
          IN /\ Core(q.msgs, q.turn, Begun(task, q.start, q.steer), NoRouting, crossed, stopped, crashed)
             /\ ~ms[rt.msg].steer => q.steer = FALSE
             /\ Calm(ms, q.msgs)
      BY <2>5, <2>7, CoreSchedule
    <3> QED BY <3>1, <2>7
  <2> HIDE DEF res
  <2>9. res.steer = FALSE
    BY <2>3, <2>6, <2>8
  <2>10. msgs' = res.msgs /\ turn' = res.turn /\ task' = Begun(task, res.start, FALSE)
    BY <1>3 DEF Take
  <2>11. Core(msgs', turn', task', routing', crossed', stopped, crashed)
    BY <2>8, <2>9, <2>10, <1>1
  <2>12. DOMAIN msgs' = Ids \cup {m} /\ \A i \in Ids : msgs'[i].to = msgs[i].to
    BY <2>6, <2>8, <2>10 DEF Calm, Tame
  <2>13. \A i \in Numbers : task'[i].pc \in Locking => task[i].pc \in Locking
    BY <2>1, <2>10, BegunLocking
  <2>14. task[m].pc = "none"
    BY <2>1, <2>6 DEF Core, Fresh, Ids
  <2>15. Excluded'
    <3>1. Excluded
      BY DEF IInv
    <3>2. \A i \in Ids : i \in Numbers
      BY <2>1
    <3> QED BY <3>1, <3>2, <1>1, <2>6, <2>12, <2>13, <2>14 DEF Excluded, Locking, Ids
  <2>16. events' \in [Slots -> Seq(Report)]
    BY <1>1, <2>1, TailEvents
  <2>17. /\ control' \in [Slots -> {"none", "cancel", "stop"}] /\ native' \in [Slots -> Runtime]
         /\ \A i \in Slots : native'[i].turn # 0 => native'[i].inputs # {}
         /\ tails' \subseteq DOMAIN msgs' /\ faults' \in 0..MaxLoad /\ current' \in [Slots -> 0..MaxMessages]
         /\ Ids \subseteq DOMAIN msgs'
    BY <1>1, <2>1, <2>12 DEF Around
  <2> QED BY <1>1, <2>11, <2>15, <2>16, <2>17, Step
<1> QED BY <1>1, <1>2, <1>3

LEMMA MovedExcluded ==
  ASSUME IInv, phase = "up", NEW m \in Ids, NEW pc \in Pcs, Goes(m, pc),
         DOMAIN msgs' = Ids, \A i \in Ids : msgs'[i].to = msgs[i].to,
         pc \in Locking => task[m].pc \in Locking \/ control[msgs[m].to] = "none",
         control' = control, stopped' = stopped
  PROVE  Excluded'
<1>1. task \in [Numbers -> Goroutine] /\ m \in Numbers /\ Ids \subseteq Numbers /\ Excluded
  BY Facts
<1>2. task' = [task EXCEPT ![m].pc = pc]
  BY DEF Goes
<1>3. task'[m].pc = pc /\ \A i \in Numbers \ {m} : task'[i] = task[i]
  BY <1>1, <1>2, TaskMoved
<1>4. \A i \in Ids : i = m \/ task'[i].pc = task[i].pc
  BY <1>1, <1>3
<1> QED BY <1>1, <1>3, <1>4 DEF Excluded, Ids

\* A goroutine goes on, and its message with it.
LEMMA MovedStep ==
  ASSUME IInv, phase = "up", NEW m \in Ids, task[m].pc # "none",
         NEW pc \in Pcs \ {"none", "wait", "native"}, Goes(m, pc), Calm(msgs, msgs'),
         pc \in Locking => /\ ~InFifo(msgs'[m])
                           /\ task[m].pc \in Locking \/ LockFree(msgs[m].to),
         pc = "over" => ~Awaiting(msgs'[m]),
         UNCHANGED <<turn, routing, crossed, control, stopped>>
  PROVE  /\ Core(msgs', turn', task', routing', crossed', stopped, crashed)
         /\ DOMAIN msgs' = Ids /\ Excluded'
<1>1. Core(msgs, turn, task, routing, crossed, stopped, crashed)
  BY Facts
<1>2. Core(msgs', turn, task, routing, crossed, stopped, crashed)
  BY <1>1, CoreCalm
<1>3. DOMAIN msgs' = Ids /\ \A i \in Ids : msgs'[i].to = msgs[i].to
  BY DEF Calm, Tame, Ids
<1>4. task' = [task EXCEPT ![m].pc = pc]
  BY DEF Goes
<1>5. pc \in Locking => \/ task[m].pc \in Locking
                        \/ \A n \in DOMAIN msgs' : msgs'[n].to = msgs'[m].to => task[n].pc \notin Locking
  BY <1>3 DEF LockFree, Locking
<1>6. m \in DOMAIN msgs' /\ pc \in Pcs \ {"none", "wait"} /\ pc # "native"
  BY <1>3
<1>7. Core(msgs', turn, [task EXCEPT ![m].pc = pc], routing, crossed, stopped, crashed)
  BY <1>2, <1>5, <1>6, CoreTask
<1>8. pc \in Locking => task[m].pc \in Locking \/ control[msgs[m].to] = "none"
  BY DEF LockFree
<1>9. Excluded'
  BY <1>3, <1>8, MovedExcluded
<1> QED BY <1>3, <1>4, <1>7, <1>9

LEMMA TooLateStep == ASSUME IInv, NEW m \in Numbers, TooLate(m) PROVE IInv'
<1>1. /\ phase = "up" /\ m \in Ids /\ task[m].pc = "wait" /\ ~Awaiting(msgs[m]) /\ Goes(m, "over")
      /\ UNCHANGED <<msgs, turn, tails, routing, control, native, events, current, crossed, phase,
                     expiring, faults, stopped, crashed>>
  BY DEF TooLate, At
<1>2. Calm(msgs, msgs')
  BY <1>1, Facts
<1>3. /\ Core(msgs', turn', task', routing', crossed', stopped, crashed)
      /\ DOMAIN msgs' = Ids /\ Excluded'
  BY <1>1, <1>2, MovedStep DEF Pcs, Locking
<1> QED BY <1>1, <1>3, QuietStep DEF IInv, Around

LEMMA SubmitStep == ASSUME IInv, NEW m \in Numbers, Submit(m) PROVE IInv'
<1>1. /\ phase = "up" /\ m \in Ids /\ task[m].pc = "wait" /\ LockFree(msgs[m].to) /\ Awaiting(msgs[m])
      /\ Goes(m, "native") /\ msgs' = [msgs EXCEPT ![m] = Delivered(@, "submitting")]
      /\ UNCHANGED <<turn, tails, routing, control, native, events, current, crossed, phase,
                     expiring, faults, stopped, crashed>>
  BY DEF Submit, At
<1>2. Core(msgs, turn, task, routing, crossed, stopped, crashed) /\ msgs \in Seq(Message) /\ msgs[m] \in Message
  BY <1>1, Facts
<1>3. \A n \in Ids : msgs[n].to = msgs[m].to => task[n].pc \notin Locking
  BY <1>1 DEF LockFree, Locking
<1>4. task' = [task EXCEPT ![m].pc = "native"]
  BY <1>1 DEF Goes
<1>5. Core(msgs', turn', task', routing', crossed', stopped, crashed)
  BY <1>1, <1>2, <1>3, <1>4, CoreSubmit DEF Ids
<1>6. Delivered(msgs[m], "submitting") \in Message /\ Delivered(msgs[m], "submitting").to = msgs[m].to
  BY <1>2 DEF Delivered, Message
<1>7. DOMAIN msgs' = Ids /\ \A i \in Ids : msgs'[i].to = msgs[i].to
  BY <1>1, <1>2, <1>6, MessageMoved DEF Ids
<1>8. Excluded'
  <2>1. "native" \in Pcs /\ control[msgs[m].to] = "none"
    BY <1>1 DEF Pcs, LockFree
  <2> QED BY <2>1, <1>1, <1>7, MovedExcluded
<1> QED BY <1>1, <1>5, <1>7, <1>8, QuietStep DEF IInv, Around

\* One record of a message.
LEMMA RecordCalm ==
  ASSUME IInv, phase = "up", NEW m \in Ids, NEW q, Tame(msgs[m], q), msgs' = [msgs EXCEPT ![m] = q]
  PROVE  Calm(msgs, msgs') /\ msgs'[m] = q
<1>1. msgs \in Seq(Message)
  BY Facts
<1> QED BY <1>1, CalmExcept DEF Ids

LEMMA FailDeliveryStep == ASSUME IInv, NEW m \in Numbers, FailDelivery(m) PROVE IInv'
<1> DEFINE q == Delivered(msgs[m], "failed")
<1>1. /\ phase = "up" /\ m \in Ids /\ Goes(m, "failing") /\ msgs' = [msgs EXCEPT ![m] = q] /\ Fault
      /\ \/ task[m].pc = "wait" /\ LockFree(msgs[m].to)
         \/ task[m].pc = "native"
      /\ UNCHANGED <<turn, tails, routing, control, native, events, current, crossed, phase,
                     expiring, stopped, crashed>>
  BY DEF FailDelivery, At
<1>2. msgs[m] \in Message
  BY <1>1, Facts
<1>3. Tame(msgs[m], q) /\ ~InFifo(q)
  <2>1. Tame(msgs[m], q)
    BY <1>2, DeliveredTame
  <2>2. ~InFifo(q)
    BY <1>2 DEF Delivered, DeliveryAllowed, InFifo, Message
  <2> QED BY <2>1, <2>2
<1>4. Calm(msgs, msgs') /\ msgs'[m] = q
  BY <1>1, <1>3, RecordCalm
<1>5. /\ Core(msgs', turn', task', routing', crossed', stopped, crashed)
      /\ DOMAIN msgs' = Ids /\ Excluded'
  BY <1>1, <1>3, <1>4, MovedStep DEF Pcs, Locking
<1>6. faults' \in 0..MaxLoad
  BY <1>1, FaultTyped
<1> QED BY <1>1, <1>5, <1>6, QuietStep DEF IInv, Around

LEMMA FailProcessingStep == ASSUME IInv, NEW m \in Numbers, FailProcessing(m) PROVE IInv'
<1> DEFINE q == Failed(msgs[m])
<1>1. /\ phase = "up" /\ m \in Ids /\ Goes(m, "over") /\ msgs' = [msgs EXCEPT ![m] = q]
      /\ task[m].pc = "failing"
      /\ UNCHANGED <<turn, tails, routing, control, native, events, current, crossed, phase,
                     expiring, faults, stopped, crashed>>
  BY DEF FailProcessing, At
<1>2. msgs[m] \in Message /\ ~InFifo(msgs[m])
  BY <1>1, Facts DEF Core, Once, Locking, Ids
<1>3. Tame(msgs[m], q) /\ ~Awaiting(q)
  BY <1>2, SkippedFailed DEF Tame, Awaiting
<1>4. Calm(msgs, msgs') /\ msgs'[m] = q
  BY <1>1, <1>3, RecordCalm
<1>5. /\ Core(msgs', turn', task', routing', crossed', stopped, crashed)
      /\ DOMAIN msgs' = Ids /\ Excluded'
  BY <1>1, <1>3, <1>4, MovedStep DEF Pcs, Locking
<1> QED BY <1>1, <1>5, QuietStep DEF IInv, Around

\* The two events of a Turn that begins.
LEMMA TurnStartsStep ==
  ASSUME IInv, phase = "up", NEW s \in Slots, NEW m \in Numbers, TurnStarts(s, m),
         NEW tk, NEW cr, Core(msgs, turn, tk, routing, cr, stopped, crashed)
  PROVE  /\ Calm(msgs, msgs') /\ Core(msgs', turn', tk, routing, cr, stopped, crashed)
         /\ native' \in [Slots -> Runtime] /\ current' \in [Slots -> 0..MaxMessages]
         /\ \A i \in Slots : native'[i].turn # 0 => native'[i].inputs # {}
<1> DEFINE n == [turn |-> m, inputs |-> {m}, staged |-> 0]
           b == turn.boundary /\ turn.owner # s
           q == Processed(msgs[m], "working", m)
<1>1. /\ msgs \in Seq(Message) /\ turn \in TurnState /\ Around /\ Calm(msgs, msgs)
      /\ m \in 0..MaxMessages
  BY Facts, NumberFacts
<1>2. n \in Runtime /\ n.inputs # {}
  BY NumberFacts DEF Runtime
<1>3. native' = [native EXCEPT ![s] = n]
  BY DEF TurnStarts
<1> HIDE DEF n
<1>4. /\ native \in [Slots -> Runtime] /\ current \in [Slots -> 0..MaxMessages]
      /\ \A i \in Slots : native[i].turn # 0 => native[i].inputs # {}
  BY <1>1 DEF Around
<1>5. native' \in [Slots -> Runtime] /\ \A i \in Slots : native'[i].turn # 0 => native'[i].inputs # {}
  BY <1>2, <1>3, <1>4
<1>6. CASE ~TurnMatches(msgs, s, m, m)
  <2>1. UNCHANGED <<msgs, turn, current>>
    BY <1>6 DEF TurnStarts
  <2> QED BY <2>1, <1>1, <1>4, <1>5
<1>7. CASE TurnMatches(msgs, s, m, m)
  <2>1. /\ msgs' = [msgs EXCEPT ![m] = q] /\ turn' = [turn EXCEPT !.boundary = b]
        /\ current' = [current EXCEPT ![s] = m]
    BY <1>7 DEF TurnStarts
  <2>2. Calm(msgs, msgs')
    <3>1. CASE m \in DOMAIN msgs
      <4>1. msgs[m] \in Message
        BY <3>1, <1>1
      <4>2. Tame(msgs[m], q)
        BY <4>1, <1>1, ProcessedTame
      <4> HIDE DEF q
      <4> QED BY <4>2, <3>1, <2>1, <1>1, CalmExcept
    <3>2. CASE m \notin DOMAIN msgs
      <4> HIDE DEF q
      <4>1. msgs' = msgs
        BY <3>2, <2>1, <1>1
      <4> QED BY <4>1, <1>1
    <3> QED BY <3>1, <3>2
  <2>3. b \in BOOLEAN
    BY <1>1 DEF TurnState
  <2> HIDE DEF b, q
  <2>4. Core(msgs', turn, tk, routing, cr, stopped, crashed)
    BY <2>2, CoreCalm
  <2>5. Core(msgs', turn', tk, routing, cr, stopped, crashed)
    BY <2>1, <2>3, <2>4, CoreBoundary
  <2> QED BY <2>1, <2>2, <2>5, <1>1, <1>4, <1>5
<1> QED BY <1>6, <1>7

LEMMA StartTurnStep == ASSUME IInv, NEW m \in Numbers, StartTurn(m) PROVE IInv'
<1> DEFINE s == msgs[m].to
           w == [msgs[m] EXCEPT !.unsure = TRUE]
           q == Processed(w, "waiting", 0)
           Crossed(pc) == Core(msgs, turn, [task EXCEPT ![m].pc = pc], routing, crossed', stopped, crashed)
<1>1. /\ phase = "up" /\ m \in Ids /\ task[m].pc = "native" /\ Crossing(m)
      /\ \/ TurnStarts(s, m) /\ Goes(m, "accepted") /\ UNCHANGED faults
         \/ /\ native' = [native EXCEPT ![s].staged = m]
            /\ msgs' = [msgs EXCEPT ![m] = q]
            /\ Fault /\ Goes(m, "over") /\ UNCHANGED <<turn, current>>
      /\ UNCHANGED <<tails, routing, control, events, phase, expiring, stopped, crashed>>
  BY DEF StartTurn, At
<1>2. /\ Core(msgs, turn, task, routing, crossed, stopped, crashed)
      /\ msgs[m] \in Message /\ s \in Slots /\ Around
  BY <1>1, Facts
<1>3. ~InFifo(msgs[m])
  BY <1>1, <1>2 DEF Core, Once, Locking, Ids
<1>4. Crossed("accepted") /\ Crossed("over")
  <2>1. \A pc \in {"accepted", "failing", "over"} : Crossed(pc)
    BY <1>1, <1>2, CoreCross DEF Ids, Crossing
  <2> QED BY <2>1
<1> HIDE DEF q, w
<1>5. CASE TurnStarts(s, m) /\ Goes(m, "accepted") /\ UNCHANGED faults
  <2>1. Core(msgs, turn, task', routing, crossed', stopped, crashed)
    BY <1>4, <1>5 DEF Goes
  <2>2. /\ Calm(msgs, msgs') /\ Core(msgs', turn', task', routing, crossed', stopped, crashed)
        /\ native' \in [Slots -> Runtime] /\ current' \in [Slots -> 0..MaxMessages]
        /\ \A i \in Slots : native'[i].turn # 0 => native'[i].inputs # {}
    BY <2>1, <1>1, <1>2, <1>5, TurnStartsStep
  <2>3. DOMAIN msgs' = Ids /\ \A i \in Ids : msgs'[i].to = msgs[i].to
    BY <2>2 DEF Calm, Tame, Ids
  <2>4. Excluded'
    <3>1. "accepted" \in Pcs /\ task[m].pc \in Locking
      BY <1>1 DEF Pcs, Locking
    <3> QED BY <3>1, <1>1, <1>5, <2>3, MovedExcluded
  <2> QED BY <1>1, <1>2, <1>5, <2>2, <2>3, <2>4, Step DEF Around
<1>6. CASE /\ native' = [native EXCEPT ![s].staged = m]
           /\ msgs' = [msgs EXCEPT ![m] = q]
           /\ Fault /\ Goes(m, "over") /\ UNCHANGED <<turn, current>>
  <2>1. Tame(msgs[m], q)
    <3>1. w \in Message /\ Tame(msgs[m], w)
      BY <1>2, UnsureTame DEF w, Message
    <3>2. Tame(w, q) /\ q \in Message
      BY <3>1, ProcessedTame, NumberFacts DEF q, Tame
    <3> QED BY <3>1, <3>2, <1>2, TameTransitive
  <2>2. Calm(msgs, msgs')
    BY <1>1, <1>6, <2>1, RecordCalm
  <2>3. Core(msgs, turn, task', routing, crossed', stopped, crashed)
    BY <1>4, <1>6 DEF Goes
  <2>4. Core(msgs', turn', task', routing', crossed', stopped, crashed)
    BY <1>1, <1>6, <2>2, <2>3, CoreCalm
  <2>5. native' \in [Slots -> Runtime] /\ \A i \in Slots : native'[i].turn # 0 => native'[i].inputs # {}
    <3>1. /\ native \in [Slots -> Runtime] /\ native[s] \in Runtime
          /\ \A i \in Slots : native[i].turn # 0 => native[i].inputs # {}
      BY <1>2 DEF Around
    <3>2. m \in 0..MaxMessages
      BY NumberFacts
    <3> DEFINE n == [native[s] EXCEPT !.staged = m]
    <3>3. n \in Runtime /\ n.turn = native[s].turn /\ n.inputs = native[s].inputs
      BY <3>1, <3>2 DEF Runtime
    <3>4. native' = [native EXCEPT ![s] = n]
      BY <1>6
    <3> HIDE DEF n
    <3> QED BY <3>1, <3>3, <3>4, <1>2
  <2>6. DOMAIN msgs' = Ids /\ \A i \in Ids : msgs'[i].to = msgs[i].to
    BY <2>2 DEF Calm, Tame, Ids
  <2>7. Excluded'
    <3>1. "over" \in Pcs /\ "over" \notin Locking
      BY DEF Pcs, Locking
    <3> QED BY <3>1, <1>1, <1>6, <2>6, MovedExcluded
  <2>8. faults' \in 0..MaxLoad
    BY <1>1, <1>6, FaultTyped
  <2> QED BY <1>1, <1>2, <1>6, <2>4, <2>5, <2>6, <2>7, <2>8, Step DEF Around
<1> QED BY <1>1, <1>5, <1>6

LEMMA SteerAcceptedStep == ASSUME IInv, NEW m \in Numbers, SteerAccepted(m) PROVE IInv'
<1> DEFINE s == msgs[m].to
           k == native[s].turn
           q == Processed(msgs[m], "working", k)
           p == Delivered(msgs[m], "failed")
           matches == TurnMatches(msgs, s, m, k)
           Crossed(pc) == Core(msgs, turn, [task EXCEPT ![m].pc = pc], routing, crossed', stopped, crashed)
<1>1. /\ phase = "up" /\ m \in Ids /\ task[m].pc = "native" /\ Crossing(m)
      /\ \/ /\ native' = [native EXCEPT ![s].inputs = @ \cup {m}]
            /\ msgs' = IF matches THEN [msgs EXCEPT ![m] = q] ELSE msgs
            /\ Goes(m, "accepted") /\ UNCHANGED faults
         \/ /\ msgs' = [msgs EXCEPT ![m] = p]
            /\ Fault /\ Goes(m, "failing") /\ UNCHANGED native
      /\ UNCHANGED <<turn, tails, routing, control, events, current, phase, expiring, stopped, crashed>>
  BY DEF SteerAccepted, At
<1>2. /\ Core(msgs, turn, task, routing, crossed, stopped, crashed) /\ Calm(msgs, msgs)
      /\ msgs[m] \in Message /\ s \in Slots /\ Around
  BY <1>1, Facts
<1>3. /\ native \in [Slots -> Runtime] /\ native[s] \in Runtime /\ k \in 0..MaxMessages
      /\ \A i \in Slots : native[i].turn # 0 => native[i].inputs # {}
  BY <1>2 DEF Around, Runtime
<1>4. Crossed("accepted") /\ Crossed("failing")
  <2>1. \A pc \in {"accepted", "failing", "over"} : Crossed(pc)
    BY <1>1, <1>2, CoreCross DEF Ids, Crossing
  <2> QED BY <2>1
<1>5. Tame(msgs[m], q) /\ Tame(msgs[m], p)
  <2> HIDE DEF s, k
  <2> QED BY <1>2, <1>3, ProcessedTame, DeliveredTame
<1>6. /\ "accepted" \in Pcs /\ "failing" \in Pcs /\ task[m].pc \in Locking
  BY <1>1 DEF Pcs, Locking
<1> HIDE DEF q, p, matches
<1>7. CASE /\ native' = [native EXCEPT ![s].inputs = @ \cup {m}]
           /\ msgs' = IF matches THEN [msgs EXCEPT ![m] = q] ELSE msgs
           /\ Goes(m, "accepted") /\ UNCHANGED faults
  <2>1. Calm(msgs, msgs')
    BY <1>1, <1>2, <1>5, <1>7, RecordCalm
  <2>2. Core(msgs, turn, task', routing, crossed', stopped, crashed)
    BY <1>4, <1>7 DEF Goes
  <2>3. Core(msgs', turn', task', routing', crossed', stopped, crashed)
    BY <1>1, <2>1, <2>2, CoreCalm
  <2>4. native' \in [Slots -> Runtime] /\ \A i \in Slots : native'[i].turn # 0 => native'[i].inputs # {}
    <3> DEFINE n == [native[s] EXCEPT !.inputs = @ \cup {m}]
    <3>1. n \in Runtime /\ n.inputs # {}
      BY <1>3 DEF Runtime
    <3>2. native' = [native EXCEPT ![s] = n]
      BY <1>7
    <3> HIDE DEF n
    <3> QED BY <3>1, <3>2, <1>2, <1>3
  <2>5. DOMAIN msgs' = Ids /\ \A i \in Ids : msgs'[i].to = msgs[i].to
    BY <2>1 DEF Calm, Tame, Ids
  <2>6. Excluded'
    BY <1>1, <1>6, <1>7, <2>5, MovedExcluded
  <2> QED BY <1>1, <1>2, <1>7, <2>3, <2>4, <2>5, <2>6, Step DEF Around
<1>8. CASE /\ msgs' = [msgs EXCEPT ![m] = p]
           /\ Fault /\ Goes(m, "failing") /\ UNCHANGED native
  <2>1. Calm(msgs, msgs')
    BY <1>1, <1>5, <1>8, RecordCalm
  <2>2. Core(msgs, turn, task', routing, crossed', stopped, crashed)
    BY <1>4, <1>8 DEF Goes
  <2>3. Core(msgs', turn', task', routing', crossed', stopped, crashed)
    BY <1>1, <2>1, <2>2, CoreCalm
  <2>4. DOMAIN msgs' = Ids /\ \A i \in Ids : msgs'[i].to = msgs[i].to
    BY <2>1 DEF Calm, Tame, Ids
  <2>5. Excluded'
    BY <1>1, <1>6, <1>8, <2>4, MovedExcluded
  <2>6. faults' \in 0..MaxLoad
    BY <1>1, <1>8, FaultTyped
  <2> QED BY <1>1, <1>2, <1>8, <2>3, <2>4, <2>5, <2>6, QuietStep DEF Around
<1> QED BY <1>1, <1>7, <1>8

LEMMA SteerRefusedStep == ASSUME IInv, NEW m \in Numbers, SteerRefused(m) PROVE IInv'
<1> DEFINE q == Delivered(msgs[m], "queued")
<1>1. /\ phase = "up" /\ m \in Ids /\ task[m].pc = "native" /\ task[m].steer
      /\ \/ msgs' = [msgs EXCEPT ![m] = q] /\ Goes(m, "fellback")
         \/ UNCHANGED msgs /\ Goes(m, "over")
      /\ UNCHANGED <<turn, tails, routing, control, native, events, current, crossed, phase, expiring,
                     faults, stopped, crashed>>
  BY DEF SteerRefused, At
<1>2. /\ Core(msgs, turn, task, routing, crossed, stopped, crashed) /\ Calm(msgs, msgs)
      /\ msgs \in Seq(Message) /\ msgs[m] \in Message /\ task[m] \in Goroutine
  BY <1>1, Facts
<1>3. task[m].steer = TRUE
  BY <1>1, <1>2 DEF Goroutine
<1>4. "fellback" \in Pcs /\ "over" \in Pcs /\ "fellback" \notin Locking /\ "over" \notin Locking
  BY DEF Pcs, Locking
<1>5. CASE msgs' = [msgs EXCEPT ![m] = q] /\ Goes(m, "fellback")
  <2>1. Core(msgs', turn', task', routing', crossed', stopped, crashed)
    BY <1>1, <1>2, <1>3, <1>5, CoreFallback DEF Ids, Goes
  <2>2. q \in Message /\ q.to = msgs[m].to
    BY <1>2 DEF Delivered, Message
  <2> HIDE DEF q
  <2>3. DOMAIN msgs' = Ids /\ \A i \in Ids : msgs'[i].to = msgs[i].to
    BY <1>1, <1>2, <1>5, <2>2, MessageMoved DEF Ids
  <2>4. Excluded'
    BY <1>1, <1>4, <1>5, <2>3, MovedExcluded
  <2> QED BY <1>1, <2>1, <2>3, <2>4, QuietStep DEF IInv, Around
<1>6. CASE UNCHANGED msgs /\ Goes(m, "over")
  <2>1. ~Awaiting(msgs[m])
    BY <1>1, <1>2 DEF Core, Once, Locking, Awaiting, Ids
  <2>2. /\ Core(msgs', turn', task', routing', crossed', stopped, crashed)
        /\ DOMAIN msgs' = Ids /\ Excluded'
    BY <1>1, <1>2, <1>4, <1>6, <2>1, MovedStep
  <2> QED BY <1>1, <2>2, QuietStep DEF IInv, Around
<1> QED BY <1>1, <1>5, <1>6

LEMMA AcceptedStep == ASSUME IInv, NEW m \in Numbers, Accepted(m) PROVE IInv'
<1> DEFINE d == IF task[m].steer THEN "injected" ELSE "started"
           w == Delivered(msgs[m], d)
           q == FallbackWorking(w)
<1>1. /\ phase = "up" /\ m \in Ids /\ task[m].pc = "accepted" /\ Goes(m, "over")
      /\ msgs' = [msgs EXCEPT ![m] = q]
      /\ UNCHANGED <<turn, tails, routing, control, native, events, current, crossed, phase, expiring,
                     faults, stopped, crashed>>
  BY DEF Accepted, At
<1>2. Core(msgs, turn, task, routing, crossed, stopped, crashed) /\ msgs[m] \in Message
  BY <1>1, Facts
<1>3. ~InFifo(msgs[m])
  BY <1>1, <1>2 DEF Core, Once, Locking, Ids
<1>4. Tame(msgs[m], q)
  <2>1. d \in {"started", "injected", "failed", "skipped"}
    OBVIOUS
  <2> HIDE DEF d
  <2>2. Tame(msgs[m], w) /\ w \in Message
    BY <1>2, <2>1, DeliveredTame DEF Tame
  <2> HIDE DEF w
  <2>3. Tame(w, q) /\ q \in Message
    BY <2>2, FallbackTame DEF Tame
  <2> QED BY <1>2, <2>2, <2>3, TameTransitive
<1> HIDE DEF q
<1>5. Calm(msgs, msgs') /\ msgs'[m] = q /\ ~Awaiting(q)
  <2>1. ~Awaiting(q)
    BY <1>3, <1>4 DEF Tame, Awaiting
  <2> QED BY <1>1, <1>4, <2>1, RecordCalm
<1>6. /\ Core(msgs', turn', task', routing', crossed', stopped, crashed)
      /\ DOMAIN msgs' = Ids /\ Excluded'
  BY <1>1, <1>5, MovedStep DEF Pcs, Locking
<1> QED BY <1>1, <1>6, QuietStep DEF IInv, Around

LEMMA InterruptsTyped == ASSUME Around, NEW s \in Slots, Interrupts(s) PROVE Ended(s)
<1>1. CASE Ends(s, "failed")
  BY <1>1, EndsTyped DEF Settled
<1>2. CASE UNCHANGED <<native, events>>
  BY <1>2 DEF Around, Ended
<1> QED BY <1>1, <1>2 DEF Interrupts

LEMMA MaterializeFailsStep == ASSUME IInv, NEW m \in Numbers, MaterializeFails(m) PROVE IInv'
<1> DEFINE w == Delivered(msgs[m], "started")
           q == Failed(w)
<1>1. /\ phase = "up" /\ m \in Ids /\ task[m].pc = "accepted" /\ Goes(m, "over")
      /\ Fault /\ Interrupts(msgs[m].to) /\ msgs' = [msgs EXCEPT ![m] = q]
      /\ UNCHANGED <<turn, tails, routing, control, current, crossed, phase, expiring, stopped, crashed>>
  BY DEF MaterializeFails, At
<1>2. /\ Core(msgs, turn, task, routing, crossed, stopped, crashed) /\ msgs[m] \in Message
      /\ msgs[m].to \in Slots /\ Around
  BY <1>1, Facts
<1>3. ~InFifo(msgs[m])
  BY <1>1, <1>2 DEF Core, Once, Locking, Ids
<1>4. Tame(msgs[m], q)
  <2>1. Tame(msgs[m], w) /\ w \in Message
    BY <1>2, DeliveredTame DEF Tame
  <2> HIDE DEF w
  <2>2. Tame(w, q) /\ q \in Message
    BY <2>1, SkippedFailed DEF Tame
  <2> QED BY <1>2, <2>1, <2>2, TameTransitive
<1> HIDE DEF q
<1>5. Calm(msgs, msgs') /\ msgs'[m] = q /\ ~Awaiting(q)
  <2>1. ~Awaiting(q)
    BY <1>3, <1>4 DEF Tame, Awaiting
  <2> QED BY <1>1, <1>4, <2>1, RecordCalm
<1>6. /\ Core(msgs', turn', task', routing', crossed', stopped, crashed)
      /\ DOMAIN msgs' = Ids /\ Excluded'
  BY <1>1, <1>5, MovedStep DEF Pcs, Locking
<1>7. Ended(msgs[m].to)
  BY <1>1, <1>2, InterruptsTyped
<1>8. faults' \in 0..MaxLoad
  BY <1>1, FaultTyped
<1> QED BY <1>1, <1>2, <1>6, <1>7, <1>8, Step DEF Around, Ended

LEMMA RecordsCommute ==
  ASSUME NEW t \in TurnState, NEW n, NEW q
  PROVE  [[t EXCEPT !.submitting = n] EXCEPT !.queue = q] = [[t EXCEPT !.queue = q] EXCEPT !.submitting = n]
BY DEF TurnState

\* What a scheduler operation that fills the three variables leaves of the invariant.
LEMMA TakenStep ==
  ASSUME IInv, phase = "up", NEW res, NEW tk \in [Numbers -> Goroutine], NEW rt,
         \A m \in Numbers : tk[m].pc \in Locking => task[m].pc \in Locking,
         Core(res.msgs, res.turn, Begun(tk, res.start, FALSE), rt, crossed, stopped, crashed),
         Calm(msgs, res.msgs), Take(res, tk, FALSE), UNCHANGED <<control, stopped>>
  PROVE  /\ Core(msgs', turn', task', rt, crossed, stopped, crashed)
         /\ DOMAIN msgs' = Ids /\ Excluded'
<1>1. msgs' = res.msgs /\ turn' = res.turn /\ task' = Begun(tk, res.start, FALSE)
  BY DEF Take
<1>2. Ids \subseteq Numbers
  BY Facts
<1>3. \A m \in Ids : task'[m].pc \in Locking => task[m].pc \in Locking
  BY <1>1, <1>2, BegunLocking
<1>4. Excluded' /\ DOMAIN msgs' = DOMAIN msgs
  BY <1>1, <1>3, ExcludedStep DEF IInv
<1> QED BY <1>1, <1>4 DEF Ids

LEMMA ReturnStep == ASSUME IInv, NEW m \in Numbers, Return(m) PROVE IInv'
<1> DEFINE n == IF turn.owner = msgs[m].to /\ turn.submitting > 0 THEN turn.submitting - 1 ELSE turn.submitting
           counted == [turn EXCEPT !.submitting = n]
           queues == IF m \in ToSet(turn.queue) THEN counted
                     ELSE [counted EXCEPT !.queue = Enqueued(counted.queue, m)]
           ended == [task EXCEPT ![m].pc = "none"]
           back == task[m].pc = "fellback" /\ Awaiting(msgs[m])
           plain(t) == [turn |-> t, msgs |-> msgs, start |-> 0]
           res == IF back THEN IF turn.owner = None THEN Reserve(queues, msgs) ELSE plain(queues)
                  ELSE plain(counted)
           Good(r) == /\ Core(r.msgs, r.turn, Begun(ended, r.start, FALSE), routing, crossed, stopped, crashed)
                      /\ Calm(msgs, r.msgs)
<1>1. /\ phase = "up" /\ m \in Ids /\ task[m].pc \in {"over", "fellback"}
      /\ tails' = tails \cup {m} /\ Take(res, ended, FALSE)
      /\ UNCHANGED <<routing, control, native, events, current, crossed, phase, expiring, faults, stopped, crashed>>
  BY DEF Return, At
<1>2. /\ Core(msgs, turn, task, routing, crossed, stopped, crashed) /\ Calm(msgs, msgs)
      /\ turn \in TurnState /\ task \in [Numbers -> Goroutine] /\ Ids \subseteq Numbers
  BY <1>1, Facts
<1>3. "none" \in Pcs /\ "none" \notin Locking
  BY DEF Pcs, Locking
<1>4. ended \in [Numbers -> Goroutine] /\ \A i \in Numbers : ended[i].pc \in Locking => task[i].pc \in Locking
  BY <1>2, <1>3, TaskMoved
<1>5. m # routing.msg
  BY <1>1, <1>2, NumberFacts DEF Core, Admitted
<1>6. \A t : Core(msgs, t, ended, routing, crossed, stopped, crashed) => Good(plain(t))
  <2> SUFFICES ASSUME NEW t, Core(msgs, t, ended, routing, crossed, stopped, crashed) PROVE Good(plain(t))
    OBVIOUS
  <2>1. Begun(ended, plain(t).start, FALSE) = ended
    BY Begun0
  <2> QED BY <2>1, <1>2
<1>7. m \in ToSet(turn.queue) \/ ~Awaiting(msgs[m]) => Core(msgs, counted, ended, routing, crossed, stopped, crashed)
  BY <1>1, <1>2, CoreReturned DEF Ids
<1>8. m \notin ToSet(turn.queue) =>
        Core(msgs, [counted EXCEPT !.queue = Enqueued(counted.queue, m)], ended, routing, crossed, stopped, crashed)
  <2> SUFFICES ASSUME m \notin ToSet(turn.queue)
      PROVE Core(msgs, [counted EXCEPT !.queue = Enqueued(counted.queue, m)], ended, routing, crossed, stopped, crashed)
    OBVIOUS
  <2> DEFINE e == Enqueued(turn.queue, m)
             u == [turn EXCEPT !.queue = e]
  <2>1. Core(msgs, u, task, routing, crossed, stopped, crashed)
    BY <1>1, <1>2, <1>5, CoreEnqueue DEF Ids
  <2>2. m \in ToSet(e)
    BY <1>2, EnqueuedElements DEF TurnState
  <2>3. u.owner = turn.owner /\ u.submitting = turn.submitting /\ u.queue = e /\ counted.queue = turn.queue
    BY <1>2 DEF TurnState
  <2>4. [counted EXCEPT !.queue = e] = [u EXCEPT !.submitting = n]
    <3> HIDE DEF n, e
    <3> QED BY <1>2, RecordsCommute
  <2> HIDE DEF u, e
  <2>5. Core(msgs, [u EXCEPT !.submitting = IF u.owner = msgs[m].to /\ @ > 0 THEN @ - 1 ELSE @],
             ended, routing, crossed, stopped, crashed)
    BY <1>1, <2>1, <2>2, <2>3, CoreReturned DEF Ids
  <2>6. [u EXCEPT !.submitting = IF u.owner = msgs[m].to /\ @ > 0 THEN @ - 1 ELSE @] = [u EXCEPT !.submitting = n]
    BY <2>3
  <2> QED BY <2>3, <2>4, <2>5, <2>6 DEF e
<1>9. back => Core(msgs, queues, ended, routing, crossed, stopped, crashed) /\ queues.owner = turn.owner
  <2>1. counted.owner = turn.owner /\ [counted EXCEPT !.queue = Enqueued(counted.queue, m)].owner = turn.owner
    BY <1>2 DEF TurnState
  <2> HIDE DEF counted
  <2> QED BY <1>7, <1>8, <2>1
<1>10. ~back => Core(msgs, counted, ended, routing, crossed, stopped, crashed)
  <2>1. task[m].pc = "over" => ~Awaiting(msgs[m])
    BY <1>1, <1>2 DEF Core, Once, Ids
  <2> QED BY <2>1, <1>1, <1>7
<1>11. Good(res)
  <2> HIDE DEF queues, counted, ended
  <2>1. CASE back /\ turn.owner = None
    <3>1. Good(Reserve(queues, msgs))
      BY <2>1, <1>9, CoreReserve
    <3> QED BY <2>1, <3>1
  <2>2. CASE back /\ turn.owner # None
    BY <2>2, <1>6, <1>9
  <2>3. CASE ~back
    BY <2>3, <1>6, <1>10
  <2> QED BY <2>1, <2>2, <2>3
<1> HIDE DEF res, ended
<1>12. /\ Core(msgs', turn', task', routing, crossed, stopped, crashed)
       /\ DOMAIN msgs' = Ids /\ Excluded'
  BY <1>1, <1>4, <1>11, TakenStep
<1>13. tails' \subseteq DOMAIN msgs'
  BY <1>1, <1>12 DEF IInv, Around
<1> QED BY <1>1, <1>12, <1>13, QuietStep DEF IInv, Around

LEMMA ReleaseCheckStep == ASSUME IInv, NEW m \in Numbers, ReleaseCheck(m) PROVE IInv'
<1> DEFINE res == FinishIfIdle(turn, msgs, msgs[m].to, TRUE)
<1>1. /\ phase = "up" /\ m \in tails /\ tails' = tails \ {m} /\ Take(res, task, FALSE)
      /\ UNCHANGED <<routing, control, native, events, current, crossed, phase, expiring, faults, stopped, crashed>>
  BY DEF ReleaseCheck
<1>2. /\ Core(msgs, turn, task, routing, crossed, stopped, crashed) /\ task \in [Numbers -> Goroutine]
  BY <1>1, Facts
<1>3. /\ Core(res.msgs, res.turn, Begun(task, res.start, FALSE), routing, crossed, stopped, crashed)
      /\ Calm(msgs, res.msgs)
  BY <1>2, CoreFinishIfIdle
<1> HIDE DEF res
<1>4. /\ Core(msgs', turn', task', routing, crossed, stopped, crashed)
      /\ DOMAIN msgs' = Ids /\ Excluded'
  BY <1>1, <1>2, <1>3, TakenStep
<1>5. tails' \subseteq DOMAIN msgs'
  BY <1>1, <1>4 DEF IInv, Around
<1> QED BY <1>1, <1>4, <1>5, QuietStep DEF IInv, Around

LEMMA TurnEndsStep == ASSUME IInv, NEW s \in Slots, NEW o \in Settled, TurnEnds(s, o) PROVE IInv'
<1>1. /\ phase = "up" /\ Ends(s, o)
      /\ UNCHANGED <<msgs, turn, task, tails, routing, control, current, crossed, phase, expiring, faults,
                     stopped, crashed>>
  BY DEF TurnEnds
<1>2. Ended(s) /\ Excluded'
  BY <1>1, EndsTyped, SameExcluded DEF IInv
<1> QED BY <1>1, <1>2, OutsideStep DEF IInv, Around, Ended

LEMMA LateBoundaryStep == ASSUME IInv, NEW s \in Slots, NEW m \in Numbers, LateBoundary(s, m) PROVE IInv'
<1> DEFINE e == Event("boundary", m, m, "failed")
<1>1. /\ phase = "up" /\ Fault /\ events' = [events EXCEPT ![s] = Append(@, e)]
      /\ UNCHANGED <<msgs, turn, task, tails, routing, control, native, current, crossed, phase, expiring,
                     stopped, crashed>>
  BY DEF LateBoundary
<1>2. e \in Report
  BY NumberFacts DEF Event, Report, EventKinds, Settled
<1> HIDE DEF e
<1>3. events' \in [Slots -> Seq(Report)]
  <2>1. events \in [Slots -> Seq(Report)] /\ events[s] \in Seq(Report)
    BY DEF IInv, Around
  <2>2. Append(events[s], e) \in Seq(Report)
    BY <2>1, <1>2, AppendProperties
  <2> QED BY <1>1, <2>1, <2>2
<1>4. Excluded' /\ faults' \in 0..MaxLoad
  BY <1>1, SameExcluded, FaultTyped DEF IInv
<1> QED BY <1>1, <1>3, <1>4, OutsideStep DEF IInv, Around

LEMMA AnswersLateStep == ASSUME IInv, NEW s \in Slots, AnswersLate(s) PROVE IInv'
<1> DEFINE m == native[s].staged
<1>1. /\ phase = "up" /\ m # 0
      /\ \/ TurnStarts(s, m) /\ UNCHANGED events
         \/ Ends(s, "failed") /\ UNCHANGED <<msgs, turn, current>>
      /\ UNCHANGED <<task, tails, routing, control, crossed, phase, expiring, faults, stopped, crashed>>
  BY DEF AnswersLate
<1>2. /\ Core(msgs, turn, task, routing, crossed, stopped, crashed) /\ Around
  BY <1>1, Facts
<1>3. m \in Numbers
  <2>1. native[s] \in Runtime
    BY <1>2 DEF Around
  <2> QED BY <2>1, <1>1, NumberFacts DEF Runtime
<1> HIDE DEF m
<1>4. CASE TurnStarts(s, m) /\ UNCHANGED events
  <2>1. /\ Calm(msgs, msgs') /\ Core(msgs', turn', task, routing, crossed, stopped, crashed)
        /\ native' \in [Slots -> Runtime] /\ current' \in [Slots -> 0..MaxMessages]
        /\ \A i \in Slots : native'[i].turn # 0 => native'[i].inputs # {}
    BY <1>1, <1>2, <1>3, <1>4, TurnStartsStep
  <2>2. Core(msgs', turn', task', routing', crossed', stopped, crashed)
    BY <1>1, <2>1
  <2>3. Excluded' /\ DOMAIN msgs' = DOMAIN msgs
    BY <1>1, <2>1, ExcludedStep DEF IInv
  <2> QED BY <1>1, <1>2, <1>4, <2>1, <2>2, <2>3, Step DEF Around, Ids
<1>5. CASE Ends(s, "failed") /\ UNCHANGED <<msgs, turn, current>>
  <2>1. Ended(s) /\ Excluded'
    BY <1>1, <1>5, EndsTyped, SameExcluded DEF IInv, Settled
  <2> QED BY <1>1, <1>5, <2>1, OutsideStep DEF IInv, Around, Ended
<1> QED BY <1>1, <1>4, <1>5

LEMMA CancelWaitingStep == ASSUME IInv, NEW m \in Numbers, CancelWaiting(m) PROVE IInv'
<1> DEFINE q == Failed(Skipped(msgs[m]))
           u == [turn EXCEPT !.queue = Kept(@, Numbers \ {m})]
<1>1. /\ phase = "up" /\ m \in Ids /\ Fault /\ turn' = u /\ msgs' = [msgs EXCEPT ![m] = q]
      /\ UNCHANGED <<task, tails, routing, control, native, events, current, crossed, phase, expiring,
                     stopped, crashed>>
  BY DEF CancelWaiting
<1>2. Core(msgs, turn, task, routing, crossed, stopped, crashed) /\ msgs[m] \in Message
  BY <1>1, Facts
<1>3. Tame(msgs[m], q) /\ ~Awaiting(q)
  BY <1>2, SkippedFailed DEF Awaiting
<1> HIDE DEF q
<1>4. Calm(msgs, msgs') /\ msgs'[m] = q
  BY <1>1, <1>3, RecordCalm
<1>5. Core(msgs', turn, task, routing, crossed, stopped, crashed)
  BY <1>2, <1>4, CoreCalm
<1>6. \A i \in {m} \cap DOMAIN msgs' : ~Awaiting(msgs'[i])
  BY <1>3, <1>4
<1>7. Core(msgs', u, task, routing, crossed, stopped, crashed)
  BY <1>5, <1>6, CoreFilter
<1>8. Excluded' /\ DOMAIN msgs' = DOMAIN msgs
  BY <1>1, <1>4, ExcludedStep DEF IInv
<1>9. faults' \in 0..MaxLoad
  BY <1>1, FaultTyped
<1> QED BY <1>1, <1>7, <1>8, <1>9, QuietStep DEF IInv, Around, Ids

LEMMA CancelAcceptedStep == ASSUME IInv, NEW m \in Numbers, CancelAccepted(m) PROVE IInv'
<1>1. /\ phase = "up" /\ m \in Ids /\ Fault /\ LockFree(msgs[m].to) /\ Interrupts(msgs[m].to)
      /\ control' = [control EXCEPT ![msgs[m].to] = "cancel"]
      /\ UNCHANGED <<msgs, turn, task, tails, routing, current, crossed, phase, expiring, stopped, crashed>>
  BY DEF CancelAccepted
<1>2. msgs[m].to \in Slots /\ Around /\ Excluded
  BY <1>1, Facts
<1>3. Ended(msgs[m].to) /\ faults' \in 0..MaxLoad
  BY <1>1, <1>2, InterruptsTyped, FaultTyped
<1>4. control \in [Slots -> {"none", "cancel", "stop"}]
  BY <1>2 DEF Around
<1>5. control' \in [Slots -> {"none", "cancel", "stop"}]
  BY <1>1, <1>2, <1>4
<1>6. Excluded'
  <2>1. \A i \in Slots : control'[i] = IF i = msgs[m].to THEN "cancel" ELSE control[i]
    BY <1>1, <1>4
  <2> QED BY <1>1, <1>2, <2>1 DEF Excluded, LockFree, Locking, Ids
<1> QED BY <1>1, <1>2, <1>3, <1>5, <1>6, OutsideStep DEF Around, Ended

\* The end of a cancellation or a stop.
LEMMA FreedStep ==
  ASSUME IInv, phase = "up", NEW s \in Slots, NEW res, Calm(msgs, res.msgs),
         Core(res.msgs, res.turn, Begun(task, res.start, FALSE), routing, crossed, stopped, crashed),
         Take(res, task, FALSE), control' = [control EXCEPT ![s] = "none"],
         current' \in [Slots -> 0..MaxMessages],
         UNCHANGED <<tails, routing, native, events, crossed, phase, expiring, faults, stopped, crashed>>
  PROVE  IInv'
<1>1. msgs' = res.msgs /\ turn' = res.turn /\ task' = Begun(task, res.start, FALSE)
  BY DEF Take
<1>2. Ids \subseteq Numbers /\ task \in [Numbers -> Goroutine] /\ Excluded /\ Around
  BY Facts
<1>3. \A m \in Ids : task'[m].pc \in Locking => task[m].pc \in Locking
  BY <1>1, <1>2, BegunLocking
<1>4. DOMAIN msgs' = Ids /\ \A m \in Ids : msgs'[m].to = msgs[m].to
  BY <1>1 DEF Calm, Tame, Ids
<1>5. control \in [Slots -> {"none", "cancel", "stop"}]
  BY <1>2 DEF Around
<1>6. control' \in [Slots -> {"none", "cancel", "stop"}]
      /\ \A i \in Slots : control'[i] = IF i = s THEN "none" ELSE control[i]
  BY <1>5
<1>7. Excluded'
  BY <1>2, <1>3, <1>4, <1>6 DEF Excluded, Ids
<1> QED BY <1>1, <1>2, <1>4, <1>6, <1>7, Step DEF Around

LEMMA CancelSettlesStep == ASSUME IInv, NEW s \in Slots, CancelSettles(s) PROVE IInv'
<1> DEFINE affected == {m \in Ids : msgs[m].to = s /\ Open(msgs[m]) /\ AtNative(msgs[m])}
           ms == Each(msgs, affected, Failed)
           res == FinishIfIdle(turn, ms, s, FALSE)
<1>1. /\ phase = "up" /\ Take(res, task, FALSE) /\ control' = [control EXCEPT ![s] = "none"]
      /\ UNCHANGED <<tails, routing, native, events, current, crossed, phase, expiring, faults, stopped, crashed>>
  BY DEF CancelSettles
<1>2. Core(msgs, turn, task, routing, crossed, stopped, crashed) /\ msgs \in Seq(Message)
  BY <1>1, Facts
<1> HIDE DEF affected
<1>3. Calm(msgs, ms)
  BY <1>2, EachFailed
<1> HIDE DEF ms
<1>4. Core(ms, turn, task, routing, crossed, stopped, crashed)
  BY <1>2, <1>3, CoreCalm
<1>5. /\ Core(res.msgs, res.turn, Begun(task, res.start, FALSE), routing, crossed, stopped, crashed)
      /\ Calm(ms, res.msgs)
  BY <1>4, CoreFinishIfIdle
<1> HIDE DEF res
<1>6. Calm(msgs, res.msgs)
  BY <1>2, <1>3, <1>5, CalmTransitive
<1>7. current' \in [Slots -> 0..MaxMessages]
  BY <1>1 DEF IInv, Around
<1> QED BY <1>1, <1>5, <1>6, <1>7, FreedStep

LEMMA StopBeginsStep == ASSUME IInv, NEW s \in Slots, StopBegins(s) PROVE IInv'
<1>1. /\ phase = "up" /\ LockFree(s) /\ Fault /\ stopped' = TRUE
      /\ control' = [control EXCEPT ![s] = "stop"]
      /\ UNCHANGED <<msgs, turn, task, tails, routing, current, crossed, phase, expiring, crashed>>
  BY DEF StopBegins
<1>2. /\ Core(msgs, turn, task, routing, crossed, stopped, crashed) /\ Around /\ Excluded
      /\ faults' \in 0..MaxLoad
  BY <1>1, Facts, FaultTyped
<1>3. Ended(s)
  <2>1. CASE s \notin Steering
    BY <1>2, <2>1, EndsTyped DEF StopBegins, Settled
  <2>2. CASE s \in Steering
    <3> DEFINE S == native[s].inputs \cup ({native[s].staged} \ {0})
               e == InputEvents(S, "failed", 0)
    <3>1. /\ native \in [Slots -> Runtime] /\ native[s] \in Runtime /\ events \in [Slots -> Seq(Report)]
          /\ events[s] \in Seq(Report) /\ IdleRuntime \in Runtime
          /\ \A i \in Slots : native[i].turn # 0 => native[i].inputs # {}
      BY <1>2, RuntimeFacts DEF Around
    <3>2. S \in SUBSET Numbers
      BY <3>1, NumberFacts DEF Runtime
    <3>3. e \in Seq(Report)
      <4> HIDE DEF S
      <4> QED BY <3>2, InputEventsTyped, NumberFacts DEF Settled
    <3>4. native' = [native EXCEPT ![s] = IdleRuntime] /\ events' = [events EXCEPT ![s] = @ \o e]
      BY <2>2 DEF StopBegins
    <3> HIDE DEF e
    <3>5. events[s] \o e \in Seq(Report)
      BY <3>1, <3>3, ConcatProperties
    <3>6. IdleRuntime.turn = 0
      BY DEF IdleRuntime
    <3> QED BY <3>1, <3>4, <3>5, <3>6 DEF Ended
  <2> QED BY <2>1, <2>2
<1>4. control \in [Slots -> {"none", "cancel", "stop"}]
  BY <1>2 DEF Around
<1>5. /\ control' \in [Slots -> {"none", "cancel", "stop"}]
      /\ \A i \in Slots : control'[i] = IF i = s THEN "stop" ELSE control[i]
  BY <1>1, <1>4
<1>6. Excluded'
  BY <1>1, <1>2, <1>5 DEF Excluded, LockFree, Locking, Ids
<1>7. Delivering'
  <2>1. Core(msgs, turn, task, routing, crossed, TRUE, crashed)
    BY <1>2 DEF Core, Counts, Held, Waits, Oldest
  <2>2. (stopped' \/ phase' # "up") = TRUE
    BY <1>1
  <2>3. Core(msgs', turn', task', routing', crossed', TRUE, crashed')
    BY <1>1, <2>1
  <2> QED BY <2>2, <2>3 DEF Delivering
<1>8. Around'
  BY <1>1, <1>2, <1>3, <1>5 DEF Around, Ended, Ids
<1>9. Down'
  BY <1>1 DEF Down
<1> QED BY <1>6, <1>7, <1>8, <1>9 DEF IInv

LEMMA EachCancelled ==
  ASSUME NEW ms \in Seq(Message), NEW S
  PROVE  Calm(ms, Each(ms, S, LAMBDA r : Processed(r, "failed", r.turn)))
<1> DEFINE f == Each(ms, S, LAMBDA r : Processed(r, "failed", r.turn))
<1>1. f = [i \in DOMAIN ms |-> f[i]]
      /\ \A i \in DOMAIN ms : f[i] = IF i \in S THEN Processed(ms[i], "failed", ms[i].turn) ELSE ms[i]
  BY DEF Each
<1>2. \A i \in DOMAIN ms : ms[i] \in Message /\ ms[i].turn \in 0..MaxMessages
  <2>1. \A i \in DOMAIN ms : ms[i] \in Message
    OBVIOUS
  <2> QED BY <2>1 DEF Message
<1>3. \A i \in DOMAIN ms : Tame(ms[i], Processed(ms[i], "failed", ms[i].turn)) /\ Tame(ms[i], ms[i])
  BY <1>2, TameSame, ProcessedTame DEF Settled
<1>4. \A i \in DOMAIN ms : Tame(ms[i], f[i])
  BY <1>1, <1>3
<1> HIDE DEF f
<1> QED BY <1>1, <1>4, CalmFunction DEF f

LEMMA StopSettlesStep == ASSUME IInv, NEW s \in Slots, StopSettles(s) PROVE IInv'
<1> DEFINE S == {m \in Ids : msgs[m].to = s /\ Open(msgs[m])}
           ms == Each(msgs, S, LAMBDA r : Processed(r, "failed", r.turn))
           res == IF turn.owner = s THEN FinishTurn(turn, ms)
                  ELSE [turn |-> turn, msgs |-> ms, start |-> 0]
<1>1. /\ phase = "up" /\ control[s] = "stop" /\ Take(res, task, FALSE)
      /\ control' = [control EXCEPT ![s] = "none"] /\ current' = [current EXCEPT ![s] = 0]
      /\ UNCHANGED <<tails, routing, native, events, crossed, phase, expiring, faults, stopped, crashed>>
  BY DEF StopSettles
<1>2. /\ Core(msgs, turn, task, routing, crossed, stopped, crashed) /\ msgs \in Seq(Message)
      /\ Excluded /\ Around
  BY <1>1, Facts
<1>3. stopped
  BY <1>1, <1>2 DEF Excluded
<1> HIDE DEF S
<1>4. Calm(msgs, ms)
  BY <1>2, EachCancelled
<1> HIDE DEF ms
<1>5. Core(ms, turn, task, routing, crossed, stopped, crashed)
  BY <1>2, <1>4, CoreCalm
<1>6. /\ Core(res.msgs, res.turn, Begun(task, res.start, FALSE), routing, crossed, stopped, crashed)
      /\ Calm(msgs, res.msgs)
  <2>1. CASE turn.owner = s
    <3> DEFINE fin == FinishTurn(turn, ms)
    <3>1. /\ Core(fin.msgs, fin.turn, Begun(task, fin.start, FALSE), routing, crossed, stopped, crashed)
          /\ Calm(ms, fin.msgs)
      BY <1>3, <1>5, CoreFinish
    <3>2. res = fin
      BY <2>1
    <3> HIDE DEF fin, res
    <3> QED BY <3>1, <3>2, <1>2, <1>4, CalmTransitive
  <2>2. CASE turn.owner # s
    <3>1. res.turn = turn /\ res.msgs = ms /\ res.start = 0
      BY <2>2
    <3> HIDE DEF res
    <3> QED BY <3>1, <1>4, <1>5, Begun0
  <2> QED BY <2>1, <2>2
<1> HIDE DEF res
<1>7. current' \in [Slots -> 0..MaxMessages]
  <2>1. current \in [Slots -> 0..MaxMessages] /\ 0 \in 0..MaxMessages
    BY <1>2, NumberFacts DEF Around
  <2> QED BY <1>1, <2>1
<1> QED BY <1>1, <1>6, <1>7, FreedStep

-----------------------------------------------------------------------------
\* What of Core the Event Log alone says.
Resting(ms, cr) ==
  /\ ms \in Seq(Message) /\ Len(ms) <= MaxMessages /\ cr \in [Numbers -> 0..2]
  /\ \A m \in Numbers \ DOMAIN ms : cr[m] = 0
  /\ \A m \in DOMAIN ms : cr[m] <= 1 /\ (InFifo(ms[m]) => cr[m] = 0)
  /\ \A m \in DOMAIN ms : ms[m].from \in Slots => ~ms[m].steer

LEMMA RestingKept ==
  ASSUME NEW ms, NEW ns, NEW cr, Resting(ms, cr), Calm(ms, ns)
  PROVE  Resting(ns, cr)
BY DEF Resting, Calm, Tame

LEMMA CoreResting ==
  ASSUME NEW ms, NEW t, NEW tk, NEW rt, NEW cr, NEW lax, NEW cd, Core(ms, t, tk, rt, cr, lax, cd)
  PROVE  Resting(ms, cr)
BY DEF Core, Typed, Fresh, Once, Relays, Resting

NoTasks == [m \in Numbers |-> NoTask]

LEMMA NobodyRuns ==
  /\ FreeTurn \in TurnState /\ NoTasks \in [Numbers -> Goroutine] /\ NoRouting \in Admission
  /\ Running(NoTasks) = {} /\ \A m \in Numbers : NoTasks[m].pc = "none"
  /\ FreeTurn.queue = <<>> /\ FreeTurn.owner = None /\ FreeTurn.submitting = 0 /\ ToSet(FreeTurn.queue) = {}
  /\ Increasing(FreeTurn.queue) /\ NoRouting.msg = 0
<1>1. FreeTurn.queue = <<>> /\ FreeTurn.owner = None /\ FreeTurn.submitting = 0 /\ FreeTurn.boundary = FALSE
  BY DEF FreeTurn
<1>2. FreeTurn \in TurnState
  <2>1. <<>> \in Seq(Numbers)
    OBVIOUS
  <2> QED BY <2>1 DEF FreeTurn, TurnState
<1>3. NoTask \in Goroutine /\ NoTask.pc = "none"
  BY DEF NoTask, Goroutine, Pcs
<1>4. NoRouting \in Admission /\ NoRouting.msg = 0
  BY NumberFacts DEF NoRouting, Admission
<1>5. NoTasks \in [Numbers -> Goroutine] /\ \A m \in Numbers : NoTasks[m].pc = "none"
  BY <1>3 DEF NoTasks
<1>6. ToSet(FreeTurn.queue) = {} /\ Increasing(FreeTurn.queue)
  BY <1>1 DEF ToSet, Increasing
<1> QED BY <1>1, <1>2, <1>4, <1>5, <1>6 DEF Running

LEMMA RestingCore ==
  ASSUME NEW ms, NEW cr, Resting(ms, cr), NEW lax, NEW cd,
         lax \/ \A m \in DOMAIN ms : ~(Open(ms[m]) /\ (InFifo(ms[m]) \/ AtNative(ms[m]))),
         cd \/ \A m \in DOMAIN ms : ~Awaiting(ms[m])
  PROVE  Core(ms, FreeTurn, NoTasks, NoRouting, cr, lax, cd)
<1>1. Typed(ms, FreeTurn, NoTasks, NoRouting, cr) /\ Queued(ms, FreeTurn)
  BY NobodyRuns DEF Resting, Typed, Queued
<1>2. \A m \in DOMAIN ms : m \in Numbers /\ NoTasks[m].pc = "none"
  BY <1>1, DomainFacts, NobodyRuns
<1>3. Fresh(ms, NoTasks, cr)
  BY NobodyRuns DEF Resting, Fresh
<1>4. Admitted(ms, FreeTurn, NoTasks, NoRouting, cr)
  BY NobodyRuns DEF Admitted
<1>5. Once(ms, NoTasks, cr) /\ Lanes(ms, NoTasks)
  BY <1>2 DEF Resting, Once, Lanes, Locking
<1>6. Counts(ms, FreeTurn, NoTasks, lax)
  <2>1. {m \in Running(NoTasks) : ms[m].to = FreeTurn.owner} = {}
    BY NobodyRuns
  <2>2. Cardinality({}) = 0
    BY FS_EmptySet
  <2> QED BY <2>1, <2>2, NobodyRuns DEF Counts
<1>7. Held(ms, FreeTurn, lax) /\ Waits(ms, FreeTurn, NoTasks, NoRouting, lax /\ cd)
  BY DEF Held, Waits, Awaiting
<1>8. Oldest(ms, NoTasks, lax)
  BY <1>2 DEF Oldest
<1>9. Relays(ms, NoTasks, NoRouting, cd)
  BY <1>2 DEF Relays, Resting
<1> QED BY <1>1, <1>3, <1>4, <1>5, <1>6, <1>7, <1>8, <1>9 DEF Core

LEMMA InitIInv == Init => IInv
<1> SUFFICES ASSUME Init PROVE IInv
  OBVIOUS
<1>1. /\ msgs = <<>> /\ turn = FreeTurn /\ task = NoTasks /\ routing = NoRouting
      /\ crossed = [m \in Numbers |-> 0] /\ phase = "up" /\ stopped = FALSE /\ crashed = FALSE
  BY DEF Init, NoTasks
<1>2. Resting(msgs, crossed) /\ DOMAIN msgs = {}
  <2>1. msgs \in Seq(Message) /\ Len(msgs) = 0 /\ DOMAIN msgs = {}
    BY <1>1
  <2>2. MaxMessages \in Nat
    BY NumberFacts
  <2>3. crossed \in [Numbers -> 0..2] /\ \A m \in Numbers : crossed[m] = 0
    BY <1>1
  <2> QED BY <2>1, <2>2, <2>3 DEF Resting
<1>3. Core(msgs, turn, task, routing, crossed, FALSE, FALSE)
  BY <1>1, <1>2, RestingCore
<1>4. Delivering
  <2>1. (stopped \/ phase # "up") = FALSE
    BY <1>1
  <2> QED BY <2>1, <1>1, <1>3 DEF Delivering
<1>5. Around
  <2>1. IdleRuntime \in Runtime /\ IdleRuntime.turn = 0
    BY NumberFacts DEF IdleRuntime, Runtime
  <2>2. <<>> \in Seq(Report) /\ 0 \in 0..MaxMessages /\ 0 \in 0..MaxLoad
    BY NumberFacts, Bounds
  <2> QED BY <2>1, <2>2 DEF Init, Around
<1>6. Excluded /\ Down
  BY DEF Init, Excluded, Down
<1> QED BY <1>4, <1>5, <1>6 DEF IInv

LEMMA CrashStep == ASSUME IInv, Crash PROVE IInv'
<1>1. /\ phase # "down" /\ Fault /\ crashed' = TRUE /\ phase' = "down"
      /\ msgs' = [m \in Ids |-> [msgs[m] EXCEPT !.unsure = FALSE]]
      /\ turn' = FreeTurn /\ task' = NoTasks /\ tails' = {} /\ routing' = NoRouting /\ expiring' = {}
      /\ control' = [s \in Slots |-> "none"] /\ native' = [s \in Slots |-> IdleRuntime]
      /\ events' = [s \in Slots |-> <<>>] /\ current' = [s \in Slots |-> 0]
      /\ UNCHANGED <<crossed, stopped>>
  BY DEF Crash, NoTasks
<1>2. Resting(msgs, crossed)
  BY CoreResting DEF IInv, Delivering
<1>3. Calm(msgs, msgs')
  <2>1. \A m \in Ids : msgs[m] \in Message /\ msgs'[m] = [msgs[m] EXCEPT !.unsure = FALSE]
    BY <1>1, <1>2 DEF Resting, Ids
  <2>2. msgs' = [m \in DOMAIN msgs |-> msgs'[m]]
    BY <1>1 DEF Ids
  <2>3. \A m \in DOMAIN msgs : Tame(msgs[m], msgs'[m])
    BY <2>1, UnsureTame DEF Ids
  <2> QED BY <1>2, <2>2, <2>3, CalmFunction DEF Resting
<1>4. Resting(msgs', crossed)
  BY <1>2, <1>3, RestingKept
<1>5. Core(msgs', turn', task', routing', crossed', TRUE, TRUE)
  BY <1>1, <1>4, RestingCore
<1>6. Delivering'
  <2>1. (stopped' \/ phase' # "up") = TRUE
    BY <1>1
  <2> QED BY <2>1, <1>1, <1>5 DEF Delivering
<1>7. Around'
  <2>1. IdleRuntime \in Runtime /\ IdleRuntime.turn = 0
    BY NumberFacts DEF IdleRuntime, Runtime
  <2>2. <<>> \in Seq(Report) /\ 0 \in 0..MaxMessages
    BY NumberFacts
  <2>3. faults' \in 0..MaxLoad
    <3>1. Len(msgs) \in Nat /\ faults \in 0..MaxLoad /\ MaxLoad \in Nat
      BY <1>2, Bounds DEF IInv, Around, Resting
    <3> QED BY <3>1, <1>1 DEF Fault
  <2>4. stopped \in BOOLEAN
    BY DEF IInv, Around
  <2> QED BY <1>1, <2>1, <2>2, <2>3, <2>4 DEF Around
<1>8. Excluded'
  BY <1>1 DEF Excluded
<1>9. Down'
  BY <1>1 DEF Down, NoTasks
<1> QED BY <1>6, <1>7, <1>8, <1>9 DEF IInv

LEMMA RestoreStep == ASSUME IInv, Restore PROVE IInv'
<1> DEFINE S == {m \in Ids : msgs[m].del = "submitting"}
           ms == Each(msgs, S, LAMBDA r : Delivered(r, "failed"))
<1>1. /\ phase = "down" /\ phase' = "expiring" /\ expiring' = S /\ msgs' = ms
      /\ UNCHANGED <<turn, task, tails, routing, control, native, events, current, crossed, faults, stopped, crashed>>
  BY DEF Restore
<1>2. /\ turn = FreeTurn /\ task = NoTasks /\ tails = {} /\ routing = NoRouting
      /\ control = [s \in Slots |-> "none"] /\ native = [s \in Slots |-> IdleRuntime]
      /\ events = [s \in Slots |-> <<>>] /\ current = [s \in Slots |-> 0] /\ crashed
  BY <1>1 DEF IInv, Down, NoTasks
<1>3. Resting(msgs, crossed)
  BY CoreResting DEF IInv, Delivering
<1>4. /\ ms = [i \in DOMAIN msgs |-> ms[i]]
      /\ \A i \in DOMAIN msgs : ms[i] = IF i \in S THEN Delivered(msgs[i], "failed") ELSE msgs[i]
  BY DEF Each
<1>5. \A i \in DOMAIN msgs : msgs[i] \in Message
  BY <1>3 DEF Resting
<1>6. \A i \in DOMAIN msgs : Tame(msgs[i], Delivered(msgs[i], "failed")) /\ Tame(msgs[i], msgs[i])
  BY <1>5, TameSame, DeliveredTame
<1>7. \A i \in DOMAIN msgs : Tame(msgs[i], ms[i])
  BY <1>4, <1>6
<1>8. \A i \in DOMAIN msgs : ms[i].del # "submitting"
  <2>1. \A i \in DOMAIN msgs : msgs[i].del = "submitting" => Delivered(msgs[i], "failed").del = "failed"
    BY <1>5 DEF Delivered, DeliveryAllowed, Message
  <2> QED BY <1>4, <2>1 DEF Ids
<1>9. S \subseteq Ids
  OBVIOUS
<1> HIDE DEF ms, S
<1>10. Calm(msgs, ms)
  BY <1>3, <1>4, <1>7, CalmFunction DEF Resting
<1>11. Core(msgs', turn', task', routing', crossed', TRUE, crashed')
  <2>1. Core(ms, FreeTurn, NoTasks, NoRouting, crossed, TRUE, crashed)
    BY <1>2, <1>3, <1>10, RestingKept, RestingCore
  <2> QED BY <2>1, <1>1, <1>2
<1>12. Delivering'
  <2>1. (stopped' \/ phase' # "up") = TRUE
    BY <1>1
  <2> QED BY <2>1, <1>11 DEF Delivering
<1>13. DOMAIN msgs' = Ids
  BY <1>1, <1>10 DEF Calm, Ids
<1>14. Around'
  BY <1>1, <1>2, <1>9, <1>13 DEF IInv, Around, Ids
<1>15. Excluded'
  BY <1>1, <1>2 DEF Excluded
<1>16. Down'
  BY <1>1, <1>2, <1>8, <1>13 DEF Down, NoTasks, Ids
<1> QED BY <1>12, <1>14, <1>15, <1>16 DEF IInv

LEMMA FailedClosed == ASSUME NEW r \in Message PROVE ~Open(Failed(r))
<1> DEFINE x == [r EXCEPT !.proc = "failed", !.turn = 0]
<1>1. x.proc = "failed" /\ x.unsure = r.unsure
  BY DEF Message
<1>2. Resolved(x).proc = "failed"
  <2>1. \A d : [x EXCEPT !.del = d].proc = "failed" /\ [x EXCEPT !.unsure = FALSE].proc = "failed"
               /\ [[x EXCEPT !.del = d] EXCEPT !.unsure = FALSE].proc = "failed"
    BY DEF Message
  <2> HIDE DEF x
  <2> QED BY <1>1, <2>1 DEF Resolved, Delivered
<1>3. CASE ProcessingAllowed(r.proc, "failed")
  BY <1>2, <1>3 DEF Failed, Processed, Open, Settled
<1>4. CASE ~ProcessingAllowed(r.proc, "failed")
  <2>1. r.proc \in Settled
    BY <1>4 DEF ProcessingAllowed, Message, Settled
  <2> QED BY <1>4, <2>1 DEF Failed, Processed, Open
<1> QED BY <1>3, <1>4

LEMMA FailedAll ==
  ASSUME NEW ms \in Seq(Message), NEW S
  PROVE  \A m \in S \cap DOMAIN ms : ~Open(Each(ms, S, Failed)[m])
<1>1. \A i \in DOMAIN ms : ms[i] \in Message
  OBVIOUS
<1>2. \A i \in S \cap DOMAIN ms : Each(ms, S, Failed)[i] = Failed(ms[i])
  BY DEF Each
<1> QED BY <1>1, <1>2, FailedClosed

\* What a restart does to the messages: what runtimes had or may have had is closed,
\* and nothing joins the FIFO.
LEMMA Resumed ==
  ASSUME NEW ms \in Seq(Message), NEW X, \A m \in DOMAIN ms : ms[m].del # "submitting",
         NEW Q, \A m \in Q \cap DOMAIN ms : InFifo(ms[m])
  PROVE  LET lost == {m \in DOMAIN ms : Open(ms[m]) /\ ms[m].del \in {"started", "injected"}}
             ended == Each(Each(ms, X, Failed), lost, Failed)
             ns == Each(ended, Q, LAMBDA r : Delivered(r, "queued"))
         IN /\ Calm(ms, ended) /\ Calm(ms, ns)
            /\ \A m \in DOMAIN ms : /\ ~(Open(ended[m]) /\ AtNative(ended[m]))
                                    /\ ~(Open(ns[m]) /\ AtNative(ns[m]))
<1> DEFINE lost == {m \in DOMAIN ms : Open(ms[m]) /\ ms[m].del \in {"started", "injected"}}
           one == Each(ms, X, Failed)
           ended == Each(one, lost, Failed)
           ns == Each(ended, Q, LAMBDA r : Delivered(r, "queued"))
<1>1. Calm(ms, one)
  BY EachFailed
<1>2. Calm(one, ended) /\ \A m \in lost \cap DOMAIN one : ~Open(ended[m])
  <2>1. one \in Seq(Message)
    BY <1>1 DEF Calm
  <2> HIDE DEF one, lost
  <2> QED BY <2>1, EachFailed, FailedAll
<1>3. ns = [i \in DOMAIN ended |-> ns[i]]
      /\ \A i \in DOMAIN ended : ns[i] = IF i \in Q THEN Delivered(ended[i], "queued") ELSE ended[i]
  BY DEF Each
<1> HIDE DEF one, ended, ns
<1>4. Calm(ms, ended)
  BY <1>1, <1>2, CalmTransitive
<1>5. ended \in Seq(Message) /\ DOMAIN ended = DOMAIN ms /\ DOMAIN one = DOMAIN ms
  BY <1>1, <1>4 DEF Calm
<1>6. \A m \in DOMAIN ms : ms[m] \in Message /\ ended[m] \in Message /\ Tame(ms[m], ended[m])
  BY <1>4, <1>5 DEF Calm, Tame
<1>7. \A m \in Q \cap DOMAIN ms : ~AtNative(ended[m])
  BY <1>6 DEF Tame, InFifo, AtNative
<1>8. \A i \in DOMAIN ended : Tame(ended[i], ns[i])
  <2>1. \A i \in DOMAIN ended : Tame(ended[i], ended[i])
    BY <1>5, <1>6, TameSame
  <2>2. \A i \in DOMAIN ended \cap Q : Tame(ended[i], Delivered(ended[i], "queued"))
    BY <1>5, <1>6, <1>7, QueuedTame
  <2> QED BY <2>1, <2>2, <1>3
<1>9. Calm(ended, ns)
  BY <1>3, <1>5, <1>8, CalmFunction
<1>10. Calm(ms, ns)
  BY <1>4, <1>9, CalmTransitive
<1>11. \A m \in DOMAIN ms : ~(Open(ended[m]) /\ AtNative(ended[m]))
  <2> SUFFICES ASSUME NEW m \in DOMAIN ms, Open(ended[m]), AtNative(ended[m]) PROVE FALSE
    OBVIOUS
  <2>1. Open(ms[m]) /\ AtNative(ms[m])
    BY <1>6 DEF Tame
  <2>2. m \in lost
    BY <2>1 DEF AtNative
  <2> QED BY <2>2, <1>2, <1>5
<1>12. \A m \in DOMAIN ms : ~(Open(ns[m]) /\ AtNative(ns[m]))
  BY <1>5, <1>8, <1>11 DEF Tame
<1> QED BY <1>4, <1>10, <1>11, <1>12 DEF one, ended, ns

\* The restored FIFO: its head has the Turn and a goroutine.
LEMMA ResumedCore ==
  ASSUME NEW ms \in Seq(Message), NEW cr, Resting(ms, cr), NEW ns, Calm(ms, ns), NEW f \in Seq(Numbers),
         f # <<>>, ToSet(f) = {m \in DOMAIN ms : Awaiting(ms[m])}, Increasing(f), NEW lax,
         \A m \in DOMAIN ms : ~(Open(ns[m]) /\ AtNative(ns[m]))
  PROVE  Core(ns, [owner |-> ms[Head(f)].to, queue |-> Tail(f), submitting |-> 1, boundary |-> FALSE],
              Begun(NoTasks, Head(f), FALSE), NoRouting, cr, lax, TRUE)
<1> DEFINE h == Head(f)
           q == Tail(f)
           t == [owner |-> ms[h].to, queue |-> q, submitting |-> 1, boundary |-> FALSE]
           tk == Begun(NoTasks, h, FALSE)
<1>1. /\ h \in Numbers /\ q \in Seq(Numbers) /\ Len(f) \in Nat /\ Len(f) > 0 /\ h = f[1]
      /\ Len(q) = Len(f) - 1 /\ \A i \in 1..Len(q) : q[i] = f[i + 1]
  OBVIOUS
<1>2. /\ h \in ToSet(f) /\ Increasing(q)
      /\ \A m \in ToSet(f) : m = h \/ (m \in ToSet(q) /\ h < m)
      /\ \A m \in ToSet(q) : m \in ToSet(f)
  <2>1. DOMAIN f = 1..Len(f) /\ DOMAIN q = 1..Len(q)
    BY <1>1
  <2> HIDE DEF h, q
  <2>2. h \in ToSet(f)
    BY <1>1, <2>1 DEF ToSet
  <2>9. \A i \in DOMAIN q : i + 1 \in DOMAIN f /\ q[i] = f[i + 1] /\ i \in Nat
    BY <1>1, <2>1
  <2>3. Increasing(q)
    <3> SUFFICES ASSUME NEW i \in DOMAIN q, NEW j \in DOMAIN q, i < j PROVE q[i] < q[j]
      BY DEF Increasing
    <3>1. i + 1 < j + 1
      BY <2>9
    <3>2. f[i + 1] < f[j + 1]
      BY <2>9, <3>1 DEF Increasing
    <3> QED BY <2>9, <3>2
  <2>4. \A m \in ToSet(q) : m \in ToSet(f)
    <3> SUFFICES ASSUME NEW i \in DOMAIN q PROVE q[i] \in ToSet(f)
      BY DEF ToSet
    <3> QED BY <2>9 DEF ToSet
  <2>5. ASSUME NEW i \in DOMAIN f, i # 1 PROVE f[i] \in ToSet(q) /\ h < f[i]
    <3>1. i - 1 \in 1..Len(q) /\ q[i - 1] = f[(i - 1) + 1] /\ (i - 1) + 1 = i
      BY <1>1, <2>1, <2>5
    <3>2. f[i] \in ToSet(q)
      BY <2>1, <3>1 DEF ToSet
    <3>3. h < f[i]
      BY <1>1, <2>1, <2>5 DEF Increasing
    <3> QED BY <3>2, <3>3
  <2>6. \A m \in ToSet(f) : m = h \/ (m \in ToSet(q) /\ h < m)
    BY <1>1, <2>1, <2>5 DEF ToSet
  <2> QED BY <2>2, <2>3, <2>4, <2>6
<1>3. /\ DOMAIN ns = DOMAIN ms /\ Len(ns) = Len(ms) /\ ns \in Seq(Message)
      /\ DOMAIN ms = 1..Len(ms) /\ Len(ms) \in Nat
      /\ \A m \in DOMAIN ms : Tame(ms[m], ns[m]) /\ ms[m] \in Message
  BY DEF Calm
<1>4. h \in DOMAIN ms /\ ms[h].to \in Slots
  BY <1>2, <1>3 DEF Message
<1>5. /\ tk \in [Numbers -> Goroutine] /\ tk[h].pc = "wait" /\ tk[h].steer = FALSE
      /\ \A i \in Numbers \ {h} : tk[i].pc = "none"
  <2> HIDE DEF h
  <2>1. NoTasks \in [Numbers -> Goroutine] /\ \A i \in Numbers : NoTasks[i].pc = "none"
    BY NobodyRuns
  <2>2. /\ tk \in [Numbers -> Goroutine] /\ tk[h].pc = "wait" /\ tk[h].steer = FALSE
        /\ \A i \in Numbers \ {h} : tk[i] = NoTasks[i]
    <3>1. h \in Numbers
      BY <1>1
    <3> DEFINE n == NoTasks
    <3>2. n \in [Numbers -> Goroutine]
      BY <2>1
    <3> HIDE DEF n
    <3>3. /\ Begun(n, h, FALSE) \in [Numbers -> Goroutine] /\ Begun(n, h, FALSE)[h].pc = "wait"
          /\ Begun(n, h, FALSE)[h].steer = FALSE
          /\ \A i \in Numbers \ {h} : Begun(n, h, FALSE)[i] = n[i]
      BY <3>1, <3>2, BegunMoved
    <3> QED BY <3>3 DEF n
  <2> HIDE DEF tk
  <2> QED BY <2>1, <2>2
<1>6. t.owner = ms[h].to /\ t.queue = q /\ t.submitting = 1 /\ t \in TurnState
  BY <1>1, <1>4 DEF TurnState
<1> HIDE DEF h, q, tk, t
<1>7. Resting(ns, cr)
  BY RestingKept
<1>8. Typed(ns, t, tk, NoRouting, cr)
  BY <1>3, <1>5, <1>6, <1>7, NobodyRuns DEF Typed, Resting
<1>9. \A m \in DOMAIN ns : m \in Numbers
  BY <1>8, DomainFacts
<1>10. Queued(ns, t)
  BY <1>2, <1>3, <1>6 DEF Queued
<1>11. Fresh(ns, tk, cr) /\ Admitted(ns, t, tk, NoRouting, cr)
  BY <1>3, <1>4, <1>5, <1>7, NobodyRuns DEF Fresh, Admitted, Resting
<1>12. \A m \in DOMAIN ns : tk[m].pc \in {"none", "wait"} /\ (tk[m].pc = "wait" => m = h)
  BY <1>5, <1>9
<1>13. Once(ns, tk, cr) /\ Lanes(ns, tk)
  <2>1. \A m \in DOMAIN ns : tk[m].pc \notin Locking /\ tk[m].pc # "native" /\ tk[m].pc # "over"
    BY <1>12 DEF Locking
  <2> QED BY <2>1, <1>7 DEF Once, Lanes, Resting
<1>14. Counts(ns, t, tk, lax)
  <2>1. Running(tk) = {h}
    BY <1>1, <1>5 DEF Running
  <2>2. ns[h].to = t.owner
    BY <1>3, <1>4, <1>6 DEF Tame
  <2>3. {m \in Running(tk) : ns[m].to = t.owner} = {h}
    BY <2>1, <2>2
  <2>4. Cardinality({h}) = 1
    BY FS_Singleton
  <2>5. Cardinality(Running(tk)) = 1 /\ Cardinality({m \in Running(tk) : ns[m].to = t.owner}) = 1
    BY <2>1, <2>3, <2>4
  <2>6. \A m \in Running(tk) : ns[m].to = t.owner
    BY <2>1, <2>2
  <2> QED BY <2>5, <2>6, <1>6 DEF Counts
<1>15. \A m \in DOMAIN ns : Awaiting(ns[m]) => Awaiting(ms[m]) /\ m \in ToSet(f)
  BY <1>3 DEF Tame, Awaiting
<1>16. Held(ns, t, lax) /\ Waits(ns, t, tk, NoRouting, lax /\ TRUE)
  <2>1. \A m \in DOMAIN ns : Awaiting(ns[m]) => m \in ToSet(t.queue) \/ tk[m].pc # "none"
    BY <1>2, <1>5, <1>6, <1>15
  <2> QED BY <2>1, <1>3 DEF Held, Waits
<1>17. Oldest(ns, tk, lax)
  <2>1. \A i \in DOMAIN ns : i < h => ~Awaiting(ns[i])
    BY <1>2, <1>15, <1>1, <1>9, NumberFacts
  <2> QED BY <2>1, <1>12 DEF Oldest
<1>18. Relays(ns, tk, NoRouting, TRUE)
  <2>1. \A m \in DOMAIN ns : tk[m].pc # "none" => tk[m].steer = FALSE
    BY <1>5, <1>12
  <2> QED BY <2>1, <1>7 DEF Relays, Resting
<1>19. Core(ns, t, tk, NoRouting, cr, lax, TRUE)
  BY <1>8, <1>10, <1>11, <1>13, <1>14, <1>16, <1>17, <1>18 DEF Core
<1> QED BY <1>19 DEF t, tk, h, q

LEMMA TailElements ==
  ASSUME NEW f \in Seq(Numbers), f # <<>>
  PROVE  Head(f) \in Numbers /\ Tail(f) \in Seq(Numbers) /\ ToSet(Tail(f)) \subseteq ToSet(f)
<1> DEFINE q == Tail(f)
<1>1. /\ q \in Seq(Numbers) /\ Len(q) = Len(f) - 1 /\ Len(f) \in Nat /\ \A i \in 1..Len(q) : q[i] = f[i + 1]
      /\ Head(f) \in Numbers
  OBVIOUS
<1> HIDE DEF q
<1>2. \A i \in DOMAIN q : i + 1 \in DOMAIN f /\ q[i] = f[i + 1]
  BY <1>1
<1>3. \A i \in DOMAIN q : q[i] \in ToSet(f)
  BY <1>2 DEF ToSet
<1>4. ToSet(q) \subseteq ToSet(f)
  BY <1>3 DEF ToSet
<1> QED BY <1>1, <1>4 DEF q

LEMMA ResumeStep == ASSUME IInv, Resume PROVE IInv'
<1> DEFINE lost == {m \in Ids : Open(msgs[m]) /\ msgs[m].del \in {"started", "injected"}}
           ended == Each(Each(msgs, expiring, Failed), lost, Failed)
           waiting == {m \in Ids : Awaiting(msgs[m])}
           fifo == InLogOrder(waiting)
           Q == ToSet(Tail(fifo))
           ns == Each(ended, Q, LAMBDA r : Delivered(r, "queued"))
<1>1. /\ phase = "expiring" /\ phase' = "up" /\ expiring' = {}
      /\ IF fifo = <<>> THEN msgs' = ended /\ UNCHANGED <<turn, task>>
         ELSE /\ msgs' = ns
              /\ turn' = [ owner |-> msgs[Head(fifo)].to, queue |-> Tail(fifo),
                           submitting |-> 1, boundary |-> FALSE ]
              /\ task' = Begun(task, Head(fifo), FALSE)
      /\ UNCHANGED <<tails, routing, control, native, events, current, crossed, faults, stopped, crashed>>
  BY DEF Resume
<1>2. /\ turn = FreeTurn /\ task = NoTasks /\ tails = {} /\ routing = NoRouting
      /\ control = [s \in Slots |-> "none"] /\ crashed
      /\ \A m \in Ids : msgs[m].del # "submitting"
  BY <1>1 DEF IInv, Down, NoTasks
<1>3. /\ Resting(msgs, crossed) /\ msgs \in Seq(Message) /\ stopped \in BOOLEAN /\ crashed = TRUE
      /\ Ids \subseteq Numbers /\ Calm(msgs, msgs)
  <2>1. Resting(msgs, crossed) /\ Ids \subseteq Numbers
    BY CoreResting, DomainFacts DEF IInv, Delivering, Core, Ids
  <2>2. stopped \in BOOLEAN /\ crashed = TRUE
    BY <1>2 DEF IInv, Around
  <2> QED BY <2>1, <2>2, CalmSame DEF Resting
<1>4. waiting \in SUBSET Numbers
  BY <1>3
<1>5. fifo \in Seq(Numbers) /\ ToSet(fifo) = waiting /\ Increasing(fifo)
  BY <1>4, InLogOrderElements
<1>6. waiting = {m \in DOMAIN msgs : Awaiting(msgs[m])} /\ lost = {m \in DOMAIN msgs : Open(msgs[m]) /\ msgs[m].del \in {"started", "injected"}}
  BY DEF Ids
<1>7. /\ Calm(msgs, msgs') /\ Core(msgs', turn', task', NoRouting, crossed, stopped, crashed)
      /\ \A m \in Numbers : task'[m].pc \notin Locking
  <2>1. CASE fifo = <<>>
    <3>1. waiting = {}
      BY <1>5, <2>1 DEF ToSet
    <3>2. Calm(msgs, ended) /\ \A m \in DOMAIN msgs : ~(Open(ended[m]) /\ AtNative(ended[m]))
      <4> DEFINE E == {}
      <4>1. \A m \in E \cap DOMAIN msgs : InFifo(msgs[m])
        OBVIOUS
      <4> HIDE DEF E
      <4> QED BY <1>2, <1>3, <4>1, Resumed DEF Ids
    <3> HIDE DEF ended
    <3>3. \A m \in DOMAIN ended : ~(Open(ended[m]) /\ (InFifo(ended[m]) \/ AtNative(ended[m]))) /\ ~Awaiting(ended[m])
      <4>1. \A m \in DOMAIN msgs : ~Awaiting(msgs[m])
        BY <3>1 DEF Ids
      <4> QED BY <3>2, <4>1 DEF Calm, Tame, Awaiting
    <3>4. Resting(ended, crossed)
      BY <1>3, <3>2, RestingKept
    <3>5. Core(ended, FreeTurn, NoTasks, NoRouting, crossed, stopped, crashed)
      BY <3>3, <3>4, RestingCore
    <3>6. msgs' = ended /\ turn' = FreeTurn /\ task' = NoTasks
      BY <1>1, <1>2, <2>1
    <3> QED BY <3>2, <3>5, <3>6, NobodyRuns DEF Locking
  <2>2. CASE fifo # <<>>
    <3>1. Q \subseteq waiting /\ Head(fifo) \in Numbers
      <4> HIDE DEF fifo
      <4> QED BY <1>5, <2>2, TailElements
    <3>2. Calm(msgs, ns) /\ \A m \in DOMAIN msgs : ~(Open(ns[m]) /\ AtNative(ns[m]))
      <4>1. \A m \in Q \cap DOMAIN msgs : InFifo(msgs[m])
        BY <3>1 DEF Awaiting
      <4> HIDE DEF Q
      <4> QED BY <1>2, <1>3, <4>1, Resumed DEF Ids
    <3>3. /\ msgs' = ns /\ task' = Begun(NoTasks, Head(fifo), FALSE)
          /\ turn' = [ owner |-> msgs[Head(fifo)].to, queue |-> Tail(fifo),
                       submitting |-> 1, boundary |-> FALSE ]
      BY <1>1, <1>2, <2>2
    <3> HIDE DEF ns, fifo
    <3>4. Core(msgs', turn', task', NoRouting, crossed, stopped, TRUE)
      <4>1. ToSet(fifo) = {m \in DOMAIN msgs : Awaiting(msgs[m])}
        BY <1>5, <1>6
      <4> HIDE DEF waiting
      <4>2. Core(ns, [ owner |-> msgs[Head(fifo)].to, queue |-> Tail(fifo), submitting |-> 1, boundary |-> FALSE ],
                 Begun(NoTasks, Head(fifo), FALSE), NoRouting, crossed, stopped, TRUE)
        BY <1>3, <1>5, <2>2, <3>2, <4>1, ResumedCore
      <4> QED BY <3>3, <4>2
    <3>5. \A m \in Numbers : task'[m].pc \notin Locking
      <4>1. \A m \in Numbers : Begun(NoTasks, Head(fifo), FALSE)[m].pc \in Locking => NoTasks[m].pc \in Locking
        BY NobodyRuns, BegunLocking
      <4> QED BY <4>1, <3>3, NobodyRuns DEF Locking
    <3> QED BY <1>3, <3>2, <3>3, <3>4, <3>5
  <2> QED BY <2>1, <2>2
<1>8. Delivering'
  <2>1. (stopped' \/ phase' # "up") = stopped'
    BY <1>1, <1>3
  <2>2. Core(msgs', turn', task', routing', crossed', stopped', crashed')
    BY <1>1, <1>2, <1>7
  <2> QED BY <2>1, <2>2 DEF Delivering
<1>9. Around'
  BY <1>1, <1>2 DEF IInv, Around
<1>10. Excluded' /\ Down'
  BY <1>1, <1>2 DEF Excluded, Down
<1> QED BY <1>8, <1>9, <1>10 DEF IInv

LEMMA StutterStep == ASSUME IInv, UNCHANGED vars PROVE IInv'
<1>1. UNCHANGED <<msgs, turn, task, tails, routing, control, native, events, current,
                  crossed, phase, expiring, faults, stopped, crashed>>
  BY DEF vars
<1>2. Delivering' /\ Around' /\ Excluded' /\ Down'
  BY <1>1 DEF IInv, Delivering, Around, Excluded, Down, Ids
<1> QED BY <1>2 DEF IInv

LEMMA NextIInv == ASSUME IInv, [Next]_vars PROVE IInv'
<1>1. ASSUME NEW i \in Intents, Send(i[1], i[2]) PROVE IInv'
  <2>1. i[1] \in Slots /\ i[2] \in BOOLEAN
    BY TwoSlots
  <2> QED BY <1>1, <2>1, SendStep
<1>2. ASSUME Sweep \/ Place \/ Crash \/ Restore \/ Resume PROVE IInv'
  BY <1>2, SweepStep, PlaceStep, CrashStep, RestoreStep, ResumeStep
<1>3. ASSUME NEW m \in Numbers,
             \/ Retry(m) \/ (\E s \in Slots : LateBoundary(s, m)) \/ TooLate(m) \/ Submit(m)
             \/ FailDelivery(m) \/ FailProcessing(m)
      PROVE IInv'
  BY <1>3, RetryStep, LateBoundaryStep, TooLateStep, SubmitStep, FailDeliveryStep, FailProcessingStep
<1>4. ASSUME NEW m \in Numbers,
             \/ StartTurn(m) \/ SteerAccepted(m) \/ SteerRefused(m) \/ Accepted(m)
             \/ MaterializeFails(m) \/ Return(m) \/ ReleaseCheck(m)
             \/ CancelWaiting(m) \/ CancelAccepted(m)
      PROVE IInv'
  BY <1>4, StartTurnStep, SteerAcceptedStep, SteerRefusedStep, AcceptedStep, MaterializeFailsStep,
     ReturnStep, ReleaseCheckStep, CancelWaitingStep, CancelAcceptedStep
<1>5. ASSUME NEW s \in Slots,
             \/ HandleInput(s) \/ HandleBoundary(s) \/ HandleFinal(s)
             \/ AnswersLate(s) \/ CancelSettles(s) \/ StopBegins(s) \/ StopSettles(s)
             \/ \E o \in Settled : TurnEnds(s, o)
      PROVE IInv'
  BY <1>5, HandleInputStep, HandleBoundaryStep, HandleFinalStep, AnswersLateStep, CancelSettlesStep,
     StopBeginsStep, StopSettlesStep, TurnEndsStep
<1>6. CASE UNCHANGED vars
  BY <1>6, StutterStep
<1>7. CASE Next
  BY <1>1, <1>2, <1>3, <1>4, <1>5, <1>7 DEF Next
<1> QED BY <1>6, <1>7

\* Every state of the Room is one that IInv allows: what admission, delivery,
\* release, stop, crash and restart leave each other to rely on.
THEOREM Invariance == Spec => []IInv
<1>1. Init => IInv
  BY InitIInv
<1>2. IInv /\ [Next]_vars => IInv'
  BY NextIInv
<1> QED BY <1>1, <1>2, PTL DEF Spec

LEMMA AtMostOne ==
  ASSUME NEW S, \A m, n \in S : m = n
  PROVE  Cardinality(S) <= 1
<1>1. CASE S = {}
  BY <1>1, FS_EmptySet
<1>2. CASE S # {}
  <2> PICK x \in S : TRUE
    BY <1>2
  <2>1. S = {x}
    OBVIOUS
  <2> QED BY <2>1, FS_Singleton
<1> QED BY <1>1, <1>2

LEMMA IInvTypes == IInv => TypeOK
<1> SUFFICES ASSUME IInv PROVE TypeOK
  OBVIOUS
<1>1. /\ Typed(msgs, turn, task, routing, crossed) /\ Lanes(msgs, task)
      /\ turn.submitting <= Cardinality({m \in Running(task) : msgs[m].to = turn.owner})
  BY DEF IInv, Delivering, Core, Counts
<1>2. /\ msgs \in Seq(Message) /\ Len(msgs) <= MaxMessages /\ turn \in TurnState
      /\ task \in [Numbers -> [pc: Pcs, steer: BOOLEAN]] /\ crossed \in [Numbers -> 0..2]
      /\ routing \in [msg: 0..MaxMessages, step: {"idle", "sweep", "place"}, cancelled: SUBSET Numbers]
  BY <1>1 DEF Typed, Goroutine, Admission
<1>3. turn \in [ owner: Slots \cup {None}, queue: Seq(Numbers), submitting: 0..MaxMessages, boundary: BOOLEAN ]
  <2> DEFINE S == {m \in Running(task) : msgs[m].to = turn.owner}
  <2>1. S \in SUBSET Running(task)
    OBVIOUS
  <2>2. Cardinality(S) \in Nat /\ Cardinality(S) <= Cardinality(Running(task))
        /\ Cardinality(Running(task)) <= MaxMessages /\ Cardinality(Running(task)) \in Nat
    BY <2>1, RunningFacts
  <2>3. turn.submitting \in Nat /\ turn.submitting <= Cardinality(S) /\ MaxMessages \in Nat
    BY <1>1, <1>2, NumberFacts DEF TurnState
  <2> HIDE DEF S
  <2>4. turn.submitting \in 0..MaxMessages
    BY <2>2, <2>3
  <2> QED BY <1>2, <2>4 DEF TurnState
<1>4. /\ tails \subseteq Ids /\ expiring \subseteq Ids
      /\ control \in [Slots -> {"none", "cancel", "stop"}]
      /\ native \in [Slots -> [turn: 0..MaxMessages, inputs: SUBSET Numbers, staged: 0..MaxMessages]]
      /\ current \in [Slots -> 0..MaxMessages]
      /\ phase \in {"up", "down", "expiring"} /\ faults \in 0..MaxLoad
      /\ stopped \in BOOLEAN /\ crashed \in BOOLEAN
  BY DEF IInv, Around, Runtime
<1>5. \A s \in Slots : \A i \in DOMAIN events[s] :
        events[s][i] \in [kind: EventKinds, msg: Numbers, turn: 0..MaxMessages, outcome: Settled]
  <2> SUFFICES ASSUME NEW s \in Slots, NEW i \in DOMAIN events[s] PROVE events[s][i] \in Report
    BY DEF Report
  <2>1. events[s] \in Seq(Report)
    BY DEF IInv, Around
  <2> QED BY <2>1
<1>6. \A s \in Slots :
        Cardinality({m \in Ids : /\ msgs[m].to = s
                                 /\ task[m].pc \in {"native", "accepted", "failing"}}) <= 1
  <2> SUFFICES ASSUME NEW s \in Slots
      PROVE Cardinality({m \in Ids : /\ msgs[m].to = s
                                     /\ task[m].pc \in {"native", "accepted", "failing"}}) <= 1
    OBVIOUS
  <2> DEFINE S == {m \in Ids : msgs[m].to = s /\ task[m].pc \in {"native", "accepted", "failing"}}
  <2>1. \A m, n \in S : m = n
    BY <1>1 DEF Lanes, Locking, Ids
  <2> HIDE DEF S
  <2>2. Cardinality(S) <= 1
    BY <2>1, AtMostOne
  <2> QED BY <2>2 DEF S
<1> QED BY <1>2, <1>3, <1>4, <1>5, <1>6 DEF TypeOK

\* The state keeps its types, and the delivery lock of a slot (lockDelivery) keeps
\* all but one of its goroutines away from the runtime.
THEOREM TypeCorrect == Spec => []TypeOK
BY Invariance, IInvTypes, PTL

\* A message never reaches a runtime again: not after a refused steer, a lost answer
\* or a restart (deliver, deliveryCanFallback, expireRestoredTransientState).
THEOREM NeverTwice == Spec => []CrossedOnce
<1>1. IInv => CrossedOnce
  <2> SUFFICES ASSUME IInv PROVE CrossedOnce
    OBVIOUS
  <2>1. Core(msgs, turn, task, routing, crossed, stopped \/ phase # "up", crashed)
    BY DEF IInv, Delivering
  <2>2. \A m \in DOMAIN msgs : crossed[m] <= 1
    BY <2>1 DEF Core, Once
  <2>3. \A m \in Numbers \ DOMAIN msgs : crossed[m] = 0
    BY <2>1 DEF Core, Fresh
  <2>4. \A m \in Numbers : m \in DOMAIN msgs \/ crossed[m] = 0
    BY <2>3
  <2> QED BY <2>2, <2>4 DEF CrossedOnce
<1> QED BY <1>1, Invariance, PTL

\* Until a stop, what a runtime has or may have and has not finished is the owner's:
\* finishTurnIfIdle hands nobody the Turn over the head of an open input.
THEOREM NativeInputsAreTheOwners == Spec => []OwnedBySlot
<1>1. IInv => OwnedBySlot
  <2> SUFFICES ASSUME IInv, phase = "up", ~stopped PROVE \A m \in Ids : Open(msgs[m]) /\ AtNative(msgs[m]) => msgs[m].to = turn.owner
    BY DEF OwnedBySlot
  <2>1. Core(msgs, turn, task, routing, crossed, stopped, crashed)
    BY Facts
  <2> QED BY <2>1 DEF Core, Held, Ids
<1> QED BY <1>1, Invariance, PTL

LEMMA GoesElsewhere ==
  ASSUME NEW k \in Numbers, NEW pc \in Pcs \ {"native"}, Goes(k, pc), task \in [Numbers -> Goroutine],
         NEW m \in Numbers, task[m].pc = "wait"
  PROVE  task'[m].pc # "native"
<1>1. task' = [task EXCEPT ![k].pc = pc]
  BY DEF Goes
<1>2. task'[k].pc = pc /\ \A i \in Numbers \ {k} : task'[i] = task[i]
  BY <1>1, TaskMoved
<1> QED BY <1>2

LEMMA BegunElsewhere ==
  ASSUME NEW tk \in [Numbers -> Goroutine], NEW k, NEW st, task' = Begun(tk, k, st),
         NEW m \in Numbers, tk[m].pc \notin Locking
  PROVE  task'[m].pc # "native"
BY BegunLocking DEF Locking

\* Only the action that records the submission takes a waiting goroutine to its runtime.
LEMMA OnlySubmit ==
  ASSUME IInv, [Next]_vars, NEW m \in Ids, task[m].pc = "wait", task'[m].pc = "native"
  PROVE  Submit(m)
<1>1. task \in [Numbers -> Goroutine] /\ m \in Numbers /\ Ids \subseteq Numbers
  BY DomainFacts DEF IInv, Delivering, Core, Typed, Ids
<1>2. task[m].pc \notin Locking
  BY DEF Locking
<1>3. \A k \in Numbers, pc \in Pcs \ {"native"} : ~Goes(k, pc)
  BY <1>1, GoesElsewhere
<1>4. \A tk \in [Numbers -> Goroutine] : \A k, st : tk[m].pc \notin Locking => task' # Begun(tk, k, st)
  BY <1>1, BegunElsewhere
<1>5. \A k, st : task' # Begun(task, k, st)
  BY <1>1, <1>2, <1>4
<1>6. \A res, st : ~Take(res, task, st)
  BY <1>5 DEF Take
<1>7. task' # task
  OBVIOUS
<1>8. {"over", "failing", "accepted", "fellback"} \subseteq Pcs \ {"native"}
  BY DEF Pcs
<1>9. \A i \in Intents : ~Send(i[1], i[2])
  BY <1>7 DEF Send
<1>10. ~Sweep /\ ~Place /\ ~Restore /\ ~Resume
  BY <1>5, <1>6, <1>7 DEF Sweep, Place, Restore, Resume
<1>11. ~Crash
  <2>1. task' # [i \in Numbers |-> NoTask]
    BY <1>1 DEF NoTask
  <2> QED BY <2>1 DEF Crash
<1>12. \A k \in Numbers :
         /\ ~Retry(k) /\ ~TooLate(k) /\ ~FailDelivery(k) /\ ~FailProcessing(k)
         /\ \A s \in Slots : ~LateBoundary(s, k)
  BY <1>3, <1>7, <1>8 DEF Retry, TooLate, FailDelivery, FailProcessing, LateBoundary
<1>13. \A k \in Numbers :
         /\ ~StartTurn(k) /\ ~SteerAccepted(k) /\ ~SteerRefused(k) /\ ~Accepted(k)
         /\ ~MaterializeFails(k)
  BY <1>3, <1>8 DEF StartTurn, SteerAccepted, SteerRefused, Accepted, MaterializeFails
<1>14. \A k \in Numbers : ~Return(k)
  <2> SUFFICES ASSUME NEW k \in Numbers, Return(k) PROVE FALSE
    OBVIOUS
  <2> DEFINE ended == [task EXCEPT ![k].pc = "none"]
  <2>1. \E res : Take(res, ended, FALSE)
    BY DEF Return
  <2>2. "none" \in Pcs /\ "none" \notin Locking
    BY DEF Pcs, Locking
  <2>3. ended \in [Numbers -> Goroutine] /\ ended[m].pc \notin Locking
    BY <1>1, <1>2, <2>2, TaskMoved
  <2> HIDE DEF ended
  <2> QED BY <1>4, <2>1, <2>3 DEF Take
<1>15. \A k \in Numbers : ~ReleaseCheck(k) /\ ~CancelWaiting(k) /\ ~CancelAccepted(k)
  BY <1>6, <1>7 DEF ReleaseCheck, CancelWaiting, CancelAccepted
<1>16. \A s \in Slots : ~HandleInput(s) /\ ~HandleBoundary(s) /\ ~HandleFinal(s)
  BY <1>6, <1>7 DEF HandleInput, HandleBoundary, HandleFinal
<1>17. \A s \in Slots : ~AnswersLate(s) /\ ~CancelSettles(s) /\ ~StopBegins(s) /\ ~StopSettles(s)
  BY <1>6, <1>7 DEF AnswersLate, CancelSettles, StopBegins, StopSettles
<1>18. \A s \in Slots, o \in Settled : ~TurnEnds(s, o)
  BY <1>7 DEF TurnEnds
<1>19. ~(UNCHANGED vars)
  BY <1>7 DEF vars
<1>20. \E k \in Numbers : Submit(k)
  BY <1>9, <1>10, <1>11, <1>12, <1>13, <1>14, <1>15, <1>16, <1>17, <1>18, <1>19 DEF Next
<1>21. PICK k \in Numbers : Submit(k)
  BY <1>20
<1>22. k = m
  <2>1. task' = [task EXCEPT ![k].pc = "native"]
    BY <1>21 DEF Submit, Goes
  <2>2. "native" \in Pcs
    BY DEF Pcs
  <2>3. \A i \in Numbers \ {k} : task'[i] = task[i]
    BY <1>1, <2>1, <2>2, TaskMoved
  <2> QED BY <1>1, <2>3
<1> QED BY <1>21, <1>22

\* Messages start Turns in Event Log order, and a relay that a newer human message
\* overtakes reaches no runtime (reserveNextLocked, cancelQueuedAgentRelaysBefore).
THEOREM TurnsStartInOrder == Spec => SubmitsInOrder
<1> DEFINE InOrder == \A m \in Ids : task[m].pc = "wait" /\ task'[m].pc = "native" =>
             /\ ~stopped /\ ~task[m].steer => \A i \in Ids : i < m => ~Awaiting(msgs[i])
             /\ ~crashed /\ msgs[m].from \in Slots =>
                  \A h \in Ids : h > m /\ msgs[h].from = User /\ msgs[h].retryOf = 0 => h = routing.msg
<1>1. IInv /\ [Next]_vars => InOrder
  <2> SUFFICES ASSUME IInv, [Next]_vars, NEW m \in Ids, task[m].pc = "wait", task'[m].pc = "native"
      PROVE /\ ~stopped /\ ~task[m].steer => \A i \in Ids : i < m => ~Awaiting(msgs[i])
            /\ ~crashed /\ msgs[m].from \in Slots =>
                 \A h \in Ids : h > m /\ msgs[h].from = User /\ msgs[h].retryOf = 0 => h = routing.msg
    OBVIOUS
  <2>1. phase = "up" /\ Awaiting(msgs[m])
    BY OnlySubmit DEF Submit, At
  <2>2. Core(msgs, turn, task, routing, crossed, stopped, crashed)
    BY <2>1, Facts
  <2>3. ~stopped /\ ~task[m].steer => \A i \in Ids : i < m => ~Awaiting(msgs[i])
    BY <2>2 DEF Core, Oldest, Ids
  <2>4. ~crashed /\ msgs[m].from \in Slots =>
          \A h \in Ids : h > m /\ msgs[h].from = User /\ msgs[h].retryOf = 0 => h = routing.msg
    BY <2>1, <2>2 DEF Core, Relays, Ids
  <2> QED BY <2>3, <2>4
<1>2. IInv /\ [Next]_vars => [InOrder]_vars
  BY <1>1
<1> QED BY <1>2, Invariance, PTL DEF Spec, SubmitsInOrder, InOrder

-----------------------------------------------------------------------------
(***************************************************************************)
(* Of the Event Log.  Whatever fails, a file is some whole lines, numbered *)
(* from one, and at most a part of the next (Shaped); the records that reads *)
(* see extend those the platter is sure to hold, and every acknowledged one *)
(* is in both (LogIInv).                                                   *)
(***************************************************************************)

Rec(k) == [cell : {"record"}, seq : {k}, id : Nat]

\* n whole lines, and what a failure left of another.
Shaped(f, n) ==
  /\ f \in Seq(Cell) /\ n \in Nat /\ n >= 1 /\ (Len(f) = 2 * n \/ Len(f) = 2 * n + 1)
  /\ \A k \in 1..n : f[2 * k - 1] \in Rec(k) /\ f[2 * k] = Newline
  /\ Len(f) = 2 * n + 1 => f[2 * n + 1] \in Rec(n + 1) \cup {Torn}

\* How many records a file of n lines yields: a whole last one counts.
Count(f, n) == IF Len(f) = 2 * n + 1 /\ f[2 * n + 1] # Torn THEN n + 1 ELSE n

\* Two files have the first n cells in common.
Same(f, g, n) == n <= Len(f) /\ n <= Len(g) /\ \A i \in 1..n : f[i] = g[i]

\* The newest acknowledged sequence number is p, and it is on the platter.
Newest(p) ==
  /\ p \in Nat /\ p >= 1 /\ (\E a \in acked : a[1] = p) /\ \A a \in acked : a[1] <= p
  /\ Same(file, platter, 2 * p)

\* An open store knows the file.
Indexed(L) ==
  /\ L \in Nat /\ L >= 1 /\ store.lastSeq = L /\ store.size = 2 * L
  /\ store.offsets = [k \in 1..L |-> 2 * (k - 1)]
  /\ IF pending THEN Shaped(file, L + 1) /\ Len(file) = 2 * (L + 1)
     ELSE Shaped(file, L) /\ Len(file) = 2 * L

Types ==
  /\ pending \in BOOLEAN /\ tried \in 0..MaxAppends /\ acked \subseteq Nat \X Nat
  /\ store \in Store

\* What a file p of m lines yields is what f yields first.
Yields(f, n, p, m) ==
  /\ Shaped(f, n) /\ Shaped(p, m) /\ Count(p, m) <= Count(f, n)
  /\ \A k \in 1..Count(p, m) : p[2 * k - 1] = f[2 * k - 1]
Behind(f, p) == \E n \in 1..Len(f), m \in 1..Len(p) : Yields(f, n, p, m)

LogIInv ==
  /\ Types
  /\ Behind(file, platter)
  /\ \E p \in 1..Len(file) : Newest(p) /\ (store.open => p <= store.lastSeq)
  /\ IF store.open THEN \E L \in 1..Len(file) : Indexed(L) ELSE ~pending /\ store = Closed

-----------------------------------------------------------------------------
(* The shape of a file *)

LEMMA Cells ==
  /\ Newline \in Cell /\ Torn \in Cell /\ Newline # Torn /\ Newline.cell # "record" /\ Torn.cell # "record"
  /\ \A k \in Nat : \A x \in Rec(k) :
       x \in Cell /\ x.cell = "record" /\ x.seq = k /\ x # Newline /\ x # Torn
<1>1. Newline.cell = "newline" /\ Torn.cell = "torn" /\ Newline \in Cell /\ Torn \in Cell
  BY DEF Newline, Torn, Cell
<1>2. ASSUME NEW k \in Nat, NEW x \in Rec(k)
      PROVE  x \in Cell /\ x.cell = "record" /\ x.seq = k
  BY DEF Rec, Cell
<1> QED
  BY <1>1, <1>2

LEMMA HalfOf ==
  ASSUME NEW i \in Nat
  PROVE  \E k \in Nat : i = 2 * k \/ i = 2 * k + 1
<1>1. i \div 2 \in Nat /\ (i = 2 * (i \div 2) \/ i = 2 * (i \div 2) + 1)
  OBVIOUS
<1> QED
  BY <1>1

LEMMA OneShape ==
  ASSUME NEW f, NEW n, NEW m, Shaped(f, n), Shaped(f, m)
  PROVE  n = m
BY DEF Shaped

LEMMA Lines ==
  ASSUME NEW f, NEW n, Shaped(f, n)
  PROVE  /\ lastGood(f) = 2 * n /\ LinesDecode(f)
         /\ \A i \in Newlines(f) : i \in 2..(2 * n) /\ f[i - 1].cell = "record"
<1>1. f \in Seq(Cell) /\ n \in Nat /\ n >= 1 /\ (Len(f) = 2 * n \/ Len(f) = 2 * n + 1) /\ Len(f) \in Nat
  BY DEF Shaped
<1>2. /\ \A k \in 1..n : f[2 * k - 1] \in Rec(k) /\ f[2 * k] = Newline
      /\ Len(f) = 2 * n + 1 => f[2 * n + 1] \in Rec(n + 1) \cup {Torn}
  BY DEF Shaped
<1>3. ASSUME NEW i \in 1..Len(f), f[i] = Newline
      PROVE  \E k \in 1..n : i = 2 * k
  <2>0. i \in Nat /\ i <= Len(f)
    BY <1>1
  <2>1. PICK k \in Nat : i = 2 * k \/ i = 2 * k + 1
    BY <2>0, HalfOf
  <2>2. CASE i = 2 * k
    BY <1>1, <2>0, <2>2
  <2>3. CASE i = 2 * k + 1 /\ k < n
    <3>1. k + 1 \in 1..n /\ 2 * (k + 1) - 1 = i
      BY <1>1, <2>0, <2>3
    <3>2. f[i] \in Rec(k + 1) /\ k + 1 \in Nat
      BY <1>2, <3>1
    <3> QED
      BY <1>3, <3>2, Cells
  <2>4. CASE i = 2 * k + 1 /\ ~(k < n)
    <3>1. i = 2 * n + 1 /\ Len(f) = 2 * n + 1 /\ n + 1 \in Nat
      BY <1>1, <2>0, <2>4
    <3> QED
      BY <1>2, <1>3, <3>1, Cells
  <2> QED
    BY <2>1, <2>2, <2>3, <2>4
<1>4. \A i : i \in Newlines(f) <=> \E k \in 1..n : i = 2 * k
  <2>1. \A i : i \in Newlines(f) <=> i \in 1..Len(f) /\ f[i] = Newline
    <3>1. DOMAIN f = 1..Len(f)
      BY <1>1
    <3> QED
      BY <3>1 DEF Newlines
  <2>2. \A k \in 1..n : 2 * k \in 1..Len(f)
    BY <1>1
  <2> QED
    BY <1>2, <1>3, <2>1, <2>2
<1>5. lastGood(f) = 2 * n
  <2>1. 2 * n \in Newlines(f) /\ \A j \in Newlines(f) : j \in Nat /\ j <= 2 * n
    BY <1>1, <1>4
  <2>2. \A i \in Newlines(f) : (\A j \in Newlines(f) : j <= i) => i = 2 * n
    BY <1>1, <2>1
  <2>3. (CHOOSE i \in Newlines(f) : \A j \in Newlines(f) : j <= i) = 2 * n
    BY <2>1, <2>2
  <2> QED
    BY <2>1, <2>3 DEF lastGood
<1>6. ASSUME NEW i \in Newlines(f)
      PROVE  i \in 2..(2 * n) /\ f[i - 1].cell = "record" /\ (i > 2 => f[i - 2] = Newline)
  <2>1. PICK k \in 1..n : i = 2 * k
    BY <1>4
  <2>2. i \in 2..(2 * n) /\ f[i - 1] \in Rec(k) /\ k \in Nat
    BY <1>1, <1>2, <2>1
  <2>3. i > 2 => f[i - 2] = Newline
    <3>1. i > 2 => k - 1 \in 1..n /\ i - 2 = 2 * (k - 1)
      BY <1>1, <2>1
    <3> QED
      BY <1>2, <3>1
  <2> QED
    BY <2>2, <2>3, Cells
<1> QED
  BY <1>5, <1>6 DEF LinesDecode

LEMMA Tails ==
  ASSUME NEW f, NEW n, Shaped(f, n)
  PROVE  /\ LastLine(f) = IF Len(f) = 2 * n THEN <<>> ELSE <<f[2 * n + 1]>>
         /\ Decodes(LastLine(f)) <=> Count(f, n) = n + 1
         /\ Count(f, n) \in {n, n + 1}
<1>1. f \in Seq(Cell) /\ n \in Nat /\ n >= 1 /\ (Len(f) = 2 * n \/ Len(f) = 2 * n + 1) /\ Len(f) \in Nat
  BY DEF Shaped
<1>2. LastLine(f) = SubSeq(f, 2 * n + 1, Len(f))
  BY Lines DEF LastLine
<1>3. CASE Len(f) = 2 * n
  <2>1. LastLine(f) = <<>>
    BY <1>1, <1>2, <1>3, SubSeqEmpty
  <2>2. ~Decodes(LastLine(f)) /\ Count(f, n) = n
    BY <1>1, <1>3, <2>1 DEF Decodes, Count
  <2> QED
    BY <1>1, <1>3, <2>1, <2>2
<1>4. CASE Len(f) = 2 * n + 1
  <2>1. 2 * n + 1 \in 1..Len(f) /\ 2 * n + 1 \in Int /\ Len(f) \in Int
    BY <1>1, <1>4
  <2>2. f[2 * n + 1] \in Rec(n + 1) \cup {Torn} /\ n + 1 \in Nat
    BY <1>1, <1>4 DEF Shaped
  <2>3. f[2 * n + 1] \in Cell
    BY <2>2, Cells
  <2>4. LastLine(f) = <<f[2 * n + 1]>>
    <3>1. /\ SubSeq(f, 2 * n + 1, Len(f)) \in Seq(Cell)
          /\ Len(SubSeq(f, 2 * n + 1, Len(f))) = 1
          /\ SubSeq(f, 2 * n + 1, Len(f))[1] = f[2 * n + 1]
      <4>1. \A i \in (2 * n + 1)..Len(f) : f[i] \in Cell
        BY <1>1, <1>4, <2>3
      <4>2. /\ SubSeq(f, 2 * n + 1, Len(f)) \in Seq(Cell)
            /\ Len(SubSeq(f, 2 * n + 1, Len(f))) =
                 IF 2 * n + 1 <= Len(f) THEN Len(f) - (2 * n + 1) + 1 ELSE 0
            /\ \A i \in 1..(Len(f) - (2 * n + 1) + 1) : SubSeq(f, 2 * n + 1, Len(f))[i] = f[2 * n + 1 + i - 1]
        BY <2>1, <4>1, SubSeqProperties
      <4> QED
        BY <1>1, <1>4, <4>2
    <3>2. <<f[2 * n + 1]>> \in Seq(Cell) /\ Len(<<f[2 * n + 1]>>) = 1 /\ <<f[2 * n + 1]>>[1] = f[2 * n + 1]
      BY <2>3
    <3> DEFINE a == SubSeq(f, 2 * n + 1, Len(f))
               b == <<f[2 * n + 1]>>
    <3>3. a \in Seq(Cell) /\ b \in Seq(Cell) /\ Len(a) = 1 /\ Len(b) = 1 /\ a[1] = b[1]
      BY <3>1, <3>2
    <3> HIDE DEF a, b
    <3>4. \A i \in 1..Len(a) : a[i] = b[i]
      BY <3>3
    <3>5. a = b
      BY <3>3, <3>4, SeqEqual
    <3> QED
      BY <1>2, <3>5 DEF a, b
  <2>5. Decodes(LastLine(f)) <=> f[2 * n + 1] # Torn
    <3>1. Decodes(<<f[2 * n + 1]>>) <=> f[2 * n + 1].cell = "record"
      BY DEF Decodes
    <3> QED
      BY <2>2, <2>4, <3>1, Cells
  <2>6. Count(f, n) = IF f[2 * n + 1] # Torn THEN n + 1 ELSE n
    BY <1>4 DEF Count
  <2> QED
    BY <1>1, <1>4, <2>4, <2>5, <2>6
<1> QED
  BY <1>1, <1>3, <1>4

\* What a replay yields.
LEMMA EventsAre ==
  ASSUME NEW f, NEW n, Shaped(f, n)
  PROVE  /\ Events(f) \in Seq(Cell) /\ Len(Events(f)) = Count(f, n)
         /\ \A k \in 1..Count(f, n) : Events(f)[k] = f[2 * k - 1] /\ Events(f)[k] \in Rec(k)
<1>1. f \in Seq(Cell) /\ n \in Nat /\ n >= 1 /\ (Len(f) = 2 * n \/ Len(f) = 2 * n + 1) /\ Len(f) \in Nat
  BY DEF Shaped
<1> DEFINE whole == [k \in 1..n |-> f[2 * k - 1]]
           rest == IF Decodes(LastLine(f)) THEN LastLine(f) ELSE <<>>
<1>2. Events(f) = whole \o rest
  <2>1. lastGood(f) \div 2 = n
    <3>1. lastGood(f) = 2 * n
      BY Lines
    <3> QED
      BY <1>1, <3>1
  <2> QED
    BY <2>1 DEF Events
<1>3. \A k \in 1..n : f[2 * k - 1] \in Rec(k) /\ f[2 * k - 1] \in Cell
  BY <1>1, Cells DEF Shaped
<1>4. whole \in Seq(Cell) /\ Len(whole) = n /\ \A k \in 1..n : whole[k] = f[2 * k - 1]
  BY <1>1, <1>3
<1>5. CASE Count(f, n) = n
  <2>1. n # n + 1
    BY <1>1
  <2>2. rest = <<>>
    BY <1>5, <2>1, Tails
  <2>3. Events(f) = whole
    BY <1>2, <1>4, <2>2, ConcatEmptySeq
  <2> HIDE DEF whole
  <2> QED
    BY <1>3, <1>4, <1>5, <2>3
<1>6. CASE Count(f, n) = n + 1
  <2>1. Len(f) = 2 * n + 1 /\ f[2 * n + 1] \in Rec(n + 1) /\ f[2 * n + 1] \in Cell
    <3>1. Len(f) = 2 * n + 1 /\ f[2 * n + 1] # Torn
      BY <1>1, <1>6 DEF Count
    <3> QED
      BY <1>1, <3>1, Cells DEF Shaped
  <2>2. rest = <<f[2 * n + 1]>>
    BY <1>1, <1>6, <2>1, Tails
  <2> HIDE DEF whole, rest
  <2>3. rest \in Seq(Cell) /\ Len(rest) = 1 /\ rest[1] = f[2 * n + 1]
    BY <2>1, <2>2
  <2>4. /\ Events(f) \in Seq(Cell) /\ Len(Events(f)) = n + 1
        /\ \A k \in 1..(n + 1) : Events(f)[k] = IF k <= n THEN whole[k] ELSE rest[k - n]
    <3>1. /\ whole \o rest \in Seq(Cell) /\ Len(whole \o rest) = Len(whole) + Len(rest)
          /\ \A k \in 1..(Len(whole) + Len(rest)) :
               (whole \o rest)[k] = IF k <= Len(whole) THEN whole[k] ELSE rest[k - Len(whole)]
      BY <1>4, <2>3, ConcatProperties
    <3> QED
      BY <1>1, <1>2, <1>4, <2>3, <3>1
  <2>5. \A k \in 1..n : Events(f)[k] = f[2 * k - 1]
    BY <1>1, <1>4, <2>4
  <2>6. Events(f)[n + 1] = f[2 * n + 1]
    BY <1>1, <2>3, <2>4
  <2>7. 2 * (n + 1) - 1 = 2 * n + 1 /\ \A k \in 1..(n + 1) : k \in 1..n \/ k = n + 1
    BY <1>1
  <2> QED
    BY <1>3, <1>6, <2>1, <2>4, <2>5, <2>6, <2>7
<1> QED
  BY <1>5, <1>6, Tails

LEMMA ShapedLoads ==
  ASSUME NEW f, NEW n, Shaped(f, n)
  PROVE  Loads(f)
<1>1. /\ Events(f) \in Seq(Cell) /\ Len(Events(f)) = Count(f, n) /\ Count(f, n) \in Nat /\ Count(f, n) >= 1
      /\ \A k \in 1..Count(f, n) : Events(f)[k] \in Rec(k)
  <2>1. n \in Nat /\ n >= 1 /\ (Count(f, n) = n \/ Count(f, n) = n + 1)
    BY Tails DEF Shaped
  <2> QED
    BY <2>1, EventsAre
<1>2. Events(f) # <<>> /\ DOMAIN Events(f) = 1..Count(f, n)
  BY <1>1
<1>3. \A k \in DOMAIN Events(f) : Events(f)[k].seq = k
  BY <1>1, <1>2, Cells
<1> QED
  BY <1>2, <1>3, Lines DEF Loads

-----------------------------------------------------------------------------
(* What a repair, a write and a power failure make of a file *)

LEMMA PrefixParts ==
  ASSUME NEW f \in Seq(Cell), NEW c \in Nat, c <= Len(f)
  PROVE  /\ SubSeq(f, 1, c) \in Seq(Cell) /\ Len(SubSeq(f, 1, c)) = c
         /\ \A i \in 1..c : SubSeq(f, 1, c)[i] = f[i]
<1>1. \A i \in 1..c : f[i] \in Cell
  OBVIOUS
<1>2. 1 \in Int /\ c \in Int
  OBVIOUS
<1>3. /\ SubSeq(f, 1, c) \in Seq(Cell) /\ Len(SubSeq(f, 1, c)) = IF 1 <= c THEN c - 1 + 1 ELSE 0
      /\ \A i \in 1..(c - 1 + 1) : SubSeq(f, 1, c)[i] = f[1 + i - 1]
  BY <1>1, <1>2, SubSeqProperties
<1> QED
  BY <1>3

LEMMA AppendParts ==
  ASSUME NEW f \in Seq(Cell), NEW x \in Cell, NEW l, l = Len(f)
  PROVE  /\ Append(f, x) \in Seq(Cell) /\ l \in Nat /\ Len(Append(f, x)) = l + 1
         /\ Append(f, x)[l + 1] = x /\ \A i \in 1..l : Append(f, x)[i] = f[i]
OBVIOUS

\* A repair leaves the file whole and keeps what it yields.
Mended(f, n, g) ==
  LET c == Count(f, n) IN
  /\ Shaped(g, c) /\ Len(g) = 2 * c /\ Count(g, c) = c /\ Same(f, g, 2 * n)
  /\ \A j \in 1..c : g[2 * j - 1] = f[2 * j - 1]

LEMMA RepairMends ==
  ASSUME NEW f, NEW n, Shaped(f, n)
  PROVE  Mended(f, n, Repaired(f))
<1> DEFINE g == Repaired(f)
<1>1. f \in Seq(Cell) /\ n \in Nat /\ n >= 1 /\ (Len(f) = 2 * n \/ Len(f) = 2 * n + 1) /\ Len(f) \in Nat
  BY DEF Shaped
<1>2. \A k \in 1..n : f[2 * k - 1] \in Rec(k) /\ f[2 * k] = Newline
  BY DEF Shaped
<1>3. CASE Count(f, n) = n + 1
  <2>1. Len(f) = 2 * n + 1 /\ f[2 * n + 1] \in Rec(n + 1)
    <3>1. Len(f) = 2 * n + 1 /\ f[2 * n + 1] # Torn
      BY <1>1, <1>3 DEF Count
    <3> QED
      BY <3>1 DEF Shaped
  <2>2. g = Append(f, Newline)
    BY <1>3, Tails DEF Repaired
  <2> HIDE DEF g
  <2>3. /\ g \in Seq(Cell) /\ Len(g) = (2 * n + 1) + 1 /\ g[(2 * n + 1) + 1] = Newline
        /\ \A i \in 1..(2 * n + 1) : g[i] = f[i]
    BY <1>1, <2>1, <2>2, AppendParts, Cells
  <2>4. Len(g) = 2 * (n + 1) /\ g[2 * (n + 1)] = Newline
    BY <1>1, <2>3
  <2>5. ASSUME NEW k \in 1..(n + 1)
        PROVE  g[2 * k - 1] = f[2 * k - 1] /\ g[2 * k - 1] \in Rec(k) /\ g[2 * k] = Newline
    <3>1. CASE k = n + 1
      <4>1. 2 * k - 1 = 2 * n + 1 /\ 2 * n + 1 \in 1..(2 * n + 1)
        BY <1>1, <3>1
      <4> QED
        BY <2>1, <2>3, <2>4, <3>1, <4>1
    <3>2. CASE k \in 1..n
      <4>1. 2 * k - 1 \in 1..(2 * n + 1) /\ 2 * k \in 1..(2 * n + 1)
        BY <1>1, <3>2
      <4> QED
        BY <1>2, <2>3, <3>2, <4>1
    <3> QED
      BY <1>1, <3>1, <3>2
  <2>6. n + 1 \in Nat /\ n + 1 >= 1 /\ Len(g) # 2 * (n + 1) + 1
    BY <1>1, <2>4
  <2>7. Shaped(g, n + 1) /\ Count(g, n + 1) = n + 1
    BY <2>3, <2>4, <2>5, <2>6 DEF Shaped, Count
  <2>8. Same(f, g, 2 * n)
    <3>1. 2 * n <= Len(f) /\ 2 * n <= Len(g) /\ \A i \in 1..(2 * n) : i \in 1..(2 * n + 1)
      BY <1>1, <2>1, <2>4
    <3> QED
      BY <2>3, <3>1 DEF Same
  <2> QED
    BY <1>3, <2>4, <2>5, <2>7, <2>8 DEF Mended, g
<1>4. CASE Count(f, n) = n
  <2>1. n # n + 1 /\ 2 * n \in Nat /\ 2 * n <= Len(f)
    BY <1>1
  <2>2. g = SubSeq(f, 1, 2 * n)
    BY <1>4, <2>1, Tails, Lines DEF Repaired
  <2> HIDE DEF g
  <2>3. g \in Seq(Cell) /\ Len(g) = 2 * n /\ \A i \in 1..(2 * n) : g[i] = f[i]
    BY <1>1, <2>1, <2>2, PrefixParts
  <2>4. ASSUME NEW k \in 1..n
        PROVE  g[2 * k - 1] = f[2 * k - 1] /\ g[2 * k - 1] \in Rec(k) /\ g[2 * k] = Newline
    <3>1. 2 * k - 1 \in 1..(2 * n) /\ 2 * k \in 1..(2 * n)
      BY <1>1
    <3> QED
      BY <1>2, <2>3, <3>1
  <2>5. Len(g) # 2 * n + 1
    BY <1>1, <2>3
  <2>6. Shaped(g, n) /\ Count(g, n) = n
    BY <1>1, <2>3, <2>4, <2>5 DEF Shaped, Count
  <2>7. Same(f, g, 2 * n)
    <3>1. 2 * n <= Len(g)
      BY <1>1, <2>3
    <3> QED
      BY <2>1, <2>3, <3>1 DEF Same
  <2> QED
    BY <1>4, <2>3, <2>4, <2>6, <2>7 DEF Mended, g
<1> QED
  BY <1>3, <1>4, Tails

\* A whole file of n lines gets one more record, a part of it, or its line.
Written(f, n, g, k, c) == Shaped(g, k) /\ Count(g, k) = c /\ Same(f, g, 2 * n)

LEMMA WriteParts ==
  ASSUME NEW f, NEW n \in Nat, Shaped(f, n), Len(f) = 2 * n, NEW r \in Rec(n + 1)
  PROVE  /\ Count(f, n) = n
         /\ Written(f, n, f \o <<>>, n, n) /\ Written(f, n, f \o <<Torn>>, n, n)
         /\ Written(f, n, f \o <<r>>, n, n + 1) /\ (f \o <<r>>)[2 * n + 1] = r
         /\ Written(f, n, f \o <<r, Newline>>, n + 1, n + 1) /\ Len(f \o <<r, Newline>>) = 2 * (n + 1)
         /\ (f \o <<r, Newline>>)[2 * n + 1] = r
<1>1. f \in Seq(Cell) /\ n \in Nat /\ n >= 1 /\ Len(f) = 2 * n /\ n + 1 \in Nat
  BY DEF Shaped
<1>2. \A k \in 1..n : f[2 * k - 1] \in Rec(k) /\ f[2 * k] = Newline
  BY DEF Shaped
<1>3. 2 * n # 2 * n + 1 /\ r \in Cell /\ r # Torn /\ Torn \in Cell /\ Newline \in Cell
  BY <1>1, Cells
<1>4. Count(f, n) = n
  BY <1>1, <1>3 DEF Count
<1>5. ASSUME NEW g, g \in Seq(Cell), Len(g) = 2 * n \/ Len(g) = 2 * n + 1, \A i \in 1..(2 * n) : g[i] = f[i],
             Len(g) = 2 * n + 1 => g[2 * n + 1] \in Rec(n + 1) \cup {Torn}
      PROVE  Shaped(g, n) /\ Same(f, g, 2 * n)
  <2>1. ASSUME NEW k \in 1..n
        PROVE  g[2 * k - 1] \in Rec(k) /\ g[2 * k] = Newline
    <3>1. 2 * k - 1 \in 1..(2 * n) /\ 2 * k \in 1..(2 * n)
      BY <1>1
    <3> QED
      BY <1>2, <1>5, <3>1
  <2>2. 2 * n <= Len(f) /\ 2 * n <= Len(g)
    BY <1>1, <1>5
  <2> QED
    BY <1>1, <1>5, <2>1, <2>2 DEF Shaped, Same
<1>6. f \o <<>> = f
  BY <1>1, ConcatEmptySeq
<1>7. ASSUME NEW x \in Cell
      PROVE  /\ f \o <<x>> \in Seq(Cell) /\ Len(f \o <<x>>) = 2 * n + 1 /\ (f \o <<x>>)[2 * n + 1] = x
             /\ \A i \in 1..(2 * n) : (f \o <<x>>)[i] = f[i]
  <2> DEFINE b == <<x>>
  <2>1. b \in Seq(Cell) /\ Len(b) = 1 /\ b[1] = x
    OBVIOUS
  <2> HIDE DEF b
  <2>2. /\ f \o b \in Seq(Cell) /\ Len(f \o b) = Len(f) + Len(b)
        /\ \A i \in 1..(Len(f) + Len(b)) : (f \o b)[i] = IF i <= Len(f) THEN f[i] ELSE b[i - Len(f)]
    BY <1>1, <2>1, ConcatProperties
  <2>3. f \o b \in Seq(Cell) /\ Len(f \o b) = 2 * n + 1 /\ (f \o b)[2 * n + 1] = x
        /\ \A i \in 1..(2 * n) : (f \o b)[i] = f[i]
    BY <1>1, <2>1, <2>2
  <2> QED
    BY <2>3 DEF b
<1>8. Written(f, n, f \o <<>>, n, n) /\ Written(f, n, f \o <<Torn>>, n, n)
  <2>1. Shaped(f \o <<>>, n) /\ Same(f, f \o <<>>, 2 * n) /\ Count(f \o <<>>, n) = n
    BY <1>1, <1>3, <1>4, <1>5, <1>6
  <2>2. Shaped(f \o <<Torn>>, n) /\ Same(f, f \o <<Torn>>, 2 * n)
    BY <1>1, <1>3, <1>5, <1>7
  <2>3. Count(f \o <<Torn>>, n) = n
    BY <1>3, <1>7 DEF Count
  <2> QED
    BY <2>1, <2>2, <2>3 DEF Written
<1>9. Written(f, n, f \o <<r>>, n, n + 1) /\ (f \o <<r>>)[2 * n + 1] = r
  <2>1. Shaped(f \o <<r>>, n) /\ Same(f, f \o <<r>>, 2 * n)
    BY <1>1, <1>3, <1>5, <1>7
  <2>2. Count(f \o <<r>>, n) = n + 1 /\ (f \o <<r>>)[2 * n + 1] = r
    BY <1>3, <1>7 DEF Count
  <2> QED
    BY <2>1, <2>2 DEF Written
<1>10. /\ Written(f, n, f \o <<r, Newline>>, n + 1, n + 1) /\ Len(f \o <<r, Newline>>) = 2 * (n + 1)
       /\ (f \o <<r, Newline>>)[2 * n + 1] = r
  <2> DEFINE b == <<r, Newline>>
             g == f \o b
  <2>1. b \in Seq(Cell) /\ Len(b) = 2 /\ b[1] = r /\ b[2] = Newline
    BY <1>3
  <2> HIDE DEF b
  <2>2. /\ g \in Seq(Cell) /\ Len(g) = Len(f) + Len(b)
        /\ \A i \in 1..(Len(f) + Len(b)) : g[i] = IF i <= Len(f) THEN f[i] ELSE b[i - Len(f)]
    BY <1>1, <2>1, ConcatProperties
  <2> HIDE DEF g
  <2>3. /\ g \in Seq(Cell) /\ Len(g) = 2 * (n + 1) /\ g[2 * n + 1] = r /\ g[2 * n + 2] = Newline
        /\ \A i \in 1..(2 * n) : g[i] = f[i]
    BY <1>1, <2>1, <2>2
  <2>4. ASSUME NEW k \in 1..(n + 1)
        PROVE  g[2 * k - 1] \in Rec(k) /\ g[2 * k] = Newline
    <3>1. CASE k = n + 1
      <4>1. 2 * k - 1 = 2 * n + 1 /\ 2 * k = 2 * n + 2
        BY <1>1, <3>1
      <4> QED
        BY <2>3, <3>1, <4>1
    <3>2. CASE k \in 1..n
      <4>1. 2 * k - 1 \in 1..(2 * n) /\ 2 * k \in 1..(2 * n)
        BY <1>1, <3>2
      <4> QED
        BY <1>2, <2>3, <3>2, <4>1
    <3> QED
      BY <1>1, <3>1, <3>2
  <2>5. n + 1 >= 1 /\ Len(g) # 2 * (n + 1) + 1 /\ 2 * n <= Len(f) /\ 2 * n <= Len(g)
    BY <1>1, <2>3
  <2>6. Shaped(g, n + 1) /\ Count(g, n + 1) = n + 1 /\ Same(f, g, 2 * n)
    BY <1>1, <2>3, <2>4, <2>5 DEF Shaped, Count, Same
  <2> QED
    BY <2>3, <2>6 DEF g, b, Written
<1> QED
  BY <1>4, <1>8, <1>9, <1>10

\* A power failure may cut the file anywhere, within a record too.
Cut(f, c, g) ==
  \/ g = SubSeq(f, 1, c)
  \/ c < Len(f) /\ f[c + 1].cell = "record" /\ g = Append(SubSeq(f, 1, c), Torn)

LEMMA CutParts ==
  ASSUME NEW f, NEW n, Shaped(f, n), NEW c \in Nat, 2 <= c, c <= Len(f), NEW g, Cut(f, c, g)
  PROVE  \E m \in Nat : Yields(f, n, g, m) /\ Same(f, g, c)
<1> DEFINE h == SubSeq(f, 1, c)
<1>1. f \in Seq(Cell) /\ n \in Nat /\ n >= 1 /\ (Len(f) = 2 * n \/ Len(f) = 2 * n + 1) /\ Len(f) \in Nat
  BY DEF Shaped
<1>2. /\ \A k \in 1..n : f[2 * k - 1] \in Rec(k) /\ f[2 * k] = Newline
      /\ Len(f) = 2 * n + 1 => f[2 * n + 1] \in Rec(n + 1) \cup {Torn}
  BY DEF Shaped
<1>3. h \in Seq(Cell) /\ Len(h) = c /\ \A i \in 1..c : h[i] = f[i]
  BY <1>1, PrefixParts
<1>4. g = h \/ (c < Len(f) /\ f[c + 1].cell = "record" /\ g = Append(h, Torn))
  BY DEF Cut
<1> HIDE DEF h
<1>5. /\ Append(h, Torn) \in Seq(Cell) /\ Len(Append(h, Torn)) = c + 1 /\ Append(h, Torn)[c + 1] = Torn
      /\ \A i \in 1..c : Append(h, Torn)[i] = h[i]
  BY <1>3, AppendParts, Cells
<1>6. g \in Seq(Cell) /\ (Len(g) = c \/ (Len(g) = c + 1 /\ g[c + 1] = Torn)) /\ \A i \in 1..c : g[i] = f[i]
  BY <1>3, <1>4, <1>5
<1>7. Same(f, g, c)
  <2>1. c <= Len(g)
    BY <1>6
  <2> QED
    BY <1>6, <2>1 DEF Same
<1>8. PICK m \in Nat : c = 2 * m \/ c = 2 * m + 1
  BY HalfOf
<1>9. m >= 1 /\ m <= n
  BY <1>1, <1>8
<1>10. Count(f, n) \in Nat /\ n <= Count(f, n)
  BY <1>1, Tails
<1>11. ASSUME NEW k \in 1..m
       PROVE  g[2 * k - 1] = f[2 * k - 1] /\ g[2 * k - 1] \in Rec(k) /\ g[2 * k] = Newline
  <2>1. 2 * k - 1 \in 1..c /\ 2 * k \in 1..c /\ k \in 1..n
    BY <1>1, <1>8, <1>9
  <2> QED
    BY <1>2, <1>6, <2>1
<1>12. CASE c = 2 * m
  <2>1. Len(g) = 2 * m \/ (Len(g) = 2 * m + 1 /\ g[2 * m + 1] = Torn)
    BY <1>6, <1>12
  <2>2. Shaped(g, m)
    BY <1>6, <1>9, <1>11, <2>1 DEF Shaped
  <2>3. Count(g, m) = m
    <3>1. 2 * m # 2 * m + 1
      BY <1>8
    <3> QED
      BY <2>1, <3>1 DEF Count
  <2>4. Count(g, m) <= Count(f, n)
    BY <1>1, <1>9, <1>10, <2>3
  <2> QED
    BY <1>7, <1>11, <2>2, <2>3, <2>4 DEF Yields
<1>13. CASE c = 2 * m + 1
  <2>1. Len(g) = 2 * m + 1
    <3>1. CASE m < n
      <4>1. m + 1 \in 1..n /\ c + 1 = 2 * (m + 1)
        BY <1>1, <1>9, <1>13, <3>1
      <4>2. f[c + 1] = Newline
        BY <1>2, <4>1
      <4> QED
        BY <1>3, <1>4, <1>13, <4>2, Cells
    <3>2. CASE ~(m < n)
      <4>1. ~(c < Len(f))
        BY <1>1, <1>9, <1>13, <3>2
      <4> QED
        BY <1>3, <1>4, <1>13, <4>1
    <3> QED
      BY <3>1, <3>2
  <2>2. g[2 * m + 1] = f[2 * m + 1]
    <3>1. 2 * m + 1 \in 1..c
      BY <1>13
    <3> QED
      BY <1>6, <3>1
  <2>3. f[2 * m + 1] \in Rec(m + 1) \cup {Torn}
    <3>1. CASE m < n
      <4>1. m + 1 \in 1..n /\ 2 * (m + 1) - 1 = 2 * m + 1
        BY <1>1, <1>9, <3>1
      <4> QED
        BY <1>2, <4>1
    <3>2. CASE m = n
      <4>1. Len(f) = 2 * n + 1
        BY <1>1, <1>13, <3>2
      <4> QED
        BY <1>2, <3>2, <4>1
    <3> QED
      BY <1>1, <1>9, <3>1, <3>2
  <2>4. Shaped(g, m)
    BY <1>6, <1>9, <1>11, <2>1, <2>2, <2>3 DEF Shaped
  <2>5. Count(g, m) = IF f[2 * m + 1] # Torn THEN m + 1 ELSE m
    BY <2>1, <2>2 DEF Count
  <2>6. Count(g, m) <= Count(f, n)
    <3>1. CASE m < n
      BY <1>1, <1>9, <1>10, <2>5, <3>1
    <3>2. CASE m = n
      <4>1. Len(f) = 2 * n + 1
        BY <1>1, <1>13, <3>2
      <4>2. Count(f, n) = Count(g, m)
        BY <2>5, <3>2, <4>1 DEF Count
      <4> QED
        BY <1>10, <4>2
    <3> QED
      BY <1>1, <1>9, <3>1, <3>2
  <2>7. ASSUME NEW k \in 1..Count(g, m)
        PROVE  g[2 * k - 1] = f[2 * k - 1]
    <3>1. CASE k \in 1..m
      BY <1>11, <3>1
    <3>2. CASE k = m + 1
      <4>1. 2 * k - 1 = 2 * m + 1
        BY <1>9, <3>2
      <4> QED
        BY <2>2, <4>1
    <3> QED
      BY <1>9, <2>5, <3>1, <3>2
  <2> QED
    BY <1>7, <2>4, <2>6, <2>7 DEF Yields
<1> QED
  BY <1>8, <1>12, <1>13

\* A set of numbers with a bound has a greatest one.
LEMMA Greatest ==
  ASSUME NEW N \in Nat, NEW S \in SUBSET (0..N), S # {}
  PROVE  \E x \in S : \A y \in S : y <= x
<1> DEFINE above(n) == {x \in S : x >= n}
           T == {above(n) : n \in S}
<1>1. S \in SUBSET Nat /\ IsFiniteSet(S)
  <2> DEFINE R == 0..N
  <2>1. IsFiniteSet(R) /\ S \in SUBSET R /\ R \in SUBSET Nat
    BY FS_Interval
  <2> HIDE DEF R
  <2> QED
    BY <2>1, FS_Subset
<1>2. ASSUME NEW n \in S
      PROVE  above(n) \in FiniteSubsetsOf(Nat)
  <2>1. above(n) \in SUBSET S
    OBVIOUS
  <2> HIDE DEF above
  <2>2. IsFiniteSet(above(n)) /\ above(n) \in SUBSET Nat
    BY <1>1, <2>1, FS_Subset
  <2> QED
    BY <2>2 DEF FiniteSubsetsOf
<1> HIDE DEF above
<1>3. T \subseteq FiniteSubsetsOf(Nat) /\ T # {}
  BY <1>2
<1> HIDE DEF T
<1>4. PICK B \in T : \A C \in T : <<C, B>> \notin StrictSubsetOrdering(Nat)
  <2>1. IsWellFoundedOn(StrictSubsetOrdering(Nat), FiniteSubsetsOf(Nat))
    BY FS_StrictSubsetOrderingWellFounded
  <2> QED
    BY <1>3, <2>1, WFMin
<1>5. PICK n \in S : B = above(n)
  BY DEF T
<1>6. ASSUME NEW y \in S, y > n
      PROVE  FALSE
  <2>1. n \in Nat /\ y \in Nat
    BY <1>1
  <2>2. \A x \in Nat : x >= y => x >= n
    BY <1>6, <2>1
  <2>3. n >= n /\ ~(n >= y)
    BY <1>6, <2>1
  <2>4. above(y) \subseteq above(n) /\ n \in above(n) /\ n \notin above(y)
    BY <1>1, <2>1, <2>2, <2>3 DEF above
  <2>5. above(y) \in SUBSET Nat /\ above(n) \in SUBSET Nat
    BY <1>1 DEF above
  <2>6. <<above(y), above(n)>> \in StrictSubsetOrdering(Nat)
    BY <2>4, <2>5 DEF StrictSubsetOrdering
  <2> QED
    BY <1>4, <1>5, <2>6 DEF T
<1>7. \A y \in S : y <= n
  BY <1>1, <1>6
<1> QED
  BY <1>7

\* The same, said of one write at a time.
LEMMA WritesWhole ==
  ASSUME NEW f, NEW n \in Nat, Shaped(f, n), Len(f) = 2 * n, NEW r \in Rec(n + 1), NEW g, g = f \o <<r, Newline>>
  PROVE  Written(f, n, g, n + 1, n + 1) /\ Len(g) = 2 * (n + 1) /\ g[2 * n + 1] = r /\ Count(f, n) = n
BY WriteParts

LEMMA WritesPart ==
  ASSUME NEW f, NEW n \in Nat, Shaped(f, n), Len(f) = 2 * n, NEW r \in Rec(n + 1), NEW g,
         g = f \o <<>> \/ g = f \o <<Torn>> \/ g = f \o <<r>>
  PROVE  \/ Written(f, n, g, n, n)
         \/ g = f \o <<r>> /\ Written(f, n, g, n, n + 1) /\ g[2 * n + 1] = r
<1>1. CASE g = f \o <<>>
  BY <1>1, WriteParts
<1>2. CASE g = f \o <<Torn>>
  BY <1>2, WriteParts
<1>3. CASE g = f \o <<r>>
  BY <1>3, WriteParts
<1> QED
  BY <1>1, <1>2, <1>3

-----------------------------------------------------------------------------
(* Steps *)

LEMMA InRange ==
  ASSUME NEW f, NEW n, Shaped(f, n)
  PROVE  n \in 1..Len(f) /\ n \in Nat /\ n >= 1
BY DEF Shaped

\* What is behind a file is behind one that yields more.
LEMMA BehindMore ==
  ASSUME NEW f, NEW p, Behind(f, p), NEW n, Shaped(f, n), NEW g, NEW k, Shaped(g, k), Count(f, n) <= Count(g, k),
         \A j \in 1..Count(f, n) : g[2 * j - 1] = f[2 * j - 1]
  PROVE  Behind(g, p)
<1>1. PICK m \in 1..Len(p) : Yields(f, n, p, m)
  BY OneShape DEF Behind, Yields
<1>2. Count(p, m) \in Nat /\ Count(f, n) \in Nat /\ Count(g, k) \in Nat
  <2>1. m \in Nat /\ Shaped(p, m) /\ n \in Nat /\ k \in Nat
    BY <1>1 DEF Yields, Shaped
  <2> QED
    BY <1>1, <2>1, Tails
<1>3. Yields(g, k, p, m)
  BY <1>1, <1>2 DEF Yields
<1> QED
  BY <1>1, <1>3, InRange DEF Behind

LEMMA BehindSelf ==
  ASSUME NEW f, NEW n, Shaped(f, n)
  PROVE  Behind(f, f)
<1>1. n \in Nat /\ Count(f, n) \in Nat
  <2>1. n \in Nat
    BY DEF Shaped
  <2> QED
    BY <2>1, Tails
<1> QED
  BY <1>1, InRange DEF Behind, Yields

LEMMA CandidateIsNext ==
  ASSUME Types, NEW L, Indexed(L)
  PROVE  Candidate \in Rec(L + 1) /\ Candidate = Record(L + 1, tried + 1)
<1>1. L \in Nat /\ store.lastSeq = L /\ tried + 1 \in Nat
  BY EventLogAssumption DEF Types, Indexed
<1> QED
  BY <1>1 DEF Candidate, Record, Rec

\* The store is closed and the file has the shape.
LEMMA ClosedKeeps ==
  ASSUME Types', Behind(file, platter)', NEW p, Newest(p)', store' = Closed, pending' = FALSE
  PROVE  LogIInv'
<1>1. p \in Nat /\ p >= 1 /\ Same(file', platter', 2 * p) /\ file' \in Seq(Cell)
  BY DEF Newest, Behind, Yields, Shaped
<1>2. p \in 1..Len(file')
  BY <1>1 DEF Same
<1>3. ~store'.open
  BY DEF Closed
<1> QED
  BY <1>2, <1>3 DEF LogIInv

LEMMA ClosedStore == Closed \in Store /\ ~Closed.open
BY DEF Closed, Store

\* What a growing file keeps.
LEMMA NewestStays ==
  ASSUME NEW p, Newest(p), NEW n \in Nat, 2 * p <= n, NEW f \in Seq(Cell), Same(file, f, n),
         file' = f, acked' = acked, platter' = platter
  PROVE  Newest(p)'
<1>1. p \in Nat /\ p >= 1 /\ Same(file, platter, 2 * p)
  BY DEF Newest
<1>2. 2 * p <= Len(f) /\ \A i \in 1..(2 * p) : i \in 1..n
  BY <1>1 DEF Same
<1>3. Same(f, platter, 2 * p)
  BY <1>1, <1>2 DEF Same
<1> QED
  BY <1>1, <1>3 DEF Newest

LEMMA WriteKeeps ==
  ASSUME LogIInv, Write
  PROVE  LogIInv'
<1>1. PICK L \in 1..Len(file) : Indexed(L)
  BY DEF LogIInv, Write
<1>2. PICK p \in 1..Len(file) : Newest(p) /\ p <= L
  BY <1>1 DEF LogIInv, Write, Indexed
<1>3. ~pending /\ L \in Nat /\ L >= 1 /\ Shaped(file, L) /\ Len(file) = 2 * L
  BY <1>1 DEF Write, Indexed
<1> DEFINE r == Candidate
           g == file \o <<r, Newline>>
<1>4. r \in Rec(L + 1)
  BY <1>1, CandidateIsNext DEF LogIInv
<1> HIDE DEF r
<1> HIDE DEF g
<1>5. /\ Shaped(g, L + 1) /\ Len(g) = 2 * (L + 1) /\ Count(g, L + 1) = L + 1 /\ Same(file, g, 2 * L)
      /\ Count(file, L) = L
  <2>1. Written(file, L, g, L + 1, L + 1) /\ Len(g) = 2 * (L + 1) /\ Count(file, L) = L
    BY <1>3, <1>4, WritesWhole DEF g
  <2> QED
    BY <2>1 DEF Written
<1>6. file' = g /\ pending' = TRUE /\ tried' = tried + 1 /\ tried < MaxAppends /\ UNCHANGED <<platter, store, acked>>
      /\ store.open
  BY DEF Write, r, g
<1>7. Types'
  BY <1>6, EventLogAssumption DEF LogIInv, Types
<1>8. Behind(file, platter)'
  <2>1. \A j \in 1..L : 2 * j - 1 \in 1..(2 * L)
    BY <1>3
  <2>2. \A j \in 1..L : g[2 * j - 1] = file[2 * j - 1]
    BY <1>5, <2>1 DEF Same
  <2>3. Behind(file, platter) /\ L <= L + 1
    BY <1>3 DEF LogIInv
  <2>4. Behind(g, platter)
    BY <1>3, <1>5, <2>2, <2>3, BehindMore
  <2> QED
    BY <1>6, <2>4
<1>9. Newest(p)'
  <2>1. 2 * p <= 2 * L /\ 2 * L \in Nat /\ g \in Seq(Cell)
    BY <1>2, <1>3, <1>5 DEF Shaped
  <2> QED
    BY <1>2, <1>5, <1>6, <2>1, NewestStays
<1>10. Indexed(L)'
  BY <1>1, <1>5, <1>6 DEF Indexed
<1>11. L \in 1..Len(file') /\ p \in 1..Len(file') /\ store'.open /\ p <= store'.lastSeq
  BY <1>1, <1>2, <1>3, <1>5, <1>6 DEF Indexed
<1> QED
  BY <1>7, <1>8, <1>9, <1>10, <1>11 DEF LogIInv

LEMMA WriteFailsKeeps ==
  ASSUME LogIInv, WriteFails
  PROVE  LogIInv'
<1>1. PICK L \in 1..Len(file) : Indexed(L)
  BY DEF LogIInv, WriteFails
<1>2. PICK p \in 1..Len(file) : Newest(p) /\ p <= L
  BY <1>1 DEF LogIInv, WriteFails, Indexed
<1>3. ~pending /\ L \in Nat /\ L >= 1 /\ Shaped(file, L) /\ Len(file) = 2 * L
  BY <1>1 DEF WriteFails, Indexed
<1> DEFINE r == Candidate
<1>4. r \in Rec(L + 1)
  BY <1>1, CandidateIsNext DEF LogIInv
<1>5. /\ \E part \in {<<>>, <<Torn>>, <<r>>, <<r, Newline>>} : file' = file \o part
      /\ store' = Closed /\ tried' = tried + 1 /\ tried < MaxAppends /\ UNCHANGED <<platter, acked>>
  BY DEF WriteFails, FailedWrite
<1>50. pending' = FALSE
  BY <1>3 DEF WriteFails, LogIInv, Types
<1> HIDE DEF r
<1>6. PICK k \in Nat : Shaped(file', k) /\ Count(file', k) >= L /\ Same(file, file', 2 * L)
  <2>1. Written(file, L, file', L, L) \/ Written(file, L, file', L, L + 1) \/ Written(file, L, file', L + 1, L + 1)
    <3>1. CASE file' = file \o <<>> \/ file' = file \o <<Torn>> \/ file' = file \o <<r>>
      BY <1>3, <1>4, <3>1, WritesPart
    <3>2. CASE file' = file \o <<r, Newline>>
      BY <1>3, <1>4, <3>2, WritesWhole
    <3> QED
      BY <1>5, <3>1, <3>2
  <2>2. L >= L /\ L + 1 >= L /\ L + 1 \in Nat
    BY <1>3
  <2> QED
    BY <1>3, <2>1, <2>2 DEF Written
<1>7. Types'
  <2>1. tried' \in 0..MaxAppends
    BY <1>5, EventLogAssumption DEF LogIInv, Types
  <2> QED
    BY <1>5, <1>50, <2>1, ClosedStore DEF LogIInv, Types
<1>8. Behind(file', platter)
  <2>1. \A j \in 1..L : 2 * j - 1 \in 1..(2 * L)
    BY <1>3
  <2>2. \A j \in 1..L : (file')[2 * j - 1] = file[2 * j - 1]
    BY <1>6, <2>1 DEF Same
  <2>3. Behind(file, platter) /\ Count(file, L) = L
    <3>1. 2 * L # 2 * L + 1
      BY <1>3
    <3> QED
      BY <1>3, <3>1 DEF LogIInv, Count
  <2>4. L <= Count(file', k)
    <3>1. Count(file', k) \in Nat
      BY <1>6, Tails
    <3> QED
      BY <1>3, <1>6, <3>1
  <2> QED
    BY <1>3, <1>6, <2>2, <2>3, <2>4, BehindMore
<1>9. Newest(p)'
  <2>1. 2 * p <= 2 * L /\ 2 * L \in Nat /\ file' \in Seq(Cell)
    BY <1>2, <1>3, <1>6 DEF Shaped
  <2> QED
    BY <1>2, <1>5, <1>6, <2>1, NewestStays
<1> QED
  BY <1>5, <1>50, <1>7, <1>8, <1>9, ClosedKeeps

LEMMA CloseKeeps ==
  ASSUME LogIInv, SyncFails \/ Close
  PROVE  LogIInv'
<1>1. store' = Closed /\ pending' = FALSE /\ UNCHANGED <<file, platter, tried, acked>>
  BY DEF SyncFails, Close, FailedWrite
<1>2. PICK p \in 1..Len(file) : Newest(p)
  BY DEF LogIInv
<1>3. Types'
  BY <1>1, ClosedStore DEF LogIInv, Types
<1>4. Behind(file, platter)' /\ Newest(p)'
  BY <1>1, <1>2 DEF LogIInv, Newest
<1> QED
  BY <1>1, <1>3, <1>4, ClosedKeeps

\* A synced record is acknowledged and indexed.
LEMMA SyncKeeps ==
  ASSUME LogIInv, Sync
  PROVE  LogIInv'
<1>1. PICK L \in 1..Len(file) : Indexed(L)
  BY DEF LogIInv, Sync
<1>2. PICK p \in 1..Len(file) : Newest(p) /\ p <= L
  BY <1>1 DEF LogIInv, Sync, Indexed
<1>3. L \in Nat /\ L >= 1 /\ Shaped(file, L + 1) /\ Len(file) = 2 * (L + 1) /\ store.lastSeq = L /\ store.size = 2 * L
      /\ store.offsets = [k \in 1..L |-> 2 * (k - 1)] /\ store.open
  BY <1>1 DEF Sync, Indexed
<1>4. /\ platter' = file /\ file' = file /\ pending' = FALSE /\ tried' = tried
      /\ acked' = acked \cup {<<L + 1, tried>>} /\ store' = Acknowledged(store)
  BY <1>3 DEF Sync, Flushed
<1> DEFINE o == [k \in 1..(L + 1) |-> 2 * (k - 1)]
<1>5. Append(store.offsets, 2 * L) = o
  <2> DEFINE a == [k \in 1..L |-> 2 * (k - 1)]
  <2>1. a \in Seq(Nat) /\ Len(a) = L /\ \A k \in 1..L : a[k] = 2 * (k - 1)
    BY <1>3
  <2>2. o \in Seq(Nat) /\ Len(o) = L + 1 /\ \A k \in 1..(L + 1) : o[k] = 2 * (k - 1)
    BY <1>3
  <2> HIDE DEF a, o
  <2>3. Append(a, 2 * L) \in Seq(Nat) /\ Len(Append(a, 2 * L)) = L + 1
        /\ \A k \in 1..(L + 1) : Append(a, 2 * L)[k] = 2 * (k - 1)
    <3>1. /\ Append(a, 2 * L) \in Seq(Nat) /\ Len(Append(a, 2 * L)) = L + 1 /\ Append(a, 2 * L)[L + 1] = 2 * L
          /\ \A k \in 1..L : Append(a, 2 * L)[k] = a[k]
      BY <1>3, <2>1
    <3>2. 2 * ((L + 1) - 1) = 2 * L /\ \A k \in 1..(L + 1) : k \in 1..L \/ k = L + 1
      BY <1>3
    <3> QED
      BY <2>1, <3>1, <3>2
  <2>4. \A k \in 1..Len(o) : Append(a, 2 * L)[k] = o[k]
    BY <2>2, <2>3
  <2>5. Append(a, 2 * L) = o
    BY <2>2, <2>3, <2>4, SeqEqual
  <2> QED
    BY <1>3, <2>5 DEF a
<1>6. o \in Seq(Nat)
  BY <1>3
<1> HIDE DEF o
<1>7. store' \in Store /\ store'.open /\ store'.lastSeq = L + 1 /\ store'.offsets = o /\ store'.size = 2 * (L + 1)
  <2>1. Acknowledged(store) = [store EXCEPT !.lastSeq = L + 1, !.offsets = o, !.size = 2 * (L + 1)]
    BY <1>3, <1>5 DEF Acknowledged
  <2>2. L + 1 \in Nat /\ 2 * (L + 1) \in Nat
    BY <1>3
  <2>3. ASSUME NEW s \in Store
        PROVE  [s EXCEPT !.lastSeq = L + 1, !.offsets = o, !.size = 2 * (L + 1)] \in Store
    BY <1>6, <2>2 DEF Store
  <2>4. ASSUME NEW s \in Store
        PROVE  [s EXCEPT !.lastSeq = L + 1, !.offsets = o, !.size = 2 * (L + 1)].open = s.open
    BY DEF Store
  <2>5. ASSUME NEW s \in Store
        PROVE  [s EXCEPT !.lastSeq = L + 1, !.offsets = o, !.size = 2 * (L + 1)].lastSeq = L + 1
    BY DEF Store
  <2>6. ASSUME NEW s \in Store
        PROVE  [s EXCEPT !.lastSeq = L + 1, !.offsets = o, !.size = 2 * (L + 1)].offsets = o
    BY DEF Store
  <2>7. ASSUME NEW s \in Store
        PROVE  [s EXCEPT !.lastSeq = L + 1, !.offsets = o, !.size = 2 * (L + 1)].size = 2 * (L + 1)
    BY DEF Store
  <2>8. store \in Store
    BY DEF LogIInv, Types
  <2> QED
    BY <1>3, <1>4, <2>1, <2>3, <2>4, <2>5, <2>6, <2>7, <2>8
<1>8. Types'
  <2>1. <<L + 1, tried>> \in Nat \X Nat
    BY <1>3 DEF LogIInv, Types
  <2>2. acked' \subseteq Nat \X Nat
    BY <1>4, <2>1 DEF LogIInv, Types
  <2> QED
    BY <1>4, <1>7, <2>2 DEF LogIInv, Types
<1>9. Behind(file, platter)'
  BY <1>3, <1>4, BehindSelf
<1>10. Newest(L + 1)'
  <2>1. \A a \in acked : a[1] \in Nat /\ a[1] <= L
    <3>1. acked \subseteq Nat \X Nat
      BY DEF LogIInv, Types
    <3>2. \A a \in acked : a[1] \in Nat
      BY <3>1
    <3>3. p \in Nat /\ p <= L /\ \A a \in acked : a[1] <= p
      BY <1>2 DEF Newest
    <3> QED
      BY <1>3, <3>2, <3>3
  <2>2. \A a \in acked' : a[1] <= L + 1
    BY <1>3, <1>4, <2>1
  <2>3. \E a \in acked' : a[1] = L + 1
    <3>1. <<L + 1, tried>>[1] = L + 1 /\ <<L + 1, tried>> \in acked'
      BY <1>4
    <3> QED
      BY <3>1
  <2>4. Same(file, file, 2 * (L + 1)) /\ L + 1 \in Nat /\ L + 1 >= 1
    BY <1>3 DEF Same
  <2> QED
    BY <1>4, <2>2, <2>3, <2>4 DEF Newest
<1>11. Indexed(L + 1)'
  <2>1. L + 1 \in Nat /\ L + 1 >= 1
    BY <1>3
  <2> QED
    BY <1>3, <1>4, <1>7, <2>1 DEF Indexed, o
<1>12. L + 1 \in 1..Len(file') /\ L + 1 <= store'.lastSeq
  BY <1>3, <1>4, <1>7
<1> QED
  BY <1>7, <1>8, <1>9, <1>10, <1>11, <1>12 DEF LogIInv

LEMMA ScanIs ==
  ASSUME NEW f, NEW n, Shaped(f, n)
  PROVE  LET s == Scanned(f)
             c == Count(f, n) IN
         /\ s \in Store /\ s.open /\ s.lastSeq = c /\ s.offsets = [k \in 1..c |-> 2 * (k - 1)] /\ s.size = 2 * c
<1> DEFINE c == Count(f, n)
           o == [k \in 1..c |-> 2 * (k - 1)]
           t == TRUE
<1>1. c \in Nat /\ Events(f) \in Seq(Cell) /\ Len(Events(f)) = c
  <2>1. n \in Nat
    BY DEF Shaped
  <2> QED
    BY <2>1, Tails, EventsAre
<1>2. DOMAIN Events(f) = 1..c
  BY <1>1
<1>3. Len(Repaired(f)) = 2 * c
  BY RepairMends DEF Mended
<1> HIDE DEF c
<1>4. o \in Seq(Nat) /\ 2 * c \in Nat
  BY <1>1
<1>5. [k \in DOMAIN Events(f) |-> 2 * (k - 1)] = o
  BY <1>2
<1>6. t \in BOOLEAN /\ t
  OBVIOUS
<1> HIDE DEF o, t
<1>7. Scanned(f) = [open |-> t, lastSeq |-> c, offsets |-> o, size |-> 2 * c]
  BY <1>1, <1>3, <1>5 DEF Scanned, t
<1>8. Scanned(f) \in Store
  BY <1>1, <1>4, <1>6, <1>7 DEF Store
<1>9. /\ Scanned(f).open = t /\ Scanned(f).lastSeq = c /\ Scanned(f).offsets = o /\ Scanned(f).size = 2 * c
  BY <1>7
<1> QED
  BY <1>6, <1>8, <1>9 DEF c, o

\* Opening a file that is whole after the repair.
LEMMA OpensWhole ==
  ASSUME LogIInv, NEW n, Shaped(file, n), NEW c, c = Count(file, n), Shaped(file', c), Len(file') = 2 * c,
         store' = Scanned(file), pending' = FALSE, tried' = tried, acked' = acked,
         NEW p, Newest(p)', p <= c, Behind(file, platter)'
  PROVE  LogIInv'
<1>1. /\ store' \in Store /\ store'.open /\ store'.lastSeq = c /\ store'.offsets = [k \in 1..c |-> 2 * (k - 1)]
      /\ store'.size = 2 * c
  BY ScanIs
<1>2. c \in Nat /\ c >= 1 /\ c \in 1..Len(file')
  BY InRange
<1>3. Indexed(c)'
  BY <1>1, <1>2 DEF Indexed
<1>4. p \in 1..Len(file')
  <2>1. p \in Nat /\ p >= 1
    BY DEF Newest
  <2> QED
    BY <1>2, <2>1
<1>5. Types'
  BY <1>1 DEF LogIInv, Types
<1> QED
  BY <1>1, <1>2, <1>3, <1>4, <1>5 DEF LogIInv

LEMMA OpenKeeps ==
  ASSUME LogIInv, OpenExisting
  PROVE  LogIInv'
<1>1. store = Closed /\ pending' = FALSE /\ tried' = tried /\ acked' = acked
  BY DEF OpenExisting, LogIInv, Types
<1>2. PICK n \in 1..Len(file), m \in 1..Len(platter) : Yields(file, n, platter, m)
  BY DEF LogIInv, Behind
<1>3. PICK p \in 1..Len(file) : Newest(p)
  BY DEF LogIInv
<1> DEFINE c == Count(file, n)
           g == Repaired(file)
<1>4. /\ Shaped(file, n) /\ n \in Nat /\ n >= 1 /\ c \in Nat /\ n <= c /\ (Len(file) = 2 * n \/ Len(file) = 2 * n + 1)
      /\ p \in Nat /\ p >= 1 /\ Same(file, platter, 2 * p)
  <2>1. Shaped(file, n) /\ n \in Nat /\ n >= 1 /\ (Len(file) = 2 * n \/ Len(file) = 2 * n + 1)
    BY <1>2 DEF Yields, Shaped
  <2>2. c = n \/ c = n + 1
    BY <2>1, Tails
  <2> QED
    BY <1>3, <2>1, <2>2 DEF Newest
<1>5. p <= n
  <2>1. 2 * p <= Len(file)
    BY <1>4 DEF Same
  <2> QED
    BY <1>4, <2>1
<1>6. Shaped(g, c) /\ Len(g) = 2 * c /\ Count(g, c) = c /\ Same(file, g, 2 * n) /\ \A j \in 1..c : g[2 * j - 1] = file[2 * j - 1]
  BY <1>4, RepairMends DEF Mended
<1>7. p <= c
  BY <1>4, <1>5
<1>8. CASE LastLine(file) = <<>> /\ store' = Scanned(file) /\ UNCHANGED <<file, platter>>
  <2>1. Len(file) = 2 * n
    <3>1. <<file[2 * n + 1]>> # <<>>
      OBVIOUS
    <3> QED
      BY <1>4, <1>8, <3>1, Tails
  <2>2. c = n
    <3>1. 2 * n # 2 * n + 1
      BY <1>4
    <3> QED
      BY <2>1, <3>1 DEF Count
  <2>3. Newest(p)' /\ Behind(file, platter)'
    BY <1>1, <1>3, <1>8 DEF Newest, LogIInv
  <2> HIDE DEF c
  <2>4. Shaped(file', c) /\ Len(file') = 2 * c /\ c = Count(file, n)
    BY <1>4, <1>8, <2>1, <2>2 DEF c
  <2> QED
    BY <1>1, <1>4, <1>7, <1>8, <2>3, <2>4, OpensWhole
<1>9. CASE file' = g /\ ((platter' = g /\ store' = Scanned(file)) \/ UNCHANGED <<platter, store>>)
  <2> HIDE DEF c, g
  <2>1. Same(g, platter, 2 * p) /\ Same(g, g, 2 * p)
    <3>1. 2 * p <= 2 * n /\ \A i \in 1..(2 * p) : i \in 1..(2 * n)
      BY <1>4, <1>5
    <3>2. 2 * p <= Len(g)
      BY <1>4, <1>6, <1>7
    <3> QED
      BY <1>4, <1>6, <3>1, <3>2 DEF Same
  <2>2. Newest(p)'
    BY <1>1, <1>3, <1>9, <2>1 DEF Newest
  <2>3. Behind(g, platter) /\ Behind(g, g)
    <3>1. Behind(file, platter) /\ c <= c
      BY <1>4 DEF LogIInv
    <3>2. Behind(g, platter)
      BY <1>4, <1>6, <3>1, BehindMore DEF c
    <3> QED
      BY <1>6, <3>2, BehindSelf
  <2>4. Behind(file', platter')
    BY <1>9, <2>3
  <2>5. CASE platter' = g /\ store' = Scanned(file)
    <3>1. Shaped(file', c) /\ Len(file') = 2 * c /\ c = Count(file, n)
      BY <1>6, <1>9 DEF c
    <3> QED
      BY <1>1, <1>4, <1>7, <2>2, <2>4, <2>5, <3>1, OpensWhole
  <2>6. CASE UNCHANGED <<platter, store>>
    <3>1. Types' /\ store' = Closed
      BY <1>1, <2>6 DEF LogIInv, Types
    <3> QED
      BY <1>1, <2>2, <2>4, <3>1, ClosedKeeps
  <2> QED
    BY <1>9, <2>5, <2>6
<1> QED
  BY <1>8, <1>9 DEF OpenExisting

\* What a power failure leaves still holds what was acknowledged.
LEMMA PowerLossLeaves ==
  ASSUME LogIInv, PowerLoss, NEW n, NEW m, Yields(file, n, platter, m), NEW p, Newest(p)
  PROVE  \E k \in Nat : Yields(file, n, file', k) /\ 2 * p <= Len(file') /\ Same(file', platter, 2 * p)
<1>1. /\ Shaped(file, n) /\ Shaped(platter, m) /\ p \in Nat /\ p >= 1 /\ Same(file, platter, 2 * p)
      /\ file \in Seq(Cell) /\ Len(file) \in Nat /\ m \in Nat
  BY DEF Yields, Newest, Shaped
<1> DEFINE common == CHOOSE i \in Shared : \A j \in Shared : j <= i
<1>2. Shared \in SUBSET (0..Len(file)) /\ 2 * p \in Shared
  <2>1. 2 * p \in 0..Len(file)
    BY <1>1 DEF Same
  <2> QED
    BY <1>1, <2>1 DEF Shared, Same
<1>3. common \in Shared /\ 2 * p <= common
  <2>1. \E x \in Shared : \A y \in Shared : y <= x
    BY <1>1, <1>2, Greatest
  <2> QED
    BY <1>2, <2>1
<1> HIDE DEF common
<1>4. file' \in {platter} \cup UNION {CutsAt(i) : i \in common..Len(file)}
  BY DEF PowerLoss, common
<1>5. CASE file' = platter
  <2>1. 2 * p <= Len(platter) /\ Same(platter, platter, 2 * p)
    BY <1>1 DEF Same
  <2> QED
    BY <1>1, <1>5, <2>1
<1>6. ASSUME NEW c \in common..Len(file), file' \in CutsAt(c)
      PROVE  \E k \in Nat : Yields(file, n, file', k) /\ 2 * p <= Len(file') /\ Same(file', platter, 2 * p)
  <2>1. c \in Nat /\ 2 <= c /\ c <= Len(file) /\ 2 * p <= c
    <3>1. common \in Nat
      BY <1>2, <1>3
    <3> QED
      BY <1>1, <1>3, <1>6, <3>1
  <2>2. Cut(file, c, file')
    BY <1>6 DEF CutsAt, Cut
  <2>3. PICK k \in Nat : Yields(file, n, file', k) /\ Same(file, file', c)
    BY <1>1, <2>1, <2>2, CutParts
  <2>4. file' \in Seq(Cell) /\ c <= Len(file')
    BY <2>3 DEF Yields, Shaped, Same
  <2>5. 2 * p <= Len(file') /\ \A i \in 1..(2 * p) : i \in 1..c
    BY <1>1, <2>1, <2>4
  <2>6. Same(file', platter, 2 * p)
    BY <1>1, <2>3, <2>5 DEF Same
  <2> QED
    BY <2>3, <2>5, <2>6
<1> QED
  BY <1>4, <1>5, <1>6

LEMMA PowerLossKeeps ==
  ASSUME LogIInv, PowerLoss
  PROVE  LogIInv'
<1>1. platter' = file' /\ store' = Closed /\ pending' = FALSE /\ UNCHANGED <<tried, acked>>
  BY DEF PowerLoss
<1>2. PICK n \in 1..Len(file), m \in 1..Len(platter) : Yields(file, n, platter, m)
  BY DEF LogIInv, Behind
<1>3. PICK p \in 1..Len(file) : Newest(p)
  BY DEF LogIInv
<1>4. PICK k \in Nat : Yields(file, n, file', k) /\ 2 * p <= Len(file') /\ Same(file', platter, 2 * p)
  BY <1>2, <1>3, PowerLossLeaves
<1>5. Behind(file, platter)'
  BY <1>1, <1>4, BehindSelf DEF Yields
<1>6. Newest(p)'
  BY <1>1, <1>3, <1>4 DEF Newest, Same
<1>7. Types'
  BY <1>1, ClosedStore DEF LogIInv, Types
<1> QED
  BY <1>1, <1>5, <1>6, <1>7, ClosedKeeps

LEMMA Initially ==
  ASSUME LogInit
  PROVE  LogIInv
<1> DEFINE x == Record(1, 0)
<1>1. x \in Rec(1) /\ x \in Cell /\ Newline \in Cell
  BY Cells DEF Record, Rec
<1> HIDE DEF x
<1>2. file = <<x, Newline>> /\ platter = file /\ store = Closed /\ pending = FALSE /\ tried = 0 /\ acked = {<<1, 0>>}
  BY DEF LogInit, x
<1>3. file \in Seq(Cell) /\ Len(file) = 2 /\ file[1] = x /\ file[2] = Newline
  BY <1>1, <1>2
<1>4. Shaped(file, 1)
  <2>1. \A k \in 1..1 : 2 * k - 1 = 1 /\ 2 * k = 2 /\ k = 1
    OBVIOUS
  <2>2. \A k \in 1..1 : file[2 * k - 1] \in Rec(k) /\ file[2 * k] = Newline
    BY <1>1, <1>3, <2>1
  <2> QED
    BY <1>3, <2>2 DEF Shaped
<1>5. Newest(1)
  <2>1. Same(file, platter, 2 * 1)
    BY <1>2, <1>3 DEF Same
  <2>2. \A a \in acked : a[1] = 1
    BY <1>2
  <2>3. \E a \in acked : a[1] = 1
    BY <1>2
  <2> QED
    BY <2>1, <2>2, <2>3 DEF Newest
<1>6. Types
  <2>1. 0 \in 0..MaxAppends /\ <<1, 0>> \in Nat \X Nat
    BY EventLogAssumption
  <2> QED
    BY <1>2, <2>1, ClosedStore DEF Types
<1>7. Behind(file, platter)
  BY <1>2, <1>4, BehindSelf
<1>8. ~store.open /\ 1 \in 1..Len(file)
  BY <1>2, <1>3, ClosedStore
<1> QED
  BY <1>2, <1>5, <1>6, <1>7, <1>8 DEF LogIInv

LEMMA NextKeeps ==
  ASSUME LogIInv, [LogNext]_logVars
  PROVE  LogIInv'
<1>1. CASE LogNext
  BY <1>1, WriteKeeps, WriteFailsKeeps, SyncKeeps, CloseKeeps, OpenKeeps, PowerLossKeeps DEF LogNext
<1>2. CASE UNCHANGED logVars
  BY <1>2 DEF logVars, LogIInv, Types, Newest, Indexed
<1> QED
  BY <1>1, <1>2

\* The inductive invariant holds of every state.
THEOREM LogInvariance == LogSpec => []LogIInv
<1>1. LogInit => LogIInv
  BY Initially
<1>2. LogIInv /\ [LogNext]_logVars => LogIInv'
  BY NextKeeps
<1> QED
  BY <1>1, <1>2, PTL DEF LogSpec

-----------------------------------------------------------------------------
(* What the properties say *)

\* Every variable keeps its type, the index is complete, and every file that
\* failures leave is one that the next Open accepts.
THEOREM LogTypeCorrect == LogSpec => []LogTypeOK
<1>1. LogIInv => LogTypeOK
  <2> SUFFICES ASSUME LogIInv PROVE LogTypeOK
    OBVIOUS
  <2>1. file \in Seq(Cell) /\ platter \in Seq(Cell) /\ Loads(file) /\ Loads(platter)
    BY ShapedLoads DEF LogIInv, Behind, Yields, Shaped
  <2>2. store.open => Len(store.offsets) = store.lastSeq
    <3> SUFFICES ASSUME store.open PROVE Len(store.offsets) = store.lastSeq
      OBVIOUS
    <3>1. PICK L \in 1..Len(file) : Indexed(L)
      BY DEF LogIInv
    <3>2. L \in Nat /\ store.lastSeq = L /\ store.offsets = [k \in 1..L |-> 2 * (k - 1)]
      BY <3>1 DEF Indexed
    <3>3. Len([k \in 1..L |-> 2 * (k - 1)]) = L
      BY <3>2
    <3> QED
      BY <3>2, <3>3
  <2> QED
    BY <2>1, <2>2 DEF LogIInv, Types, LogTypeOK
<1> QED
  BY <1>1, LogInvariance, PTL

\* Two cells of a whole file between two offsets are one line.
LEMMA LineAt ==
  ASSUME NEW f, NEW n, Shaped(f, n), NEW k \in 1..n
  PROVE  LET line == SubSeq(f, 2 * (k - 1) + 1, 2 * k) IN
         Len(line) = 2 /\ line[1] = f[2 * k - 1] /\ line[2] = Newline
<1>0. \A i \in 1..n : f[2 * i - 1] \in Rec(i) /\ f[2 * i] = Newline
  BY DEF Shaped
<1>1. f \in Seq(Cell) /\ n \in Nat /\ (Len(f) = 2 * n \/ Len(f) = 2 * n + 1) /\ Len(f) \in Nat
  BY DEF Shaped
<1> DEFINE a == 2 * (k - 1) + 1
           b == 2 * k
<1>2. a \in Int /\ b \in Int /\ a <= b /\ b - a + 1 = 2 /\ a = 2 * k - 1 /\ \A i \in a..b : i \in 1..Len(f)
  BY <1>1
<1> HIDE DEF a, b
<1>3. \A i \in a..b : f[i] \in Cell
  BY <1>1, <1>2
<1>4. /\ Len(SubSeq(f, a, b)) = IF a <= b THEN b - a + 1 ELSE 0
      /\ \A i \in 1..(b - a + 1) : SubSeq(f, a, b)[i] = f[a + i - 1]
  BY <1>2, <1>3, SubSeqProperties
<1>5. a + 1 - 1 = a /\ a + 2 - 1 = b
  BY <1>2
<1>6. Len(SubSeq(f, a, b)) = 2 /\ SubSeq(f, a, b)[1] = f[a] /\ SubSeq(f, a, b)[2] = f[b]
  BY <1>2, <1>4, <1>5
<1> QED
  BY <1>0, <1>2, <1>6 DEF a, b

\* What ReadEvent reads between two offsets of the index is that record's line.
THEOREM IndexHolds == LogSpec => []IndexFinds
<1>1. LogIInv => IndexFinds
  <2> SUFFICES ASSUME LogIInv, NEW seq \in DOMAIN store.offsets
               PROVE  LET limit == IF seq < Len(store.offsets) THEN store.offsets[seq + 1] ELSE store.size
                          line == SubSeq(file, store.offsets[seq] + 1, limit)
                      IN Len(line) = 2 /\ line[1] = Events(file)[seq] /\ line[2] = Newline
    BY DEF IndexFinds
  <2>1. store.open
    <3>1. Closed.offsets = <<>>
      BY DEF Closed
    <3> QED
      BY <3>1 DEF LogIInv
  <2>2. PICK L \in 1..Len(file) : Indexed(L)
    BY <2>1 DEF LogIInv
  <2>3. L \in Nat /\ store.size = 2 * L /\ store.offsets = [k \in 1..L |-> 2 * (k - 1)]
    BY <2>2 DEF Indexed
  <2>4. seq \in 1..L /\ Len(store.offsets) = L /\ store.offsets[seq] = 2 * (seq - 1)
    BY <2>3
  <2>5. (IF seq < Len(store.offsets) THEN store.offsets[seq + 1] ELSE store.size) = 2 * seq
    <3>1. CASE seq < L
      <4>1. seq + 1 \in 1..L /\ (seq + 1) - 1 = seq
        BY <2>3, <2>4, <3>1
      <4> QED
        BY <2>3, <2>4, <3>1, <4>1
    <3>2. CASE ~(seq < L)
      <4>1. seq = L
        BY <2>3, <2>4, <3>2
      <4> QED
        BY <2>3, <2>4, <3>2, <4>1
    <3> QED
      BY <3>1, <3>2
  <2>6. \E n \in Nat : Shaped(file, n) /\ L <= n
    <3>1. L + 1 \in Nat /\ L <= L /\ L <= L + 1
      BY <2>3
    <3> QED
      BY <2>2, <2>3, <3>1 DEF Indexed
  <2>7. PICK n \in Nat : Shaped(file, n) /\ L <= n
    BY <2>6
  <2>8. seq \in 1..n /\ seq \in 1..Count(file, n)
    <3>1. Count(file, n) = n \/ Count(file, n) = n + 1
      BY <2>7, Tails
    <3> QED
      BY <2>3, <2>4, <2>7, <3>1
  <2>9. Events(file)[seq] = file[2 * seq - 1]
    BY <2>7, <2>8, EventsAre
  <2>10. LET line == SubSeq(file, 2 * (seq - 1) + 1, 2 * seq) IN
         Len(line) = 2 /\ line[1] = file[2 * seq - 1] /\ line[2] = Newline
    BY <2>7, <2>8, LineAt
  <2> QED
    BY <2>4, <2>5, <2>9, <2>10
<1> QED
  BY <1>1, LogInvariance, PTL

-----------------------------------------------------------------------------
(* The file implements DurableLog *)

LogOf(f) == SubSeq(Events(f), 2, Len(Events(f)))

LEMMA LogParts ==
  ASSUME NEW f, NEW n, Shaped(f, n), NEW c, c = Count(f, n)
  PROVE  /\ c \in Nat /\ c >= 1 /\ LogOf(f) \in Seq(Cell) /\ Len(LogOf(f)) = c - 1
         /\ \A j \in 1..(c - 1) : LogOf(f)[j] = f[2 * j + 1]
<1> DEFINE e == Events(f)
<1>1. e \in Seq(Cell) /\ Len(e) = c /\ \A k \in 1..c : e[k] = f[2 * k - 1]
  BY EventsAre
<1>2. c \in Nat /\ c >= 1
  <2>1. n \in Nat /\ n >= 1
    BY DEF Shaped
  <2> QED
    BY <2>1, Tails
<1> HIDE DEF e
<1>3. /\ SubSeq(e, 2, c) \in Seq(Cell) /\ Len(SubSeq(e, 2, c)) = IF 2 <= c THEN c - 2 + 1 ELSE 0
      /\ \A i \in 1..(c - 2 + 1) : SubSeq(e, 2, c)[i] = e[2 + i - 1]
  <2>1. \A i \in 2..c : e[i] \in Cell
    BY <1>1, <1>2
  <2>2. 2 \in Int /\ c \in Int
    BY <1>2
  <2> QED
    BY <2>1, <2>2, SubSeqProperties
<1>4. LogOf(f) = SubSeq(e, 2, c)
  BY <1>1 DEF LogOf, e
<1>5. (IF 2 <= c THEN c - 2 + 1 ELSE 0) = c - 1 /\ c - 2 + 1 = c - 1
  BY <1>2
<1>6. ASSUME NEW j \in 1..(c - 1)
      PROVE  SubSeq(e, 2, c)[j] = f[2 * j + 1]
  <2>1. j + 1 \in 1..c /\ 2 + j - 1 = j + 1 /\ 2 * (j + 1) - 1 = 2 * j + 1
    BY <1>2
  <2> QED
    BY <1>1, <1>3, <1>5, <2>1
<1> QED
  BY <1>2, <1>3, <1>4, <1>5, <1>6

\* A file that yields the first records of another holds the first of its facts.
LEMMA LogCut ==
  ASSUME NEW f, NEW n, NEW g, NEW m, Yields(f, n, g, m), NEW c, c = Count(g, m)
  PROVE  c \in Nat /\ c >= 1 /\ LogOf(g) = SubSeq(LogOf(f), 1, c - 1) /\ c - 1 <= Len(LogOf(f))
<1> DEFINE d == Count(f, n)
           a == LogOf(f)
           b == LogOf(g)
<1>1. Shaped(f, n) /\ Shaped(g, m) /\ c <= d /\ \A k \in 1..c : g[2 * k - 1] = f[2 * k - 1]
  BY DEF Yields
<1>2. d \in Nat /\ a \in Seq(Cell) /\ Len(a) = d - 1 /\ \A j \in 1..(d - 1) : a[j] = f[2 * j + 1]
  BY <1>1, LogParts
<1>3. c \in Nat /\ c >= 1 /\ b \in Seq(Cell) /\ Len(b) = c - 1 /\ \A j \in 1..(c - 1) : b[j] = g[2 * j + 1]
  BY <1>1, LogParts
<1> HIDE DEF a, b, d
<1>4. c - 1 \in Nat /\ c - 1 <= Len(a)
  BY <1>1, <1>2, <1>3
<1> DEFINE s == SubSeq(a, 1, c - 1)
<1>5. s \in Seq(Cell) /\ Len(s) = c - 1 /\ \A i \in 1..(c - 1) : s[i] = a[i]
  BY <1>2, <1>4, PrefixParts
<1> HIDE DEF s
<1>6. ASSUME NEW i \in 1..(c - 1)
      PROVE  b[i] = s[i]
  <2>0. c \in Nat /\ d \in Nat /\ c <= d
    BY <1>1, <1>2, <1>3
  <2>1. i \in 1..(d - 1) /\ i + 1 \in 1..c /\ 2 * (i + 1) - 1 = 2 * i + 1
    BY <2>0
  <2>2. g[2 * i + 1] = f[2 * i + 1]
    BY <1>1, <2>1
  <2> QED
    BY <1>2, <1>3, <1>5, <2>1, <2>2
<1>7. b = s
  BY <1>3, <1>5, <1>6, SeqEqual
<1> QED
  BY <1>3, <1>4, <1>7 DEF a, b, s

\* The newest sequence that was acknowledged, of any set of acknowledgements.
LEMMA NewestOf ==
  ASSUME NEW K \in SUBSET (Nat \X Nat), NEW p \in Nat, \E a \in K : a[1] = p, \A a \in K : a[1] <= p
  PROVE  (CHOOSE n \in {a[1] : a \in K} : \A a \in K : a[1] <= n) = p
<1> DEFINE A == {a[1] : a \in K}
<1>1. p \in A /\ \A n \in A : n <= p
  OBVIOUS
<1>2. A \subseteq Nat
  OBVIOUS
<1>3. \A n : (\A a \in K : a[1] <= n) <=> \A m \in A : m <= n
  OBVIOUS
<1>4. \A n \in A : (\A m \in A : m <= n) => n = p
  <2> HIDE DEF A
  <2>1. ASSUME NEW n \in A, \A m \in A : m <= n
        PROVE  n = p
    <3>1. p <= n /\ n <= p /\ n \in Nat
      BY <1>1, <1>2, <2>1
    <3> QED
      BY <3>1
  <2> QED
    BY <2>1
<1>5. \A n \in A : (\A a \in K : a[1] <= n) => n = p
  BY <1>3, <1>4
<1> QED
  BY <1>1, <1>3, <1>5

LEMMA AckIs ==
  ASSUME Types, NEW p, Newest(p)
  PROVE  LastAcknowledged = p
<1>1. acked \in SUBSET (Nat \X Nat) /\ p \in Nat /\ (\E a \in acked : a[1] = p) /\ \A a \in acked : a[1] <= p
  BY DEF Types, Newest
<1> QED
  BY <1>1, NewestOf DEF LastAcknowledged

LEMMA StartsEmpty ==
  ASSUME LogInit
  PROVE  Contract!Init
<1>1. LogIInv /\ Newest(1) /\ Shaped(file, 1) /\ Count(file, 1) = 1
  <2>1. LogIInv
    BY Initially
  <2>2. LastAcknowledged = 1
    <3>1. \A a \in acked : a[1] = 1
      BY DEF LogInit
    <3>2. {a[1] : a \in acked} = {1}
      BY <3>1 DEF LogInit
    <3> QED
      BY <3>1, <3>2 DEF LastAcknowledged
  <2>3. PICK p \in 1..Len(file) : Newest(p)
    BY <2>1 DEF LogIInv
  <2>4. p = 1
    BY <2>1, <2>2, <2>3, AckIs DEF LogIInv
  <2>5. PICK n \in 1..Len(file) : Shaped(file, n)
    BY <2>1 DEF LogIInv, Behind, Yields
  <2>6. Len(file) = 2
    BY DEF LogInit
  <2>7. n = 1
    BY <2>5, <2>6 DEF Shaped
  <2>8. Count(file, 1) = 1
    BY <2>6 DEF Count
  <2> QED
    BY <2>1, <2>3, <2>4, <2>5, <2>7, <2>8
<1>2. LastAcknowledged = 1
  BY <1>1, AckIs DEF LogIInv
<1>3. LogOf(file) \in Seq(Cell) /\ Len(LogOf(file)) = 0
  <2>1. 1 - 1 = 0
    OBVIOUS
  <2> QED
    BY <1>1, <2>1, LogParts
<1>4. LogOf(file) = <<>>
  BY <1>3, EmptySeq
<1> QED
  BY <1>2, <1>4 DEF Contract!Init, LogOf

\* The file yields what it did.
LEMMA SameLog ==
  ASSUME NEW f, NEW n, NEW g, NEW m, Shaped(f, n), Shaped(g, m), Count(f, n) = Count(g, m),
         \A k \in 1..Count(f, n) : g[2 * k - 1] = f[2 * k - 1]
  PROVE  LogOf(g) = LogOf(f)
<1> DEFINE c == Count(f, n)
<1>1. c \in Nat /\ c >= 1 /\ LogOf(f) \in Seq(Cell) /\ Len(LogOf(f)) = c - 1
  BY LogParts
<1>2. Yields(f, n, g, m)
  BY <1>1 DEF Yields
<1>3. LogOf(g) = SubSeq(LogOf(f), 1, c - 1)
  BY <1>2, LogCut
<1> QED
  BY <1>1, <1>3, SubSeqFull

\* The file yields one record more.
LEMMA OneMore ==
  ASSUME NEW f, NEW n, NEW g, NEW m, Shaped(f, n), Shaped(g, m), Count(g, m) = Count(f, n) + 1,
         \A k \in 1..Count(f, n) : g[2 * k - 1] = f[2 * k - 1]
  PROVE  Len(LogOf(g)) = Len(LogOf(f)) + 1 /\ SubSeq(LogOf(g), 1, Len(LogOf(f))) = LogOf(f)
<1> DEFINE c == Count(f, n)
<1>1. c \in Nat /\ c >= 1 /\ Len(LogOf(f)) = c - 1
  BY LogParts
<1>2. Len(LogOf(g)) = (c + 1) - 1
  BY LogParts
<1>3. Yields(g, m, f, n)
  BY <1>1 DEF Yields
<1>4. LogOf(f) = SubSeq(LogOf(g), 1, c - 1)
  BY <1>3, LogCut
<1>5. (c + 1) - 1 = (c - 1) + 1
  BY <1>1
<1> QED
  BY <1>1, <1>2, <1>4, <1>5

LEMMA StepIsLog ==
  ASSUME LogIInv, LogIInv', [LogNext]_logVars
  PROVE  [Contract!Next]_(Contract!durable)
<1> DEFINE Lg == LogOf(file)
<1>1. PICK n \in 1..Len(file), m \in 1..Len(platter) : Yields(file, n, platter, m)
  BY DEF LogIInv, Behind
<1>2. PICK p \in 1..Len(file) : Newest(p)
  BY DEF LogIInv
<1>3. /\ Shaped(file, n) /\ Shaped(platter, m) /\ p \in Nat /\ p >= 1 /\ LastAcknowledged = p
      /\ Same(file, platter, 2 * p) /\ n \in Nat
  BY <1>1, <1>2, AckIs DEF Yields, Newest, LogIInv, Shaped
<1>4. acked' = acked => LastAcknowledged' = LastAcknowledged
  BY DEF LastAcknowledged
<1>5. ASSUME LogOf(file') = LogOf(file), acked' = acked
      PROVE  UNCHANGED Contract!durable
  BY <1>4, <1>5 DEF Contract!durable, LogOf
<1>6. ASSUME Len(LogOf(file')) = Len(LogOf(file)) + 1, SubSeq(LogOf(file'), 1, Len(LogOf(file))) = LogOf(file),
             acked' = acked
      PROVE  Contract!Next
  BY <1>4, <1>6 DEF Contract!Next, Contract!Land, LogOf
<1>7. CASE (Write \/ WriteFails) /\ store.open
  <2>1. PICK L \in 1..Len(file) : Indexed(L)
    BY <1>7 DEF LogIInv
  <2>2. ~pending /\ L \in Nat /\ Shaped(file, L) /\ Len(file) = 2 * L /\ acked' = acked
    BY <1>7, <2>1 DEF Write, WriteFails, Indexed
  <2> DEFINE r == Candidate
  <2>3. r \in Rec(L + 1)
    BY <2>1, CandidateIsNext DEF LogIInv
  <2>4. \E part \in {<<>>, <<Torn>>, <<r>>, <<r, Newline>>} : file' = file \o part
    BY <1>7 DEF Write, WriteFails
  <2> HIDE DEF r
  <2>5. /\ Count(file, L) = L
        /\ Written(file, L, file', L, L) \/ Written(file, L, file', L, L + 1) \/ Written(file, L, file', L + 1, L + 1)
    <3>1. Count(file, L) = L
      BY <2>2, <2>3, WriteParts
    <3>2. CASE file' = file \o <<>> \/ file' = file \o <<Torn>> \/ file' = file \o <<r>>
      BY <2>2, <2>3, <3>1, <3>2, WritesPart
    <3>3. CASE file' = file \o <<r, Newline>>
      BY <2>2, <2>3, <3>1, <3>3, WritesWhole
    <3> QED
      BY <2>4, <3>1, <3>2, <3>3
  <2>6. \A k \in 1..L : (file')[2 * k - 1] = file[2 * k - 1]
    <3>1. Same(file, file', 2 * L) /\ \A k \in 1..L : 2 * k - 1 \in 1..(2 * L)
      BY <2>2, <2>5 DEF Written
    <3> QED
      BY <3>1 DEF Same
  <2>7. CASE Written(file, L, file', L, L)
    <3>1. LogOf(file') = LogOf(file)
      BY <2>2, <2>5, <2>6, <2>7, SameLog DEF Written
    <3> QED
      BY <1>5, <2>2, <3>1
  <2>8. CASE Written(file, L, file', L, L + 1) \/ Written(file, L, file', L + 1, L + 1)
    <3>1. Len(LogOf(file')) = Len(LogOf(file)) + 1 /\ SubSeq(LogOf(file'), 1, Len(LogOf(file))) = LogOf(file)
      BY <2>2, <2>5, <2>6, <2>8, OneMore DEF Written
    <3> QED
      BY <1>6, <2>2, <3>1
  <2> QED
    BY <2>5, <2>7, <2>8
<1>8. CASE Sync
  <2>1. PICK L \in 1..Len(file) : Indexed(L)
    BY <1>8 DEF Sync, LogIInv
  <2>2. L \in Nat /\ Shaped(file, L + 1) /\ Len(file) = 2 * (L + 1) /\ store.lastSeq = L
    BY <1>8, <2>1 DEF Sync, Indexed
  <2>3. file' = file /\ acked' = acked \cup {<<L + 1, tried>>}
    BY <1>8, <2>2 DEF Sync
  <2>4. Count(file, L + 1) = L + 1
    <3>1. 2 * (L + 1) # 2 * (L + 1) + 1
      BY <2>2
    <3> QED
      BY <2>2, <3>1 DEF Count
  <2>5. Len(LogOf(file)) = (L + 1) - 1
    BY <2>2, <2>4, LogParts
  <2>6. PICK q : Newest(q)'
    BY DEF LogIInv
  <2>7. q = L + 1
    <3>1. q \in Nat /\ (\A a \in acked' : a[1] <= q) /\ \E a \in acked' : a[1] = q
      BY <2>6 DEF Newest
    <3>2. <<L + 1, tried>>[1] = L + 1 /\ <<L + 1, tried>> \in acked'
      BY <2>3
    <3>3. L + 1 <= q
      BY <3>1, <3>2
    <3>4. 2 * q <= Len(file)
      BY <2>3, <2>6 DEF Newest, Same
    <3> QED
      BY <2>2, <3>1, <3>3, <3>4
  <2>8. LastAcknowledged' = L + 1
    <3>1. acked' \in SUBSET (Nat \X Nat) /\ q \in Nat /\ (\E a \in acked' : a[1] = q) /\ \A a \in acked' : a[1] <= q
      BY <2>6 DEF LogIInv, Types, Newest
    <3>2. LastAcknowledged' = q
      BY <3>1, NewestOf DEF LastAcknowledged
    <3> QED
      BY <2>7, <3>2
  <2>9. Contract!Acknowledge
    BY <2>3, <2>5, <2>8 DEF Contract!Acknowledge, LogOf
  <2> QED
    BY <2>9 DEF Contract!Next
<1>9. CASE SyncFails \/ Close
  <2>1. file' = file /\ acked' = acked
    BY <1>9 DEF SyncFails, Close
  <2> QED
    BY <1>5, <2>1
<1>10. CASE OpenExisting
  <2>1. acked' = acked /\ (file' = file \/ file' = Repaired(file))
    BY <1>10 DEF OpenExisting
  <2>2. LogOf(Repaired(file)) = LogOf(file)
    <3>1. Mended(file, n, Repaired(file))
      BY <1>3, RepairMends
    <3> QED
      BY <1>3, <3>1, SameLog DEF Mended
  <2> QED
    BY <1>5, <2>1, <2>2
<1>11. CASE PowerLoss
  <2>1. PICK k \in Nat : Yields(file, n, file', k) /\ 2 * p <= Len(file')
    BY <1>1, <1>2, <1>11, PowerLossLeaves
  <2> DEFINE c == Count(file', k)
  <2>2. c \in Nat /\ c >= 1 /\ LogOf(file') = SubSeq(LogOf(file), 1, c - 1) /\ c - 1 <= Len(LogOf(file))
    BY <2>1, LogCut
  <2>3. p <= c
    <3>1. Shaped(file', k) /\ k \in Nat
      BY <2>1 DEF Yields
    <3>2. (Len(file') = 2 * k \/ Len(file') = 2 * k + 1) /\ Len(file') \in Nat
      BY <3>1 DEF Shaped
    <3>3. p <= k
      BY <1>3, <2>1, <3>1, <3>2
    <3>4. c = k \/ c = k + 1
      BY <3>1, Tails
    <3> QED
      BY <1>3, <3>1, <3>3, <3>4
  <2> HIDE DEF c
  <2>4. Len(LogOf(file)) \in Nat
    <3>1. LogOf(file) \in Seq(Cell)
      BY <1>3, LogParts
    <3> QED
      BY <3>1
  <2>5. c - 1 \in (p - 1)..Len(LogOf(file))
    BY <1>3, <2>2, <2>3, <2>4
  <2>6. acked' = acked
    BY <1>11 DEF PowerLoss
  <2>7. Contract!Forget
    BY <1>3, <1>4, <2>2, <2>5, <2>6 DEF Contract!Forget, LogOf
  <2> QED
    BY <2>7 DEF Contract!Next
<1>12. CASE UNCHANGED logVars
  <2>1. file' = file /\ acked' = acked
    BY <1>12 DEF logVars
  <2> QED
    BY <1>5, <2>1
<1> QED
  BY <1>7, <1>8, <1>9, <1>10, <1>11, <1>12 DEF LogNext, Write, WriteFails

\* The file with its failures implements the log its users rely on.
THEOREM LogKept == LogSpec => KeepsLog
<1>1. LogInit => Contract!Init
  BY StartsEmpty
<1>2. LogIInv /\ LogIInv' /\ [LogNext]_logVars => [Contract!Next]_(Contract!durable)
  BY StepIsLog
<1> QED
  BY <1>1, <1>2, LogInvariance, PTL DEF LogSpec, KeepsLog, Contract!Spec
=============================================================================
