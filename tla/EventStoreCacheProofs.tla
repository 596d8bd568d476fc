------------------------ MODULE EventStoreCacheProofs ------------------------
(***************************************************************************)
(* The cache of the Event Store for any streams, events and operators, any *)
(* number of events and of connections: its types, that it is the replay   *)
(* of the events it took, and, for operators that go together, that its    *)
(* streams show what it holds.                                             *)
(***************************************************************************)
EXTENDS EventStoreCache, FiniteSetTheorems, TLAPS

-----------------------------------------------------------------------------
(* Recursive definitions: induction over a set of naturals, and the        *)
(* functions that Replay and Remaining choose exist.                       *)

LEMMA Induction ==
  ASSUME NEW S, 0 \in S, \A n \in Nat : n \in S => n + 1 \in S
  PROVE  Nat \subseteq S
<1>1. SUFFICES ASSUME Nat \ S # {} PROVE FALSE
  OBVIOUS
<1>2. PICK x \in Nat \ S : \A y \in Nat \ S : <<y, x>> \notin OpToRel(<, Nat)
  BY <1>1, NatLessThanWellFounded, WFMin
<1>3. x - 1 \in S
  <2>1. x # 0
    OBVIOUS
  <2>2. x - 1 \in Nat /\ x - 1 < x
    BY <2>1
  <2>3. <<x - 1, x>> \in OpToRel(<, Nat)
    BY <2>2 DEF OpToRel
  <2> QED
    BY <1>2, <2>2, <2>3
<1>4. x - 1 \in Nat /\ (x - 1) + 1 = x
  OBVIOUS
<1> QED
  BY <1>3, <1>4

\* The states of the world that the first n events of a log make in turn.
Worlds(trace, n, f) ==
  f = [k \in 0..n |->
         IF k = 0 THEN EmptySotw ELSE UpdateStateOfTheWorld(f[k - 1], trace[k])]

LEMMA WorldsExist ==
  ASSUME NEW trace, NEW n \in Nat
  PROVE  \E f : Worlds(trace, n, f)
<1> DEFINE S == {k \in Nat : \E f : Worlds(trace, k, f)}
<1>1. 0 \in S
  <2>1. Worlds(trace, 0, [k \in 0..0 |-> EmptySotw])
    BY DEF Worlds
  <2> QED
    BY <2>1
<1>2. ASSUME NEW k \in Nat, k \in S PROVE k + 1 \in S
  <2>1. PICK f : Worlds(trace, k, f)
    BY <1>2
  <2> DEFINE g == [i \in 0..(k + 1) |->
                     IF i \in 0..k THEN f[i]
                     ELSE UpdateStateOfTheWorld(f[k], trace[k + 1])]
  <2>2. ASSUME NEW i \in 0..(k + 1)
        PROVE  g[i] = IF i = 0 THEN EmptySotw
                      ELSE UpdateStateOfTheWorld(g[i - 1], trace[i])
    <3>1. CASE i = 0
      BY <2>1, <3>1 DEF Worlds
    <3>2. CASE i \in 1..k
      BY <2>1, <3>2 DEF Worlds
    <3>3. CASE i = k + 1
      BY <2>1, <3>3 DEF Worlds
    <3> QED
      BY <3>1, <3>2, <3>3
  <2>3. Worlds(trace, k + 1, g)
    BY <2>2 DEF Worlds
  <2> QED
    BY <2>3
<1> HIDE DEF S
<1>3. Nat \subseteq S
  BY <1>1, <1>2, Induction
<1> QED
  BY <1>3 DEF S

\* Logs that agree so far make the same states of the world.
LEMMA WorldsAgree ==
  ASSUME NEW t, NEW u, NEW m \in Nat, NEW n \in Nat, NEW f, NEW g,
         Worlds(t, m, f), Worlds(u, n, g), m <= n,
         \A k \in 1..m : t[k] = u[k]
  PROVE  f[m] = g[m]
<1> DEFINE S == {k \in Nat : k <= m => f[k] = g[k]}
<1>1. 0 \in S
  BY DEF Worlds
<1>2. ASSUME NEW k \in Nat, k \in S PROVE k + 1 \in S
  <2> SUFFICES ASSUME k + 1 <= m PROVE f[k + 1] = g[k + 1]
    OBVIOUS
  <2>1. f[k] = g[k] /\ t[k + 1] = u[k + 1]
    BY <1>2
  <2>2. k + 1 \in 0..m /\ k + 1 \in 0..n /\ k + 1 # 0 /\ (k + 1) - 1 = k
    OBVIOUS
  <2>3. /\ f[k + 1] = UpdateStateOfTheWorld(f[k], t[k + 1])
        /\ g[k + 1] = UpdateStateOfTheWorld(g[k], u[k + 1])
    BY <2>2 DEF Worlds
  <2> QED
    BY <2>1, <2>3
<1> HIDE DEF S
<1>3. Nat \subseteq S
  BY <1>1, <1>2, Induction
<1> QED
  BY <1>3 DEF S

LEMMA ReplayIs ==
  ASSUME NEW trace, NEW n \in Nat
  PROVE  \E f : Worlds(trace, n, f) /\ Replay(trace, n) = f[n]
BY WorldsExist DEF Replay, Worlds

LEMMA ReplayAgrees ==
  ASSUME NEW t, NEW u, NEW n \in Nat, \A k \in 1..n : t[k] = u[k]
  PROVE  Replay(t, n) = Replay(u, n)
<1>1. PICK f : Worlds(t, n, f) /\ Replay(t, n) = f[n]
  BY ReplayIs
<1>2. PICK g : Worlds(u, n, g) /\ Replay(u, n) = g[n]
  BY ReplayIs
<1>3. n <= n
  OBVIOUS
<1>4. f[n] = g[n]
  BY <1>1, <1>2, <1>3, WorldsAgree
<1> QED
  BY <1>1, <1>2, <1>4

LEMMA ReplayOfNone ==
  ASSUME NEW trace
  PROVE  Replay(trace, 0) = EmptySotw
BY ReplayIs DEF Worlds

LEMMA ReplayOfNext ==
  ASSUME NEW trace, NEW n \in Nat
  PROVE  Replay(trace, n + 1) = UpdateStateOfTheWorld(Replay(trace, n), trace[n + 1])
<1>1. PICK f : Worlds(trace, n, f) /\ Replay(trace, n) = f[n]
  BY ReplayIs
<1>2. PICK g : Worlds(trace, n + 1, g) /\ Replay(trace, n + 1) = g[n + 1]
  BY ReplayIs
<1>3. n <= n + 1 /\ n + 1 \in Nat
  OBVIOUS
<1>4. f[n] = g[n]
  BY <1>1, <1>2, <1>3, WorldsAgree
<1>5. g[n + 1] = UpdateStateOfTheWorld(g[n], trace[n + 1])
  BY <1>2 DEF Worlds
<1> QED
  BY <1>1, <1>2, <1>4, <1>5

-----------------------------------------------------------------------------
(* Items of a kind in a queue, and what remains of a queue.                *)

OfKind(q, k) == {n \in DOMAIN q : q[n].kind = k}

Count(q, k) == Cardinality(OfKind(q, k))

LEMMA CountType ==
  ASSUME NEW S, NEW q \in Seq(S), NEW k
  PROVE  IsFiniteSet(OfKind(q, k)) /\ Count(q, k) \in Nat
<1>1. IsFiniteSet(1..Len(q))
  BY FS_Interval
<1>2. OfKind(q, k) \in SUBSET (1..Len(q))
  BY DEF OfKind
<1>3. IsFiniteSet(OfKind(q, k))
  BY <1>1, <1>2, FS_Subset
<1> QED
  BY <1>3, FS_CardinalityType DEF Count

LEMMA CountAppend ==
  ASSUME NEW S, NEW q \in Seq(S), NEW x \in S, NEW k
  PROVE  Count(Append(q, x), k) = Count(q, k) + IF x.kind = k THEN 1 ELSE 0
<1>1. IsFiniteSet(OfKind(q, k)) /\ Count(q, k) \in Nat
  BY CountType
<1>2. Len(q) + 1 \notin OfKind(q, k)
  BY DEF OfKind
<1>3. OfKind(Append(q, x), k) =
        IF x.kind = k THEN OfKind(q, k) \cup {Len(q) + 1} ELSE OfKind(q, k)
  BY DEF OfKind
<1>4. Cardinality(OfKind(q, k) \cup {Len(q) + 1}) = Cardinality(OfKind(q, k)) + 1
  BY <1>1, <1>2, FS_AddElement
<1> QED
  BY <1>1, <1>3, <1>4 DEF Count

LEMMA CountTail ==
  ASSUME NEW S, NEW q \in Seq(S), q # <<>>, NEW k
  PROVE  Count(q, k) = Count(Tail(q), k) + IF Head(q).kind = k THEN 1 ELSE 0
<1> DEFINE A == OfKind(q, k) \ {1}
           f == [n \in A |-> n - 1]
<1>1. IsFiniteSet(OfKind(q, k)) /\ Count(q, k) \in Nat
  BY CountType
<1>2. /\ IsFiniteSet(A)
      /\ Cardinality(A) = IF 1 \in OfKind(q, k) THEN Count(q, k) - 1 ELSE Count(q, k)
  BY <1>1, FS_RemoveElement DEF Count
<1>3. 1 \in OfKind(q, k) <=> Head(q).kind = k
  BY DEF OfKind
<1>4. f \in Bijection(A, OfKind(Tail(q), k))
  <2>1. \A n \in A : n \in 2..Len(q) /\ q[n].kind = k
    BY DEF OfKind
  <2>2. \A n \in 2..Len(q) : n - 1 \in 1..Len(Tail(q)) /\ Tail(q)[n - 1] = q[n]
    OBVIOUS
  <2>3. \A n \in 1..Len(Tail(q)) : n + 1 \in 2..Len(q) /\ Tail(q)[n] = q[n + 1]
    OBVIOUS
  <2>4. f \in [A -> OfKind(Tail(q), k)]
    BY <2>1, <2>2 DEF OfKind
  <2>5. \A m, n \in A : f[m] = f[n] => m = n
    BY <2>1
  <2>6. ASSUME NEW n \in OfKind(Tail(q), k) PROVE \E m \in A : f[m] = n
    <3>1. n \in 1..Len(Tail(q)) /\ Tail(q)[n].kind = k
      BY DEF OfKind
    <3>2. n + 1 \in A /\ f[n + 1] = n
      BY <2>3, <3>1 DEF OfKind
    <3> QED
      BY <3>2
  <2> QED
    BY <2>4, <2>5, <2>6 DEF Bijection, Injection, Surjection, IsInjective
<1>5. Cardinality(OfKind(Tail(q), k)) = Cardinality(A)
  BY <1>2, <1>4, FS_Bijection DEF ExistsBijection
<1> QED
  BY <1>1, <1>2, <1>3, <1>5 DEF Count

\* A sequence without items of the kind adds none.
LEMMA CountConcat ==
  ASSUME NEW S, NEW p \in Seq(S), NEW q \in Seq(S), NEW k,
         \A n \in DOMAIN q : q[n].kind # k
  PROVE  Count(p \o q, k) = Count(p, k)
<1>1. OfKind(p \o q, k) = OfKind(p, k)
  <2>1. DOMAIN (p \o q) = 1..(Len(p) + Len(q))
    OBVIOUS
  <2>2. \A n \in 1..Len(p) : (p \o q)[n] = p[n]
    OBVIOUS
  <2>3. \A n \in (Len(p) + 1)..(Len(p) + Len(q)) : (p \o q)[n].kind # k
    OBVIOUS
  <2> QED
    BY <2>1, <2>2, <2>3 DEF OfKind
<1> QED
  BY <1>1 DEF Count

\* What remains of the first n items, one after the other.
Rests(items, n, f) ==
  f = [k \in 0..n |->
         IF k = 0 THEN <<>>
         ELSE IF Disposed(items[k]) THEN f[k - 1]
         ELSE Append(f[k - 1], items[k])]

LEMMA RestsExist ==
  ASSUME NEW items, NEW n \in Nat
  PROVE  \E f : Rests(items, n, f)
<1> DEFINE S == {k \in Nat : \E f : Rests(items, k, f)}
<1>1. 0 \in S
  <2>1. Rests(items, 0, [k \in 0..0 |-> <<>>])
    BY DEF Rests
  <2> QED
    BY <2>1
<1>2. ASSUME NEW k \in Nat, k \in S PROVE k + 1 \in S
  <2>1. PICK f : Rests(items, k, f)
    BY <1>2
  <2> DEFINE g == [i \in 0..(k + 1) |->
                     IF i \in 0..k THEN f[i]
                     ELSE IF Disposed(items[k + 1]) THEN f[k]
                     ELSE Append(f[k], items[k + 1])]
  <2>2. ASSUME NEW i \in 0..(k + 1)
        PROVE  g[i] = IF i = 0 THEN <<>>
                      ELSE IF Disposed(items[i]) THEN g[i - 1]
                      ELSE Append(g[i - 1], items[i])
    <3>1. CASE i = 0
      BY <2>1, <3>1 DEF Rests
    <3>2. CASE i \in 1..k
      <4>1. i \in 0..k /\ i - 1 \in 0..k /\ i # 0
        BY <3>2
      <4>2. f[i] = IF Disposed(items[i]) THEN f[i - 1] ELSE Append(f[i - 1], items[i])
        BY <2>1, <4>1 DEF Rests
      <4>3. g[i] = f[i] /\ g[i - 1] = f[i - 1]
        BY <4>1
      <4> HIDE DEF g
      <4> QED
        BY <4>1, <4>2, <4>3
    <3>3. CASE i = k + 1
      BY <2>1, <3>3 DEF Rests
    <3> QED
      BY <3>1, <3>2, <3>3
  <2>3. Rests(items, k + 1, g)
    BY <2>2 DEF Rests
  <2> QED
    BY <2>3
<1> HIDE DEF S
<1>3. Nat \subseteq S
  BY <1>1, <1>2, Induction
<1> QED
  BY <1>3 DEF S

\* What remains are items of the queue, with all those of a kind that is not
\* disposed of.
LEMMA RemainingIs ==
  ASSUME NEW T, NEW items \in Seq(T), NEW k, k \notin {"open", "startSub"}
  PROVE  Remaining(items) \in Seq(T) /\ Count(Remaining(items), k) = Count(items, k)
<1>1. PICK f : Rests(items, Len(items), f) /\ Remaining(items) = f[Len(items)]
  <2>1. Len(items) \in Nat
    OBVIOUS
  <2>2. \E f : Rests(items, Len(items), f)
    BY <2>1, RestsExist
  <2> QED
    BY <2>2 DEF Remaining, Rests
<1> DEFINE S == {n \in Nat : n <= Len(items) =>
                  f[n] \in Seq(T) /\ Count(f[n], k) = Count(SubSeq(items, 1, n), k)}
<1>2. 0 \in S
  <2>1. f[0] = <<>> /\ SubSeq(items, 1, 0) = <<>> /\ <<>> \in Seq(T)
    BY <1>1 DEF Rests
  <2>2. f[0] \in Seq(T) /\ Count(f[0], k) = Count(SubSeq(items, 1, 0), k)
    BY <2>1
  <2> QED
    BY <2>2
<1>3. ASSUME NEW n \in Nat, n \in S PROVE n + 1 \in S
  <2> SUFFICES ASSUME n + 1 <= Len(items)
               PROVE  /\ f[n + 1] \in Seq(T)
                      /\ Count(f[n + 1], k) = Count(SubSeq(items, 1, n + 1), k)
    OBVIOUS
  <2> DEFINE x == items[n + 1]
             p == SubSeq(items, 1, n)
  <2>1. f[n] \in Seq(T) /\ Count(f[n], k) = Count(p, k)
    BY <1>3
  <2>2. n + 1 \in 0..Len(items) /\ n + 1 # 0 /\ (n + 1) - 1 = n
    OBVIOUS
  <2>3. f[n + 1] = IF Disposed(x) THEN f[n] ELSE Append(f[n], x)
    BY <1>1, <2>2 DEF Rests
  <2>4. x \in T /\ p \in Seq(T) /\ SubSeq(items, 1, n + 1) = Append(p, x)
    OBVIOUS
  <2>5. Count(Append(p, x), k) = Count(p, k) + IF x.kind = k THEN 1 ELSE 0
    BY <2>4, CountAppend
  <2>6. Count(p, k) \in Nat
    BY <2>4, CountType
  <2> HIDE DEF x, p
  <2>7. CASE Disposed(x)
    <3>1. x.kind # k
      BY <2>7 DEF Disposed
    <3>2. Count(Append(p, x), k) = Count(p, k)
      BY <2>5, <2>6, <3>1
    <3>3. f[n + 1] = f[n]
      BY <2>3, <2>7
    <3> QED
      BY <2>1, <2>4, <3>2, <3>3
  <2>8. CASE ~Disposed(x)
    <3>1. Count(Append(f[n], x), k) = Count(f[n], k) + IF x.kind = k THEN 1 ELSE 0
      BY <2>1, <2>4, CountAppend
    <3>2. f[n + 1] = Append(f[n], x) /\ f[n + 1] \in Seq(T)
      BY <2>1, <2>3, <2>4, <2>8
    <3>3. Count(f[n + 1], k) = Count(Append(p, x), k)
      BY <2>1, <2>5, <3>1, <3>2
    <3> QED
      BY <2>4, <3>2, <3>3
  <2> QED
    BY <2>7, <2>8
<1> HIDE DEF S
<1>4. Nat \subseteq S
  BY <1>2, <1>3, Induction
<1>5. SubSeq(items, 1, Len(items)) = items /\ Len(items) \in Nat
  OBVIOUS
<1>6. Len(items) \in S
  BY <1>4, <1>5
<1>7. /\ f[Len(items)] \in Seq(T)
      /\ Count(f[Len(items)], k) = Count(SubSeq(items, 1, Len(items)), k)
  BY <1>5, <1>6 DEF S
<1> QED
  BY <1>1, <1>5, <1>7

-----------------------------------------------------------------------------
(* What a queue still has to come: items of its own, and for every          *)
(* disconnection a connection.                                              *)

Holds(q, x) == \E n \in DOMAIN q : q[n] = x

LEMMA HoldsAppend ==
  ASSUME NEW S, NEW q \in Seq(S), NEW y \in S
  PROVE  Holds(Append(q, y), y) /\ \A x : Holds(q, x) => Holds(Append(q, y), x)
<1>1. /\ DOMAIN Append(q, y) = 1..(Len(q) + 1) /\ Append(q, y)[Len(q) + 1] = y
      /\ Len(q) + 1 \in 1..(Len(q) + 1)
  OBVIOUS
<1>2. \A n \in DOMAIN q : n \in 1..(Len(q) + 1) /\ Append(q, y)[n] = q[n]
  OBVIOUS
<1> QED
  BY <1>1, <1>2 DEF Holds

LEMMA HoldsTail ==
  ASSUME NEW S, NEW q \in Seq(S), q # <<>>, NEW x, Holds(q, x), x # Head(q)
  PROVE  Holds(Tail(q), x)
<1>1. PICK n \in 1..Len(q) : q[n] = x
  BY DEF Holds
<1>2. n # 1
  BY <1>1
<1>3. n - 1 \in DOMAIN Tail(q) /\ Tail(q)[n - 1] = q[n]
  BY <1>2
<1> QED
  BY <1>1, <1>3 DEF Holds

LEMMA HoldsConcat ==
  ASSUME NEW S, NEW p \in Seq(S), NEW q \in Seq(S), NEW x, Holds(q, x)
  PROVE  Holds(p \o q, x)
<1>1. PICK n \in 1..Len(q) : q[n] = x
  BY DEF Holds
<1>2. Len(p) + n \in DOMAIN (p \o q) /\ (p \o q)[Len(p) + n] = q[n]
  OBVIOUS
<1> QED
  BY <1>1, <1>2 DEF Holds

\* Every disconnection in a queue has a connection after it.
Reconnected(q) ==
  \A n \in DOMAIN q : q[n].kind = "disconnected" =>
    \E m \in DOMAIN q : n < m /\ q[m].kind = "connected"

LEMMA ReconnectedAppend ==
  ASSUME NEW S, NEW q \in Seq(S), NEW x \in S
  PROVE  Reconnected(Append(q, x)) <=>
           x.kind = "connected" \/ (x.kind # "disconnected" /\ Reconnected(q))
<1> DEFINE p == Append(q, x)
           l == Len(q) + 1
<1>1. l \in Nat \ {0} /\ DOMAIN p = 1..l /\ p[l] = x /\ DOMAIN q = 1..(l - 1)
  OBVIOUS
<1>2. \A n \in 1..(l - 1) : p[n] = q[n]
  OBVIOUS
<1> HIDE DEF p, l
<1>3. \A n \in 1..l : n \in 1..(l - 1) \/ n = l
  BY <1>1
<1>4. \A n \in 1..(l - 1) : n \in 1..l /\ n < l /\ l \in 1..l
  BY <1>1
<1>5. CASE x.kind = "connected"
  <2>1. ASSUME NEW n \in 1..l, p[n].kind = "disconnected"
        PROVE  \E m \in 1..l : n < m /\ p[m].kind = "connected"
    <3>1. n \in 1..(l - 1)
      BY <1>1, <1>3, <1>5, <2>1
    <3> QED
      BY <1>1, <1>4, <1>5, <3>1
  <2> QED
    BY <1>1, <1>5, <2>1 DEF Reconnected, p
<1>6. CASE x.kind = "disconnected"
  <2>1. l \in 1..l /\ \A m \in 1..l : ~(l < m)
    BY <1>1
  <2>2. ~Reconnected(p)
    BY <1>1, <1>6, <2>1 DEF Reconnected
  <2> QED
    BY <1>6, <2>2 DEF p
<1>7. CASE x.kind \notin {"connected", "disconnected"}
  <2>1. ASSUME Reconnected(q) PROVE Reconnected(p)
    <3> SUFFICES ASSUME NEW n \in 1..l, p[n].kind = "disconnected"
                 PROVE  \E m \in 1..l : n < m /\ p[m].kind = "connected"
      BY <1>1 DEF Reconnected
    <3>1. n \in 1..(l - 1) /\ q[n].kind = "disconnected"
      BY <1>1, <1>2, <1>3, <1>7
    <3>2. PICK m \in 1..(l - 1) : n < m /\ q[m].kind = "connected"
      BY <1>1, <2>1, <3>1 DEF Reconnected
    <3> QED
      BY <1>2, <1>4, <3>2
  <2>2. ASSUME Reconnected(p) PROVE Reconnected(q)
    <3> SUFFICES ASSUME NEW n \in 1..(l - 1), q[n].kind = "disconnected"
                 PROVE  \E m \in 1..(l - 1) : n < m /\ q[m].kind = "connected"
      BY <1>1 DEF Reconnected
    <3>1. n \in 1..l /\ p[n].kind = "disconnected"
      BY <1>2, <1>4
    <3>2. PICK m \in 1..l : n < m /\ p[m].kind = "connected"
      BY <1>1, <2>2, <3>1 DEF Reconnected
    <3>3. m \in 1..(l - 1)
      BY <1>1, <1>3, <1>7, <3>2
    <3> QED
      BY <1>2, <3>2, <3>3
  <2> QED
    BY <1>7, <2>1, <2>2 DEF p
<1> QED
  BY <1>5, <1>6, <1>7

LEMMA ReconnectedTail ==
  ASSUME NEW S, NEW q \in Seq(S), q # <<>>, Reconnected(q)
  PROVE  Reconnected(Tail(q))
<1> SUFFICES ASSUME NEW n \in DOMAIN Tail(q), Tail(q)[n].kind = "disconnected"
             PROVE  \E m \in DOMAIN Tail(q) : n < m /\ Tail(q)[m].kind = "connected"
  BY DEF Reconnected
<1>1. n + 1 \in 1..Len(q) /\ q[n + 1].kind = "disconnected"
  OBVIOUS
<1>2. PICK m \in 1..Len(q) : n + 1 < m /\ q[m].kind = "connected"
  BY <1>1 DEF Reconnected
<1>3. m - 1 \in DOMAIN Tail(q) /\ n < m - 1 /\ Tail(q)[m - 1] = q[m]
  BY <1>2
<1> QED
  BY <1>2, <1>3

LEMMA ReconnectedConcat ==
  ASSUME NEW S, NEW p \in Seq(S), NEW q \in Seq(S), Reconnected(p),
         \A n \in DOMAIN q : q[n].kind # "disconnected"
  PROVE  Reconnected(p \o q)
<1> SUFFICES ASSUME NEW n \in DOMAIN (p \o q), (p \o q)[n].kind = "disconnected"
             PROVE  \E m \in DOMAIN (p \o q) : n < m /\ (p \o q)[m].kind = "connected"
  BY DEF Reconnected
<1>1. n \in 1..Len(p) \/ (n - Len(p) \in 1..Len(q) /\ (p \o q)[n] = q[n - Len(p)])
  OBVIOUS
<1>2. n \in 1..Len(p) /\ (p \o q)[n] = p[n]
  BY <1>1
<1>3. PICK m \in 1..Len(p) : n < m /\ p[m].kind = "connected"
  BY <1>2 DEF Reconnected
<1>4. m \in DOMAIN (p \o q) /\ (p \o q)[m] = p[m]
  OBVIOUS
<1> QED
  BY <1>3, <1>4

\* Disposing of work changes nothing about that.
LEMMA ReconnectedRemaining ==
  ASSUME NEW T, NEW items \in Seq(T)
  PROVE  Reconnected(Remaining(items)) <=> Reconnected(items)
<1>1. PICK f : Rests(items, Len(items), f) /\ Remaining(items) = f[Len(items)]
  <2>1. Len(items) \in Nat
    OBVIOUS
  <2>2. \E f : Rests(items, Len(items), f)
    BY <2>1, RestsExist
  <2> QED
    BY <2>2 DEF Remaining, Rests
<1> DEFINE S == {n \in Nat : n <= Len(items) =>
                  /\ f[n] \in Seq(T)
                  /\ Reconnected(f[n]) <=> Reconnected(SubSeq(items, 1, n))}
<1>2. 0 \in S
  <2>1. f[0] = <<>> /\ SubSeq(items, 1, 0) = <<>> /\ <<>> \in Seq(T)
    BY <1>1 DEF Rests
  <2> QED
    BY <2>1
<1>3. ASSUME NEW n \in Nat, n \in S PROVE n + 1 \in S
  <2> SUFFICES ASSUME n + 1 <= Len(items)
               PROVE  /\ f[n + 1] \in Seq(T)
                      /\ Reconnected(f[n + 1]) <=> Reconnected(SubSeq(items, 1, n + 1))
    OBVIOUS
  <2> DEFINE x == items[n + 1]
             p == SubSeq(items, 1, n)
  <2>1. f[n] \in Seq(T) /\ (Reconnected(f[n]) <=> Reconnected(p))
    BY <1>3
  <2>2. n + 1 \in 0..Len(items) /\ n + 1 # 0 /\ (n + 1) - 1 = n
    OBVIOUS
  <2>3. f[n + 1] = IF Disposed(x) THEN f[n] ELSE Append(f[n], x)
    BY <1>1, <2>2 DEF Rests
  <2>4. x \in T /\ p \in Seq(T) /\ SubSeq(items, 1, n + 1) = Append(p, x)
    OBVIOUS
  <2>5. Reconnected(Append(p, x)) <=>
          x.kind = "connected" \/ (x.kind # "disconnected" /\ Reconnected(p))
    BY <2>4, ReconnectedAppend
  <2>6. Reconnected(Append(f[n], x)) <=>
          x.kind = "connected" \/ (x.kind # "disconnected" /\ Reconnected(f[n]))
    BY <2>1, <2>4, ReconnectedAppend
  <2>7. Disposed(x) => x.kind # "connected" /\ x.kind # "disconnected"
    BY DEF Disposed
  <2>8. Append(f[n], x) \in Seq(T)
    BY <2>1, <2>4
  <2> HIDE DEF x, p
  <2>9. CASE Disposed(x)
    BY <2>1, <2>3, <2>4, <2>5, <2>7, <2>9
  <2>10. CASE ~Disposed(x)
    BY <2>1, <2>3, <2>4, <2>5, <2>6, <2>8, <2>10
  <2> QED
    BY <2>9, <2>10
<1> HIDE DEF S
<1>4. Nat \subseteq S
  BY <1>2, <1>3, Induction
<1>5. SubSeq(items, 1, Len(items)) = items /\ Len(items) \in Nat
  OBVIOUS
<1>6. Len(items) \in S
  BY <1>4, <1>5
<1>7. Reconnected(f[Len(items)]) <=> Reconnected(SubSeq(items, 1, Len(items)))
  BY <1>5, <1>6 DEF S
<1> QED
  BY <1>1, <1>5, <1>7

-----------------------------------------------------------------------------
(* The invariant.                                                          *)

\* Work items name subscriptions and events that exist.
Items(c, l) ==
  [kind : {"connected", "disconnected"}]
    \cup [kind : {"startSub", "stopSub", "caughtUp"}, gen : 1..c]
    \cup [kind : {"event"}, gen : 1..c, pos : 1..l]
    \cup [kind : {"open"}, stream : Streams]

Subscription == [live : BOOLEAN, pos : Nat, caught : BOOLEAN]

\* Types, and what bounds the subscriptions: the connections that were
\* counted and that the loop has not come to.
CacheTyped ==
  /\ log \in Seq(Events)
  /\ up \in BOOLEAN /\ isStale \in BOOLEAN /\ isCaughtUp \in BOOLEAN
  /\ published \in BOOLEAN
  /\ connects \in 0..MaxConnects /\ current \in Nat
  /\ sub \in [Generations -> Subscription]
  /\ \A g \in Generations :
       /\ sub[g].pos <= Len(log)
       /\ g > current => ~sub[g].live /\ sub[g].pos = 0
  /\ queue \in Seq(Items(current, Len(log)))
  /\ current + Count(queue, "connected") = connects
  /\ phase \in [Streams -> {"off", "queued", "sotw", "events"}]
  /\ stale \in [Streams -> BOOLEAN]

EventsIn(q, g) == {n \in DOMAIN q : q[n].kind = "event" /\ q[n].gen = g}

\* A queue has the events of a subscription from a on to b, in order.
InOrder(q, g, a, b) ==
  /\ \A n \in EventsIn(q, g) : q[n].pos \in (a + 1)..b
  /\ \A p \in (a + 1)..b : \E n \in EventsIn(q, g) : q[n].pos = p
  /\ \A m, n \in EventsIn(q, g) : m < n => q[m].pos < q[n].pos

\* The cache has taken the events of the current subscription that are not in
\* the queue, and nothing else.
ReplayInv ==
  IF current = 0 THEN sotw = EmptySotw
  ELSE \E a \in 0..sub[current].pos :
         sotw = Replay(log, a) /\ InOrder(queue, current, a, sub[current].pos)

CacheInv == CacheTyped /\ ReplayInv

\* The events that are queued are counted.
LEMMA InOrderCounts ==
  ASSUME NEW q, NEW g, NEW a \in Nat, NEW b \in Nat, a <= b, InOrder(q, g, a, b),
         \A n \in EventsIn(q, g) : n \in Nat
  PROVE  Cardinality(EventsIn(q, g)) = b - a
<1> DEFINE E == EventsIn(q, g)
           f == [n \in E |-> q[n].pos]
<1>1. f \in [E -> (a + 1)..b]
  BY DEF InOrder
<1>2. \A m, n \in E : f[m] = f[n] => m = n
  <2> SUFFICES ASSUME NEW m \in E, NEW n \in E, m < n PROVE f[m] # f[n]
    BY <1>1
  <2>1. q[m].pos < q[n].pos /\ q[m].pos \in (a + 1)..b /\ q[n].pos \in (a + 1)..b
    BY DEF InOrder
  <2> QED
    BY <2>1
<1>3. \A p \in (a + 1)..b : \E n \in E : f[n] = p
  BY DEF InOrder
<1> HIDE DEF f
<1>4. f \in Bijection(E, (a + 1)..b)
  BY <1>1, <1>2, <1>3 DEF Bijection, Injection, Surjection, IsInjective
<1>5. f \in Injection(E, (a + 1)..b) /\ f \in Surjection(E, (a + 1)..b)
  BY <1>4 DEF Bijection
<1>6. IsFiniteSet((a + 1)..b) /\ Cardinality((a + 1)..b) = b - a
  <2>1. a + 1 \in Int /\ b \in Int
    OBVIOUS
  <2>2. /\ IsFiniteSet((a + 1)..b)
        /\ Cardinality((a + 1)..b) = IF a + 1 > b THEN 0 ELSE b - (a + 1) + 1
    BY <2>1, FS_Interval
  <2> QED
    BY <2>2
<1> HIDE DEF E
<1>7. Cardinality(E) = Cardinality((a + 1)..b)
  BY <1>5, <1>6, FS_Injection
<1> QED
  BY <1>6, <1>7 DEF E

\* What the loop and the callbacks do to the queued events of a subscription.
LEMMA InOrderAppendOther ==
  ASSUME NEW T, NEW q \in Seq(T), NEW x \in T, NEW g, NEW a, NEW b,
         ~(x.kind = "event" /\ x.gen = g), InOrder(q, g, a, b)
  PROVE  InOrder(Append(q, x), g, a, b)
<1>1. EventsIn(Append(q, x), g) = EventsIn(q, g)
  BY DEF EventsIn
<1>2. \A n \in EventsIn(q, g) : Append(q, x)[n] = q[n]
  BY DEF EventsIn
<1> QED
  BY <1>1, <1>2 DEF InOrder

LEMMA InOrderAppendNext ==
  ASSUME NEW T, NEW q \in Seq(T), NEW g, NEW a \in Nat, NEW b \in Nat, a <= b,
         EventItem(g, b + 1) \in T, InOrder(q, g, a, b)
  PROVE  InOrder(Append(q, EventItem(g, b + 1)), g, a, b + 1)
<1> DEFINE x == EventItem(g, b + 1)
           r == Append(q, x)
           E == EventsIn(q, g)
<1>1. x.kind = "event" /\ x.gen = g /\ x.pos = b + 1
  BY DEF EventItem
<1>2. x \in T
  OBVIOUS
<1> HIDE DEF x
<1>3. r[Len(q) + 1] = x /\ DOMAIN r = 1..(Len(q) + 1) /\ \A n \in 1..Len(q) : r[n] = q[n]
  BY <1>2
<1>4. E \subseteq 1..Len(q)
  BY DEF EventsIn
<1>5. EventsIn(r, g) = E \cup {Len(q) + 1}
  BY <1>1, <1>3 DEF EventsIn
<1>6. \A n \in E : r[n] = q[n] /\ q[n].pos \in (a + 1)..b
  BY <1>3, <1>4 DEF InOrder
<1> HIDE DEF r
<1>7. \A n \in EventsIn(r, g) : r[n].pos \in (a + 1)..(b + 1)
  BY <1>1, <1>3, <1>5, <1>6
<1>8. ASSUME NEW p \in (a + 1)..(b + 1) PROVE \E n \in EventsIn(r, g) : r[n].pos = p
  <2>1. CASE p = b + 1
    BY <1>1, <1>3, <1>5, <2>1
  <2>2. CASE p \in (a + 1)..b
    <3>1. PICK n \in E : q[n].pos = p
      BY <2>2 DEF InOrder
    <3> QED
      BY <1>5, <1>6, <3>1
  <2> QED
    BY <2>1, <2>2
<1>9. ASSUME NEW m \in EventsIn(r, g), NEW n \in EventsIn(r, g), m < n
      PROVE  r[m].pos < r[n].pos
  <2>1. Len(q) \in Nat
    OBVIOUS
  <2>2. m \in E
    BY <1>4, <1>5, <1>9, <2>1
  <2>3. CASE n \in E
    BY <1>6, <1>9, <2>2, <2>3 DEF InOrder
  <2>4. CASE n = Len(q) + 1
    <3>1. r[m].pos \in (a + 1)..b /\ r[n].pos = b + 1
      BY <1>1, <1>3, <1>6, <2>2, <2>4
    <3> QED
      BY <3>1
  <2> QED
    BY <1>5, <2>3, <2>4
<1> QED
  BY <1>7, <1>8, <1>9 DEF InOrder, r, x

LEMMA TailOfEvents ==
  ASSUME NEW T, NEW q \in Seq(T), q # <<>>, NEW g
  PROVE  /\ \A n \in EventsIn(Tail(q), g) :
              n \in Nat \ {0} /\ n + 1 \in EventsIn(q, g) /\ Tail(q)[n] = q[n + 1]
         /\ \A n \in EventsIn(q, g) \ {1} :
              n - 1 \in EventsIn(Tail(q), g) /\ Tail(q)[n - 1] = q[n]
         /\ 1 \in EventsIn(q, g) <=> Head(q).kind = "event" /\ Head(q).gen = g
         /\ EventsIn(q, g) \subseteq 1..Len(q)
         /\ Head(q) = q[1] /\ Len(q) \in Nat
<1>1. \A n \in 2..Len(q) : n - 1 \in 1..Len(Tail(q)) /\ Tail(q)[n - 1] = q[n]
  OBVIOUS
<1>2. \A n \in 1..Len(Tail(q)) : n + 1 \in 2..Len(q) /\ Tail(q)[n] = q[n + 1]
  OBVIOUS
<1>3. /\ DOMAIN q = 1..Len(q) /\ DOMAIN Tail(q) = 1..Len(Tail(q)) /\ Head(q) = q[1]
      /\ Len(q) \in Nat \ {0} /\ Len(Tail(q)) \in Nat
  OBVIOUS
<1> QED
  BY <1>1, <1>2, <1>3 DEF EventsIn

LEMMA InOrderTailOther ==
  ASSUME NEW T, NEW q \in Seq(T), q # <<>>, NEW g, NEW a, NEW b,
         ~(Head(q).kind = "event" /\ Head(q).gen = g), InOrder(q, g, a, b)
  PROVE  InOrder(Tail(q), g, a, b)
<1>1. /\ \A n \in EventsIn(Tail(q), g) :
           n \in Nat \ {0} /\ n + 1 \in EventsIn(q, g) /\ Tail(q)[n] = q[n + 1]
      /\ \A n \in EventsIn(q, g) :
           n - 1 \in EventsIn(Tail(q), g) /\ Tail(q)[n - 1] = q[n]
  BY TailOfEvents
<1>2. \A n \in EventsIn(Tail(q), g) : Tail(q)[n].pos \in (a + 1)..b
  BY <1>1 DEF InOrder
<1>3. ASSUME NEW p \in (a + 1)..b PROVE \E n \in EventsIn(Tail(q), g) : Tail(q)[n].pos = p
  <2>1. PICK n \in EventsIn(q, g) : q[n].pos = p
    BY DEF InOrder
  <2> QED
    BY <1>1, <2>1
<1>4. ASSUME NEW m \in EventsIn(Tail(q), g), NEW n \in EventsIn(Tail(q), g), m < n
      PROVE  Tail(q)[m].pos < Tail(q)[n].pos
  <2>1. m + 1 < n + 1
    BY <1>1, <1>4
  <2> QED
    BY <1>1, <2>1 DEF InOrder
<1> QED
  BY <1>2, <1>3, <1>4 DEF InOrder

\* The event of the subscription that is first in the queue is the next one.
LEMMA InOrderTailNext ==
  ASSUME NEW T, NEW q \in Seq(T), q # <<>>, NEW g, NEW a \in Nat, NEW b \in Nat,
         Head(q).kind = "event", Head(q).gen = g, InOrder(q, g, a, b)
  PROVE  Head(q).pos = a + 1 /\ a + 1 <= b /\ InOrder(Tail(q), g, a + 1, b)
<1>1. /\ \A n \in EventsIn(Tail(q), g) :
           n \in Nat \ {0} /\ n + 1 \in EventsIn(q, g) /\ Tail(q)[n] = q[n + 1]
      /\ \A n \in EventsIn(q, g) \ {1} :
           n - 1 \in EventsIn(Tail(q), g) /\ Tail(q)[n - 1] = q[n]
      /\ 1 \in EventsIn(q, g) /\ EventsIn(q, g) \subseteq 1..Len(q)
      /\ Head(q) = q[1] /\ Len(q) \in Nat
  BY TailOfEvents
<1>2. \A n \in EventsIn(q, g) : n \in 1..Len(q) /\ q[n].pos \in (a + 1)..b
  BY <1>1 DEF InOrder
<1>3. \A n \in EventsIn(q, g) : n # 1 => q[1].pos < q[n].pos
  BY <1>1, <1>2 DEF InOrder
<1>4. q[1].pos = a + 1 /\ a + 1 <= b
  <2>1. a + 1 \in (a + 1)..b
    BY <1>1, <1>2
  <2>2. PICK n \in EventsIn(q, g) : q[n].pos = a + 1
    BY <2>1 DEF InOrder
  <2> QED
    BY <1>1, <1>2, <1>3, <2>1, <2>2
<1>5. \A n \in EventsIn(Tail(q), g) : Tail(q)[n].pos \in ((a + 1) + 1)..b
  <2> SUFFICES ASSUME NEW n \in EventsIn(Tail(q), g)
               PROVE  Tail(q)[n].pos \in ((a + 1) + 1)..b
    OBVIOUS
  <2>1. n + 1 \in EventsIn(q, g) /\ n + 1 # 1 /\ Tail(q)[n] = q[n + 1]
    BY <1>1
  <2>2. q[n + 1].pos \in (a + 1)..b /\ a + 1 < q[n + 1].pos
    BY <1>2, <1>3, <1>4, <2>1
  <2>3. \A p \in (a + 1)..b : a + 1 < p => p \in ((a + 1) + 1)..b
    OBVIOUS
  <2> QED
    BY <2>1, <2>2, <2>3
<1>6. \A p \in ((a + 1) + 1)..b : \E n \in EventsIn(Tail(q), g) : Tail(q)[n].pos = p
  <2> SUFFICES ASSUME NEW p \in ((a + 1) + 1)..b
               PROVE  \E n \in EventsIn(Tail(q), g) : Tail(q)[n].pos = p
    OBVIOUS
  <2>1. p \in (a + 1)..b /\ p # a + 1
    OBVIOUS
  <2>2. PICK n \in EventsIn(q, g) : q[n].pos = p
    BY <2>1 DEF InOrder
  <2> QED
    BY <1>1, <1>4, <2>1, <2>2
<1>7. ASSUME NEW m \in EventsIn(Tail(q), g), NEW n \in EventsIn(Tail(q), g), m < n
      PROVE  Tail(q)[m].pos < Tail(q)[n].pos
  <2>1. m + 1 < n + 1
    BY <1>1, <1>7
  <2>2. m + 1 \in EventsIn(q, g) /\ n + 1 \in EventsIn(q, g)
    BY <1>1
  <2>3. q[m + 1].pos < q[n + 1].pos
    BY <2>1, <2>2 DEF InOrder
  <2> QED
    BY <1>1, <2>3
<1> QED
  BY <1>1, <1>4, <1>5, <1>6, <1>7 DEF InOrder

LEMMA InOrderNone ==
  ASSUME NEW q, NEW g, NEW a \in Nat, EventsIn(q, g) = {}
  PROVE  InOrder(q, g, a, a)
<1>1. (a + 1)..a = {}
  OBVIOUS
<1> QED
  BY <1>1 DEF InOrder

-----------------------------------------------------------------------------
(* Scheduling and running work.                                            *)

LEMMA ItemsGrow ==
  ASSUME NEW c \in Nat, NEW d \in Nat, NEW l \in Nat, NEW m \in Nat, c <= d, l <= m
  PROVE  /\ Items(c, l) \subseteq Items(d, m)
         /\ Seq(Items(c, l)) \subseteq Seq(Items(d, m))
<1>1. 1..c \subseteq 1..d /\ 1..l \subseteq 1..m
  OBVIOUS
<1>2. Items(c, l) \subseteq Items(d, m)
  BY <1>1 DEF Items
<1> HIDE DEF Items
<1> QED
  BY <1>2

LEMMA KindsOfItems ==
  /\ \A k \in {"connected", "disconnected"} :
       ConnectionItem(k) \in Items(current, Len(log)) /\ ConnectionItem(k).kind = k
  /\ \A k \in {"startSub", "stopSub", "caughtUp"}, g \in 1..current :
       /\ SubItem(k, g) \in Items(current, Len(log))
       /\ SubItem(k, g).kind = k /\ SubItem(k, g).gen = g
  /\ \A g \in 1..current, n \in 1..Len(log) :
       /\ EventItem(g, n) \in Items(current, Len(log))
       /\ EventItem(g, n).kind = "event" /\ EventItem(g, n).gen = g
       /\ EventItem(g, n).pos = n
  /\ \A s \in Streams :
       /\ OpenItem(s) \in Items(current, Len(log))
       /\ OpenItem(s).kind = "open" /\ OpenItem(s).stream = s
BY DEF Items, ConnectionItem, SubItem, EventItem, OpenItem

LEMMA ItemOfKind ==
  ASSUME NEW c, NEW l, NEW x \in Items(c, l)
  PROVE  /\ x.kind \in {"startSub", "stopSub", "caughtUp"} => x.gen \in 1..c
         /\ x.kind = "event" => x.gen \in 1..c /\ x.pos \in 1..l
         /\ x.kind = "open" => x.stream \in Streams
         /\ x.kind \in {"connected", "disconnected", "startSub", "stopSub",
                        "caughtUp", "event", "open"}
BY DEF Items

LEMMA Bounds ==
  ASSUME Bounded, CacheTyped
  PROVE  /\ current \in 0..connects /\ connects \in 0..MaxConnects
         /\ MaxConnects \in Nat /\ Len(log) \in Nat
         /\ Count(queue, "connected") \in Nat /\ 1..current \subseteq Generations
<1>1. Count(queue, "connected") \in Nat
  BY CountType DEF CacheTyped
<1>2. /\ current + Count(queue, "connected") = connects /\ current \in Nat
      /\ connects \in 0..MaxConnects /\ MaxConnects \in Nat /\ Len(log) \in Nat
  BY DEF CacheTyped, Bounded
<1> QED
  BY <1>1, <1>2 DEF Generations

LEMMA Scheduled ==
  ASSUME CacheTyped, NEW x \in Items(current, Len(log)), Schedule(x)
  PROVE  /\ queue' \in Seq(Items(current, Len(log)))
         /\ Count(queue', "connected") =
              Count(queue, "connected") + IF x.kind = "connected" THEN 1 ELSE 0
         /\ Count(queue, "connected") \in Nat
<1>1. queue \in Seq(Items(current, Len(log))) /\ queue' = Append(queue, x)
  BY DEF CacheTyped, Schedule
<1>2. Count(queue, "connected") \in Nat
  BY <1>1, CountType
<1>3. Count(Append(queue, x), "connected") =
        Count(queue, "connected") + IF x.kind = "connected" THEN 1 ELSE 0
  BY <1>1, CountAppend
<1> QED
  BY <1>1, <1>2, <1>3

LEMMA Dequeued ==
  ASSUME CacheTyped, queue # <<>>
  PROVE  /\ Head(queue) \in Items(current, Len(log))
         /\ Tail(queue) \in Seq(Items(current, Len(log)))
         /\ Count(queue, "connected") =
              Count(Tail(queue), "connected")
                + IF Head(queue).kind = "connected" THEN 1 ELSE 0
         /\ Count(Tail(queue), "connected") \in Nat
<1>1. queue \in Seq(Items(current, Len(log)))
  BY DEF CacheTyped
<1>2. Head(queue) \in Items(current, Len(log)) /\ Tail(queue) \in Seq(Items(current, Len(log)))
  BY <1>1
<1>3. Count(Tail(queue), "connected") \in Nat
  BY <1>2, CountType
<1>4. Count(queue, "connected") =
        Count(Tail(queue), "connected") + IF Head(queue).kind = "connected" THEN 1 ELSE 0
  BY <1>1, CountTail
<1> QED
  BY <1>2, <1>3, <1>4

\* Work that is neither an event nor a connection.
LEMMA AddWork ==
  ASSUME NEW T, NEW p \in Seq(T), NEW q \in Seq(T), NEW g, EventsIn(p, g) = {},
         \A n \in DOMAIN q : q[n].kind \in {"startSub", "stopSub", "open"}
  PROVE  /\ p \o q \in Seq(T) /\ EventsIn(p \o q, g) = {}
         /\ Count(p \o q, "connected") = Count(p, "connected")
<1>1. Count(p \o q, "connected") = Count(p, "connected")
  BY CountConcat
<1>2. EventsIn(p \o q, g) = {}
  <2>1. DOMAIN (p \o q) = 1..(Len(p) + Len(q))
    OBVIOUS
  <2>2. \A n \in 1..Len(p) : (p \o q)[n] = p[n] /\ n \in DOMAIN p
    OBVIOUS
  <2>3. \A n \in (Len(p) + 1)..(Len(p) + Len(q)) : (p \o q)[n].kind # "event"
    OBVIOUS
  <2> QED
    BY <2>1, <2>2, <2>3 DEF EventsIn
<1> QED
  BY <1>1, <1>2

\* The streams to repeat, one after the other.
LEMMA RepeatedInTurn ==
  ASSUME Bounded
  PROVE  /\ SetToSeq(Repeated) \in Seq(Streams)
         /\ \A s \in Repeated :
              \E n \in DOMAIN SetToSeq(Repeated) : SetToSeq(Repeated)[n] = s
<1> DEFINE c == Cardinality(Repeated)
           again == SetToSeq(Repeated)
<1>1. IsFiniteSet(Repeated) /\ Repeated \subseteq Streams
  BY FS_Subset DEF Bounded, Repeated
<1>2. c \in Nat /\ ExistsBijection(1..c, Repeated)
  BY <1>1, FS_CardinalityType
<1>3. \E f \in [1..c -> Repeated] : IsInjective(f)
  BY <1>2 DEF ExistsBijection, Bijection, Injection
<1>4. again \in [1..c -> Repeated] /\ IsInjective(again)
  BY <1>3 DEF SetToSeq
<1> HIDE DEF again
<1>5. again \in Seq(Streams)
  BY <1>1, <1>2, <1>4
<1>6. IsFiniteSet(1..c) /\ Cardinality(1..c) = c
  BY <1>1, <1>2, FS_CountingElements, FS_Interval
<1>7. again \in Surjection(1..c, Repeated)
  <2>1. again \in Injection(1..c, Repeated)
    BY <1>4 DEF Injection
  <2> QED
    BY <1>1, <1>6, <2>1, FS_Injection
<1>8. \A s \in Repeated : \E n \in DOMAIN again : again[n] = s
  BY <1>4, <1>7 DEF Surjection
<1> QED
  BY <1>5, <1>8 DEF again

\* Replacing the subscription: what was not disposed of, the start of the new
\* subscription and the end of the old one, and each stream anew.
LEMMA QueueOfConnected ==
  ASSUME Bounded, CacheTyped, RunConnected
  PROVE  /\ queue' \in Seq(Items(current + 1, Len(log)))
         /\ Count(queue', "connected") + 1 = Count(queue, "connected")
         /\ EventsIn(queue', current + 1) = {}
         /\ Reconnected(queue) => Reconnected(queue')
         /\ \A s \in Repeated : Holds(queue', OpenItem(s))
<1> DEFINE again == SetToSeq(Repeated)
           opens == [n \in DOMAIN again |-> OpenItem(again[n])]
           start == <<SubItem("startSub", current + 1)>>
           rest  == Remaining(Tail(queue))
           All   == Items(current + 1, Len(log))
<1>1. queue' = rest \o start \o StopReplaced \o opens
  BY DEF RunConnected
<1>2. again \in Seq(Streams) /\ \A s \in Repeated : \E n \in DOMAIN again : again[n] = s
  BY RepeatedInTurn
<1> HIDE DEF again
<1>3. /\ current \in Nat /\ current + 1 \in Nat /\ current <= current + 1
      /\ Len(log) \in Nat /\ Len(log) <= Len(log)
      /\ queue # <<>> /\ Head(queue).kind = "connected"
  BY Bounds DEF RunConnected, Next1
<1>4. Items(current, Len(log)) \subseteq All
      /\ Seq(Items(current, Len(log))) \subseteq Seq(All)
  BY <1>3, ItemsGrow
<1>5. /\ rest \in Seq(Items(current, Len(log)))
      /\ Count(rest, "connected") = Count(Tail(queue), "connected")
      /\ Count(queue, "connected") = Count(Tail(queue), "connected") + 1
      /\ Count(Tail(queue), "connected") \in Nat
      /\ Reconnected(queue) => Reconnected(rest)
  <2>1. /\ Tail(queue) \in Seq(Items(current, Len(log)))
        /\ Count(queue, "connected") = Count(Tail(queue), "connected") + 1
        /\ Count(Tail(queue), "connected") \in Nat
    BY <1>3, Dequeued
  <2>2. "connected" \notin {"open", "startSub"}
    OBVIOUS
  <2>3. /\ rest \in Seq(Items(current, Len(log)))
        /\ Count(rest, "connected") = Count(Tail(queue), "connected")
    BY <2>1, <2>2, RemainingIs
  <2>4. ASSUME Reconnected(queue) PROVE Reconnected(rest)
    <3>1. queue \in Seq(Items(current, Len(log)))
      BY DEF CacheTyped
    <3>2. Reconnected(Tail(queue))
      BY <1>3, <2>4, <3>1, ReconnectedTail
    <3> QED
      BY <2>1, <3>2, ReconnectedRemaining
  <2> QED
    BY <2>1, <2>3, <2>4
<1> HIDE DEF rest
<1>6. start \in Seq(All) /\ \A n \in DOMAIN start : start[n].kind = "startSub"
  <2>1. SubItem("startSub", current + 1) \in All
    BY <1>3 DEF Items, SubItem
  <2>2. SubItem("startSub", current + 1).kind = "startSub"
    BY DEF SubItem
  <2> HIDE DEF All
  <2> QED
    BY <2>1, <2>2
<1> HIDE DEF start
<1>7. StopReplaced \in Seq(All) /\ \A n \in DOMAIN StopReplaced : StopReplaced[n].kind = "stopSub"
  <2>1. CASE current = 0
    BY <2>1 DEF StopReplaced
  <2>2. CASE current # 0
    <3>1. SubItem("stopSub", current) \in All
      BY <1>3, <2>2 DEF Items, SubItem
    <3>2. SubItem("stopSub", current).kind = "stopSub"
      BY DEF SubItem
    <3>3. StopReplaced = <<SubItem("stopSub", current)>>
      BY <2>2 DEF StopReplaced
    <3> HIDE DEF All
    <3> QED
      BY <3>1, <3>2, <3>3
  <2> QED
    BY <2>1, <2>2
<1>8. /\ opens \in Seq(All) /\ \A n \in DOMAIN opens : opens[n].kind = "open"
      /\ \A s \in Repeated : Holds(opens, OpenItem(s))
  <2>1. \A s \in Streams : OpenItem(s) \in All /\ OpenItem(s).kind = "open"
    BY DEF Items, OpenItem
  <2> HIDE DEF All
  <2>2. DOMAIN again = 1..Len(again) /\ Len(again) \in Nat /\ \A n \in DOMAIN again : again[n] \in Streams
    BY <1>2
  <2>3. opens \in Seq(All) /\ \A n \in DOMAIN opens : opens[n].kind = "open"
    BY <2>1, <2>2
  <2>4. \A s \in Repeated : Holds(opens, OpenItem(s))
    BY <1>2 DEF Holds
  <2> QED
    BY <2>3, <2>4
<1> HIDE DEF opens, All
<1>9. EventsIn(rest, current + 1) = {} /\ rest \in Seq(All)
  <2>1. \A n \in DOMAIN rest : rest[n] \in Items(current, Len(log))
    BY <1>5
  <2>2. \A n \in DOMAIN rest : rest[n].kind = "event" => rest[n].gen \in 1..current
    BY <2>1, ItemOfKind
  <2>3. current + 1 \notin 1..current
    BY <1>3
  <2> QED
    BY <1>4, <1>5, <2>2, <2>3 DEF EventsIn
<1>10. /\ rest \o start \in Seq(All) /\ EventsIn(rest \o start, current + 1) = {}
       /\ Count(rest \o start, "connected") = Count(rest, "connected")
       /\ Reconnected(rest) => Reconnected(rest \o start)
  <2>1. \A n \in DOMAIN start : start[n].kind \in {"startSub", "stopSub", "open"}
    BY <1>6
  <2>2. Reconnected(rest) => Reconnected(rest \o start)
    BY <1>6, <1>9, ReconnectedConcat
  <2> QED
    BY <1>6, <1>9, <2>1, <2>2, AddWork
<1> DEFINE begun == (rest \o start) \o StopReplaced
<1>11. /\ begun \in Seq(All) /\ EventsIn(begun, current + 1) = {}
       /\ Count(begun, "connected") = Count(rest, "connected")
       /\ Reconnected(rest) => Reconnected(begun)
  <2>1. PICK u \in Seq(All) : u = rest \o start
    BY <1>10
  <2>2. PICK v \in Seq(All) : v = StopReplaced
    BY <1>7
  <2>3. \A n \in DOMAIN v : v[n].kind \in {"startSub", "stopSub", "open"}
    BY <1>7, <2>2
  <2>4. EventsIn(u, current + 1) = {}
    BY <1>10, <2>1
  <2>5. /\ u \o v \in Seq(All) /\ EventsIn(u \o v, current + 1) = {}
        /\ Count(u \o v, "connected") = Count(u, "connected")
    BY <2>3, <2>4, AddWork
  <2>6. Reconnected(u) => Reconnected(u \o v)
    <3>1. \A n \in DOMAIN v : v[n].kind # "disconnected"
      BY <2>3
    <3> QED
      BY <3>1, ReconnectedConcat
  <2> QED
    BY <1>10, <2>1, <2>2, <2>5, <2>6
<1>12. queue' = begun \o opens
  BY <1>1
<1> HIDE DEF begun
<1>13. \A n \in DOMAIN opens : opens[n].kind \in {"startSub", "stopSub", "open"}
  BY <1>8
<1>14. opens \in Seq(All)
  BY <1>8
<1>15. /\ begun \o opens \in Seq(All) /\ EventsIn(begun \o opens, current + 1) = {}
       /\ Count(begun \o opens, "connected") = Count(begun, "connected")
  BY <1>11, <1>13, <1>14, AddWork
<1>16. Reconnected(queue) => Reconnected(queue')
  <2>1. \A n \in DOMAIN opens : opens[n].kind # "disconnected"
    BY <1>8
  <2>2. Reconnected(begun) => Reconnected(begun \o opens)
    BY <1>11, <1>14, <2>1, ReconnectedConcat
  <2> QED
    BY <1>5, <1>11, <1>12, <2>2
<1>17. \A s \in Repeated : Holds(queue', OpenItem(s))
  BY <1>8, <1>11, <1>12, <1>14, HoldsConcat
<1> QED
  BY <1>5, <1>11, <1>12, <1>15, <1>16, <1>17 DEF All

-----------------------------------------------------------------------------
(* The invariant is kept by every step.                                    *)

\* A step that takes no event of the current subscription, and adds none.
LEMMA ReplayKept ==
  ASSUME ReplayInv, UNCHANGED <<log, current, sotw>>,
         current # 0 => sub'[current].pos = sub[current].pos,
         \A a, b : InOrder(queue, current, a, b) => InOrder(queue', current, a, b)
  PROVE  ReplayInv'
BY DEF ReplayInv

LEMMA ReplayScheduled ==
  ASSUME CacheTyped, ReplayInv, UNCHANGED <<log, current, sotw>>,
         current # 0 => sub'[current].pos = sub[current].pos,
         NEW x \in Items(current, Len(log)), Schedule(x),
         x.kind # "event" \/ x.gen # current
  PROVE  ReplayInv'
<1>1. queue \in Seq(Items(current, Len(log))) /\ queue' = Append(queue, x)
  BY DEF CacheTyped, Schedule
<1>2. \A a, b : InOrder(queue, current, a, b) => InOrder(queue', current, a, b)
  BY <1>1, InOrderAppendOther
<1> QED
  BY <1>2, ReplayKept

LEMMA ReplayDequeued ==
  ASSUME CacheTyped, ReplayInv, UNCHANGED <<log, current, sotw>>,
         current # 0 => sub'[current].pos = sub[current].pos,
         queue # <<>>, Dequeue,
         Head(queue).kind # "event" \/ Head(queue).gen # current
  PROVE  ReplayInv'
<1>1. queue \in Seq(Items(current, Len(log))) /\ queue' = Tail(queue)
  BY DEF CacheTyped, Dequeue
<1>2. \A a, b : InOrder(queue, current, a, b) => InOrder(queue', current, a, b)
  BY <1>1, InOrderTailOther
<1> QED
  BY <1>2, ReplayKept

LEMMA ConnectKeeps ==
  ASSUME Bounded, CacheInv, Connect PROVE CacheInv'
<1> USE DEF CacheInv
<1>1. ConnectionItem("connected") \in Items(current, Len(log))
      /\ ConnectionItem("connected").kind = "connected"
  BY KindsOfItems
<1>2. Schedule(ConnectionItem("connected"))
  BY DEF Connect
<1>3. /\ queue' \in Seq(Items(current, Len(log)))
      /\ Count(queue', "connected") = Count(queue, "connected") + 1
      /\ Count(queue, "connected") \in Nat
  BY <1>1, <1>2, Scheduled
<1>4. /\ sub' \in [Generations -> Subscription]
      /\ \A g \in Generations :
           sub'[g].pos = sub[g].pos /\ sub'[g].live = sub[g].live
  BY DEF Connect, CacheTyped, Subscription
<1>5. UNCHANGED <<log, current, sotw>>
  BY DEF Connect, cacheVars
<1>6. CacheTyped'
  BY <1>3, <1>4, Bounds DEF CacheTyped, Connect, cacheVars, streamVars
<1>7. current # 0 => sub'[current].pos = sub[current].pos
  BY <1>4, Bounds DEF Generations
<1> QED
  BY <1>1, <1>2, <1>5, <1>6, <1>7, ReplayScheduled

LEMMA DisconnectKeeps ==
  ASSUME Bounded, CacheInv, Disconnect PROVE CacheInv'
<1> USE DEF CacheInv
<1>1. ConnectionItem("disconnected") \in Items(current, Len(log))
      /\ ConnectionItem("disconnected").kind = "disconnected"
  BY KindsOfItems
<1>2. Schedule(ConnectionItem("disconnected"))
  BY DEF Disconnect
<1>3. /\ queue' \in Seq(Items(current, Len(log)))
      /\ Count(queue', "connected") = Count(queue, "connected")
  BY <1>1, <1>2, Scheduled
<1>4. /\ sub' \in [Generations -> Subscription]
      /\ \A g \in Generations :
           sub'[g].pos = sub[g].pos /\ (sub'[g].live => sub[g].live)
  <2>1. PICK survivors \in SUBSET Generations :
          sub' = [g \in Generations |-> [sub[g] EXCEPT !.live = @ /\ g \in survivors]]
    BY DEF Disconnect
  <2>2. \A g \in Generations :
          sub[g] \in [live : BOOLEAN, pos : Nat, caught : BOOLEAN]
    BY DEF CacheTyped, Subscription
  <2>3. ASSUME NEW g \in Generations
        PROVE  /\ sub'[g] \in Subscription
               /\ sub'[g].pos = sub[g].pos /\ (sub'[g].live => sub[g].live)
    <3>1. sub'[g] = [sub[g] EXCEPT !.live = sub[g].live /\ g \in survivors]
      BY <2>1
    <3>2. (sub[g].live /\ g \in survivors) \in BOOLEAN
      OBVIOUS
    <3> QED
      BY <2>2, <3>1, <3>2 DEF Subscription
  <2> QED
    BY <2>1, <2>3
<1>5. UNCHANGED <<log, current, sotw>>
  BY DEF Disconnect, cacheVars
<1>6. CacheTyped'
  BY <1>3, <1>4 DEF CacheTyped, Disconnect, cacheVars, streamVars
<1>7. current # 0 => sub'[current].pos = sub[current].pos
  BY <1>4, Bounds DEF Generations
<1> QED
  BY <1>1, <1>2, <1>5, <1>6, <1>7, ReplayScheduled

LEMMA OnEventKeeps ==
  ASSUME Bounded, CacheInv, NEW g \in Generations, OnEvent(g) PROVE CacheInv'
<1> USE DEF CacheInv
<1> DEFINE b == sub[g].pos
           x == EventItem(g, b + 1)
<1>1. g \in 1..current /\ b \in Nat /\ b + 1 \in 1..Len(log)
  BY Bounds DEF OnEvent, CacheTyped, Subscription, Generations
<1>2. x \in Items(current, Len(log)) /\ x.kind = "event" /\ x.gen = g
  BY <1>1, KindsOfItems
<1>3. Schedule(x)
  BY DEF OnEvent
<1>4. sub' = [sub EXCEPT ![g].pos = b + 1] /\ UNCHANGED <<storeVars, cacheVars, streamVars>>
  BY DEF OnEvent
<1> HIDE DEF x
<1>5. /\ queue' \in Seq(Items(current, Len(log)))
      /\ Count(queue', "connected") = Count(queue, "connected")
  BY <1>2, <1>3, Scheduled
<1>6. /\ sub' \in [Generations -> Subscription]
      /\ sub'[g].pos = b + 1
      /\ \A h \in Generations : sub'[h].live = sub[h].live
      /\ \A h \in Generations \ {g} : sub'[h].pos = sub[h].pos
  <2>1. sub \in [Generations -> Subscription]
    BY DEF CacheTyped
  <2> PICK p \in Nat : p = b + 1
    BY <1>1
  <2>2. sub' = [sub EXCEPT ![g].pos = p]
    BY <1>4
  <2> HIDE DEF CacheInv, b
  <2> QED
    BY <2>1, <2>2 DEF Subscription
<1>7. CacheTyped'
  BY <1>1, <1>4, <1>5, <1>6, Bounds DEF CacheTyped, storeVars, cacheVars, streamVars
<1>8. ReplayInv'
  <2>1. CASE g # current
    <3>1. current # 0 => sub'[current].pos = sub[current].pos
      BY <1>6, <2>1, Bounds DEF Generations
    <3> QED
      BY <1>2, <1>3, <1>4, <2>1, <3>1, ReplayScheduled DEF storeVars, cacheVars
  <2>2. CASE g = current
    <3>1. PICK a \in 0..b : sotw = Replay(log, a) /\ InOrder(queue, current, a, b)
      BY <1>1, <2>2 DEF ReplayInv
    <3>2. queue' = Append(queue, EventItem(g, b + 1))
      BY <1>3 DEF Schedule, x
    <3>3. queue \in Seq(Items(current, Len(log))) /\ EventItem(g, b + 1) \in Items(current, Len(log))
      BY <1>2 DEF CacheTyped, x
    <3>4. a \in Nat /\ a <= b /\ a \in 0..(b + 1)
      BY <1>1
    <3>5. InOrder(queue', current, a, b + 1)
      BY <1>1, <2>2, <3>1, <3>2, <3>3, <3>4, InOrderAppendNext
    <3> QED
      BY <1>1, <1>4, <1>6, <2>2, <3>1, <3>4, <3>5 DEF ReplayInv, storeVars, cacheVars
  <2> QED
    BY <2>1, <2>2
<1> QED
  BY <1>7, <1>8

LEMMA OnCaughtUpKeeps ==
  ASSUME Bounded, CacheInv, NEW g \in Generations, OnCaughtUp(g) PROVE CacheInv'
<1> USE DEF CacheInv
<1> DEFINE x == SubItem("caughtUp", g)
<1>1. g \in 1..current
  BY Bounds DEF OnCaughtUp, CacheTyped, Generations
<1>2. x \in Items(current, Len(log)) /\ x.kind = "caughtUp"
  BY <1>1, KindsOfItems
<1>3. Schedule(x)
  BY DEF OnCaughtUp
<1> HIDE DEF x
<1>4. /\ queue' \in Seq(Items(current, Len(log)))
      /\ Count(queue', "connected") = Count(queue, "connected")
  BY <1>2, <1>3, Scheduled
<1>5. sub' = [sub EXCEPT ![g].caught = TRUE] /\ UNCHANGED <<storeVars, cacheVars, streamVars>>
  BY DEF OnCaughtUp
<1>6. /\ sub' \in [Generations -> Subscription]
      /\ \A h \in Generations : sub'[h].live = sub[h].live /\ sub'[h].pos = sub[h].pos
  BY <1>5 DEF CacheTyped, Subscription
<1>7. CacheTyped'
  BY <1>4, <1>5, <1>6 DEF CacheTyped, storeVars, cacheVars, streamVars
<1>8. current # 0 => sub'[current].pos = sub[current].pos
  BY <1>6, Bounds DEF Generations
<1> QED
  BY <1>2, <1>3, <1>5, <1>7, <1>8, ReplayScheduled DEF storeVars, cacheVars

LEMMA GetOutputStreamKeeps ==
  ASSUME Bounded, CacheInv, NEW s \in Streams, GetOutputStream(s) PROVE CacheInv'
<1> USE DEF CacheInv
<1> DEFINE x == OpenItem(s)
<1>1. x \in Items(current, Len(log)) /\ x.kind = "open"
  BY KindsOfItems
<1>2. Schedule(x)
  BY DEF GetOutputStream
<1> HIDE DEF x
<1>3. /\ queue' \in Seq(Items(current, Len(log)))
      /\ Count(queue', "connected") = Count(queue, "connected")
  BY <1>1, <1>2, Scheduled
<1>4. CacheTyped'
  BY <1>3 DEF CacheTyped, GetOutputStream, storeVars, cacheVars
<1> QED
  BY <1>1, <1>2, <1>4, ReplayScheduled DEF GetOutputStream, storeVars, cacheVars

LEMMA RunConnectedKeeps ==
  ASSUME Bounded, CacheInv, RunConnected PROVE CacheInv'
<1> USE DEF CacheInv
<1>1. /\ queue' \in Seq(Items(current + 1, Len(log)))
      /\ Count(queue', "connected") + 1 = Count(queue, "connected")
      /\ EventsIn(queue', current + 1) = {}
  BY QueueOfConnected
<1>2. Count(queue', "connected") \in Nat
  BY <1>1, CountType
<1>3. /\ UNCHANGED <<log, up, connects, sub, published, view, stale>>
      /\ current' = current + 1 /\ sotw' = EmptySotw
      /\ isStale' \in BOOLEAN /\ isCaughtUp' \in BOOLEAN
      /\ phase' = [s \in Streams |-> IF s \in Repeated THEN "queued" ELSE phase[s]]
  BY DEF RunConnected, storeVars
<1>4. current + 1 \in Generations /\ current + 1 > current
  BY <1>1, <1>2, Bounds DEF CacheTyped, Generations
<1>5. phase' \in [Streams -> {"off", "queued", "sotw", "events"}]
  BY <1>3 DEF CacheTyped
<1>6. \A g \in Generations :
        /\ sub[g].pos <= Len(log)
        /\ g > current + 1 => ~sub[g].live /\ sub[g].pos = 0
  <2>1. \A g \in Generations : g > current + 1 => g > current
    BY Bounds DEF Generations
  <2> QED
    BY <2>1 DEF CacheTyped
<1>7. CacheTyped'
  <2>1. (current + 1) + Count(queue', "connected") = connects /\ current + 1 \in Nat
    BY <1>1, <1>2, Bounds DEF CacheTyped
  <2> QED
    BY <1>1, <1>3, <1>5, <1>6, <2>1 DEF CacheTyped
<1>8. sub[current + 1].pos = 0
  BY <1>4 DEF CacheTyped
<1>9. InOrder(queue', current + 1, 0, 0)
  BY <1>1, InOrderNone
<1>10. sotw' = Replay(log, 0)
  BY <1>3, ReplayOfNone
<1>11. 0 \in 0..sub[current + 1].pos
  BY <1>8
<1>12. ReplayInv'
  BY <1>3, <1>8, <1>9, <1>10, <1>11, Bounds DEF ReplayInv
<1> QED
  BY <1>7, <1>12

\* Work that leaves the subscriptions, the connections and the log alone.
LEMMA TypedDequeued ==
  ASSUME CacheTyped, queue # <<>>, Dequeue, Head(queue).kind # "connected",
         UNCHANGED <<storeVars, current>>,
         sub' \in [Generations -> Subscription],
         \A g \in Generations :
           sub'[g].pos = sub[g].pos /\ (g > current => sub'[g].live = sub[g].live),
         <<isStale', isCaughtUp', published'>> \in BOOLEAN \X BOOLEAN \X BOOLEAN,
         phase' \in [Streams -> {"off", "queued", "sotw", "events"}],
         stale' \in [Streams -> BOOLEAN]
  PROVE  CacheTyped'
<1>1. /\ queue' \in Seq(Items(current, Len(log)))
      /\ Count(queue', "connected") = Count(queue, "connected")
  BY Dequeued DEF Dequeue
<1> QED
  BY <1>1 DEF CacheTyped, storeVars

LEMMA RunDisconnectedKeeps ==
  ASSUME Bounded, CacheInv, RunDisconnected PROVE CacheInv'
<1> USE DEF CacheInv
<1>1. /\ queue # <<>> /\ Dequeue /\ Head(queue).kind = "disconnected"
      /\ UNCHANGED <<storeVars, sub, current, sotw, isCaughtUp, phase>>
      /\ isStale' = TRUE /\ published' = (published \/ ~isStale)
      /\ stale' = [s \in Streams |-> IF s \in Listening THEN TRUE ELSE stale[s]]
  BY DEF RunDisconnected, Next1
<1>2. CacheTyped'
  <2>1. <<isStale', isCaughtUp', published'>> \in BOOLEAN \X BOOLEAN \X BOOLEAN
    BY <1>1 DEF CacheTyped
  <2>2. stale' \in [Streams -> BOOLEAN]
    BY <1>1 DEF CacheTyped
  <2>3. phase' \in [Streams -> {"off", "queued", "sotw", "events"}]
    BY <1>1 DEF CacheTyped
  <2>4. sub' \in [Generations -> Subscription] /\ sub' = sub
    BY <1>1 DEF CacheTyped
  <2> QED
    BY <1>1, <2>1, <2>2, <2>3, <2>4, TypedDequeued
<1>3. ReplayInv'
  BY <1>1, ReplayDequeued DEF storeVars
<1> QED
  BY <1>2, <1>3

LEMMA RunStartSubKeeps ==
  ASSUME Bounded, CacheInv, RunStartSub PROVE CacheInv'
<1> USE DEF CacheInv
<1> DEFINE g == Head(queue).gen
<1>1. PICK live \in {up, TRUE} : sub' = [sub EXCEPT ![g].live = live]
  BY DEF RunStartSub
<1>2. /\ queue # <<>> /\ Dequeue /\ Head(queue).kind = "startSub"
      /\ UNCHANGED <<storeVars, cacheVars, streamVars>>
  BY DEF RunStartSub, Next1
<1>3. Head(queue) \in Items(current, Len(log))
  BY <1>2, Dequeued
<1>4. g \in 1..current
  BY <1>2, <1>3, ItemOfKind
<1>5. g \in Generations /\ ~(g > current) /\ live \in BOOLEAN
  <2>1. live \in BOOLEAN
    BY DEF CacheTyped
  <2>2. g \in Generations /\ ~(g > current)
    BY <1>4, Bounds
  <2> QED
    BY <2>1, <2>2
<1> HIDE DEF g
<1>6. /\ sub' \in [Generations -> Subscription]
      /\ \A h \in Generations : sub'[h].pos = sub[h].pos
      /\ \A h \in Generations \ {g} : sub'[h].live = sub[h].live
  BY <1>1, <1>5 DEF CacheTyped, Subscription
<1>7. CacheTyped'
  BY <1>2, <1>5, <1>6, TypedDequeued DEF CacheTyped, cacheVars, streamVars
<1>8. current # 0 => sub'[current].pos = sub[current].pos
  BY <1>6, Bounds DEF Generations
<1> QED
  BY <1>2, <1>7, <1>8, ReplayDequeued DEF storeVars, cacheVars

LEMMA RunStopSubKeeps ==
  ASSUME Bounded, CacheInv, RunStopSub PROVE CacheInv'
<1> USE DEF CacheInv
<1> DEFINE g == Head(queue).gen
<1>1. sub' = [sub EXCEPT ![g].live = FALSE]
  BY DEF RunStopSub
<1>2. /\ queue # <<>> /\ Dequeue /\ Head(queue).kind = "stopSub"
      /\ UNCHANGED <<storeVars, cacheVars, streamVars>>
  BY DEF RunStopSub, Next1
<1>3. Head(queue) \in Items(current, Len(log))
  BY <1>2, Dequeued
<1>4. g \in 1..current
  BY <1>2, <1>3, ItemOfKind
<1>5. g \in Generations /\ ~(g > current)
  BY <1>4, Bounds DEF CacheTyped
<1> HIDE DEF g
<1>6. /\ sub' \in [Generations -> Subscription]
      /\ \A h \in Generations : sub'[h].pos = sub[h].pos
      /\ \A h \in Generations \ {g} : sub'[h].live = sub[h].live
  BY <1>1, <1>5 DEF CacheTyped, Subscription
<1>7. CacheTyped'
  BY <1>2, <1>5, <1>6, TypedDequeued DEF CacheTyped, cacheVars, streamVars
<1>8. current # 0 => sub'[current].pos = sub[current].pos
  BY <1>6, Bounds DEF Generations
<1> QED
  BY <1>2, <1>7, <1>8, ReplayDequeued DEF storeVars, cacheVars

LEMMA RunCaughtUpKeeps ==
  ASSUME Bounded, CacheInv, RunCaughtUp PROVE CacheInv'
<1> USE DEF CacheInv
<1>1. /\ queue # <<>> /\ Dequeue /\ Head(queue).kind = "caughtUp"
      /\ UNCHANGED <<storeVars, sub, current, sotw>>
      /\ isStale' = FALSE /\ isCaughtUp' = TRUE /\ published' = TRUE
      /\ PublishTo(Awaiting, sotw, FALSE)
  BY DEF RunCaughtUp, Next1
<1>2. stale' \in [Streams -> BOOLEAN]
      /\ phase' \in [Streams -> {"off", "queued", "sotw", "events"}]
  BY <1>1 DEF CacheTyped, PublishTo
<1>3. CacheTyped'
  BY <1>1, <1>2, TypedDequeued DEF CacheTyped
<1> QED
  BY <1>1, <1>3, ReplayDequeued DEF storeVars

LEMMA RunOpenKeeps ==
  ASSUME Bounded, CacheInv, RunOpen PROVE CacheInv'
<1> USE DEF CacheInv
<1>1. /\ queue # <<>> /\ Dequeue /\ Head(queue).kind = "open"
      /\ UNCHANGED <<storeVars, sub, cacheVars>>
  BY DEF RunOpen, Next1
<1>2. stale' \in [Streams -> BOOLEAN]
      /\ phase' \in [Streams -> {"off", "queued", "sotw", "events"}]
  BY DEF CacheTyped, RunOpen
<1>3. CacheTyped'
  BY <1>1, <1>2, TypedDequeued DEF CacheTyped, cacheVars
<1> QED
  BY <1>1, <1>3, ReplayDequeued DEF storeVars, cacheVars

\* The event that the cache takes is the next one of the log.
LEMMA TakenIsNext ==
  ASSUME Bounded, CacheInv, RunEvent, IsObserved(Head(queue))
  PROVE  /\ current # 0 /\ Head(queue).pos \in 1..sub[current].pos
         /\ Head(queue).pos \in DOMAIN log
         /\ sotw = Replay(log, Head(queue).pos - 1)
         /\ sotw' = UpdateStateOfTheWorld(sotw, log[Head(queue).pos])
         /\ InOrder(Tail(queue), current, Head(queue).pos, sub[current].pos)
<1> USE DEF CacheInv
<1>1. /\ queue # <<>> /\ Head(queue).kind = "event" /\ Head(queue).gen = current
      /\ sotw' = UpdateStateOfTheWorld(sotw, log[Head(queue).pos])
  BY DEF RunEvent, Next1, IsObserved
<1>2. Head(queue) \in Items(current, Len(log)) /\ queue \in Seq(Items(current, Len(log)))
  BY <1>1, Dequeued DEF CacheTyped
<1>3. current \in 1..current
  BY <1>1, <1>2, ItemOfKind
<1>4. current # 0 /\ current \in Generations /\ sub[current].pos \in Nat
  BY <1>3, Bounds DEF CacheTyped, Subscription, Generations
<1> DEFINE b == sub[current].pos
<1>5. PICK a \in 0..b : sotw = Replay(log, a) /\ InOrder(queue, current, a, b)
  BY <1>4 DEF ReplayInv
<1>6. a \in Nat /\ b \in Nat
  BY <1>4
<1> HIDE DEF b
<1>7. /\ Head(queue).pos = a + 1 /\ a + 1 <= b
      /\ InOrder(Tail(queue), current, a + 1, b)
  BY <1>1, <1>2, <1>5, <1>6, InOrderTailNext
<1>8. Head(queue).pos - 1 = a /\ Head(queue).pos \in 1..b
  BY <1>6, <1>7
<1>9. b <= Len(log) /\ log \in Seq(Events)
  BY <1>4 DEF CacheTyped, b
<1>10. Head(queue).pos \in DOMAIN log
  BY <1>6, <1>8, <1>9
<1> QED
  BY <1>1, <1>4, <1>5, <1>7, <1>8, <1>10 DEF b

LEMMA RunEventKeeps ==
  ASSUME Bounded, CacheInv, RunEvent PROVE CacheInv'
<1> USE DEF CacheInv
<1>1. /\ queue # <<>> /\ Dequeue /\ Head(queue).kind = "event"
      /\ UNCHANGED <<storeVars, sub, current, isStale, isCaughtUp>>
  BY DEF RunEvent, Next1
<1>2. /\ stale' \in [Streams -> BOOLEAN] /\ published' \in BOOLEAN
      /\ phase' \in [Streams -> {"off", "queued", "sotw", "events"}]
  <2>1. CASE IsObserved(Head(queue))
    BY <2>1 DEF CacheTyped, RunEvent
  <2>2. CASE ~IsObserved(Head(queue))
    BY <2>2 DEF CacheTyped, RunEvent, streamVars
  <2> QED
    BY <2>1, <2>2
<1>3. CacheTyped'
  BY <1>1, <1>2, TypedDequeued DEF CacheTyped
<1>4. ReplayInv'
  <2>1. CASE ~IsObserved(Head(queue))
    <3>1. UNCHANGED <<log, current, sotw>> /\ Head(queue).gen # current
      BY <1>1, <2>1 DEF RunEvent, storeVars, IsObserved
    <3> QED
      BY <1>1, <3>1, ReplayDequeued
  <2>2. CASE IsObserved(Head(queue))
    <3> DEFINE p == Head(queue).pos
               b == sub[current].pos
    <3>1. /\ current # 0 /\ p \in 1..b
          /\ sotw = Replay(log, p - 1)
          /\ sotw' = UpdateStateOfTheWorld(sotw, log[p])
          /\ InOrder(Tail(queue), current, p, b)
      BY <2>2, TakenIsNext
    <3> HIDE DEF p
    <3>2. p - 1 \in Nat /\ (p - 1) + 1 = p /\ p \in 0..b
      BY <3>1
    <3>3. Replay(log, p) = UpdateStateOfTheWorld(Replay(log, p - 1), log[p])
      BY <3>2, ReplayOfNext
    <3>4. UNCHANGED <<log, sub, current>> /\ queue' = Tail(queue)
      BY <1>1 DEF Dequeue, storeVars
    <3> QED
      BY <3>1, <3>2, <3>3, <3>4 DEF ReplayInv
  <2> QED
    BY <2>1, <2>2
<1> QED
  BY <1>3, <1>4

\* The log grows.
LEMMA LogGrows ==
  ASSUME Bounded, CacheInv, NEW more \in Seq(Events), log' = log \o more,
         UNCHANGED <<up, connects, sub, queue, cacheVars, streamVars>>
  PROVE  CacheInv'
<1> USE DEF CacheInv
<1>1. /\ log \in Seq(Events) /\ log' \in Seq(Events) /\ Len(log) \in Nat /\ Len(log') \in Nat
      /\ Len(log) <= Len(log') /\ \A k \in 1..Len(log) : log'[k] = log[k]
  BY DEF CacheTyped
<1>2. queue' \in Seq(Items(current, Len(log')))
  <2>1. current \in Nat /\ current <= current
    BY DEF CacheTyped
  <2>2. Seq(Items(current, Len(log))) \subseteq Seq(Items(current, Len(log')))
    BY <1>1, <2>1, ItemsGrow
  <2> QED
    BY <2>2 DEF CacheTyped
<1>3. \A g \in Generations : sub[g].pos \in Nat /\ sub[g].pos <= Len(log)
  BY DEF CacheTyped, Subscription
<1>4. CacheTyped'
  BY <1>1, <1>2, <1>3 DEF CacheTyped, cacheVars, streamVars
<1>5. UNCHANGED <<current, sotw, sub, queue>>
  BY DEF cacheVars
<1>6. CASE current = 0
  BY <1>4, <1>5, <1>6 DEF ReplayInv
<1>7. CASE current # 0
  <2>1. PICK a \in 0..sub[current].pos :
          sotw = Replay(log, a) /\ InOrder(queue, current, a, sub[current].pos)
    BY <1>7 DEF ReplayInv
  <2>2. current \in Generations
    BY <1>7, Bounds DEF Generations
  <2>3. a \in Nat /\ \A k \in 1..a : k \in 1..Len(log)
    BY <1>1, <1>3, <2>2
  <2>4. Replay(log', a) = Replay(log, a)
    BY <1>1, <2>3, ReplayAgrees
  <2> QED
    BY <1>4, <1>5, <1>7, <2>1, <2>4 DEF ReplayInv
<1> QED
  BY <1>6, <1>7

LEMMA CacheStepKeeps ==
  ASSUME Bounded, CacheInv, CacheStep PROVE CacheInv'
<1>1. CASE Connect
  BY <1>1, ConnectKeeps
<1>2. CASE Disconnect
  BY <1>2, DisconnectKeeps
<1>3. ASSUME NEW g \in Generations, OnEvent(g) PROVE CacheInv'
  BY <1>3, OnEventKeeps
<1>4. ASSUME NEW g \in Generations, OnCaughtUp(g) PROVE CacheInv'
  BY <1>4, OnCaughtUpKeeps
<1>5. ASSUME NEW s \in Streams, GetOutputStream(s) PROVE CacheInv'
  BY <1>5, GetOutputStreamKeeps
<1>6. CASE RunLoop
  BY <1>6, RunConnectedKeeps, RunDisconnectedKeeps, RunStartSubKeeps, RunStopSubKeeps,
     RunEventKeeps, RunCaughtUpKeeps, RunOpenKeeps DEF RunLoop
<1> QED
  BY <1>1, <1>2, <1>3, <1>4, <1>5, <1>6 DEF CacheStep

LEMMA WriteIsGrowth ==
  ASSUME NEW e \in Events, CacheTyped, Write(e)
  PROVE  /\ <<e>> \in Seq(Events) /\ log' = log \o <<e>>
         /\ UNCHANGED <<up, connects, sub, queue, cacheVars, streamVars>>
<1>1. log \in Seq(Events) /\ log' = Append(log, e)
  BY DEF CacheTyped, Write
<1>2. <<e>> \in Seq(Events) /\ Append(log, e) = log \o <<e>>
  BY <1>1
<1> QED
  BY <1>1, <1>2 DEF Write

LEMMA CacheInvInit ==
  ASSUME Bounded, CacheInit PROVE CacheInv
<1>1. /\ <<>> \in Seq(Events) /\ Len(<<>>) = 0 /\ 0 \in 0..MaxConnects /\ 0 \in Nat
      /\ <<>> \in Seq(Items(0, 0))
  BY DEF Bounded
<1>2. Count(<<>>, "connected") = 0
  <2>1. OfKind(<<>>, "connected") = {}
    BY DEF OfKind
  <2> QED
    BY <2>1, FS_EmptySet DEF Count
<1>3. /\ log = <<>> /\ up = FALSE /\ isStale = TRUE /\ isCaughtUp = FALSE
      /\ published = FALSE /\ connects = 0 /\ current = 0 /\ queue = <<>>
      /\ sub = [g \in Generations |-> [live |-> FALSE, pos |-> 0, caught |-> FALSE]]
      /\ phase = [s \in Streams |-> "off"] /\ stale = [s \in Streams |-> TRUE]
      /\ sotw = EmptySotw
  BY DEF CacheInit
<1>4. /\ sub \in [Generations -> Subscription]
      /\ \A g \in Generations : ~sub[g].live /\ sub[g].pos = 0 /\ sub[g].pos <= 0
  BY <1>3 DEF Subscription
<1>5. /\ phase \in [Streams -> {"off", "queued", "sotw", "events"}]
      /\ stale \in [Streams -> BOOLEAN]
  BY <1>3
<1>6. CacheTyped
  <2>1. Len(log) = 0 /\ queue \in Seq(Items(current, Len(log)))
    BY <1>1, <1>3
  <2>2. current + Count(queue, "connected") = connects
    BY <1>2, <1>3
  <2> QED
    BY <1>1, <1>3, <1>4, <1>5, <2>1, <2>2 DEF CacheTyped
<1> QED
  BY <1>3, <1>6 DEF CacheInv, ReplayInv

\* The position the cache has come to in the log.
LEMMA AppliedIsPosition ==
  ASSUME Bounded, CacheInv
  PROVE  Applied \in 0..Len(log) /\ sotw = Replay(log, Applied)
<1> USE DEF CacheInv
<1>1. CASE current = 0
  BY <1>1, ReplayOfNone DEF Applied, ReplayInv, CacheTyped
<1>2. CASE current # 0
  <2> DEFINE b == sub[current].pos
  <2>1. PICK a \in 0..b : sotw = Replay(log, a) /\ InOrder(queue, current, a, b)
    BY <1>2 DEF ReplayInv
  <2>2. current \in Generations
    BY <1>2, Bounds DEF Generations
  <2>3. b \in Nat /\ b <= Len(log)
    BY <2>2 DEF CacheTyped, Subscription
  <2> HIDE DEF b
  <2>4. a \in Nat /\ a <= b
    BY <2>3
  <2>5. \A n \in EventsIn(queue, current) : n \in Nat
    BY DEF EventsIn, CacheTyped
  <2>6. Cardinality(EventsIn(queue, current)) = b - a
    BY <2>1, <2>3, <2>4, <2>5, InOrderCounts
  <2>7. QueuedEvents(current) = EventsIn(queue, current)
    BY DEF QueuedEvents, EventsIn
  <2>8. b - (b - a) = a
    BY <2>3, <2>4
  <2>9. Applied = a
    BY <1>2, <2>6, <2>7, <2>8 DEF Applied, b
  <2>10. Len(log) \in Nat
    BY DEF CacheTyped
  <2>11. a \in 0..Len(log)
    BY <2>3, <2>4, <2>10
  <2> QED
    BY <2>1, <2>9, <2>11
<1> QED
  BY <1>1, <1>2

\* What the invariant says of the properties that are checked.
LEMMA CacheInvMeans ==
  ASSUME Bounded, CacheInv PROVE CacheTypeOK /\ CacheIsReplay
<1>1. CacheTypeOK
  <2>1. \A n \in DOMAIN queue : queue[n] \in Items(current, Len(log))
    BY DEF CacheInv, CacheTyped
  <2>2. \A g \in Generations : sub[g].pos \in 0..Len(log)
    BY DEF CacheInv, CacheTyped, Subscription
  <2> QED
    BY <2>1, <2>2, Bounds DEF CacheInv, CacheTyped, CacheTypeOK, Items
<1>2. CacheIsReplay
  BY AppliedIsPosition DEF CacheIsReplay
<1> QED
  BY <1>1, <1>2

LEMMA CacheInvariant ==
  ASSUME Bounded PROVE CacheInit /\ [][CacheNext]_vars => []CacheInv
<1>1. CacheInit => CacheInv
  BY CacheInvInit
<1>2. CacheInv /\ [CacheNext]_vars => CacheInv'
  <2> SUFFICES ASSUME CacheInv, [CacheNext]_vars PROVE CacheInv'
    OBVIOUS
  <2>1. ASSUME NEW e \in Events, Write(e) PROVE CacheInv'
    <3>1. /\ <<e>> \in Seq(Events) /\ log' = log \o <<e>>
          /\ UNCHANGED <<up, connects, sub, queue, cacheVars, streamVars>>
      BY <2>1, WriteIsGrowth DEF CacheInv
    <3> QED
      BY <3>1, LogGrows
  <2>2. CASE CacheStep
    BY <2>2, CacheStepKeeps
  <2>3. CASE UNCHANGED vars
    BY <2>3 DEF CacheInv, CacheTyped, ReplayInv, vars, storeVars, cacheVars, streamVars
  <2> QED
    BY <2>1, <2>2, <2>3 DEF CacheNext
<1> QED
  BY <1>1, <1>2, PTL

\* The cache has its types, and work items name what exists, whatever the
\* streams, the events and the bounds.
THEOREM CacheTypeCorrect ==
  ASSUME Bounded PROVE CacheSpec => []CacheTypeOK
<1>1. CacheInv => CacheTypeOK
  BY CacheInvMeans
<1> QED
  BY <1>1, CacheInvariant, PTL DEF CacheSpec

\* However the connection goes up and down, and whatever of a replaced
\* subscription is still queued, the cache is the replay of exactly the events
\* that it has taken from the current one.
THEOREM CacheIsReplayed ==
  ASSUME Bounded PROVE CacheSpec => []CacheIsReplay
<1>1. CacheInv => CacheIsReplay
  BY CacheInvMeans
<1> QED
  BY <1>1, CacheInvariant, PTL DEF CacheSpec

-----------------------------------------------------------------------------
(* Streams.                                                                *)

\* Every event of the log is one that a writer may append.
Legal(trace) == \A n \in DOMAIN trace : CanFollow(SubSeq(trace, 1, n - 1), trace[n])

\* A state of the world replaces what a subscriber knows; an update makes of
\* the state of the world before an event the one after it, and when there is
\* none there is nothing to tell.
LoadReplaces == \A known, world : Load(known, world) = Load(EmptyView, world)

MergeTells(world, e) ==
  LET next   == UpdateStateOfTheWorld(world, e)
      update == MapSingleEvent(next, e)
      known  == IF update = {} THEN Load(EmptyView, world)
                ELSE Merge(Load(EmptyView, world), update)
  IN  known = Load(EmptyView, next)

Lawful ==
  /\ LoadReplaces
  /\ \A trace \in Seq(Events) : Legal(trace) =>
       \A n \in DOMAIN trace : MergeTells(Replay(trace, n - 1), trace[n])

LEMMA LegalAppend ==
  ASSUME NEW S, NEW trace \in Seq(S), NEW e \in S, Legal(trace), CanFollow(trace, e)
  PROVE  Legal(Append(trace, e))
<1> SUFFICES ASSUME NEW n \in 1..(Len(trace) + 1)
             PROVE  CanFollow(SubSeq(Append(trace, e), 1, n - 1), Append(trace, e)[n])
  BY DEF Legal
<1>1. CASE n = Len(trace) + 1
  <2>1. SubSeq(Append(trace, e), 1, n - 1) = trace /\ Append(trace, e)[n] = e
    BY <1>1
  <2> QED
    BY <2>1
<1>2. CASE n \in 1..Len(trace)
  <2>1. /\ SubSeq(Append(trace, e), 1, n - 1) = SubSeq(trace, 1, n - 1)
        /\ Append(trace, e)[n] = trace[n]
    BY <1>2
  <2>2. CanFollow(SubSeq(trace, 1, n - 1), trace[n])
    BY <1>2 DEF Legal
  <2> QED
    BY <2>1, <2>2
<1> QED
  BY <1>1, <1>2

LEMMA LegalNone == Legal(<<>>)
BY DEF Legal

LEMMA CacheStepKeepsLog == CacheStep => UNCHANGED log
BY DEF CacheStep, Connect, Disconnect, OnEvent, OnCaughtUp, GetOutputStream,
   RunLoop, RunConnected, RunDisconnected, RunStartSub, RunStopSub, RunEvent,
   RunCaughtUp, RunOpen, storeVars

Viewed == DOMAIN view = Streams

LEMMA ViewedStep ==
  ASSUME Viewed, CacheStep PROVE Viewed'
BY DEF Viewed, CacheStep, Connect, Disconnect, OnEvent, OnCaughtUp, GetOutputStream,
   RunLoop, RunConnected, RunDisconnected, RunStartSub, RunStopSub, RunEvent,
   RunCaughtUp, RunOpen, PublishTo, streamVars

\* Streams that are past their state of the world show what the cache holds.
LEMMA MirrorStep ==
  ASSUME Bounded, Lawful, CacheInv, Legal(log), Viewed, StreamsMirrorCache, CacheStep
  PROVE  StreamsMirrorCache'
<1> USE DEF CacheInv
<1>1. \A world, known : Load(known, world) = Load(EmptyView, world)
  BY DEF Lawful, LoadReplaces
<1>2. CASE Connect \/ Disconnect
  BY <1>2 DEF Connect, Disconnect, StreamsMirrorCache, cacheVars, streamVars
<1>3. ASSUME NEW g \in Generations, OnEvent(g) \/ OnCaughtUp(g) PROVE StreamsMirrorCache'
  BY <1>3 DEF OnEvent, OnCaughtUp, StreamsMirrorCache, cacheVars, streamVars
<1>4. ASSUME NEW s \in Streams, GetOutputStream(s) PROVE StreamsMirrorCache'
  BY <1>4 DEF GetOutputStream, StreamsMirrorCache, CacheTyped, cacheVars
<1>5. CASE RunConnected
  BY <1>5 DEF RunConnected, StreamsMirrorCache, Repeated, CacheTyped
<1>6. CASE RunDisconnected
  BY <1>6 DEF RunDisconnected, StreamsMirrorCache, Awaiting, CacheTyped
<1>7. CASE RunStartSub \/ RunStopSub
  BY <1>7 DEF RunStartSub, RunStopSub, StreamsMirrorCache, cacheVars, streamVars
<1>8. CASE RunCaughtUp
  BY <1>1, <1>8 DEF RunCaughtUp, PublishTo, StreamsMirrorCache, Awaiting, CacheTyped
<1>9. CASE RunOpen
  <2> DEFINE t == Head(queue).stream
             waits == ~published \/ isStale
  <2>1. /\ view' = [view EXCEPT ![t] = Load(@, IF published THEN sotw ELSE EmptySotw)]
        /\ phase' = [phase EXCEPT ![t] = IF waits THEN "sotw" ELSE "events"]
        /\ sotw' = sotw
    BY <1>9 DEF RunOpen, cacheVars
  <2> SUFFICES ASSUME NEW s \in Streams, phase'[s] = "events"
               PROVE  view'[s] = Load(EmptyView, sotw)
    BY <2>1 DEF StreamsMirrorCache
  <2>2. CASE s = t
    BY <1>1, <2>1, <2>2 DEF CacheTyped, Viewed
  <2>3. CASE s # t
    BY <2>1, <2>3 DEF CacheTyped, Viewed, StreamsMirrorCache
  <2> QED
    BY <2>2, <2>3
<1>10. CASE RunEvent
  <2>1. CASE ~IsObserved(Head(queue))
    BY <1>10, <2>1 DEF RunEvent, StreamsMirrorCache, streamVars
  <2>2. CASE IsObserved(Head(queue))
    <3> DEFINE e == log[Head(queue).pos]
               world == UpdateStateOfTheWorld(sotw, e)
               update == MapSingleEvent(world, e)
               sent == IF isCaughtUp THEN Awaiting ELSE {}
               told == IF update = {} THEN {} ELSE {s \in Streams : phase[s] = "events"}
    <3>1. /\ sotw' = world
          /\ view' = [s \in Streams |->
               IF s \in sent THEN Load(view[s], world)
               ELSE IF s \in told THEN Merge(view[s], update)
               ELSE view[s]]
          /\ phase' = [s \in Streams |->
               IF s \in sent /\ ~isStale THEN "events" ELSE phase[s]]
      BY <1>10, <2>2 DEF RunEvent
    <3>2. MergeTells(sotw, e)
      <4>1. /\ Head(queue).pos \in DOMAIN log
            /\ sotw = Replay(log, Head(queue).pos - 1)
        BY <1>10, <2>2, TakenIsNext
      <4> QED
        BY <4>1 DEF Lawful, CacheTyped
    <3>3. IF update = {} THEN Load(EmptyView, sotw) = Load(EmptyView, world)
          ELSE Merge(Load(EmptyView, sotw), update) = Load(EmptyView, world)
      BY <3>2 DEF MergeTells
    <3> HIDE DEF e, world, update
    <3> SUFFICES ASSUME NEW s \in Streams, phase'[s] = "events"
                 PROVE  view'[s] = Load(EmptyView, world)
      BY <3>1 DEF StreamsMirrorCache
    <3>4. CASE s \in sent
      BY <1>1, <3>1, <3>4
    <3>5. CASE s \notin sent
      <4>1. phase[s] = "events" /\ view[s] = Load(EmptyView, sotw)
        BY <3>1, <3>5 DEF StreamsMirrorCache
      <4> QED
        BY <3>1, <3>3, <3>5, <4>1
    <3> QED
      BY <3>4, <3>5
  <2> QED
    BY <2>1, <2>2
<1> QED
  BY <1>2, <1>3, <1>4, <1>5, <1>6, <1>7, <1>8, <1>9, <1>10 DEF CacheStep, RunLoop

LEMMA MirrorInvariant ==
  ASSUME Bounded, Lawful
  PROVE  CacheInit /\ [][CacheNext]_vars => []StreamsMirrorCache
<1> DEFINE Inv == Legal(log) /\ Viewed /\ StreamsMirrorCache
<1>1. CacheInit => Inv
  BY LegalNone DEF CacheInit, Viewed, StreamsMirrorCache
<1>2. Inv /\ CacheInv /\ [CacheNext]_vars => Inv'
  <2> SUFFICES ASSUME Inv, CacheInv, [CacheNext]_vars PROVE Inv'
    OBVIOUS
  <2>1. ASSUME NEW e \in Events, Write(e) PROVE Inv'
    <3>1. log \in Seq(Events)
      BY DEF CacheInv, CacheTyped
    <3>2. Legal(log')
      BY <2>1, <3>1, LegalAppend DEF Write
    <3>3. StreamsMirrorCache'
      BY <2>1 DEF Write, StreamsMirrorCache, cacheVars, streamVars
    <3>4. Viewed'
      BY <2>1 DEF Write, Viewed, streamVars
    <3> QED
      BY <3>2, <3>3, <3>4 DEF Legal
  <2>2. CASE CacheStep
    <3>1. log' = log
      BY <2>2, CacheStepKeepsLog
    <3> QED
      BY <2>2, <3>1, MirrorStep, ViewedStep DEF Legal
  <2>3. CASE UNCHANGED vars
    BY <2>3 DEF Legal, Viewed, StreamsMirrorCache, vars, storeVars, cacheVars, streamVars
  <2> QED
    BY <2>1, <2>2, <2>3 DEF CacheNext
<1> QED
  BY <1>1, <1>2, CacheInvariant, PTL

\* A stream that has had its state of the world misses no event and is told of
\* none twice: it shows what the cache holds, if an update tells a subscriber
\* what the event did to the state of the world.
THEOREM StreamsMirror ==
  ASSUME Bounded, Lawful PROVE CacheSpec => []StreamsMirrorCache
BY MirrorInvariant, PTL DEF CacheSpec
-----------------------------------------------------------------------------
(* The cache at rest.                                                      *)

\* The cache has come to the connection that is up.
Settled == up /\ current = connects

\* What is due is done or queued: a disconnection that was overtaken is undone
\* by the connection behind it, and a subscription that is up to date has made
\* the cache so, or will.
CacheDue ==
  /\ up => connects # 0 /\ Reconnected(queue)
  /\ isCaughtUp => published
  /\ \A g \in Generations : g > current => ~sub[g].caught
  /\ Settled /\ sub[current].caught =>
       (isCaughtUp /\ ~isStale) \/ Holds(queue, SubItem("caughtUp", current))

\* A stream that was asked for is opened; one that waits has something to wait
\* for; the others are stale only while the cache has a connection to come to.
StreamsDue ==
  /\ \A s \in Streams : phase[s] = "queued" => Holds(queue, OpenItem(s))
  /\ \A s \in Streams : phase[s] = "sotw" => isStale \/ ~published
  /\ Settled => \A s \in Streams : phase[s] = "events" => ~stale[s]

RestInv == CacheInv /\ CacheDue /\ StreamsDue

LEMMA Promised ==
  ASSUME CacheTyped, NEW x \in Items(current, Len(log)), Schedule(x)
  PROVE  /\ Holds(queue', x)
         /\ \A y : Holds(queue, y) => Holds(queue', y)
         /\ x.kind = "connected" => Reconnected(queue')
         /\ x.kind # "disconnected" /\ Reconnected(queue) => Reconnected(queue')
<1>1. queue \in Seq(Items(current, Len(log))) /\ queue' = Append(queue, x)
  BY DEF CacheTyped, Schedule
<1>2. Holds(queue', x) /\ \A y : Holds(queue, y) => Holds(queue', y)
  BY <1>1, HoldsAppend
<1>3. Reconnected(queue') <=>
        x.kind = "connected" \/ (x.kind # "disconnected" /\ Reconnected(queue))
  BY <1>1, ReconnectedAppend
<1> QED
  BY <1>2, <1>3

LEMMA StillPromised ==
  ASSUME CacheTyped, queue # <<>>, Dequeue
  PROVE  /\ \A y : Holds(queue, y) /\ y # Head(queue) => Holds(queue', y)
         /\ Reconnected(queue) => Reconnected(queue')
<1>1. queue \in Seq(Items(current, Len(log))) /\ queue' = Tail(queue)
  BY DEF CacheTyped, Dequeue
<1> QED
  BY <1>1, HoldsTail, ReconnectedTail

\* Once the cache has come to the connection, the queue has neither another
\* nor the end of one.
LEMMA SettledQueue ==
  ASSUME Bounded, CacheTyped, CacheDue, Settled
  PROVE  /\ current \in Generations
         /\ \A n \in DOMAIN queue : queue[n].kind \notin {"connected", "disconnected"}
<1>1. current \in Generations
  BY Bounds DEF Settled, CacheDue, Generations
<1>2. Count(queue, "connected") = 0
  BY Bounds DEF Settled, CacheTyped
<1>3. OfKind(queue, "connected") = {}
  <2>1. IsFiniteSet(OfKind(queue, "connected"))
    BY CountType DEF CacheTyped
  <2> QED
    BY <1>2, <2>1, FS_EmptySet DEF Count
<1>4. \A n \in DOMAIN queue : queue[n].kind # "connected"
  BY <1>3 DEF OfKind
<1>5. Reconnected(queue)
  BY DEF CacheDue, Settled
<1> QED
  BY <1>1, <1>4, <1>5 DEF Reconnected

LEMMA RestInit ==
  ASSUME CacheInit PROVE CacheDue /\ StreamsDue
BY DEF CacheInit, CacheDue, StreamsDue, Settled, Generations

\* Work that leaves the cache and the streams alone.
LEMMA DueScheduled ==
  ASSUME Bounded, RestInv, NEW x \in Items(current, Len(log)), Schedule(x),
         x.kind # "disconnected",
         UNCHANGED <<storeVars, cacheVars, view, stale>>,
         \A g \in Generations : sub'[g].caught =>
           \/ sub[g].caught
           \/ g <= current /\ x = SubItem("caughtUp", g),
         \A s \in Streams : phase'[s] = phase[s] \/ (phase'[s] = "queued" /\ x = OpenItem(s))
  PROVE  CacheDue' /\ StreamsDue'
<1> USE DEF RestInv, CacheInv
<1>1. /\ Holds(queue', x)
      /\ \A y : Holds(queue, y) => Holds(queue', y)
      /\ Reconnected(queue) => Reconnected(queue')
  BY Promised
<1>2. /\ UNCHANGED <<up, connects, current, isStale, isCaughtUp, published, stale>>
      /\ Settled' <=> Settled
  BY DEF storeVars, cacheVars, Settled
<1>3. Settled => current \in Generations
  BY SettledQueue
<1>4. \A g \in Generations : g > current => ~sub'[g].caught
  BY Bounds DEF CacheDue, Generations
<1>5. ASSUME Settled, sub'[current].caught
      PROVE  (isCaughtUp /\ ~isStale) \/ Holds(queue', SubItem("caughtUp", current))
  <2>1. CASE sub[current].caught
    BY <1>1, <1>5, <2>1 DEF CacheDue
  <2>2. CASE ~sub[current].caught
    BY <1>1, <1>3, <1>5, <2>2
  <2> QED
    BY <2>1, <2>2
<1>6. CacheDue'
  BY <1>1, <1>2, <1>4, <1>5 DEF CacheDue
<1>7. StreamsDue'
  BY <1>1, <1>2 DEF StreamsDue
<1> QED
  BY <1>6, <1>7

LEMMA DueSubscriptions ==
  ASSUME Bounded, RestInv, NEW g \in Generations, OnEvent(g) \/ OnCaughtUp(g)
  PROVE  CacheDue' /\ StreamsDue'
<1> USE DEF RestInv, CacheInv
<1>1. CASE OnEvent(g)
  <2>1. g \in 1..current /\ sub[g].pos + 1 \in 1..Len(log)
    BY <1>1, Bounds DEF OnEvent, CacheTyped, Subscription, Generations
  <2> DEFINE x == EventItem(g, sub[g].pos + 1)
  <2>2. x \in Items(current, Len(log)) /\ x.kind # "disconnected" /\ Schedule(x)
    BY <1>1, <2>1, KindsOfItems DEF OnEvent
  <2>3. \A h \in Generations : sub'[h].caught = sub[h].caught
    BY <1>1 DEF OnEvent, CacheTyped, Subscription
  <2> HIDE DEF x
  <2> QED
    BY <1>1, <2>2, <2>3, DueScheduled DEF OnEvent, streamVars
<1>2. CASE OnCaughtUp(g)
  <2>1. g \in 1..current /\ g <= current
    BY <1>2, Bounds DEF OnCaughtUp, CacheTyped, Generations
  <2> DEFINE x == SubItem("caughtUp", g)
  <2>2. x \in Items(current, Len(log)) /\ x.kind # "disconnected" /\ Schedule(x)
    BY <1>2, <2>1, KindsOfItems DEF OnCaughtUp
  <2>3. \A h \in Generations : sub'[h].caught => sub[h].caught \/ h = g
    BY <1>2 DEF OnCaughtUp, CacheTyped, Subscription
  <2>4. \A h \in Generations : sub'[h].caught =>
          sub[h].caught \/ (h <= current /\ x = SubItem("caughtUp", h))
    BY <2>1, <2>3
  <2> HIDE DEF x
  <2> QED
    BY <1>2, <2>2, <2>4, DueScheduled DEF OnCaughtUp, streamVars
<1> QED
  BY <1>1, <1>2

LEMMA DueAsked ==
  ASSUME Bounded, RestInv, NEW s \in Streams, GetOutputStream(s)
  PROVE  CacheDue' /\ StreamsDue'
<1> USE DEF RestInv, CacheInv
<1> DEFINE x == OpenItem(s)
<1>1. x \in Items(current, Len(log)) /\ x.kind # "disconnected" /\ Schedule(x)
  BY KindsOfItems DEF GetOutputStream
<1>2. \A t \in Streams :
        phase'[t] = phase[t] \/ (phase'[t] = "queued" /\ x = OpenItem(t))
  BY DEF GetOutputStream, CacheTyped
<1> HIDE DEF x
<1> QED
  BY <1>1, <1>2, DueScheduled DEF GetOutputStream

\* A new connection is one to come to; without one nothing is settled.
LEMMA DueConnection ==
  ASSUME Bounded, RestInv, Connect \/ Disconnect PROVE CacheDue' /\ StreamsDue'
<1> USE DEF RestInv, CacheInv
<1>1. UNCHANGED <<cacheVars, streamVars>>
  BY DEF Connect, Disconnect
<1>2. /\ \A y : Holds(queue, y) => Holds(queue', y)
      /\ up' => connects' # 0 /\ Reconnected(queue')
      /\ ~Settled'
  <2>1. CASE Connect
    <3>1. ConnectionItem("connected") \in Items(current, Len(log))
          /\ ConnectionItem("connected").kind = "connected"
          /\ Schedule(ConnectionItem("connected"))
      BY <2>1, KindsOfItems DEF Connect
    <3>2. current <= connects /\ connects' = connects + 1
      BY <2>1, Bounds DEF Connect
    <3>3. current' # connects' /\ connects' # 0
      BY <1>1, <3>2, Bounds DEF cacheVars
    <3> QED
      BY <3>1, <3>3, Promised DEF Settled
  <2>2. CASE Disconnect
    <3>1. ConnectionItem("disconnected") \in Items(current, Len(log))
          /\ Schedule(ConnectionItem("disconnected"))
      BY <2>2, KindsOfItems DEF Disconnect
    <3> QED
      BY <2>2, <3>1, Promised DEF Settled, Disconnect
  <2> QED
    BY <2>1, <2>2
<1>3. \A g \in Generations : sub'[g].caught => sub[g].caught
  <2>1. CASE Connect
    BY <2>1 DEF Connect, CacheTyped, Subscription
  <2>2. CASE Disconnect
    <3>1. PICK survivors \in SUBSET Generations :
            sub' = [g \in Generations |-> [sub[g] EXCEPT !.live = @ /\ g \in survivors]]
      BY <2>2 DEF Disconnect
    <3> QED
      BY <3>1 DEF CacheTyped, Subscription
  <2> QED
    BY <2>1, <2>2
<1>4. CacheDue'
  BY <1>1, <1>2, <1>3 DEF CacheDue, cacheVars
<1>5. StreamsDue'
  BY <1>1, <1>2 DEF StreamsDue, cacheVars, streamVars
<1> QED
  BY <1>4, <1>5

\* The new subscription is not up to date, and every stream is opened again.
LEMMA DueConnected ==
  ASSUME Bounded, RestInv, RunConnected PROVE CacheDue' /\ StreamsDue'
<1> USE DEF RestInv, CacheInv
<1>1. /\ Reconnected(queue) => Reconnected(queue')
      /\ \A s \in Repeated : Holds(queue', OpenItem(s))
      /\ queue' \in Seq(Items(current + 1, Len(log)))
      /\ Count(queue', "connected") + 1 = Count(queue, "connected")
  BY QueueOfConnected
<1>2. /\ UNCHANGED <<up, connects, sub, published>>
      /\ current' = current + 1 /\ isStale' = TRUE /\ isCaughtUp' = FALSE
      /\ phase' = [s \in Streams |-> IF s \in Repeated THEN "queued" ELSE phase[s]]
  BY DEF RunConnected, storeVars
<1>3. current + 1 \in Generations /\ current + 1 > current
  <2>1. Count(queue', "connected") \in Nat
    BY <1>1, CountType
  <2> QED
    BY <1>1, <2>1, Bounds DEF CacheTyped, Generations
<1>4. ~sub[current + 1].caught
  BY <1>3 DEF CacheDue
<1>5. \A g \in Generations : g > current + 1 => g > current
  BY Bounds DEF Generations
<1>6. CacheDue'
  BY <1>1, <1>2, <1>4, <1>5 DEF CacheDue
<1>7. \A s \in Streams : phase'[s] \in {"queued", "off"} /\ (phase'[s] = "queued" => s \in Repeated)
  BY <1>2 DEF Repeated
<1>8. StreamsDue'
  BY <1>1, <1>7 DEF StreamsDue
<1> QED
  BY <1>6, <1>8

\* Work of another kind than a connection, and no end of one once settled.
LEMMA DueDequeued ==
  ASSUME Bounded, RestInv, queue # <<>>, Dequeue, UNCHANGED <<storeVars, current>>,
         isCaughtUp' => published',
         \A g \in Generations : sub'[g].caught = sub[g].caught,
         Settled /\ ~(isCaughtUp' /\ ~isStale') =>
           Head(queue).kind # "caughtUp" /\ ~(isCaughtUp /\ ~isStale)
  PROVE  CacheDue'
<1> USE DEF RestInv, CacheInv
<1>1. /\ \A y : Holds(queue, y) /\ y # Head(queue) => Holds(queue', y)
      /\ Reconnected(queue) => Reconnected(queue')
  BY StillPromised
<1>2. UNCHANGED <<up, connects, current>> /\ (Settled' <=> Settled)
  BY DEF storeVars, Settled
<1>3. Settled => current \in Generations
  BY SettledQueue
<1>4. ASSUME Settled, sub'[current].caught
      PROVE  (isCaughtUp' /\ ~isStale') \/ Holds(queue', SubItem("caughtUp", current))
  <2>1. CASE ~(isCaughtUp' /\ ~isStale')
    <3>1. Head(queue).kind # "caughtUp" /\ ~(isCaughtUp /\ ~isStale)
      BY <1>4, <2>1
    <3>2. Holds(queue, SubItem("caughtUp", current))
      BY <1>3, <1>4, <3>1 DEF CacheDue
    <3>3. SubItem("caughtUp", current) # Head(queue)
      BY <3>1 DEF SubItem
    <3> QED
      BY <1>1, <3>2, <3>3
  <2> QED
    BY <2>1
<1> QED
  BY <1>1, <1>2, <1>4 DEF CacheDue

\* A stream that is still to be opened has not been.
LEMMA OpensKept ==
  ASSUME CacheTyped, StreamsDue, queue # <<>>, Dequeue, NEW s \in Streams,
         phase[s] = "queued", OpenItem(s) # Head(queue)
  PROVE  Holds(queue', OpenItem(s))
BY StillPromised DEF StreamsDue

LEMMA DueDisconnected ==
  ASSUME Bounded, RestInv, RunDisconnected PROVE CacheDue' /\ StreamsDue'
<1> USE DEF RestInv, CacheInv
<1>1. /\ queue # <<>> /\ Dequeue /\ Head(queue).kind = "disconnected"
      /\ UNCHANGED <<storeVars, sub, current, isCaughtUp, phase>>
      /\ isStale' = TRUE /\ published' = (published \/ ~isStale)
  BY DEF RunDisconnected, Next1
<1>2. ~Settled
  <2>1. 1 \in DOMAIN queue /\ queue[1] = Head(queue)
    BY <1>1 DEF CacheTyped
  <2> QED
    BY <1>1, <2>1, SettledQueue
<1>3. CacheDue'
  BY <1>1, <1>2, DueDequeued DEF CacheDue
<1>4. \A s \in Streams : OpenItem(s) # Head(queue)
  BY <1>1 DEF OpenItem
<1>5. ~Settled'
  BY <1>1, <1>2 DEF Settled, storeVars
<1>6. StreamsDue'
  BY <1>1, <1>4, <1>5, OpensKept DEF StreamsDue
<1> QED
  BY <1>3, <1>6

LEMMA DueSubscribing ==
  ASSUME Bounded, RestInv, RunStartSub \/ RunStopSub PROVE CacheDue' /\ StreamsDue'
<1> USE DEF RestInv, CacheInv
<1>1. /\ queue # <<>> /\ Dequeue /\ Head(queue).kind \in {"startSub", "stopSub"}
      /\ UNCHANGED <<storeVars, cacheVars, streamVars>>
  BY DEF RunStartSub, RunStopSub, Next1
<1>2. \A g \in Generations : sub'[g].caught = sub[g].caught
  <2>1. PICK live \in BOOLEAN : sub' = [sub EXCEPT ![Head(queue).gen].live = live]
    BY DEF RunStartSub, RunStopSub, CacheTyped
  <2> QED
    BY <2>1 DEF CacheTyped, Subscription
<1>3. CacheDue'
  BY <1>1, <1>2, DueDequeued DEF CacheDue, cacheVars
<1>4. \A s \in Streams : OpenItem(s) # Head(queue)
  BY <1>1 DEF OpenItem
<1>5. Settled' <=> Settled
  BY <1>1 DEF Settled, storeVars, cacheVars
<1>6. StreamsDue'
  BY <1>1, <1>4, <1>5, OpensKept DEF StreamsDue, cacheVars, streamVars
<1> QED
  BY <1>3, <1>6

LEMMA DueCaughtUp ==
  ASSUME Bounded, RestInv, RunCaughtUp PROVE CacheDue' /\ StreamsDue'
<1> USE DEF RestInv, CacheInv
<1>1. /\ queue # <<>> /\ Dequeue /\ Head(queue).kind = "caughtUp"
      /\ UNCHANGED <<storeVars, sub, current, sotw>>
      /\ isCaughtUp' = TRUE /\ isStale' = FALSE /\ published' = TRUE
      /\ stale' = [s \in Streams |-> IF s \in Awaiting THEN FALSE ELSE stale[s]]
      /\ phase' = [s \in Streams |->
           IF s \in Awaiting THEN "events" ELSE phase[s]]
  BY DEF RunCaughtUp, Next1, PublishTo
<1>2. CacheDue'
  BY <1>1, DueDequeued
<1>3. \A s \in Streams : OpenItem(s) # Head(queue)
  BY <1>1 DEF OpenItem
<1>4. Settled' <=> Settled
  BY <1>1 DEF Settled, storeVars
<1>5. \A s \in Streams : /\ phase'[s] # "sotw"
                         /\ phase'[s] = "queued" => phase[s] = "queued"
                         /\ phase'[s] = "events" => phase[s] = "events" \/ ~stale'[s]
                         /\ stale'[s] => stale[s]
  BY <1>1 DEF Awaiting, CacheTyped
<1>6. StreamsDue'
  BY <1>1, <1>3, <1>4, <1>5, OpensKept DEF StreamsDue
<1> QED
  BY <1>2, <1>6

LEMMA DueOpened ==
  ASSUME Bounded, RestInv, RunOpen PROVE CacheDue' /\ StreamsDue'
<1> USE DEF RestInv, CacheInv
<1> DEFINE t == Head(queue).stream
           isStaleNow == ~published \/ isStale
<1>1. /\ queue # <<>> /\ Dequeue /\ Head(queue).kind = "open"
      /\ UNCHANGED <<storeVars, sub, cacheVars>>
      /\ stale' = [stale EXCEPT ![t] = isStaleNow]
      /\ phase' = [phase EXCEPT ![t] = IF isStaleNow THEN "sotw" ELSE "events"]
  BY DEF RunOpen, Next1
<1>2. CacheDue'
  BY <1>1, DueDequeued DEF CacheDue, cacheVars
<1>3. Settled' <=> Settled
  BY <1>1 DEF Settled, storeVars, cacheVars
<1>4. \A s \in Streams : s # t => OpenItem(s) # Head(queue)
  BY DEF OpenItem
<1>5. ASSUME NEW s \in Streams
      PROVE  /\ phase'[s] = "queued" => Holds(queue', OpenItem(s))
             /\ phase'[s] = "sotw" => isStale' \/ ~published'
             /\ Settled' /\ phase'[s] = "events" => ~stale'[s]
  <2>1. CASE s = t
    BY <1>1, <2>1 DEF CacheTyped, cacheVars
  <2>2. CASE s # t
    <3>1. phase'[s] = phase[s] /\ stale'[s] = stale[s]
      BY <1>1, <2>2 DEF CacheTyped
    <3> QED
      BY <1>1, <1>3, <1>4, <2>2, <3>1, OpensKept DEF StreamsDue, cacheVars
  <2> QED
    BY <2>1, <2>2
<1> QED
  BY <1>2, <1>5 DEF StreamsDue

LEMMA DueEvent ==
  ASSUME Bounded, RestInv, RunEvent PROVE CacheDue' /\ StreamsDue'
<1> USE DEF RestInv, CacheInv
<1>1. /\ queue # <<>> /\ Dequeue /\ Head(queue).kind = "event"
      /\ UNCHANGED <<storeVars, sub, current, isStale, isCaughtUp>>
  BY DEF RunEvent, Next1
<1>2. /\ published => published'
      /\ published' => published \/ isCaughtUp
      /\ \A s \in Streams :
           /\ phase'[s] = "queued" => phase[s] = "queued"
           /\ phase'[s] = "sotw" =>
                phase[s] = "sotw" /\ (isStale \/ published' = published)
           /\ phase'[s] = "events" =>
                (phase[s] = "events" /\ (stale'[s] => stale[s])) \/ ~stale'[s]
  <2>1. CASE ~IsObserved(Head(queue))
    BY <2>1 DEF RunEvent, streamVars
  <2>2. CASE IsObserved(Head(queue))
    <3> DEFINE world == UpdateStateOfTheWorld(sotw, log[Head(queue).pos])
               sent == IF isCaughtUp THEN Awaiting ELSE {}
               told == IF MapSingleEvent(world, log[Head(queue).pos]) = {} THEN {}
                       ELSE {s \in Streams : phase[s] = "events"}
    <3>1. /\ published' = (published \/ isCaughtUp)
          /\ stale' = [s \in Streams |->
               IF s \in sent THEN isStale ELSE s \notin told /\ stale[s]]
          /\ phase' = [s \in Streams |->
               IF s \in sent /\ ~isStale THEN "events" ELSE phase[s]]
      BY <2>2 DEF RunEvent
    <3> HIDE DEF told
    <3>2. \A s \in Streams : s \in sent <=> isCaughtUp /\ phase[s] = "sotw"
      BY DEF Awaiting
    <3> HIDE DEF sent
    <3>3. ASSUME NEW s \in Streams
          PROVE  /\ phase'[s] = "queued" => phase[s] = "queued"
                 /\ phase'[s] = "sotw" =>
                      phase[s] = "sotw" /\ (isStale \/ published' = published)
                 /\ phase'[s] = "events" =>
                      (phase[s] = "events" /\ (stale'[s] => stale[s])) \/ ~stale'[s]
      BY <3>1, <3>2 DEF CacheTyped
    <3> QED
      BY <3>1, <3>3
  <2> QED
    BY <2>1, <2>2
<1>3. CacheDue'
  BY <1>1, <1>2, DueDequeued DEF CacheDue
<1>4. \A s \in Streams : OpenItem(s) # Head(queue)
  BY <1>1 DEF OpenItem
<1>5. Settled' <=> Settled
  BY <1>1 DEF Settled, storeVars
<1>6. StreamsDue'
  BY <1>1, <1>2, <1>4, <1>5, OpensKept DEF StreamsDue
<1> QED
  BY <1>3, <1>6

LEMMA RestStep ==
  ASSUME Bounded, RestInv, CacheStep PROVE RestInv'
<1>1. CacheInv'
  BY CacheStepKeeps DEF RestInv
<1>2. CacheDue' /\ StreamsDue'
  <2>1. CASE Connect \/ Disconnect
    BY <2>1, DueConnection
  <2>2. ASSUME NEW g \in Generations, OnEvent(g) \/ OnCaughtUp(g)
        PROVE  CacheDue' /\ StreamsDue'
    BY <2>2, DueSubscriptions
  <2>3. ASSUME NEW s \in Streams, GetOutputStream(s) PROVE CacheDue' /\ StreamsDue'
    BY <2>3, DueAsked
  <2>4. CASE RunLoop
    BY <2>4, DueConnected, DueDisconnected, DueSubscribing, DueEvent, DueCaughtUp,
       DueOpened DEF RunLoop
  <2> QED
    BY <2>1, <2>2, <2>3, <2>4 DEF CacheStep
<1> QED
  BY <1>1, <1>2 DEF RestInv

LEMMA RestGrows ==
  ASSUME Bounded, RestInv, NEW more \in Seq(Events), log' = log \o more,
         UNCHANGED <<up, connects, sub, queue, cacheVars, streamVars>>
  PROVE  RestInv'
<1>1. CacheInv'
  BY LogGrows DEF RestInv
<1> QED
  BY <1>1 DEF RestInv, CacheDue, StreamsDue, Settled, cacheVars, streamVars

LEMMA RestInvariant ==
  ASSUME Bounded PROVE CacheInit /\ [][CacheNext]_vars => []RestInv
<1>1. CacheInit => RestInv
  BY CacheInvInit, RestInit DEF RestInv
<1>2. RestInv /\ [CacheNext]_vars => RestInv'
  <2> SUFFICES ASSUME RestInv, [CacheNext]_vars PROVE RestInv'
    OBVIOUS
  <2>1. ASSUME NEW e \in Events, Write(e) PROVE RestInv'
    <3>1. /\ <<e>> \in Seq(Events) /\ log' = log \o <<e>>
          /\ UNCHANGED <<up, connects, sub, queue, cacheVars, streamVars>>
      BY <2>1, WriteIsGrowth DEF RestInv, CacheInv
    <3> QED
      BY <3>1, RestGrows
  <2>2. CASE UNCHANGED vars
    BY <2>2 DEF RestInv, CacheInv, CacheTyped, ReplayInv, CacheDue, StreamsDue,
       Settled, vars, storeVars, cacheVars, streamVars
  <2> QED
    BY <2>1, <2>2, RestStep DEF CacheNext
<1> QED
  BY <1>1, <1>2, PTL

\* The connection is up, its subscription has delivered the whole log and said
\* so, and the loop has nothing left to do.
AtRest == up /\ queue = <<>> /\ sub[current].caught /\ sub[current].pos = Len(log)

\* Every stream that was asked for has had a state of the world that is not
\* stale, and shows the whole log.
ShowsTheLog ==
  \A s \in Streams : phase[s] # "off" =>
    /\ phase[s] = "events" /\ ~stale[s]
    /\ view[s] = Load(EmptyView, Replay(log, Len(log)))

LEMMA RestShows ==
  ASSUME Bounded, RestInv, StreamsMirrorCache, AtRest
  PROVE  ShowsTheLog /\ Applied = Len(log)
<1> USE DEF RestInv, CacheInv, AtRest
<1>1. \A x : ~Holds(queue, x)
  BY DEF Holds
<1>2. Settled
  <2>1. OfKind(queue, "connected") = {}
    BY DEF OfKind
  <2>2. Count(queue, "connected") = 0
    BY <2>1, FS_EmptySet DEF Count
  <2> QED
    BY <2>2, Bounds DEF Settled, CacheTyped
<1>3. isCaughtUp /\ ~isStale /\ published
  BY <1>1, <1>2 DEF CacheDue
<1>4. \A s \in Streams : phase[s] \in {"off", "events"}
  BY <1>1, <1>3 DEF StreamsDue, CacheTyped
<1>5. Applied = Len(log) /\ sotw = Replay(log, Applied)
  <2>1. current # 0 /\ sub[current].pos \in Nat
    BY <1>2, SettledQueue DEF Generations, CacheTyped, Subscription
  <2>2. QueuedEvents(current) = {}
    BY DEF QueuedEvents
  <2>3. Cardinality(QueuedEvents(current)) = 0
    BY <2>2, FS_EmptySet
  <2>4. Applied = Len(log)
    BY <2>1, <2>3 DEF Applied
  <2> QED
    BY <2>4, AppliedIsPosition
<1>6. \A s \in Streams : phase[s] = "events" =>
        ~stale[s] /\ view[s] = Load(EmptyView, sotw)
  BY <1>2 DEF StreamsDue, StreamsMirrorCache
<1> QED
  BY <1>4, <1>5, <1>6 DEF ShowsTheLog

\* Whatever connections, disconnections and late callbacks came before, and in
\* whatever order the loop was given them: when it has nothing left to do and
\* the Event Store has told all it has, no stream is left waiting, marked stale
\* or showing less than the log.
THEOREM RestingStreamsShowLog ==
  ASSUME Bounded, Lawful PROVE CacheSpec => [](AtRest => ShowsTheLog)
<1>1. RestInv /\ StreamsMirrorCache => (AtRest => ShowsTheLog)
  BY RestShows
<1> QED
  BY <1>1, RestInvariant, MirrorInvariant, PTL DEF CacheSpec
=============================================================================
