---------------------------- MODULE DockingProofs ----------------------------
(***************************************************************************)
(* For any popouts, sizes and monitor, any points to drag to, any number    *)
(* of windows, acts and restarts: the docking of windows.                  *)
(***************************************************************************)
EXTENDS Docking, FiniteSetTheorems, NaturalsInduction, WellFoundedInduction, TLAPS

-----------------------------------------------------------------------------
(* What the invariant says of a state of the desktop.                      *)

Window ==
  [name : Names, phase : {"open", "closing", "closed"}, waits : BOOLEAN,
   x : Int, y : Int, range : {40, 50}]

Messages == {"load", "undock", "docked", "undocked"} \X Names

Desk ==
  [win : Seq(Window), groups : SUBSET Seq(Nat), bus : Seq(Messages),
   storage : [Names -> Names \cup {NoName}]]

Once(g) == \A i, j \in DOMAIN g : g[i] = g[j] => i = j

\* Groups are of windows, each of them in one group, once.
Disjoint(s) ==
  /\ \A g \in s.groups : g \in Seq(DOMAIN s.win) /\ g # <<>> /\ Once(g)
  /\ \A g, h \in s.groups : Range(g) \cap Range(h) # {} => g = h

\* A name is opened again when the window that had it is closed.
LastOfName(s) ==
  \A v, w \in DOMAIN s.win :
    v < w /\ s.win[v].name = s.win[w].name => s.win[v].phase = "closed"

\* Messages are about windows there have been.
Known(s) ==
  \A k \in DOMAIN s.bus : \E w \in DOMAIN s.win : s.win[w].name = s.bus[k][2]

Sane(s) == s \in Desk /\ Disjoint(s) /\ LastOfName(s) /\ Known(s)

In(s, w) == \E g \in s.groups : w \in Range(g)

Docks(s, n) == \E w \in DOMAIN s.win : s.win[w].name = n /\ In(s, w)

HasPopout(s, n) ==
  \E w \in DOMAIN s.win : s.win[w].name = n /\ s.win[w].phase = "open"

Living(s) == \A w \in DOMAIN s.win : In(s, w) => s.win[w].phase # "closed"

\* A window alone in its group has docked to itself.
Paired(s) ==
  \A g \in s.groups : Len(g) = 1 => s.storage[s.win[g[1]].name] = s.win[g[1]].name

Apart(s) ==
  \A g \in s.groups : \A i, j \in DOMAIN g :
    i < j /\ j >= 3 => ~intersact(s.win[g[i]], s.win[g[j]])

Remembered(s) == \A n \in Names : s.storage[n] # NoName => Docks(s, n)

\* Whether the bus will say something of the docking of a name, and what it
\* says last.
IsAbout(m, n) == m[2] = n /\ m[1] # "load"

Silent(b, n) == \A k \in DOMAIN b : ~IsAbout(b[k], n)

LastIs(b, n, kind) ==
  \E k \in DOMAIN b : /\ b[k] = <<kind, n>>
                      /\ \A j \in DOMAIN b : j > k => ~IsAbout(b[j], n)

\* The marks are right or the bus will set them right.
ToldOf(s, marks, n) ==
  /\ Silent(s.bus, n) /\ HasPopout(s, n) => (n \in marks <=> Docks(s, n))
  /\ LastIs(s.bus, n, "docked") => Docks(s, n)
  /\ LastIs(s.bus, n, "undocked") => ~Docks(s, n)

Told(s, marks) == \A n \in Names : ToldOf(s, marks, n)

Healthy(s, marks) == Paired(s) /\ Apart(s) /\ Told(s, marks)

-----------------------------------------------------------------------------
(* A group without one of its members.                                     *)

LEMMA WithoutIs ==
  ASSUME NEW S, NEW g \in Seq(S), Once(g), NEW w \in Range(g)
  PROVE  LET h == Without(g, w) IN
         /\ h \in Seq(S) /\ Len(h) = Len(g) - 1
         /\ Range(h) = Range(g) \ {w}
         /\ Once(h)
         /\ \A i, j \in DOMAIN h : i < j /\ j >= 3 =>
              \E k, l \in DOMAIN g : k < l /\ l >= 3 /\ h[i] = g[k] /\ h[j] = g[l]
<1> DEFINE p == CHOOSE n \in DOMAIN g : g[n] = w
           h == Without(g, w)
<1>1. p \in 1..Len(g) /\ g[p] = w
  BY DEF Range
<1> DEFINE a == SubSeq(g, 1, p - 1)
           b == SubSeq(g, p + 1, Len(g))
<1>2. h = a \o b
  BY DEF Without, RemoveAt
<1> HIDE DEF p, h
<1>3. /\ a \in Seq(S) /\ Len(a) = p - 1 /\ b \in Seq(S) /\ Len(b) = Len(g) - p
      /\ \A i \in 1..(p - 1) : a[i] = g[i]
      /\ \A i \in 1..(Len(g) - p) : b[i] = g[p + i]
  BY <1>1
<1> HIDE DEF a, b
<1>4. h \in Seq(S) /\ Len(h) = Len(g) - 1
  <2>1. a \in Seq(S) /\ b \in Seq(S)
    BY <1>3
  <2>2. a \o b \in Seq(S) /\ Len(a \o b) = Len(a) + Len(b)
    BY <2>1
  <2> QED
    BY <1>1, <1>2, <1>3, <2>2
<1>5. \A i \in 1..Len(h) : h[i] = IF i < p THEN g[i] ELSE g[i + 1]
  <2>1. \A i \in 1..(Len(a) + Len(b)) : h[i] = IF i <= Len(a) THEN a[i] ELSE b[i - Len(a)]
    BY <1>2, <1>3
  <2> TAKE i \in 1..Len(h)
  <2>2. CASE i < p
    <3>1. i \in 1..(p - 1) /\ i <= Len(a) /\ i \in 1..(Len(a) + Len(b))
      BY <1>1, <1>3, <1>4, <2>2
    <3> QED
      BY <1>3, <2>1, <2>2, <3>1
  <2>3. CASE i >= p
    <3>1. /\ i - Len(a) \in 1..(Len(g) - p) /\ p + (i - Len(a)) = i + 1
          /\ ~(i <= Len(a)) /\ i \in 1..(Len(a) + Len(b)) /\ ~(i < p)
      BY <1>1, <1>3, <1>4, <2>3
    <3>2. h[i] = b[i - Len(a)]
      BY <2>1, <3>1
    <3>3. b[i - Len(a)] = g[p + (i - Len(a))]
      BY <1>3, <3>1
    <3> QED
      BY <3>1, <3>2, <3>3
  <2> QED
    BY <1>1, <2>2, <2>3
<1>6. DOMAIN h = 1..Len(h) /\ DOMAIN g = 1..Len(g)
  BY <1>4
<1>7. Range(h) = Range(g) \ {w}
  <2>1. ASSUME NEW i \in DOMAIN h PROVE h[i] \in Range(g) \ {w}
    <3>1. (i < p => i \in DOMAIN g /\ i # p) /\ (i >= p => i + 1 \in DOMAIN g /\ i + 1 # p)
      BY <1>1, <1>4, <1>6
    <3> QED
      BY <1>1, <1>5, <1>6, <3>1 DEF Range, Once
  <2>2. ASSUME NEW i \in DOMAIN g, g[i] # w PROVE g[i] \in Range(h)
    <3>1. CASE i < p
      <4>1. i \in DOMAIN h
        BY <1>1, <1>4, <1>6, <3>1
      <4> QED
        BY <1>5, <1>6, <3>1, <4>1 DEF Range
    <3>2. CASE i > p
      <4>1. i - 1 \in DOMAIN h /\ ~(i - 1 < p) /\ (i - 1) + 1 = i
        BY <1>1, <1>4, <1>6, <3>2
      <4> QED
        BY <1>5, <1>6, <4>1 DEF Range
    <3> QED
      BY <1>1, <1>6, <2>2, <3>1, <3>2
  <2> QED
    BY <2>1, <2>2 DEF Range
<1>8. \A i \in DOMAIN h : \E k \in DOMAIN g :
        h[i] = g[k] /\ k = IF i < p THEN i ELSE i + 1
  BY <1>1, <1>4, <1>5, <1>6
<1>9. Once(h)
  BY <1>1, <1>4, <1>6, <1>8 DEF Once
<1>10. ASSUME NEW i \in DOMAIN h, NEW j \in DOMAIN h, i < j, j >= 3
       PROVE  \E k, l \in DOMAIN g : k < l /\ l >= 3 /\ h[i] = g[k] /\ h[j] = g[l]
  BY <1>1, <1>4, <1>6, <1>8, <1>10
<1> QED
  BY <1>4, <1>7, <1>9, <1>10 DEF h

-----------------------------------------------------------------------------
(* Joining.                                                                *)

LEMMA WindowIs ==
  ASSUME NEW s, Sane(s), NEW w \in DOMAIN s.win
  PROVE  s.win[w] \in Window /\ w \in Nat
BY DEF Sane, Desk

\* What a window that joins another does; the new group is either the pair,
\* or the group of the other with one more member, apart from all in it.
Joins(s, t, w, v) ==
  /\ ~In(s, w)
  /\ t.win = s.win
  /\ t.bus = s.bus \o << <<"docked", s.win[w].name>>, <<"docked", s.win[v].name>> >>
  /\ t.storage = [s.storage EXCEPT ![s.win[w].name] = s.win[v].name]
  /\ \/ /\ ~In(s, v)
        /\ t.groups = s.groups \cup {IF v = w THEN <<w>> ELSE <<v, w>>}
     \/ \E g \in s.groups :
          /\ v \in Range(g) /\ \A m \in Range(g) : ~intersact(s.win[w], s.win[m])
          /\ t.groups = (s.groups \ {g}) \cup {Append(g, w)}

LEMMA JoinsWindows ==
  ASSUME NEW s, NEW t, NEW w, NEW v, Joins(s, t, w, v)
  PROVE  t.win = s.win /\ ~In(s, w)
BY DEF Joins

LEMMA JoinIs ==
  ASSUME NEW s, Sane(s), NEW w \in DOMAIN s.win, NEW v \in DOMAIN s.win
  PROVE  Join(s, w, v) = s \/ (Join(s, w, v) \in Desk /\ Joins(s, Join(s, w, v), w, v))
<1> DEFINE g == {h \in s.groups : v \in Range(h)}
           a == s.win[w].name
           b == s.win[v].name
           G == (s.groups \ g) \cup (IF g # {} THEN {Append(h, w) : h \in g}
                                     ELSE {IF v = w THEN <<w>> ELSE <<v, w>>})
           B == s.bus \o << <<"docked", a>>, <<"docked", b>> >>
           T == [s.storage EXCEPT ![a] = b]
           t == [win |-> s.win, groups |-> G, bus |-> B, storage |-> T]
<1>1. s = [win |-> s.win, groups |-> s.groups, bus |-> s.bus, storage |-> s.storage]
  BY DEF Sane, Desk
<1>2. Join(s, w, v) = s \/ (Join(s, w, v) = t /\ ~In(s, w)
        /\ \A h \in g : \A m \in Range(h) : ~intersact(s.win[w], s.win[m]))
  BY <1>1, Zenon DEF Join, JoinOverlapping, In
<1>3. a \in Names /\ b \in Names
  <2>1. s.win[w] \in Window /\ s.win[v] \in Window
    BY WindowIs
  <2> QED
    BY <2>1 DEF Window
<1>4. T \in [Names -> Names \cup {NoName}]
  BY <1>3 DEF Sane, Desk
<1>5. B \in Seq(Messages)
  <2>1. << <<"docked", a>>, <<"docked", b>> >> \in Seq(Messages)
    BY <1>3 DEF Messages
  <2> QED
    BY <2>1 DEF Sane, Desk
<1>6. G \subseteq Seq(Nat)
  <2>1. s.groups \subseteq Seq(Nat) /\ w \in Nat /\ v \in Nat
    BY DEF Sane, Desk
  <2>2. <<w>> \in Seq(Nat) /\ <<v, w>> \in Seq(Nat)
        /\ \A h \in Seq(Nat) : Append(h, w) \in Seq(Nat)
    BY <2>1
  <2> QED
    BY <2>1, <2>2
<1>7. t \in Desk
  BY <1>4, <1>5, <1>6 DEF Desk, Sane
<1>8. \/ g = {} /\ ~In(s, v)
      \/ \E h \in s.groups : v \in Range(h) /\ g = {h}
  <2>1. \A h, k \in g : h = k
    BY DEF Sane, Disjoint
  <2> QED
    BY <2>1 DEF In
<1>9. ASSUME Join(s, w, v) # s PROVE Joins(s, t, w, v)
  <2>1. CASE g = {} /\ ~In(s, v)
    BY <1>2, <1>9, <2>1 DEF Joins
  <2>2. CASE \E h \in s.groups : v \in Range(h) /\ g = {h}
    <3>1. PICK h \in s.groups : v \in Range(h) /\ g = {h}
      BY <2>2
    <3>2. G = (s.groups \ {h}) \cup {Append(h, w)}
      BY <3>1
    <3>3. \A m \in Range(h) : ~intersact(s.win[w], s.win[m])
      BY <1>2, <1>9, <3>1
    <3> HIDE DEF G, B, T, g
    <3> QED
      BY <1>2, <1>9, <3>1, <3>2, <3>3 DEF Joins, T, B
  <2> QED
    BY <1>8, <2>1, <2>2
<1> QED
  BY <1>2, <1>7, <1>9

LEMMA AppendIs ==
  ASSUME NEW S, NEW g \in Seq(S), NEW w \in S, Once(g), w \notin Range(g)
  PROVE  /\ Append(g, w) \in Seq(S) /\ Append(g, w) # <<>> /\ Once(Append(g, w))
         /\ Range(Append(g, w)) = Range(g) \cup {w}
         /\ DOMAIN Append(g, w) = 1..(Len(g) + 1)
         /\ Append(g, w)[Len(g) + 1] = w
         /\ \A i \in 1..Len(g) : Append(g, w)[i] = g[i]
<1> DEFINE h == Append(g, w)
<1>1. /\ h \in Seq(S) /\ DOMAIN h = 1..(Len(g) + 1) /\ h[Len(g) + 1] = w
      /\ \A i \in 1..Len(g) : h[i] = g[i]
      /\ DOMAIN g = 1..Len(g) /\ Len(g) \in Nat
  OBVIOUS
<1> HIDE DEF h
<1>2. h # <<>>
  <2>1. 1 \in DOMAIN h /\ DOMAIN <<>> = {}
    BY <1>1
  <2> QED
    BY <2>1
<1>3. \A i \in DOMAIN h : i = Len(g) + 1 \/ i \in 1..Len(g)
  BY <1>1
<1>4. \A i \in 1..Len(g) : i \in DOMAIN h /\ h[i] # w
  BY <1>1 DEF Range
<1>5. Once(h)
  BY <1>1, <1>3, <1>4 DEF Once
<1>6. Range(h) = Range(g) \cup {w}
  BY <1>1, <1>3, <1>4 DEF Range
<1> QED
  BY <1>1, <1>2, <1>5, <1>6 DEF h

LEMMA PairIs ==
  ASSUME NEW S, NEW v \in S, NEW w \in S,
         NEW g, g = IF v = w THEN <<w>> ELSE <<v, w>>
  PROVE  /\ g \in Seq(S) /\ g # <<>> /\ Once(g) /\ Range(g) = {v, w}
         /\ Len(g) \in {1, 2} /\ (Len(g) = 1 => v = w /\ g[1] = w)
<1>1. CASE v = w
  BY <1>1 DEF Once, Range
<1>2. CASE v # w
  <2> DEFINE h == <<v, w>>
  <2>1. h \in Seq(S) /\ h # <<>> /\ DOMAIN h = {1, 2} /\ h[1] = v /\ h[2] = w /\ Len(h) = 2
    OBVIOUS
  <2> HIDE DEF h
  <2>2. Once(h) /\ Range(h) = {v, w}
    BY <1>2, <2>1 DEF Once, Range
  <2> QED
    BY <1>2, <2>1, <2>2 DEF h
<1> QED
  BY <1>1, <1>2

\* The groups after it hold what they held, and the two.
LEMMA JoinedGroups ==
  ASSUME NEW s, NEW t \in Desk, Sane(s), NEW w \in DOMAIN s.win, NEW v \in DOMAIN s.win,
         Joins(s, t, w, v)
  PROVE  Disjoint(t) /\ \A x : In(t, x) <=> In(s, x) \/ x \in {w, v}
<1>1. \A g \in s.groups : g \in Seq(DOMAIN s.win) /\ g # <<>> /\ Once(g) /\ w \notin Range(g)
  BY DEF Sane, Disjoint, Joins, In
<1>2. t.win = s.win
  BY DEF Joins
<1>3. CASE \E g \in s.groups : v \in Range(g) /\ t.groups = (s.groups \ {g}) \cup {Append(g, w)}
  <2>1. PICK g \in s.groups : v \in Range(g) /\ t.groups = (s.groups \ {g}) \cup {Append(g, w)}
    BY <1>3
  <2> DEFINE h == Append(g, w)
  <2>2. h \in Seq(DOMAIN s.win) /\ h # <<>> /\ Once(h) /\ Range(h) = Range(g) \cup {w}
    BY <1>1, AppendIs
  <2> HIDE DEF h
  <2>3. \A k \in t.groups : k = h \/ (k \in s.groups /\ k # g)
    BY <2>1 DEF h
  <2>4. \A k \in t.groups : k \in Seq(DOMAIN t.win) /\ k # <<>> /\ Once(k)
    BY <1>1, <1>2, <2>2, <2>3
  <2>5. \A k \in s.groups : Range(k) \cap Range(g) # {} => k = g
    BY DEF Sane, Disjoint
  <2>6. \A k, l \in t.groups : Range(k) \cap Range(l) # {} => k = l
    BY <1>1, <2>2, <2>3, <2>5 DEF Sane, Disjoint
  <2>7. Disjoint(t)
    BY <2>4, <2>6 DEF Disjoint
  <2>8. \A x : In(t, x) <=> In(s, x) \/ x \in {w, v}
    BY <2>1, <2>2, <2>3 DEF In, h
  <2> QED
    BY <2>7, <2>8
<1>4. CASE ~In(s, v) /\ t.groups = s.groups \cup {IF v = w THEN <<w>> ELSE <<v, w>>}
  <2> DEFINE h == IF v = w THEN <<w>> ELSE <<v, w>>
  <2>2. h \in Seq(DOMAIN s.win) /\ h # <<>> /\ Once(h) /\ Range(h) = {v, w}
    BY PairIs
  <2>3. t.groups = s.groups \cup {h}
    BY <1>4
  <2> HIDE DEF h
  <2>4. \A k \in t.groups : k \in Seq(DOMAIN t.win) /\ k # <<>> /\ Once(k)
    BY <1>1, <1>2, <2>2, <2>3
  <2>5. \A k \in s.groups : Range(k) \cap Range(h) = {}
    BY <1>1, <1>4, <2>2 DEF In
  <2>6. \A k, l \in t.groups : Range(k) \cap Range(l) # {} => k = l
    BY <2>3, <2>5 DEF Sane, Disjoint
  <2>7. Disjoint(t)
    BY <2>4, <2>6 DEF Disjoint
  <2>8. \A x : In(t, x) <=> In(s, x) \/ x \in {w, v}
    BY <2>2, <2>3 DEF In
  <2> QED
    BY <2>7, <2>8
<1> QED
  BY <1>3, <1>4 DEF Joins

-----------------------------------------------------------------------------
(* What the bus says.                                                      *)

LEMMA SayOne ==
  ASSUME NEW b \in Seq(Messages), NEW x \in Messages, NEW n
  PROVE  /\ Silent(Append(b, x), n) <=> Silent(b, n) /\ ~IsAbout(x, n)
         /\ \A kind : LastIs(Append(b, x), n, kind) =>
              x = <<kind, n>> \/ (LastIs(b, n, kind) /\ ~IsAbout(x, n))
<1> DEFINE c == Append(b, x)
<1>1. /\ DOMAIN c = 1..(Len(b) + 1) /\ DOMAIN b = 1..Len(b) /\ Len(b) \in Nat
      /\ c[Len(b) + 1] = x /\ \A i \in 1..Len(b) : c[i] = b[i]
  OBVIOUS
<1> HIDE DEF c
<1>2. \A i \in DOMAIN c : i = Len(b) + 1 \/ i \in DOMAIN b
  BY <1>1
<1>3. \A i \in DOMAIN b : i \in DOMAIN c /\ Len(b) + 1 > i
  BY <1>1
<1>4. Silent(c, n) <=> Silent(b, n) /\ ~IsAbout(x, n)
  <2>1. Len(b) + 1 \in DOMAIN c
    BY <1>1
  <2> QED
    BY <1>1, <1>2, <1>3, <2>1 DEF Silent
<1>5. ASSUME NEW kind, LastIs(c, n, kind)
      PROVE  x = <<kind, n>> \/ (LastIs(b, n, kind) /\ ~IsAbout(x, n))
  <2>1. PICK k \in DOMAIN c : c[k] = <<kind, n>> /\ \A j \in DOMAIN c : j > k => ~IsAbout(c[j], n)
    BY <1>5 DEF LastIs
  <2>2. CASE k = Len(b) + 1
    BY <1>1, <2>1, <2>2
  <2>3. CASE k \in DOMAIN b
    <3>1. Len(b) + 1 \in DOMAIN c /\ Len(b) + 1 > k
      BY <1>1, <2>3
    <3>2. ~IsAbout(x, n)
      BY <1>1, <2>1, <3>1
    <3>3. \A j \in DOMAIN b : j > k => ~IsAbout(b[j], n)
      BY <1>1, <1>3, <2>1
    <3>4. b[k] = <<kind, n>>
      BY <1>1, <2>1, <2>3
    <3> QED
      BY <2>3, <3>2, <3>3, <3>4 DEF LastIs
  <2> QED
    BY <1>2, <2>2, <2>3
<1> QED
  BY <1>4, <1>5 DEF c

LEMMA SayTwo ==
  ASSUME NEW b \in Seq(Messages), NEW x \in Messages, NEW y \in Messages, NEW n
  PROVE  /\ b \o <<x, y>> \in Seq(Messages)
         /\ Silent(b \o <<x, y>>, n) <=> Silent(b, n) /\ ~IsAbout(x, n) /\ ~IsAbout(y, n)
         /\ \A kind : LastIs(b \o <<x, y>>, n, kind) =>
              \/ x = <<kind, n>> \/ y = <<kind, n>>
              \/ LastIs(b, n, kind) /\ ~IsAbout(x, n) /\ ~IsAbout(y, n)
<1>1. b \o <<x, y>> = Append(Append(b, x), y) /\ Append(b, x) \in Seq(Messages)
      /\ b \o <<x, y>> \in Seq(Messages)
  OBVIOUS
<1>2. Silent(b \o <<x, y>>, n) <=> Silent(Append(b, x), n) /\ ~IsAbout(y, n)
  BY <1>1, SayOne
<1>3. Silent(Append(b, x), n) <=> Silent(b, n) /\ ~IsAbout(x, n)
  BY SayOne
<1>4. ASSUME NEW kind, LastIs(b \o <<x, y>>, n, kind)
      PROVE  \/ x = <<kind, n>> \/ y = <<kind, n>>
             \/ LastIs(b, n, kind) /\ ~IsAbout(x, n) /\ ~IsAbout(y, n)
  <2>1. y = <<kind, n>> \/ (LastIs(Append(b, x), n, kind) /\ ~IsAbout(y, n))
    BY <1>1, <1>4, SayOne
  <2>2. LastIs(Append(b, x), n, kind) => x = <<kind, n>> \/ (LastIs(b, n, kind) /\ ~IsAbout(x, n))
    BY SayOne
  <2> QED
    BY <2>1, <2>2
<1> QED
  BY <1>1, <1>2, <1>3, <1>4

LEMMA ReadOne ==
  ASSUME NEW b \in Seq(Messages), b # <<>>, NEW n
  PROVE  /\ Tail(b) \in Seq(Messages) /\ Head(b) \in Messages
         /\ \A k \in DOMAIN Tail(b) : k + 1 \in DOMAIN b /\ Tail(b)[k] = b[k + 1]
         /\ Silent(Tail(b), n) /\ ~IsAbout(Head(b), n) => Silent(b, n)
         /\ \A kind : LastIs(Tail(b), n, kind) => LastIs(b, n, kind)
         /\ \A kind : Head(b) = <<kind, n>> /\ Silent(Tail(b), n) => LastIs(b, n, kind)
<1> DEFINE c == Tail(b)
<1>1. /\ c \in Seq(Messages) /\ Head(b) \in Messages
      /\ DOMAIN c = 1..(Len(b) - 1) /\ DOMAIN b = 1..Len(b) /\ Len(b) \in Nat \ {0}
      /\ b[1] = Head(b) /\ \A i \in 1..(Len(b) - 1) : c[i] = b[i + 1]
  OBVIOUS
<1> HIDE DEF c
<1>2. \A k \in DOMAIN c : k + 1 \in DOMAIN b /\ c[k] = b[k + 1]
  BY <1>1
<1>3. \A i \in DOMAIN b : i = 1 \/ (i - 1 \in DOMAIN c /\ c[i - 1] = b[i])
  BY <1>1
<1>4. Silent(c, n) /\ ~IsAbout(Head(b), n) => Silent(b, n)
  BY <1>1, <1>3 DEF Silent
<1>5. ASSUME NEW kind, LastIs(c, n, kind) PROVE LastIs(b, n, kind)
  <2>1. PICK k \in DOMAIN c : c[k] = <<kind, n>> /\ \A j \in DOMAIN c : j > k => ~IsAbout(c[j], n)
    BY <1>5 DEF LastIs
  <2>2. k + 1 \in DOMAIN b /\ b[k + 1] = <<kind, n>>
    BY <1>2, <2>1
  <2>3. ASSUME NEW j \in DOMAIN b, j > k + 1 PROVE ~IsAbout(b[j], n)
    <3>1. j - 1 \in DOMAIN c /\ j - 1 > k /\ c[j - 1] = b[j]
      BY <1>1, <1>3, <2>3
    <3> QED
      BY <2>1, <3>1
  <2> QED
    BY <2>2, <2>3 DEF LastIs
<1>6. ASSUME NEW kind, Head(b) = <<kind, n>>, Silent(c, n) PROVE LastIs(b, n, kind)
  <2>1. 1 \in DOMAIN b /\ b[1] = <<kind, n>>
    BY <1>1, <1>6
  <2>2. ASSUME NEW j \in DOMAIN b, j > 1 PROVE ~IsAbout(b[j], n)
    <3>1. j - 1 \in DOMAIN c /\ c[j - 1] = b[j]
      BY <1>3, <2>2
    <3> QED
      BY <1>6, <3>1 DEF Silent
  <2> QED
    BY <2>1, <2>2 DEF LastIs
<1> QED
  BY <1>1, <1>2, <1>4, <1>5, <1>6 DEF c

-----------------------------------------------------------------------------
(* What joining keeps.                                                     *)

LEMMA SameName ==
  ASSUME NEW s, Sane(s), NEW v \in DOMAIN s.win, NEW w \in DOMAIN s.win,
         s.win[v].name = s.win[w].name,
         s.win[v].phase # "closed", s.win[w].phase # "closed"
  PROVE  v = w
<1>1. v \in Nat /\ w \in Nat
  BY WindowIs
<1>2. ~(v < w) /\ ~(w < v)
  BY DEF Sane, LastOfName
<1> QED
  BY <1>1, <1>2

LEMMA InIsOpened ==
  ASSUME NEW s, Sane(s), NEW g \in s.groups, NEW w \in Range(g)
  PROVE  w \in DOMAIN s.win /\ In(s, w)
<1>1. g \in Seq(DOMAIN s.win)
  BY DEF Sane, Disjoint
<1> QED
  BY <1>1 DEF Range, In

LEMMA JoinSane ==
  ASSUME NEW s, NEW t \in Desk, Sane(s), NEW w \in DOMAIN s.win, NEW v \in DOMAIN s.win,
         Joins(s, t, w, v)
  PROVE  Sane(t)
<1> DEFINE a == s.win[w].name
           b == s.win[v].name
<1>1. t.win = s.win
  BY DEF Joins
<1>2. LastOfName(t)
  BY <1>1 DEF Sane, LastOfName
<1>3. ASSUME NEW k \in DOMAIN t.bus
      PROVE  \E x \in DOMAIN t.win : t.win[x].name = t.bus[k][2]
  <2>1. t.bus = s.bus \o << <<"docked", a>>, <<"docked", b>> >> /\ s.bus \in Seq(Messages)
    BY DEF Joins, Sane, Desk
  <2> HIDE DEF a, b
  <2>2. (k \in DOMAIN s.bus /\ t.bus[k] = s.bus[k]) \/ t.bus[k] \in {<<"docked", a>>, <<"docked", b>>}
    BY <2>1
  <2>3. k \in DOMAIN s.bus /\ t.bus[k] = s.bus[k] => \E x \in DOMAIN s.win : s.win[x].name = t.bus[k][2]
    BY DEF Sane, Known
  <2>4. t.bus[k] \in {<<"docked", a>>, <<"docked", b>>} => t.bus[k][2] \in {a, b}
    OBVIOUS
  <2>5. t.bus[k][2] \in {a, b} => \E x \in DOMAIN s.win : s.win[x].name = t.bus[k][2]
    BY DEF a, b
  <2> QED
    BY <1>1, <2>2, <2>3, <2>4, <2>5
<1> QED
  BY <1>2, <1>3, JoinedGroups DEF Sane, Known

LEMMA JoinLiving ==
  ASSUME NEW s, NEW t \in Desk, Sane(s), NEW w \in DOMAIN s.win, NEW v \in DOMAIN s.win,
         Joins(s, t, w, v), Living(t)
  PROVE  Living(s) /\ s.win[w].phase # "closed" /\ s.win[v].phase # "closed"
<1>1. t.win = s.win /\ \A x : In(t, x) <=> In(s, x) \/ x \in {w, v}
  BY JoinedGroups DEF Joins
<1> QED
  BY <1>1 DEF Living

\* The name of a window docks when the window does.
LEMMA JoinDocks ==
  ASSUME NEW s, NEW t \in Desk, Sane(s), NEW w \in DOMAIN s.win, NEW v \in DOMAIN s.win,
         Joins(s, t, w, v), NEW n
  PROVE  Docks(t, n) <=> Docks(s, n) \/ n \in {s.win[w].name, s.win[v].name}
<1>1. t.win = s.win /\ \A x : In(t, x) <=> In(s, x) \/ x \in {w, v}
  BY JoinedGroups DEF Joins
<1> QED
  BY <1>1 DEF Docks

LEMMA JoinTold ==
  ASSUME NEW s, NEW t \in Desk, Sane(s), NEW w \in DOMAIN s.win, NEW v \in DOMAIN s.win,
         Joins(s, t, w, v), NEW marks, NEW n, ToldOf(s, marks, n)
  PROVE  ToldOf(t, marks, n)
<1> DEFINE a == s.win[w].name
           b == s.win[v].name
           x == <<"docked", a>>
           y == <<"docked", b>>
<1>1. t.bus = s.bus \o <<x, y>> /\ t.win = s.win /\ s.bus \in Seq(Messages)
  BY DEF Joins, Sane, Desk
<1>2. x \in Messages /\ y \in Messages
  <2>1. s.win[w] \in Window /\ s.win[v] \in Window
    BY WindowIs
  <2> QED
    BY <2>1 DEF Window, Messages
<1>3. (IsAbout(x, n) <=> n = a) /\ (IsAbout(y, n) <=> n = b)
  BY DEF IsAbout
<1>4. x # <<"undocked", n>> /\ y # <<"undocked", n>>
      /\ (x = <<"docked", n>> => n = a) /\ (y = <<"docked", n>> => n = b)
  OBVIOUS
<1>5. Docks(t, n) <=> Docks(s, n) \/ n \in {a, b}
  BY JoinDocks
<1>6. HasPopout(t, n) <=> HasPopout(s, n)
  BY <1>1 DEF HasPopout
<1> HIDE DEF x, y, a, b
<1>7. Silent(t.bus, n) <=> Silent(s.bus, n) /\ n # a /\ n # b
  BY <1>1, <1>2, <1>3, SayTwo
<1>8. LastIs(t.bus, n, "docked") => n \in {a, b} \/ LastIs(s.bus, n, "docked")
  BY <1>1, <1>2, <1>4, SayTwo
<1>9. LastIs(t.bus, n, "undocked") => n # a /\ n # b /\ LastIs(s.bus, n, "undocked")
  BY <1>1, <1>2, <1>3, <1>4, SayTwo
<1> QED
  BY <1>5, <1>6, <1>7, <1>8, <1>9 DEF ToldOf

LEMMA ApartFromAll ==
  ASSUME NEW b, NEW c PROVE intersact(b, c) <=> intersact(c, b)
BY DEF intersact, Overlap

LEMMA JoinApart ==
  ASSUME NEW s, NEW t \in Desk, Sane(s), NEW w \in DOMAIN s.win, NEW v \in DOMAIN s.win,
         Joins(s, t, w, v), Apart(s)
  PROVE  Apart(t)
<1> SUFFICES ASSUME NEW g \in t.groups, NEW i \in DOMAIN g, NEW j \in DOMAIN g, i < j, j >= 3
             PROVE  ~intersact(s.win[g[i]], s.win[g[j]])
  BY DEF Apart, Joins
<1>1. CASE g \in s.groups
  BY <1>1 DEF Apart
<1>2. CASE g = IF v = w THEN <<w>> ELSE <<v, w>>
  <2>1. g \in Seq({v, w}) /\ Len(g) \in {1, 2}
    BY <1>2, PairIs
  <2> QED
    BY <2>1
<1>3. ASSUME NEW h \in s.groups, \A m \in Range(h) : ~intersact(s.win[w], s.win[m]),
             g = Append(h, w)
      PROVE  ~intersact(s.win[g[i]], s.win[g[j]])
  <2>1. h \in Seq(DOMAIN s.win) /\ Once(h) /\ w \notin Range(h)
    BY DEF Sane, Disjoint, Joins, In
  <2>2. /\ DOMAIN g = 1..(Len(h) + 1) /\ g[Len(h) + 1] = w
        /\ \A k \in 1..Len(h) : g[k] = h[k]
    BY <1>3, <2>1, AppendIs
  <2>3. DOMAIN h = 1..Len(h) /\ Len(h) \in Nat
    BY <2>1
  <2>4. CASE j = Len(h) + 1
    <3>1. i \in DOMAIN h /\ g[i] = h[i] /\ g[j] = w
      BY <2>2, <2>3, <2>4
    <3>2. ~intersact(s.win[w], s.win[h[i]])
      BY <1>3, <3>1 DEF Range
    <3> QED
      BY <3>1, <3>2, ApartFromAll
  <2>5. CASE j \in 1..Len(h)
    <3>1. i \in DOMAIN h /\ j \in DOMAIN h /\ g[i] = h[i] /\ g[j] = h[j]
      BY <2>2, <2>3, <2>5
    <3> QED
      BY <3>1 DEF Apart
  <2> QED
    BY <2>2, <2>3, <2>4, <2>5
<1> QED
  BY <1>1, <1>2, <1>3 DEF Joins

LEMMA JoinPaired ==
  ASSUME NEW s, NEW t \in Desk, Sane(s), NEW w \in DOMAIN s.win, NEW v \in DOMAIN s.win,
         Joins(s, t, w, v), Paired(s), Living(t)
  PROVE  Paired(t)
<1> DEFINE a == s.win[w].name
<1> SUFFICES ASSUME NEW g \in t.groups, Len(g) = 1
             PROVE  t.storage[s.win[g[1]].name] = s.win[g[1]].name
  BY DEF Paired, Joins
<1>1. t.storage = [s.storage EXCEPT ![a] = s.win[v].name]
  BY DEF Joins
<1>2. a \in Names /\ s.storage \in [Names -> Names \cup {NoName}]
  <2>1. s.win[w] \in Window
    BY WindowIs
  <2> QED
    BY <2>1 DEF Window, Sane, Desk
<1>3. CASE g \in s.groups
  <2>1. g \in Seq(DOMAIN s.win) /\ g[1] \in Range(g)
    BY <1>3 DEF Sane, Disjoint, Range
  <2>2. g[1] \in DOMAIN s.win /\ In(s, g[1])
    BY <1>3, <2>1, InIsOpened
  <2>3. s.win[g[1]].name # a
    <3>1. s.win[g[1]].phase # "closed" /\ s.win[w].phase # "closed"
      BY <2>2, JoinLiving DEF Living
    <3>2. g[1] # w
      BY <2>2 DEF Joins
    <3> QED
      BY <2>2, <3>1, <3>2, SameName
  <2>4. s.win[g[1]].name \in Names
    <3>1. s.win[g[1]] \in Window
      BY <2>2, WindowIs
    <3> QED
      BY <3>1 DEF Window
  <2>5. s.storage[s.win[g[1]].name] = s.win[g[1]].name
    BY <1>3 DEF Paired
  <2> QED
    BY <1>1, <1>2, <2>3, <2>4, <2>5
<1>4. CASE g = IF v = w THEN <<w>> ELSE <<v, w>>
  <2>1. v = w /\ g[1] = w
    BY <1>4, PairIs
  <2> QED
    BY <1>1, <1>2, <2>1
<1>5. ASSUME NEW h \in s.groups, g = Append(h, w) PROVE FALSE
  <2>1. h \in Seq(DOMAIN s.win) /\ h # <<>>
    BY DEF Sane, Disjoint
  <2>2. Len(h) \in Nat /\ Len(h) # 0
    BY <2>1
  <2>3. Len(Append(h, w)) = Len(h) + 1
    BY <2>1
  <2>4. Len(Append(h, w)) = 1
    BY <1>5
  <2> HIDE DEF a
  <2> QED
    BY <2>2, <2>3, <2>4
<1> QED
  BY <1>3, <1>4, <1>5 DEF Joins

LEMMA JoinRemembers ==
  ASSUME NEW s, NEW t \in Desk, Sane(s), NEW w \in DOMAIN s.win, NEW v \in DOMAIN s.win,
         Joins(s, t, w, v), Remembered(s)
  PROVE  Remembered(t)
<1> SUFFICES ASSUME NEW n \in Names, t.storage[n] # NoName PROVE Docks(t, n)
  BY DEF Remembered
<1>1. n = s.win[w].name \/ t.storage[n] = s.storage[n]
  BY DEF Joins, Sane, Desk
<1> QED
  BY <1>1, JoinDocks DEF Remembered

-----------------------------------------------------------------------------
(* Leaving.                                                                *)

SameWindows(s, t) ==
  /\ DOMAIN t.win = DOMAIN s.win
  /\ \A x \in DOMAIN s.win : t.win[x].name = s.win[x].name /\ t.win[x].phase = s.win[x].phase

\* A window has left its group, if it was in one, and everyone is told.
LetGo(s, t, w) ==
  /\ SameWindows(s, t)
  /\ t.bus = Append(s.bus, <<"undocked", s.win[w].name>>)
  /\ t.storage = [s.storage EXCEPT ![s.win[w].name] = NoName]
  /\ Disjoint(t)
  /\ \A x : In(t, x) <=> In(s, x) /\ x # w

\* What it leaves.
Remain(s, t, w) ==
  \/ ~In(s, w) /\ t.groups = s.groups
  \/ \E g \in s.groups :
       w \in Range(g) /\ t.groups = (s.groups \ {g}) \cup ({Without(g, w)} \ {<<>>})

LEMMA RemainIs ==
  ASSUME NEW s, NEW t \in Desk, Sane(s), NEW w \in DOMAIN s.win,
         DOMAIN t.win = DOMAIN s.win, Remain(s, t, w)
  PROVE  Disjoint(t) /\ \A x : In(t, x) <=> In(s, x) /\ x # w
<1>1. CASE ~In(s, w) /\ t.groups = s.groups
  <2>1. Disjoint(t)
    BY <1>1 DEF Sane, Disjoint
  <2> QED
    BY <1>1, <2>1 DEF In
<1>2. CASE \E g \in s.groups :
             w \in Range(g) /\ t.groups = (s.groups \ {g}) \cup ({Without(g, w)} \ {<<>>})
  <2>1. PICK g \in s.groups :
             w \in Range(g) /\ t.groups = (s.groups \ {g}) \cup ({Without(g, w)} \ {<<>>})
    BY <1>2
  <2> DEFINE h == Without(g, w)
  <2>2. g \in Seq(DOMAIN s.win) /\ Once(g)
    BY DEF Sane, Disjoint
  <2>3. h \in Seq(DOMAIN s.win) /\ Once(h) /\ Range(h) = Range(g) \ {w}
    BY <2>1, <2>2, WithoutIs
  <2> HIDE DEF h
  <2>4. \A k \in t.groups : (k = h /\ h # <<>>) \/ (k \in s.groups /\ k # g)
    BY <2>1 DEF h
  <2>5. \A k \in t.groups : k \in Seq(DOMAIN t.win) /\ k # <<>> /\ Once(k)
    BY <2>3, <2>4 DEF Sane, Disjoint
  <2>6. \A k \in s.groups : Range(k) \cap Range(g) # {} => k = g
    BY DEF Sane, Disjoint
  <2>7. \A k, l \in t.groups : Range(k) \cap Range(l) # {} => k = l
    BY <2>3, <2>4, <2>6 DEF Sane, Disjoint
  <2>8. \A x : In(t, x) => In(s, x) /\ x # w
    BY <2>1, <2>3, <2>4, <2>6 DEF In
  <2>9. ASSUME NEW x, In(s, x), x # w PROVE In(t, x)
    <3>1. PICK k \in s.groups : x \in Range(k)
      BY <2>9 DEF In
    <3>2. CASE k = g
      <4>1. x \in Range(h)
        BY <2>3, <2>9, <3>1, <3>2
      <4>2. h # <<>>
        BY <4>1 DEF Range
      <4> QED
        BY <2>1, <4>1, <4>2 DEF In, h
    <3>3. CASE k # g
      BY <2>1, <3>1, <3>3 DEF In
    <3> QED
      BY <3>2, <3>3
  <2> QED
    BY <2>5, <2>7, <2>8, <2>9 DEF Disjoint
<1> QED
  BY <1>1, <1>2 DEF Remain

\* A window that is somewhere else.
LEMMA MovedWindow ==
  ASSUME NEW b \in Window, NEW k \in Int, NEW l \in Int
  PROVE  /\ [b EXCEPT !.x = k, !.y = l] \in Window
         /\ [b EXCEPT !.x = k, !.y = l].name = b.name
         /\ [b EXCEPT !.x = k, !.y = l].phase = b.phase
<1>1. [b EXCEPT !.x = k, !.y = l] \in Window
  BY Zenon DEF Window
<1> QED
  BY <1>1 DEF Window

LEMMA RecoverIs ==
  ASSUME NEW b \in Window
  PROVE  /\ Recover(b) \in Window
         /\ Recover(b).name = b.name /\ Recover(b).phase = b.phase
<1> DEFINE c == [b EXCEPT !.x = 0, !.y = 0]
<1>1. c \in Window /\ c.name = b.name /\ c.phase = b.phase
  <2>1. 0 \in Int
    OBVIOUS
  <2> QED
    BY <2>1, MovedWindow, Zenon
<1> HIDE DEF c
<1> QED
  BY <1>1 DEF Recover, c

\* A desktop whose fields are replaced.
With(s, W, G, B, a, n) ==
  [s EXCEPT !.groups = G, !.win = W, !.bus = B, !.storage[a] = n]

LEMMA LeaveLastIs ==
  ASSUME NEW s, Sane(s), NEW w \in DOMAIN s.win
  PROVE  LET t == LeaveLast(s, w) IN
         /\ t \in Desk /\ LetGo(s, t, w) /\ Remain(s, t, w)
         /\ t.win = [s.win EXCEPT ![w] = Recover(@)]
<1> DEFINE a == s.win[w].name
           rest == {Without(h, w) : h \in {g \in s.groups : w \in Range(g)}}
           G == {g \in s.groups : w \notin Range(g)} \cup (rest \ {<<>>})
           W == [s.win EXCEPT ![w] = Recover(@)]
           B == Append(s.bus, <<"undocked", a>>)
           t == LeaveLast(s, w)
<1>3. s.win[w] \in Window /\ a \in Names
  <2>1. s.win[w] \in Window
    BY WindowIs
  <2> QED
    BY <2>1 DEF Window
<1>4. W \in Seq(Window) /\ DOMAIN W = DOMAIN s.win
  <2>1. Recover(s.win[w]) \in Window
    BY <1>3, RecoverIs
  <2> QED
    BY <2>1 DEF Sane, Desk
<1>5. B \in Seq(Messages)
  <2>1. <<"undocked", a>> \in Messages
    BY <1>3 DEF Messages
  <2> QED
    BY <1>3, <2>1 DEF Sane, Desk
<1>6. \A g \in s.groups : w \in Range(g) => Without(g, w) \in Seq(Nat)
  <2> TAKE g \in s.groups
  <2>1. g \in Seq(Nat) /\ Once(g)
    BY DEF Sane, Desk, Disjoint
  <2> QED
    BY <2>1, WithoutIs
<1>7. G \subseteq Seq(Nat)
  BY <1>6 DEF Sane, Desk
<1>8. t = With(s, W, G, B, a, NoName)
  <2>1. t = [s EXCEPT !.groups = G, !.win[w] = Recover(@), !.bus = B, !.storage[a] = NoName]
    BY DEF LeaveLast
  <2> HIDE DEF t, G, B, a
  <2> QED
    BY <2>1 DEF With
<1>10. /\ t \in Desk /\ t.win = W /\ t.groups = G /\ t.bus = B
      /\ t.storage = [s.storage EXCEPT ![a] = NoName]
  <2> HIDE DEF t, G, W, B, a
  <2>1. s \in Desk /\ W \in Seq(Window) /\ G \in SUBSET Seq(Nat) /\ B \in Seq(Messages)
        /\ a \in Names /\ NoName \in Names \cup {NoName}
    BY <1>3, <1>4, <1>5, <1>7 DEF Sane
  <2>2. [s.storage EXCEPT ![a] = NoName] \in [Names -> Names \cup {NoName}]
    BY <2>1 DEF Desk
  <2>3. t \in Desk
    BY <1>8, <2>1, <2>2 DEF Desk, With
  <2> QED
    BY <1>8, <2>1, <2>3 DEF Desk, With
<1> HIDE DEF t
<1>9. Remain(s, t, w)
  <2>1. CASE In(s, w)
    <3>1. PICK g \in s.groups : w \in Range(g)
      BY <2>1 DEF In
    <3>2. \A h \in s.groups : w \in Range(h) => h = g
      BY <3>1 DEF Sane, Disjoint
    <3>3. rest = {Without(g, w)} /\ {h \in s.groups : w \notin Range(h)} = s.groups \ {g}
      BY <3>1, <3>2
    <3> QED
      BY <1>10, <3>1, <3>3 DEF Remain
  <2>2. CASE ~In(s, w)
    <3>1. rest = {} /\ {h \in s.groups : w \notin Range(h)} = s.groups
      BY <2>2 DEF In
    <3> QED
      BY <1>10, <2>2, <3>1 DEF Remain
  <2> QED
    BY <2>1, <2>2
<1>11. SameWindows(s, t)
  <2>1. Recover(s.win[w]).name = a /\ Recover(s.win[w]).phase = s.win[w].phase
    BY <1>3, RecoverIs
  <2> QED
    BY <1>4, <1>10, <2>1 DEF SameWindows
<1>12. Disjoint(t) /\ \A x : In(t, x) <=> In(s, x) /\ x # w
  BY <1>4, <1>9, <1>10, RemainIs
<1>13. LetGo(s, t, w)
  BY <1>10, <1>11, <1>12 DEF LetGo
<1> HIDE DEF W
<1> QED
  BY <1>9, <1>10, <1>13 DEF W, t

LEMMA LeaveSane ==
  ASSUME NEW s, NEW t \in Desk, Sane(s), NEW w \in DOMAIN s.win, LetGo(s, t, w)
  PROVE  Sane(t) /\ (Living(s) => Living(t))
<1> DEFINE a == s.win[w].name
<1>1. SameWindows(s, t) /\ Disjoint(t) /\ t.bus = Append(s.bus, <<"undocked", a>>)
  BY DEF LetGo
<1>2. LastOfName(t)
  BY <1>1 DEF Sane, LastOfName, SameWindows
<1>3. ASSUME NEW k \in DOMAIN t.bus
      PROVE  \E x \in DOMAIN t.win : t.win[x].name = t.bus[k][2]
  <2>1. s.bus \in Seq(Messages)
    BY DEF Sane, Desk
  <2> HIDE DEF a
  <2>2. (k \in DOMAIN s.bus /\ t.bus[k] = s.bus[k]) \/ t.bus[k] = <<"undocked", a>>
    BY <1>1, <2>1
  <2>3. k \in DOMAIN s.bus /\ t.bus[k] = s.bus[k] => \E x \in DOMAIN s.win : s.win[x].name = t.bus[k][2]
    BY DEF Sane, Known
  <2>4. t.bus[k] = <<"undocked", a>> => t.bus[k][2] = a
    OBVIOUS
  <2>5. \E x \in DOMAIN s.win : s.win[x].name = a
    BY DEF a
  <2> QED
    BY <1>1, <2>2, <2>3, <2>4, <2>5 DEF SameWindows
<1>4. Living(s) => Living(t)
  BY <1>1 DEF LetGo, Living, SameWindows
<1> QED
  BY <1>1, <1>2, <1>3, <1>4 DEF Sane, Known

\* No other living window has its name.
LEMMA OtherName ==
  ASSUME NEW s, NEW t, Sane(s), Living(s), NEW w \in DOMAIN s.win,
         s.win[w].phase # "closed", LetGo(s, t, w),
         NEW x \in DOMAIN s.win, In(t, x)
  PROVE  s.win[x].name # s.win[w].name
<1>1. In(s, x) /\ x # w
  BY DEF LetGo
<1>2. s.win[x].phase # "closed"
  BY <1>1 DEF Living
<1> QED
  BY <1>1, <1>2, SameName

LEMMA LeaveDocks ==
  ASSUME NEW s, NEW t, Sane(s), Living(s), NEW w \in DOMAIN s.win,
         s.win[w].phase # "closed", LetGo(s, t, w), NEW n
  PROVE  Docks(t, n) <=> Docks(s, n) /\ n # s.win[w].name
<1>1. SameWindows(s, t) /\ \A x : In(t, x) <=> In(s, x) /\ x # w
  BY DEF LetGo
<1>2. Docks(t, n) => Docks(s, n) /\ n # s.win[w].name
  BY <1>1, OtherName DEF Docks, SameWindows
<1>3. Docks(s, n) /\ n # s.win[w].name => Docks(t, n)
  BY <1>1 DEF Docks, SameWindows
<1> QED
  BY <1>2, <1>3

LEMMA LeaveTold ==
  ASSUME NEW s, NEW t, Sane(s), Living(s), NEW w \in DOMAIN s.win,
         s.win[w].phase # "closed", LetGo(s, t, w), NEW n, NEW marks,
         n # s.win[w].name => ToldOf(s, marks, n)
  PROVE  ToldOf(t, marks, n)
<1> DEFINE a == s.win[w].name
           x == <<"undocked", a>>
<1>1. t.bus = Append(s.bus, x) /\ SameWindows(s, t) /\ s.bus \in Seq(Messages)
  BY DEF LetGo, Sane, Desk
<1>2. x \in Messages
  <2>1. s.win[w] \in Window
    BY WindowIs
  <2> QED
    BY <2>1 DEF Window, Messages
<1>3. (IsAbout(x, n) <=> n = a) /\ x # <<"docked", n>> /\ (x = <<"undocked", n>> => n = a)
  BY DEF IsAbout
<1>4. Docks(t, n) <=> Docks(s, n) /\ n # a
  BY LeaveDocks
<1>5. HasPopout(t, n) <=> HasPopout(s, n)
  BY <1>1 DEF HasPopout, SameWindows
<1>6. n # a => ToldOf(s, marks, n)
  OBVIOUS
<1> HIDE DEF x, a
<1>7. Silent(t.bus, n) <=> Silent(s.bus, n) /\ n # a
  BY <1>1, <1>2, <1>3, SayOne
<1>8. LastIs(t.bus, n, "docked") => n # a /\ LastIs(s.bus, n, "docked")
  BY <1>1, <1>2, <1>3, SayOne
<1>9. LastIs(t.bus, n, "undocked") => n = a \/ LastIs(s.bus, n, "undocked")
  BY <1>1, <1>2, <1>3, SayOne
<1> QED
  BY <1>4, <1>5, <1>6, <1>7, <1>8, <1>9 DEF ToldOf

LEMMA LeaveRemembers ==
  ASSUME NEW s, NEW t, Sane(s), Living(s), NEW w \in DOMAIN s.win,
         s.win[w].phase # "closed", LetGo(s, t, w), Remembered(s)
  PROVE  Remembered(t)
<1> SUFFICES ASSUME NEW n \in Names, t.storage[n] # NoName PROVE Docks(t, n)
  BY DEF Remembered
<1>1. n # s.win[w].name /\ t.storage[n] = s.storage[n]
  BY DEF LetGo, Sane, Desk
<1> QED
  BY <1>1, LeaveDocks DEF Remembered

LEMMA LeaveStores ==
  ASSUME NEW s, NEW t, Sane(s), Living(s), NEW w \in DOMAIN s.win,
         s.win[w].phase # "closed", LetGo(s, t, w),
         NEW x \in DOMAIN s.win, In(t, x)
  PROVE  t.storage[s.win[x].name] = s.storage[s.win[x].name]
<1>1. s.win[x].name # s.win[w].name
  BY OtherName
<1>2. s.win[x].name \in Names
  <2>1. s.win[x] \in Window
    BY WindowIs
  <2> QED
    BY <2>1 DEF Window
<1> QED
  BY <1>1, <1>2 DEF LetGo, Sane, Desk

-----------------------------------------------------------------------------
(* Moving together.                                                        *)

\* The windows of a group are as far from each other as they were.
Together(s, t, g) ==
  \E dx, dy \in Int : \A m \in Range(g) :
    t.win[m].x = s.win[m].x + dx /\ t.win[m].y = s.win[m].y + dy

\* Members of k that did not found it did not found g, and their order is kept.
Order(g, k) ==
  \A i, j \in DOMAIN k : i < j /\ j >= 3 =>
    \E a, b \in DOMAIN g : a < b /\ b >= 3 /\ k[i] = g[a] /\ k[j] = g[b]

LEMMA ShiftedWindows ==
  ASSUME NEW b \in Window, NEW c \in Window, NEW d \in Window, NEW e \in Window,
         NEW dx \in Int, NEW dy \in Int,
         d.name = b.name, d.x = b.x + dx, d.y = b.y + dy,
         e.name = c.name, e.x = c.x + dx, e.y = c.y + dy
  PROVE  intersact(d, e) <=> intersact(b, c)
<1>1. /\ b.x \in Int /\ b.y \in Int /\ c.x \in Int /\ c.y \in Int
      /\ b.name \in Names /\ c.name \in Names
  BY DEF Window
<1>2. /\ Width(b) \in Nat /\ Height(b) \in Nat /\ Width(c) \in Nat /\ Height(c) \in Nat
      /\ Width(d) = Width(b) /\ Height(d) = Height(b)
      /\ Width(e) = Width(c) /\ Height(e) = Height(c)
  <2>1. Size[b.name] \in Nat \X Nat /\ Size[c.name] \in Nat \X Nat
    BY <1>1, DockingAssumption
  <2> QED
    BY <2>1 DEF Width, Height
<1>3. Overlap(d.x, Width(d), e.x, Width(e)) <=> Overlap(b.x, Width(b), c.x, Width(c))
  BY <1>1, <1>2 DEF Overlap
<1>4. Overlap(d.y, Height(d), e.y, Height(e)) <=> Overlap(b.y, Height(b), c.y, Height(c))
  BY <1>1, <1>2 DEF Overlap
<1> QED
  BY <1>3, <1>4 DEF intersact

LEMMA ApartKept ==
  ASSUME NEW s, NEW t, Sane(s), Sane(t), SameWindows(s, t), Apart(s),
         \A k \in t.groups : Together(s, t, k) /\ \E g \in s.groups : Order(g, k)
  PROVE  Apart(t)
<1> SUFFICES ASSUME NEW k \in t.groups, NEW i \in DOMAIN k, NEW j \in DOMAIN k, i < j, j >= 3
             PROVE  ~intersact(t.win[k[i]], t.win[k[j]])
  BY DEF Apart
<1>1. PICK g \in s.groups : Order(g, k)
  OBVIOUS
<1>2. PICK a \in DOMAIN g, b \in DOMAIN g : a < b /\ b >= 3 /\ k[i] = g[a] /\ k[j] = g[b]
  BY <1>1 DEF Order
<1>3. ~intersact(s.win[k[i]], s.win[k[j]])
  BY <1>2 DEF Apart
<1>4. k[i] \in Range(k) /\ k[j] \in Range(k)
  BY DEF Range
<1>5. k[i] \in DOMAIN s.win /\ k[j] \in DOMAIN s.win /\ k[i] \in DOMAIN t.win /\ k[j] \in DOMAIN t.win
  BY <1>4, InIsOpened DEF SameWindows
<1>6. /\ s.win[k[i]] \in Window /\ s.win[k[j]] \in Window
      /\ t.win[k[i]] \in Window /\ t.win[k[j]] \in Window
  BY <1>5, WindowIs
<1>7. t.win[k[i]].name = s.win[k[i]].name /\ t.win[k[j]].name = s.win[k[j]].name
  BY <1>5 DEF SameWindows
<1>8. PICK dx \in Int, dy \in Int : \A m \in Range(k) :
        t.win[m].x = s.win[m].x + dx /\ t.win[m].y = s.win[m].y + dy
  BY DEF Together
<1>9. /\ t.win[k[i]].x = s.win[k[i]].x + dx /\ t.win[k[i]].y = s.win[k[i]].y + dy
      /\ t.win[k[j]].x = s.win[k[j]].x + dx /\ t.win[k[j]].y = s.win[k[j]].y + dy
  BY <1>4, <1>8
<1>10. ASSUME NEW u \in Window, NEW v \in Window, NEW p \in Window, NEW q \in Window,
              u = s.win[k[i]], v = s.win[k[j]], p = t.win[k[i]], q = t.win[k[j]]
       PROVE  intersact(p, q) <=> intersact(u, v)
  <2>1. /\ p.name = u.name /\ p.x = u.x + dx /\ p.y = u.y + dy
        /\ q.name = v.name /\ q.x = v.x + dx /\ q.y = v.y + dy
    BY <1>7, <1>9, <1>10
  <2> QED
    BY <2>1, ShiftedWindows
<1> QED
  BY <1>3, <1>6, <1>10

LEMMA Unmoved ==
  ASSUME NEW s, NEW t, Sane(s), NEW g, Range(g) \subseteq DOMAIN s.win,
         \A m \in Range(g) : t.win[m] = s.win[m]
  PROVE  Together(s, t, g)
<1>1. \A m \in Range(g) : s.win[m] \in Window
  BY WindowIs
<1>2. \A m \in Range(g) : t.win[m].x = s.win[m].x + 0 /\ t.win[m].y = s.win[m].y + 0
  BY <1>1 DEF Window
<1>3. 0 \in Int
  OBVIOUS
<1> QED
  BY <1>2, <1>3 DEF Together

-----------------------------------------------------------------------------
(* Leaving, with the last member when there is only one left.              *)

Leaves(s, t, w) ==
  /\ \/ LetGo(s, t, w)
     \/ \E u \in Desk : \E m \in DOMAIN s.win :
          LetGo(s, u, w) /\ In(u, m) /\ LetGo(u, t, m)
  /\ \A k \in t.groups :
       /\ Together(s, t, k)
       /\ k \in s.groups \/ (Len(k) # 1 /\ \E g \in s.groups : Order(g, k))

LEMMA LeaveAlone ==
  ASSUME NEW s, NEW t \in Desk, Sane(s), NEW w \in DOMAIN s.win, LetGo(s, t, w),
         t.win = [s.win EXCEPT ![w] = Recover(@)], t.groups \subseteq s.groups
  PROVE  Leaves(s, t, w)
<1> SUFFICES ASSUME NEW k \in t.groups PROVE Together(s, t, k)
  BY DEF Leaves
<1>1. w \notin Range(k)
  BY DEF LetGo, In
<1>2. Range(k) \subseteq DOMAIN s.win
  BY InIsOpened
<1>3. \A m \in Range(k) : t.win[m] = s.win[m]
  BY <1>1, <1>2
<1> QED
  BY <1>2, <1>3, Unmoved

LEMMA RecoverGroupIs ==
  ASSUME NEW s, Sane(s), NEW g \in s.groups
  PROVE  LET t == [s EXCEPT !.win = RecoverGroup(@, g)] IN
         /\ t \in Desk /\ SameWindows(s, t)
         /\ t.groups = s.groups /\ t.bus = s.bus /\ t.storage = s.storage
         /\ \A k \in s.groups : Together(s, t, k)
<1> DEFINE ws == s.win
           vs == RecoverGroup(ws, g)
           t == [s EXCEPT !.win = RecoverGroup(@, g)]
<1>1. t = [s EXCEPT !.win = vs]
  OBVIOUS
<1>2. ws \in Seq(Window) /\ s \in Desk /\ g \in Seq(DOMAIN ws) /\ g # <<>>
  BY DEF Sane, Desk, Disjoint
<1>3. g[1] \in DOMAIN ws /\ g[1] \in Range(g)
  BY <1>2 DEF Range
<1> DEFINE dx == 0 - ws[g[1]].x
           dy == 0 - ws[g[1]].y
<1>4. dx \in Int /\ dy \in Int
  <2>1. ws[g[1]] \in Window
    BY <1>2, <1>3
  <2> QED
    BY <2>1 DEF Window
<1>5. \/ vs = ws
      \/ /\ DOMAIN vs = DOMAIN ws /\ vs = [m \in DOMAIN ws |-> vs[m]]
         /\ \A m \in DOMAIN ws : m \notin Range(g) => vs[m] = ws[m]
         /\ \A m \in DOMAIN ws : m \in Range(g) =>
              vs[m] = [ws[m] EXCEPT !.x = @ - ws[g[1]].x, !.y = @ - ws[g[1]].y]
  BY <1>3 DEF RecoverGroup
<1> HIDE DEF vs
<1>6. ASSUME NEW m \in DOMAIN ws
      PROVE  LET c == [ws[m] EXCEPT !.x = @ - ws[g[1]].x, !.y = @ - ws[g[1]].y] IN
             /\ c \in Window /\ c.name = ws[m].name /\ c.phase = ws[m].phase
             /\ c.x = ws[m].x + dx /\ c.y = ws[m].y + dy
  <2>1. ws[m] \in Window /\ ws[g[1]] \in Window
    BY <1>2, <1>3
  <2>2. PICK k \in Int : k = ws[m].x - ws[g[1]].x
    BY <2>1 DEF Window
  <2>3. PICK l \in Int : l = ws[m].y - ws[g[1]].y
    BY <2>1 DEF Window
  <2>4. k = ws[m].x + dx /\ l = ws[m].y + dy
    BY <2>1, <2>2, <2>3 DEF Window
  <2>5. PICK b \in Window : b = ws[m]
    BY <2>1
  <2>6. [b EXCEPT !.x = k, !.y = l] \in Window
    BY Zenon DEF Window
  <2>7. /\ [b EXCEPT !.x = k, !.y = l].name = b.name
        /\ [b EXCEPT !.x = k, !.y = l].phase = b.phase
        /\ [b EXCEPT !.x = k, !.y = l].x = k /\ [b EXCEPT !.x = k, !.y = l].y = l
    BY DEF Window
  <2> QED
    BY <2>2, <2>3, <2>4, <2>5, <2>6, <2>7
<1>7. \/ vs = ws
      \/ /\ DOMAIN vs = DOMAIN ws
         /\ \A m \in DOMAIN ws : m \notin Range(g) => vs[m] = ws[m]
         /\ \A m \in DOMAIN ws : m \in Range(g) =>
              /\ vs[m] \in Window /\ vs[m].name = ws[m].name /\ vs[m].phase = ws[m].phase
              /\ vs[m].x = ws[m].x + dx /\ vs[m].y = ws[m].y + dy
  BY <1>5, <1>6
<1>8. vs \in Seq(Window) /\ DOMAIN vs = DOMAIN ws
      /\ \A m \in DOMAIN ws : vs[m].name = ws[m].name /\ vs[m].phase = ws[m].phase
  <2>1. CASE vs = ws
    BY <1>2, <2>1
  <2>2. CASE vs # ws
    <3>1. DOMAIN vs = 1..Len(ws) /\ Len(ws) \in Nat
      BY <1>2, <1>7, <2>2
    <3>2. \A m \in DOMAIN ws : ws[m] \in Window
      BY <1>2
    <3>3. \A m \in 1..Len(ws) : vs[m] \in Window
      BY <1>2, <1>7, <2>2, <3>2
    <3>4. vs = [m \in 1..Len(ws) |-> vs[m]]
      BY <1>2, <1>5, <2>2, <3>1
    <3>5. vs \in Seq(Window)
      BY <3>1, <3>3, <3>4
    <3> QED
      BY <1>7, <3>5
  <2> QED
    BY <2>1, <2>2
<1>9. t \in Desk /\ t.win = vs /\ t.groups = s.groups /\ t.bus = s.bus /\ t.storage = s.storage
  BY <1>1, <1>2, <1>8 DEF Desk
<1> HIDE DEF t, dx, dy
<1>10. SameWindows(s, t)
  BY <1>8, <1>9 DEF SameWindows
<1>11. ASSUME NEW k \in s.groups PROVE Together(s, t, k)
  <2>1. Range(k) \subseteq DOMAIN ws
    BY InIsOpened
  <2>2. CASE vs = ws \/ k # g
    <3>1. \A m \in Range(k) : vs[m] = ws[m]
      <4>1. k # g => Range(k) \cap Range(g) = {}
        BY DEF Sane, Disjoint
      <4> QED
        BY <1>7, <2>1, <2>2, <4>1
    <3> QED
      BY <1>9, <2>1, <3>1, Unmoved
  <2>3. CASE vs # ws /\ k = g
    <3>1. \A m \in Range(k) : vs[m].x = ws[m].x + dx /\ vs[m].y = ws[m].y + dy
      BY <1>7, <2>1, <2>3
    <3> QED
      BY <1>4, <1>9, <3>1 DEF Together
  <2> QED
    BY <2>2, <2>3
<1> QED
  BY <1>9, <1>10, <1>11 DEF t

LEMMA OnlyMember ==
  ASSUME NEW g, NEW S, g \in Seq(S), Once(g), NEW m, Range(g) = {m}
  PROVE  Len(g) = 1 /\ g[1] = m
<1>1. DOMAIN g = 1..Len(g) /\ Len(g) \in Nat
  OBVIOUS
<1>2. \A i \in 1..Len(g) : g[i] = m
  BY <1>1 DEF Range
<1>3. PICK i \in 1..Len(g) : g[i] = m
  BY <1>1 DEF Range
<1>4. ~(Len(g) >= 2)
  <2> SUFFICES ASSUME Len(g) >= 2 PROVE FALSE
    OBVIOUS
  <2>1. 1 \in 1..Len(g) /\ 2 \in 1..Len(g)
    BY <1>1
  <2> QED
    BY <1>1, <1>2, <2>1 DEF Once
<1>5. Len(g) = 1
  BY <1>1, <1>3, <1>4
<1> QED
  BY <1>2, <1>5

LEMMA LeaveIs ==
  ASSUME NEW s, Sane(s), NEW w \in DOMAIN s.win
  PROVE  Leave(s, w) \in Desk /\ Leaves(s, Leave(s, w), w)
<1> DEFINE u == LeaveLast(s, w)
           rest == UNION {Range(g) \ {w} : g \in {h \in s.groups : w \in Range(h)}}
           group == CHOOSE g \in u.groups : Range(g) = rest
           t == Leave(s, w)
<1>1. u \in Desk /\ LetGo(s, u, w) /\ Remain(s, u, w) /\ u.win = [s.win EXCEPT ![w] = Recover(@)]
  BY LeaveLastIs
<1>2. t = CASE rest = {} -> u
            [] Cardinality(rest) = 1 -> LeaveLast(u, CHOOSE m \in rest : TRUE)
            [] OTHER -> [u EXCEPT !.win = RecoverGroup(@, group)]
  BY DEF Leave
<1>3. Cardinality({}) = 0 /\ \A m : Cardinality({m}) = 1
  BY FS_EmptySet, FS_Singleton
<1>4. Sane(u) /\ DOMAIN u.win = DOMAIN s.win
  BY <1>1, LeaveSane DEF LetGo, SameWindows
<1> HIDE DEF u, t, group
<1>7. rest = {} => t = u
  <2> SUFFICES ASSUME rest = {} PROVE t = u
    OBVIOUS
  <2> HIDE DEF rest
  <2>1. Cardinality(rest) # 1
    BY <1>3
  <2> QED
    BY <1>2, <2>1
<1>5. CASE ~In(s, w)
  <2>1. rest = {}
    BY <1>5 DEF In
  <2>2. t = u
    BY <1>7, <2>1
  <2>3. u.groups = s.groups
    BY <1>1, <1>5 DEF Remain, In
  <2>4. u.groups \subseteq s.groups
    BY <2>3
  <2>5. Leaves(s, u, w)
    BY <1>1, <2>4, LeaveAlone
  <2> QED
    BY <1>1, <2>2, <2>5 DEF t
<1>6. CASE In(s, w)
  <2>1. PICK g \in s.groups :
          w \in Range(g) /\ u.groups = (s.groups \ {g}) \cup ({Without(g, w)} \ {<<>>})
    BY <1>1, <1>6 DEF Remain
  <2>2. g \in Seq(DOMAIN s.win) /\ Once(g) /\ \A k \in s.groups : w \in Range(k) => k = g
    BY <2>1 DEF Sane, Disjoint
  <2>3. rest = Range(g) \ {w}
    BY <2>1, <2>2
  <2> DEFINE h == Without(g, w)
  <2>4. h \in Seq(DOMAIN s.win) /\ Once(h) /\ Range(h) = rest
    BY <2>1, <2>2, <2>3, WithoutIs
  <2>5. Order(g, h)
    BY <2>1, <2>2, WithoutIs DEF Order
  <2> HIDE DEF h, rest
  <2>6. u.groups = (s.groups \ {g}) \cup ({h} \ {<<>>})
    BY <2>1 DEF h
  <2>7. CASE rest = {}
    <3>1. t = u
      BY <1>7, <2>7
    <3>2. h = <<>>
      <4>1. DOMAIN h = {}
        BY <2>4, <2>7 DEF Range
      <4> QED
        BY <2>4, <4>1
    <3>3. u.groups \subseteq s.groups
      BY <2>6, <3>2
    <3>4. Leaves(s, u, w)
      BY <1>1, <3>3, LeaveAlone
    <3> QED
      BY <1>1, <3>1, <3>4 DEF t
  <2>8. ASSUME NEW m, rest = {m} PROVE t \in Desk /\ Leaves(s, t, w)
    <3>1. (CHOOSE x \in rest : TRUE) = m /\ rest # {} /\ Cardinality(rest) = 1
      BY <1>3, <2>8
    <3>2. t = LeaveLast(u, m)
      BY <1>2, <3>1
    <3>3. h # <<>> /\ h \in u.groups /\ m \in Range(h)
      <4>1. m \in Range(h)
        BY <2>4, <2>8
      <4>2. h # <<>>
        BY <4>1 DEF Range
      <4> QED
        BY <2>6, <4>1, <4>2
    <3>4. m \in DOMAIN u.win /\ In(u, m)
      BY <1>4, <3>3, InIsOpened
    <3>5. t \in Desk /\ LetGo(u, t, m) /\ Remain(u, t, m) /\ t.win = [u.win EXCEPT ![m] = Recover(@)]
      BY <1>4, <3>2, <3>4, LeaveLastIs
    <3>6. \A k \in t.groups : w \notin Range(k) /\ m \notin Range(k)
      BY <1>1, <3>5 DEF LetGo, In
    <3>7. PICK k \in u.groups :
            m \in Range(k) /\ t.groups = (u.groups \ {k}) \cup ({Without(k, m)} \ {<<>>})
      BY <3>4, <3>5 DEF Remain
    <3>8. k = h
      BY <1>4, <3>3, <3>7 DEF Sane, Disjoint
    <3>9. Without(h, m) = <<>>
      <4>1. Len(h) = 1
        BY <2>4, <2>8, OnlyMember
      <4>2. Without(h, m) \in Seq(DOMAIN s.win) /\ Len(Without(h, m)) = Len(h) - 1
        BY <2>4, <3>3, WithoutIs
      <4> QED
        BY <4>1, <4>2
    <3>10. t.groups \subseteq s.groups
      BY <2>6, <3>7, <3>8, <3>9
    <3>11. ASSUME NEW l \in t.groups PROVE Together(s, t, l)
      <4>1. Range(l) \subseteq DOMAIN s.win
        BY <3>10, InIsOpened
      <4>2. \A x \in Range(l) : x # w /\ x # m
        BY <3>6
      <4>3. \A x \in Range(l) : t.win[x] = s.win[x]
        BY <1>1, <3>5, <4>1, <4>2
      <4> QED
        BY <4>1, <4>3, Unmoved
    <3> QED
      BY <1>1, <1>4, <3>4, <3>5, <3>10, <3>11 DEF Leaves
  <2>9. ASSUME NEW m \in rest, NEW n \in rest, m # n PROVE t \in Desk /\ Leaves(s, t, w)
    <3>1. rest # {} /\ Cardinality(rest) # 1
      <4>1. IsFiniteSet(rest)
        <5>1. rest \subseteq 1..Len(s.win) /\ Len(s.win) \in Nat
          BY <2>4 DEF Sane, Desk, Range
        <5>2. IsFiniteSet(1..Len(s.win))
          BY <5>1, FS_Interval
        <5> QED
          BY <5>1, <5>2, FS_Subset
      <4>2. Cardinality(rest) = 1 => \E x : rest = {x}
        BY <4>1, FS_Singleton
      <4> QED
        BY <2>9, <4>2
    <3>2. t = [u EXCEPT !.win = RecoverGroup(@, group)]
      BY <1>2, <3>1
    <3>3. h \in u.groups
      <4>1. h # <<>>
        BY <2>4, <3>1 DEF Range
      <4> QED
        BY <2>6, <4>1
    <3>4. group = h
      <4>1. group \in u.groups /\ Range(group) = rest
        BY <2>4, <3>3 DEF group
      <4> HIDE DEF group
      <4>2. Range(group) \cap Range(h) # {}
        BY <2>4, <3>1, <4>1
      <4> QED
        BY <1>4, <3>3, <4>1, <4>2 DEF Sane, Disjoint
    <3> HIDE DEF group
    <3>5. /\ t \in Desk /\ SameWindows(u, t)
          /\ t.groups = u.groups /\ t.bus = u.bus /\ t.storage = u.storage
          /\ \A k \in u.groups : Together(u, t, k)
      BY <1>4, <3>2, <3>3, <3>4, RecoverGroupIs
    <3>6. LetGo(s, t, w)
      <4>1. Disjoint(t)
        BY <1>1, <3>5 DEF LetGo, Disjoint, SameWindows
      <4>2. \A x : In(t, x) <=> In(s, x) /\ x # w
        BY <1>1, <3>5 DEF LetGo, In
      <4>3. SameWindows(s, t)
        BY <1>1, <3>5 DEF LetGo, SameWindows
      <4> QED
        BY <1>1, <3>5, <4>1, <4>2, <4>3 DEF LetGo
    <3>7. ASSUME NEW k \in t.groups PROVE Together(s, t, k)
      <4>1. Range(k) \subseteq DOMAIN s.win /\ w \notin Range(k)
        BY <1>4, <3>5, <3>6, InIsOpened DEF LetGo, In
      <4>2. \A x \in Range(k) : u.win[x] = s.win[x]
        BY <1>1, <4>1
      <4>3. Together(u, t, k)
        BY <3>5
      <4> QED
        BY <4>2, <4>3 DEF Together
    <3>8. Len(h) # 1
      <4> SUFFICES ASSUME Len(h) = 1 PROVE FALSE
        OBVIOUS
      <4>1. \A x \in Range(h) : x = h[1]
        BY <2>4 DEF Range
      <4> QED
        BY <2>4, <2>9, <4>1
    <3>9. \A k \in t.groups : k \in s.groups \/ (Len(k) # 1 /\ \E l \in s.groups : Order(l, k))
      BY <2>1, <2>5, <2>6, <3>5, <3>8
    <3> QED
      BY <3>5, <3>6, <3>7, <3>9 DEF Leaves
  <2>10. rest = {} \/ (\E m : rest = {m}) \/ (\E m, n \in rest : m # n)
    <3> SUFFICES ASSUME rest # {}, \A m, n \in rest : m = n PROVE \E m : rest = {m}
      OBVIOUS
    <3>1. PICK m \in rest : TRUE
      OBVIOUS
    <3>2. rest = {m}
      BY <3>1
    <3> QED
      BY <3>2
  <2>11. t \in Desk /\ Leaves(s, t, w)
    BY <2>7, <2>8, <2>9, <2>10 DEF t
  <2> QED
    BY <2>11 DEF t
<1> QED
  BY <1>5, <1>6 DEF t

\* Whatever the others do, they are let go one after another.
LEMMA LeavesSane ==
  ASSUME NEW s, NEW t \in Desk, Sane(s), NEW w \in DOMAIN s.win, Leaves(s, t, w)
  PROVE  /\ Sane(t) /\ SameWindows(s, t)
         /\ \A x : In(t, x) => In(s, x)
         /\ Living(s) => Living(t)
<1>1. CASE LetGo(s, t, w)
  BY <1>1, LeaveSane DEF LetGo
<1>2. ASSUME NEW u \in Desk, NEW m \in DOMAIN s.win,
             LetGo(s, u, w), In(u, m), LetGo(u, t, m)
      PROVE  /\ Sane(t) /\ SameWindows(s, t)
             /\ \A x : In(t, x) => In(s, x)
             /\ Living(s) => Living(t)
  <2>1. Sane(u) /\ (Living(s) => Living(u)) /\ m \in DOMAIN u.win
    BY <1>2, LeaveSane DEF LetGo, SameWindows
  <2>2. Sane(t) /\ (Living(u) => Living(t))
    BY <1>2, <2>1, LeaveSane
  <2>3. SameWindows(s, t)
    BY <1>2 DEF LetGo, SameWindows
  <2> QED
    BY <1>2, <2>1, <2>2, <2>3 DEF LetGo
<1> QED
  BY <1>1, <1>2 DEF Leaves

LEMMA LeavesKeep ==
  ASSUME NEW s, NEW t \in Desk, Sane(s), NEW w \in DOMAIN s.win, Leaves(s, t, w),
         Living(s), s.win[w].phase # "closed", NEW marks,
         \A n \in Names : n # s.win[w].name => ToldOf(s, marks, n)
  PROVE  /\ Told(t, marks)
         /\ Remembered(s) => Remembered(t)
         /\ \A x \in DOMAIN s.win : In(t, x) =>
              t.storage[s.win[x].name] = s.storage[s.win[x].name]
<1>1. CASE LetGo(s, t, w)
  BY <1>1, LeaveTold, LeaveRemembers, LeaveStores DEF Told
<1>2. ASSUME NEW u \in Desk, NEW m \in DOMAIN s.win,
             LetGo(s, u, w), In(u, m), LetGo(u, t, m)
      PROVE  /\ Told(t, marks)
             /\ Remembered(s) => Remembered(t)
             /\ \A x \in DOMAIN s.win : In(t, x) =>
                  t.storage[s.win[x].name] = s.storage[s.win[x].name]
  <2>1. Sane(u) /\ Living(u)
    BY <1>2, LeaveSane
  <2>2. m \in DOMAIN u.win /\ u.win[m].phase # "closed"
    BY <1>2, <2>1 DEF LetGo, SameWindows, Living
  <2>3. \A n \in Names : ToldOf(u, marks, n)
    BY <1>2, LeaveTold
  <2>4. Told(t, marks)
    BY <1>2, <2>1, <2>2, <2>3, LeaveTold DEF Told
  <2>5. Remembered(s) => Remembered(t)
    BY <1>2, <2>1, <2>2, LeaveRemembers
  <2>6. ASSUME NEW x \in DOMAIN s.win, In(t, x)
        PROVE  t.storage[s.win[x].name] = s.storage[s.win[x].name]
    <3>1. In(u, x) /\ x \in DOMAIN u.win /\ u.win[x].name = s.win[x].name
      BY <1>2, <2>6 DEF LetGo, SameWindows
    <3>2. u.storage[s.win[x].name] = s.storage[s.win[x].name]
      BY <1>2, <3>1, LeaveStores
    <3>3. t.storage[u.win[x].name] = u.storage[u.win[x].name]
      BY <1>2, <2>1, <2>2, <2>6, <3>1, LeaveStores
    <3> QED
      BY <3>1, <3>2, <3>3
  <2> QED
    BY <2>4, <2>5, <2>6
<1> QED
  BY <1>1, <1>2 DEF Leaves

LEMMA LeavesHealthy ==
  ASSUME NEW s, NEW t \in Desk, Sane(s), NEW w \in DOMAIN s.win, Leaves(s, t, w),
         Living(s), s.win[w].phase # "closed", Apart(s), Paired(s), NEW marks,
         \A n \in Names : n # s.win[w].name => ToldOf(s, marks, n)
  PROVE  Healthy(t, marks) /\ (Remembered(s) => Remembered(t))
<1>1. /\ Sane(t) /\ SameWindows(s, t) /\ Told(t, marks)
      /\ Remembered(s) => Remembered(t)
  BY LeavesSane, LeavesKeep
<1>2. Apart(t)
  <2>1. \A k : Order(k, k)
    BY DEF Order
  <2> QED
    BY <1>1, <2>1, ApartKept DEF Leaves
<1>3. ASSUME NEW k \in t.groups, Len(k) = 1
      PROVE  t.storage[t.win[k[1]].name] = t.win[k[1]].name
  <2>1. k \in s.groups
    BY <1>3 DEF Leaves
  <2>2. k[1] \in Range(k)
    <3>1. k \in Seq(DOMAIN s.win)
      BY <2>1 DEF Sane, Disjoint
    <3>2. 1 \in DOMAIN k
      BY <1>3, <3>1
    <3> QED
      BY <3>2 DEF Range
  <2>3. k[1] \in DOMAIN s.win /\ In(t, k[1])
    BY <2>1, <2>2, InIsOpened DEF In
  <2>4. t.storage[s.win[k[1]].name] = s.storage[s.win[k[1]].name]
    BY <2>3, LeavesKeep
  <2>5. t.win[k[1]].name = s.win[k[1]].name
    BY <1>1, <2>3 DEF SameWindows
  <2>6. s.storage[s.win[k[1]].name] = s.win[k[1]].name
    BY <1>3, <2>1 DEF Paired
  <2> QED
    BY <2>4, <2>5, <2>6
<1> QED
  BY <1>1, <1>2, <1>3 DEF Healthy, Paired

-----------------------------------------------------------------------------
(* What happens to the windows and the bus, the groups being kept.         *)

\* Windows that have been there keep their names and stay closed.
SameNames(s, t) ==
  /\ DOMAIN t.win = DOMAIN s.win
  /\ \A x \in DOMAIN s.win :
       /\ t.win[x].name = s.win[x].name
       /\ s.win[x].phase = "closed" => t.win[x].phase = "closed"

LEMMA GroupsKept ==
  ASSUME NEW s, NEW t \in Desk, Sane(s), SameNames(s, t), t.groups = s.groups, Known(t)
  PROVE  /\ Sane(t)
         /\ \A x : In(t, x) <=> In(s, x)
         /\ \A n : Docks(t, n) <=> Docks(s, n)
<1>1. Disjoint(t)
  BY DEF Sane, Disjoint, SameNames
<1>2. LastOfName(t)
  BY DEF Sane, LastOfName, SameNames
<1>3. \A x : In(t, x) <=> In(s, x)
  BY DEF In
<1>4. \A n : Docks(t, n) <=> Docks(s, n)
  BY <1>3 DEF Docks, SameNames
<1> QED
  BY <1>1, <1>2, <1>3, <1>4 DEF Sane

LEMMA KnownMore ==
  ASSUME NEW s, NEW t, Sane(s), DOMAIN s.win \subseteq DOMAIN t.win,
         \A x \in DOMAIN s.win : t.win[x].name = s.win[x].name,
         NEW kind, NEW n, \E x \in DOMAIN t.win : t.win[x].name = n,
         t.bus = Append(s.bus, <<kind, n>>)
  PROVE  Known(t)
<1> SUFFICES ASSUME NEW k \in DOMAIN t.bus
             PROVE  \E x \in DOMAIN t.win : t.win[x].name = t.bus[k][2]
  BY DEF Known
<1>1. s.bus \in Seq(Messages)
  BY DEF Sane, Desk
<1>2. (k \in DOMAIN s.bus /\ t.bus[k] = s.bus[k]) \/ t.bus[k] = <<kind, n>>
  BY <1>1
<1>3. k \in DOMAIN s.bus => \E x \in DOMAIN s.win : s.win[x].name = s.bus[k][2]
  BY DEF Sane, Known
<1>4. t.bus[k] = <<kind, n>> => t.bus[k][2] = n
  OBVIOUS
<1> QED
  BY <1>2, <1>3, <1>4

LEMMA KnownLess ==
  ASSUME NEW s, NEW t, Sane(s), SameNames(s, t), s.bus # <<>>, t.bus = Tail(s.bus)
  PROVE  Known(t)
<1> SUFFICES ASSUME NEW k \in DOMAIN t.bus
             PROVE  \E x \in DOMAIN t.win : t.win[x].name = t.bus[k][2]
  BY DEF Known
<1>1. s.bus \in Seq(Messages)
  BY DEF Sane, Desk
<1>2. k + 1 \in DOMAIN s.bus /\ t.bus[k] = s.bus[k + 1]
  BY <1>1, ReadOne
<1> QED
  BY <1>2 DEF Sane, Known, SameNames

\* An undocking is asked for: what is said of the name will be set right.
LEMMA UndockAsked ==
  ASSUME NEW s, NEW t, Sane(s), NEW n \in Names, t.bus = Append(s.bus, <<"undock", n>>),
         NEW marks, NEW marks2,
         \A k \in Names : ToldOf(s, marks, k),
         \A k : Docks(t, k) <=> Docks(s, k),
         \A k \in Names : k # n =>
           (HasPopout(t, k) => HasPopout(s, k)) /\ (k \in marks2 <=> k \in marks)
  PROVE  Told(t, marks2)
<1> SUFFICES ASSUME NEW k \in Names PROVE ToldOf(t, marks2, k)
  BY DEF Told
<1> DEFINE x == <<"undock", n>>
<1>1. s.bus \in Seq(Messages) /\ x \in Messages /\ t.bus = Append(s.bus, x)
  BY DEF Sane, Desk, Messages
<1>2. (IsAbout(x, k) <=> k = n) /\ x # <<"docked", k>> /\ x # <<"undocked", k>>
  BY DEF IsAbout
<1> HIDE DEF x
<1>3. /\ Silent(t.bus, k) <=> Silent(s.bus, k) /\ k # n
      /\ LastIs(t.bus, k, "docked") => LastIs(s.bus, k, "docked") /\ k # n
      /\ LastIs(t.bus, k, "undocked") => LastIs(s.bus, k, "undocked") /\ k # n
  BY <1>1, <1>2, SayOne
<1>4. ToldOf(s, marks, k)
  OBVIOUS
<1> QED
  BY <1>3, <1>4 DEF ToldOf

\* Only what was said of one name has been read.
LEMMA ReadTold ==
  ASSUME NEW s, NEW t, Sane(s), s.bus # <<>>, t.bus = Tail(s.bus), NEW n,
         ~IsAbout(Head(s.bus), n) \/ ~HasPopout(t, n),
         HasPopout(t, n) => HasPopout(s, n), Docks(t, n) <=> Docks(s, n),
         NEW marks, NEW marks2, n \in marks2 <=> n \in marks, ToldOf(s, marks, n)
  PROVE  ToldOf(t, marks2, n)
<1>1. s.bus \in Seq(Messages)
  BY DEF Sane, Desk
<1>2. /\ Silent(t.bus, n) /\ ~IsAbout(Head(s.bus), n) => Silent(s.bus, n)
      /\ LastIs(t.bus, n, "docked") => LastIs(s.bus, n, "docked")
      /\ LastIs(t.bus, n, "undocked") => LastIs(s.bus, n, "undocked")
  BY <1>1, ReadOne
<1> QED
  BY <1>2 DEF ToldOf

\* Nothing has changed but where the windows are.
LEMMA PlacesChange ==
  ASSUME NEW s, NEW t \in Desk, Sane(s), SameWindows(s, t),
         t.groups = s.groups, t.bus = s.bus, t.storage = s.storage
  PROVE  /\ Sane(t)
         /\ \A n : HasPopout(t, n) <=> HasPopout(s, n)
         /\ Living(t) <=> Living(s)
         /\ Remembered(s) => Remembered(t)
         /\ \A marks : Told(s, marks) => Told(t, marks)
         /\ Paired(s) => Paired(t)
<1>1. SameNames(s, t)
  BY DEF SameWindows, SameNames
<1>2. Known(t)
  BY DEF Sane, Known, SameWindows
<1>3. /\ Sane(t) /\ \A x : In(t, x) <=> In(s, x)
      /\ \A n : Docks(t, n) <=> Docks(s, n)
  BY <1>1, <1>2, GroupsKept
<1>4. \A n : HasPopout(t, n) <=> HasPopout(s, n)
  BY DEF HasPopout, SameWindows
<1>5. Living(t) <=> Living(s)
  BY <1>3 DEF Living, SameWindows
<1>6. Remembered(s) => Remembered(t)
  BY <1>3 DEF Remembered
<1>7. \A marks : Told(s, marks) => Told(t, marks)
  BY <1>3, <1>4 DEF Told, ToldOf
<1>8. ASSUME Paired(s), NEW g \in s.groups, Len(g) = 1
      PROVE  s.storage[t.win[g[1]].name] = t.win[g[1]].name
  <2>1. g \in Seq(DOMAIN s.win)
    BY DEF Sane, Disjoint
  <2>2. 1 \in DOMAIN g
    BY <1>8, <2>1
  <2>3. g[1] \in DOMAIN s.win
    BY <2>1, <2>2
  <2> QED
    BY <1>8, <2>3 DEF Paired, SameWindows
<1> QED
  BY <1>3, <1>4, <1>5, <1>6, <1>7, <1>8 DEF Paired

-----------------------------------------------------------------------------
(* The invariant.                                                          *)

\* While no group has held a closed window, everything agrees with the groups.
Fine(s, marks, r) ==
  /\ Living(s) /\ Healthy(s, marks)
  /\ r = 0 => Remembered(s)

DockInv ==
  /\ Sane(Desktop)
  /\ snaps \subseteq Opened \X Opened /\ dragged \in Opened \cup {0}
  /\ marked \subseteq Names /\ \A n \in marked : HasPopout(Desktop, n)
  /\ place \in [Names -> Int \X Int]
  /\ restarts \in Nat
  /\ ~ghost => Fine(Desktop, marked, restarts)

LEMMA DesktopIs ==
  /\ Desktop.win = win /\ Desktop.groups = groups
  /\ Desktop.bus = bus /\ Desktop.storage = storage
BY DEF Desktop

LEMMA DesktopNext ==
  /\ Desktop'.win = win' /\ Desktop'.groups = groups'
  /\ Desktop'.bus = bus' /\ Desktop'.storage = storage'
BY DEF Desktop

\* A desktop without windows.
LEMMA EmptyDesktop ==
  ASSUME NEW s, s.win = <<>>, s.groups = {}, s.bus = <<>>, s = Desktop \/ s = Desktop',
         s.storage \in [Names -> Names \cup {NoName}], NEW marks, marks = {}
  PROVE  Sane(s) /\ Living(s) /\ Healthy(s, marks)
<1>1. DOMAIN s.win = {} /\ DOMAIN s.bus = {}
  OBVIOUS
<1>2. s \in Desk
  <2>1. s.win \in Seq(Window) /\ s.bus \in Seq(Messages) /\ s.groups \in SUBSET Seq(Nat)
    OBVIOUS
  <2>2. s = [win |-> s.win, groups |-> s.groups, bus |-> s.bus, storage |-> s.storage]
    BY DEF Desktop
  <2> QED
    BY <2>1, <2>2, Zenon DEF Desk
<1>3. Sane(s)
  BY <1>1, <1>2 DEF Sane, Disjoint, LastOfName, Known
<1>4. \A x : ~In(s, x)
  BY DEF In
<1>5. \A n : ~Docks(s, n) /\ Silent(s.bus, n) /\ ~HasPopout(s, n)
        /\ \A kind : ~LastIs(s.bus, n, kind)
  BY <1>1, <1>4 DEF Docks, Silent, LastIs, HasPopout
<1>6. Living(s) /\ Paired(s) /\ Apart(s)
  BY <1>1 DEF Living, Paired, Apart
<1>7. Told(s, marks)
  BY <1>5 DEF Told, ToldOf
<1> QED
  BY <1>3, <1>6, <1>7 DEF Healthy

LEMMA InvInit == Init => DockInv
<1> SUFFICES ASSUME Init PROVE DockInv
  OBVIOUS
<1> PICK s : s = Desktop
  OBVIOUS
<1>1. /\ s.win = <<>> /\ s.groups = {} /\ s.bus = <<>>
      /\ s.storage = [n \in Names |-> NoName]
  BY DesktopIs DEF Init
<1>2. Sane(s) /\ Living(s) /\ Healthy(s, marked)
  <2>1. s.storage \in [Names -> Names \cup {NoName}]
    BY <1>1
  <2> QED
    BY <1>1, <2>1, EmptyDesktop DEF Init
<1>3. Remembered(s)
  BY <1>1 DEF Remembered
<1> QED
  BY <1>2, <1>3, DockingAssumption DEF DockInv, Init, Fine

-----------------------------------------------------------------------------
(* The last window of a name.                                              *)

LEMMA MaxIn ==
  ASSUME NEW m \in Nat, NEW S \in SUBSET (1..m), S # {}
  PROVE  Max(S) \in S /\ \A y \in S : Max(S) >= y
<1> DEFINE gaps == {m - n : n \in S}
<1>1. gaps \subseteq Nat /\ gaps # {}
  OBVIOUS
<1>2. PICK d \in gaps : \A c \in gaps : <<c, d>> \notin OpToRel(<, Nat)
  BY <1>1, NatLessThanWellFounded, WFMin
<1>3. \A c \in gaps : ~(c < d)
  BY <1>1, <1>2 DEF OpToRel
<1>4. PICK x \in S : d = m - x
  OBVIOUS
<1>5. ASSUME NEW y \in S PROVE x >= y
  <2>1. ~(m - y < m - x)
    BY <1>3, <1>4
  <2> QED
    BY <2>1
<1>6. \E k \in S : \A y \in S : k >= y
  BY <1>5
<1> QED
  BY <1>6 DEF Max

LEMMA LastInstance ==
  ASSUME DockInv, NEW n, InstancesOf(n) # {}
  PROVE  /\ Max(InstancesOf(n)) \in DOMAIN win
         /\ win[Max(InstancesOf(n))].name = n
         /\ \A w \in DOMAIN win : win[w].name = n => Max(InstancesOf(n)) >= w
<1> DEFINE S == InstancesOf(n)
<1>1. win \in Seq(Window)
  BY DesktopIs DEF DockInv, Sane, Desk
<1>2. \A w : w \in S <=> w \in DOMAIN win /\ win[w].name = n
  BY DEF InstancesOf, Opened, NameOf
<1>3. S \in SUBSET (1..Len(win)) /\ Len(win) \in Nat
  BY <1>1, <1>2
<1> HIDE DEF S
<1>4. S # {}
  BY DEF S
<1>5. Max(S) \in S /\ \A y \in S : Max(S) >= y
  BY <1>3, <1>4, MaxIn
<1> QED
  BY <1>2, <1>5 DEF S

\* The only window of a name that can be docked is the last there has been.
LEMMA DockedIsLast ==
  ASSUME DockInv, Living(Desktop), NEW n, Docks(Desktop, n)
  PROVE  InstancesOf(n) # {} /\ IsGrouped(Max(InstancesOf(n)))
<1> PICK s : s = Desktop
  OBVIOUS
<1>1. s.win = win /\ s.groups = groups /\ Sane(s)
  BY DesktopIs DEF DockInv
<1>2. PICK x \in DOMAIN s.win : s.win[x].name = n /\ In(s, x)
  BY DEF Docks
<1>3. InstancesOf(n) # {}
  BY <1>1, <1>2 DEF InstancesOf, Opened, NameOf
<1> PICK m : m = Max(InstancesOf(n))
  OBVIOUS
<1>4. m \in DOMAIN s.win /\ s.win[m].name = n /\ m >= x
  BY <1>1, <1>2, <1>3, LastInstance
<1>5. s.win[x].phase # "closed"
  BY <1>2 DEF Living
<1>6. ~(x < m)
  BY <1>1, <1>2, <1>4, <1>5 DEF Sane, LastOfName
<1>7. x \in Nat /\ m \in Nat
  BY <1>1, <1>2, <1>4, WindowIs
<1>8. x = m
  BY <1>4, <1>6, <1>7
<1> QED
  BY <1>1, <1>2, <1>3, <1>8 DEF In, IsGrouped, GroupsOf

-----------------------------------------------------------------------------
(* The steps.                                                              *)

\* Groups whose windows are where they were.
LEMMA GroupsUnmoved ==
  ASSUME NEW s, NEW t, Sane(s), t.groups = s.groups, t.storage = s.storage,
         \A x : In(s, x) =>
           t.win[x].name = s.win[x].name /\ t.win[x].x = s.win[x].x /\ t.win[x].y = s.win[x].y
  PROVE  (Paired(s) => Paired(t)) /\ (Apart(s) => Apart(t))
<1>1. ASSUME NEW g \in s.groups, NEW i \in DOMAIN g PROVE In(s, g[i])
  BY DEF In, Range
<1>2. ASSUME NEW g \in s.groups, Len(g) = 1 PROVE 1 \in DOMAIN g
  <2>1. g \in Seq(DOMAIN s.win)
    BY DEF Sane, Disjoint
  <2> QED
    BY <1>2, <2>1
<1>3. Paired(s) => Paired(t)
  BY <1>1, <1>2 DEF Paired
<1>4. ASSUME NEW x, NEW y, In(s, x), In(s, y), ~intersact(s.win[x], s.win[y])
      PROVE  ~intersact(t.win[x], t.win[y])
  BY <1>4 DEF intersact, Overlap, Width, Height
<1>5. Apart(s) => Apart(t)
  BY <1>1, <1>4 DEF Apart
<1> QED
  BY <1>3, <1>5

LEMMA OpenKeeps ==
  ASSUME DockInv, NEW n \in Names, Open(n)
  PROVE  DockInv'
<1> PICK s : s = Desktop
  OBVIOUS
<1> PICK t : t = Desktop'
  OBVIOUS
<1> DEFINE b == [name |-> n, phase |-> "open", waits |-> TRUE,
                 x |-> place[n][1], y |-> place[n][2], range |-> range]
           m == Len(s.win) + 1
<1>1. /\ t.win = Append(s.win, b) /\ t.groups = s.groups /\ t.storage = s.storage
      /\ t.bus = Append(s.bus, <<"load", n>>)
      /\ UNCHANGED <<snaps, dragged, marked, place, ghost, restarts>>
  BY DesktopIs, DesktopNext DEF Open
<1>2. /\ s.win = win /\ Sane(s) /\ s \in Desk
      /\ s.win \in Seq(Window) /\ s.bus \in Seq(Messages)
  BY DesktopIs DEF DockInv, Sane, Desk
<1>3. b \in Window /\ b.name = n /\ b.phase = "open"
  <2>1. place[n][1] \in Int /\ place[n][2] \in Int
    BY DEF DockInv
  <2> QED
    BY <2>1 DEF Window, range
<1> HIDE DEF b
<1>4. /\ t.win \in Seq(Window) /\ DOMAIN t.win = (DOMAIN s.win) \cup {m} /\ t.win[m] = b
      /\ \A x \in DOMAIN s.win : t.win[x] = s.win[x] /\ x < m
      /\ DOMAIN s.win = 1..Len(s.win) /\ m \notin DOMAIN s.win /\ m \in Nat
  BY <1>1, <1>2, <1>3
<1> HIDE DEF m
<1>5. t \in Desk
  <2>1. <<"load", n>> \in Messages
    BY DEF Messages
  <2>2. t.bus \in Seq(Messages)
    BY <1>1, <1>2, <2>1
  <2>3. t = [win |-> t.win, groups |-> t.groups, bus |-> t.bus, storage |-> t.storage]
    BY DEF Desktop
  <2> QED
    BY <1>1, <1>2, <1>4, <2>2, <2>3 DEF Desk
<1>6. \A x \in DOMAIN s.win : s.win[x].name = n => s.win[x].phase = "closed"
  BY <1>2 DEF Open, Registered, Opened, NameOf
<1>7. \A x : In(t, x) <=> In(s, x)
  BY <1>1 DEF In
<1>8. \A x : In(s, x) => x \in DOMAIN s.win /\ t.win[x] = s.win[x]
  BY <1>2, <1>4, InIsOpened DEF In
<1>9. Sane(t)
  <2>1. Disjoint(t)
    <3>1. \A g \in Seq(DOMAIN s.win) : g \in Seq(DOMAIN t.win)
      BY <1>4
    <3> QED
      BY <1>1, <1>2, <3>1 DEF Sane, Disjoint
  <2>2. LastOfName(t)
    <3> SUFFICES ASSUME NEW v \in DOMAIN t.win, NEW w \in DOMAIN t.win,
                        v < w, t.win[v].name = t.win[w].name
                 PROVE  t.win[v].phase = "closed"
      BY DEF LastOfName
    <3>1. v \in DOMAIN s.win
      <4>1. \A x \in DOMAIN t.win : x <= m /\ x \in Nat
        BY <1>4
      <4> QED
        BY <1>4, <4>1
    <3>2. CASE w = m
      BY <1>3, <1>4, <1>6, <3>1, <3>2
    <3>3. CASE w \in DOMAIN s.win
      BY <1>2, <1>4, <3>1, <3>3 DEF Sane, LastOfName
    <3> QED
      BY <1>4, <3>2, <3>3
  <2>3. Known(t)
    <3>1. m \in DOMAIN t.win /\ t.win[m].name = n
      BY <1>3, <1>4
    <3>2. DOMAIN s.win \subseteq DOMAIN t.win /\ \A x \in DOMAIN s.win : t.win[x].name = s.win[x].name
      BY <1>4
    <3>3. t.bus = Append(s.bus, <<"load", n>>) /\ Sane(s)
      BY <1>1, <1>2
    <3>4. \E x \in DOMAIN t.win : t.win[x].name = n
      BY <3>1
    <3> QED
      BY <3>2, <3>3, <3>4, KnownMore
  <2> QED
    BY <1>5, <2>1, <2>2, <2>3 DEF Sane
<1>10. \A k : HasPopout(t, k) <=> HasPopout(s, k) \/ k = n
  BY <1>3, <1>4 DEF HasPopout
<1>11. \A k : Docks(t, k) <=> Docks(s, k)
  BY <1>4, <1>7, <1>8 DEF Docks
<1>12. n \notin marked
  BY <1>6 DEF DockInv, HasPopout
<1>13. ASSUME ~ghost PROVE Fine(t, marked, restarts)
  <2>1. Living(s) /\ Paired(s) /\ Apart(s) /\ Told(s, marked) /\ (restarts = 0 => Remembered(s))
    BY <1>13 DEF DockInv, Fine, Healthy
  <2>2. Living(t)
    BY <1>7, <1>8, <2>1 DEF Living
  <2>3. Paired(t) /\ Apart(t)
    BY <1>1, <1>2, <1>8, <2>1, GroupsUnmoved
  <2>4. ~Docks(s, n)
    BY <1>6, <2>1 DEF Docks, Living
  <2>5. ASSUME NEW k \in Names PROVE ToldOf(t, marked, k)
    <3>1. <<"load", n>> \in Messages /\ ~IsAbout(<<"load", n>>, k)
          /\ <<"load", n>> # <<"docked", k>> /\ <<"load", n>> # <<"undocked", k>>
      BY DEF Messages, IsAbout
    <3>2. /\ Silent(t.bus, k) <=> Silent(s.bus, k)
          /\ LastIs(t.bus, k, "docked") => LastIs(s.bus, k, "docked")
          /\ LastIs(t.bus, k, "undocked") => LastIs(s.bus, k, "undocked")
      BY <1>1, <1>2, <3>1, SayOne
    <3> QED
      BY <1>10, <1>11, <1>12, <2>1, <2>4, <3>2 DEF Told, ToldOf
  <2>6. Remembered(s) => Remembered(t)
    BY <1>1, <1>11 DEF Remembered
  <2> QED
    BY <2>1, <2>2, <2>3, <2>5, <2>6 DEF Fine, Healthy, Told
<1>14. snaps \subseteq (DOMAIN t.win) \X (DOMAIN t.win) /\ dragged \in (DOMAIN t.win) \cup {0}
  BY <1>2, <1>4 DEF DockInv, Opened
<1>15. DOMAIN t.win = Opened'
  BY DesktopNext DEF Opened
<1> QED
  BY <1>1, <1>9, <1>10, <1>13, <1>14, <1>15 DEF DockInv

LEMMA PhaseChanges ==
  ASSUME NEW ws \in Seq(Window), NEW vs, NEW w \in DOMAIN ws, NEW p \in {"closing", "closed"},
         vs = [ws EXCEPT ![w].phase = p]
  PROVE  /\ vs \in Seq(Window) /\ DOMAIN vs = DOMAIN ws
         /\ vs[w].phase = p /\ \A x \in DOMAIN ws : x # w => vs[x] = ws[x]
         /\ \A x \in DOMAIN ws :
              vs[x].name = ws[x].name /\ vs[x].x = ws[x].x /\ vs[x].y = ws[x].y
<1> PICK b \in Window : b = ws[w]
  OBVIOUS
<1> DEFINE c == [b EXCEPT !.phase = p]
<1>1. c \in Window /\ c.phase = p /\ c.name = b.name /\ c.x = b.x /\ c.y = b.y
  <2>1. c \in Window
    BY Zenon DEF Window
  <2> QED
    BY DEF Window
<1>2. vs = [ws EXCEPT ![w] = c]
  OBVIOUS
<1> HIDE DEF c
<1> QED
  BY <1>1, <1>2

LEMMA CloseRequestedKeeps ==
  ASSUME DockInv, NEW w \in Opened, CloseRequested(w)
  PROVE  DockInv'
<1> PICK s : s = Desktop
  OBVIOUS
<1> PICK t : t = Desktop'
  OBVIOUS
<1> PICK n : n = s.win[w].name
  OBVIOUS
<1>1. /\ t.win = [s.win EXCEPT ![w].phase = "closing"]
      /\ t.groups = s.groups /\ t.storage = s.storage
      /\ t.bus = Append(s.bus, <<"undock", n>>) /\ marked' = marked \ {n}
      /\ UNCHANGED <<snaps, dragged, place, ghost, restarts>>
      /\ w \in DOMAIN s.win /\ s.win[w].phase = "open"
  BY DesktopIs, DesktopNext DEF CloseRequested, NameOf, Opened, Popouts
<1>2. /\ s.win = win /\ Sane(s) /\ s \in Desk
      /\ s.win \in Seq(Window) /\ s.bus \in Seq(Messages)
  BY DesktopIs DEF DockInv, Sane, Desk
<1>3. /\ t.win \in Seq(Window) /\ DOMAIN t.win = DOMAIN s.win
      /\ t.win[w].phase = "closing" /\ \A x \in DOMAIN s.win : x # w => t.win[x] = s.win[x]
      /\ \A x \in DOMAIN s.win :
           t.win[x].name = s.win[x].name /\ t.win[x].x = s.win[x].x /\ t.win[x].y = s.win[x].y
  <2>1. t.win = [s.win EXCEPT ![w].phase = "closing"] /\ w \in DOMAIN s.win
    BY <1>1
  <2> QED
    BY <1>2, <2>1, PhaseChanges
<1>4. n \in Names
  <2>1. s.win[w] \in Window
    BY <1>1, <1>2
  <2> QED
    BY <2>1 DEF Window
<1>5. t \in Desk
  <2>1. <<"undock", n>> \in Messages
    BY <1>4 DEF Messages
  <2>2. t.bus \in Seq(Messages)
    BY <1>1, <1>2, <2>1
  <2>3. t = [win |-> t.win, groups |-> t.groups, bus |-> t.bus, storage |-> t.storage]
    BY DEF Desktop
  <2> QED
    BY <1>1, <1>2, <1>3, <2>2, <2>3 DEF Desk
<1>6. SameNames(s, t)
  <2>1. \A x \in DOMAIN s.win : s.win[x].phase = "closed" => t.win[x].phase = "closed"
    BY <1>1, <1>3
  <2> QED
    BY <1>3, <2>1 DEF SameNames
<1>7. Known(t)
  <2>1. \E x \in DOMAIN t.win : t.win[x].name = n
    BY <1>1, <1>3
  <2>2. DOMAIN s.win \subseteq DOMAIN t.win /\ \A x \in DOMAIN s.win : t.win[x].name = s.win[x].name
    BY <1>3
  <2>3. t.bus = Append(s.bus, <<"undock", n>>) /\ Sane(s)
    BY <1>1, <1>2
  <2> QED
    BY <2>1, <2>2, <2>3, KnownMore
<1>8. /\ Sane(t) /\ \A x : In(t, x) <=> In(s, x)
      /\ \A k : Docks(t, k) <=> Docks(s, k)
  BY <1>1, <1>2, <1>5, <1>6, <1>7, GroupsKept
<1>9. \A k : (HasPopout(t, k) => HasPopout(s, k)) /\ (k # n /\ HasPopout(s, k) => HasPopout(t, k))
  BY <1>1, <1>3 DEF HasPopout
<1>10. ASSUME ~ghost PROVE Fine(t, marked', restarts)
  <2>1. Living(s) /\ Paired(s) /\ Apart(s) /\ Told(s, marked) /\ (restarts = 0 => Remembered(s))
    BY <1>10 DEF DockInv, Fine, Healthy
  <2>2. Living(t)
    BY <1>1, <1>3, <1>8, <2>1 DEF Living
  <2>3. Paired(t) /\ Apart(t)
    <3>1. \A x : In(s, x) => x \in DOMAIN s.win
      BY <1>2, InIsOpened DEF In
    <3>2. \A x : In(s, x) =>
            t.win[x].name = s.win[x].name /\ t.win[x].x = s.win[x].x /\ t.win[x].y = s.win[x].y
      BY <1>3, <3>1
    <3>3. t.groups = s.groups /\ t.storage = s.storage /\ Sane(s)
      BY <1>1, <1>2
    <3> QED
      BY <2>1, <3>2, <3>3, GroupsUnmoved
  <2>4. Told(t, marked')
    <3>1. \A k \in Names : ToldOf(s, marked, k)
      BY <2>1 DEF Told
    <3>2. \A k \in Names : k # n =>
            (HasPopout(t, k) => HasPopout(s, k)) /\ (k \in marked' <=> k \in marked)
      BY <1>1, <1>9
    <3>3. \A k : Docks(t, k) <=> Docks(s, k)
      BY <1>8
    <3>4. t.bus = Append(s.bus, <<"undock", n>>) /\ Sane(s)
      BY <1>1, <1>2
    <3> QED
      BY <1>4, <3>1, <3>2, <3>3, <3>4, UndockAsked
  <2>5. Remembered(s) => Remembered(t)
    BY <1>1, <1>8 DEF Remembered
  <2> QED
    BY <2>1, <2>2, <2>3, <2>4, <2>5 DEF Fine, Healthy
<1>11. Opened' = Opened
  BY <1>2, <1>3, DesktopNext DEF Opened
<1>12. marked' \subseteq Names /\ \A k \in marked' : HasPopout(t, k)
  BY <1>1, <1>9 DEF DockInv
<1> QED
  BY <1>1, <1>8, <1>10, <1>11, <1>12 DEF DockInv

\* Then no group holds a closed window.
LEMMA NotHaunted ==
  ASSUME Sane(Desktop'), ~HoldsClosed'
  PROVE  Living(Desktop')
<1> PICK t : t = Desktop'
  OBVIOUS
<1>1. \A g \in t.groups : \A w \in Range(g) : t.win[w].phase # "closed"
  BY DesktopNext DEF HoldsClosed
<1> QED
  BY <1>1 DEF Living, In

LEMMA ClosedKeeps ==
  ASSUME DockInv, NEW w \in Opened, Closed(w)
  PROVE  DockInv'
<1> PICK s : s = Desktop
  OBVIOUS
<1> PICK t : t = Desktop'
  OBVIOUS
<1>1. /\ t.win = [s.win EXCEPT ![w].phase = "closed"]
      /\ t.groups = s.groups /\ t.storage = s.storage /\ t.bus = s.bus
      /\ UNCHANGED <<snaps, dragged, marked, restarts>>
      /\ w \in DOMAIN s.win /\ s.win[w].phase = "closing"
      /\ place' = [place EXCEPT ![s.win[w].name] = <<s.win[w].x, s.win[w].y>>]
  BY DesktopIs, DesktopNext DEF Closed, NameOf, Opened
<1>2. /\ s.win = win /\ Sane(s) /\ s \in Desk
      /\ s.win \in Seq(Window) /\ s.bus \in Seq(Messages)
  BY DesktopIs DEF DockInv, Sane, Desk
<1>3. /\ t.win \in Seq(Window) /\ DOMAIN t.win = DOMAIN s.win
      /\ t.win[w].phase = "closed" /\ \A x \in DOMAIN s.win : x # w => t.win[x] = s.win[x]
      /\ \A x \in DOMAIN s.win :
           t.win[x].name = s.win[x].name /\ t.win[x].x = s.win[x].x /\ t.win[x].y = s.win[x].y
  <2>1. t.win = [s.win EXCEPT ![w].phase = "closed"] /\ w \in DOMAIN s.win
    BY <1>1
  <2>2. s.win \in Seq(Window)
    BY <1>2
  <2> QED
    BY <2>1, <2>2, PhaseChanges
<1>4. place' \in [Names -> Int \X Int]
  <2>1. s.win[w] \in Window
    BY <1>1, <1>2
  <2>2. <<s.win[w].x, s.win[w].y>> \in Int \X Int
    BY <2>1 DEF Window
  <2> QED
    BY <1>1, <2>2 DEF DockInv
<1>5. t \in Desk
  <2>1. t = [win |-> t.win, groups |-> t.groups, bus |-> t.bus, storage |-> t.storage]
    BY DEF Desktop
  <2> QED
    BY <1>1, <1>2, <1>3, <2>1 DEF Desk
<1>6. SameNames(s, t)
  <2>1. \A x \in DOMAIN s.win : s.win[x].phase = "closed" => t.win[x].phase = "closed"
    BY <1>3
  <2> QED
    BY <1>3, <2>1 DEF SameNames
<1>7. Known(t)
  BY <1>1, <1>2, <1>3 DEF Sane, Known
<1>8. /\ Sane(t) /\ \A x : In(t, x) <=> In(s, x)
      /\ \A k : Docks(t, k) <=> Docks(s, k)
  BY <1>1, <1>2, <1>5, <1>6, <1>7, GroupsKept
<1>9. \A k : HasPopout(t, k) <=> HasPopout(s, k)
  BY <1>1, <1>3 DEF HasPopout
<1>10. ASSUME ~ghost' PROVE Fine(t, marked, restarts)
  <2>1. ~ghost /\ ~HoldsClosed'
    BY <1>10 DEF Closed, Haunt
  <2>2. Living(s) /\ Paired(s) /\ Apart(s) /\ Told(s, marked) /\ (restarts = 0 => Remembered(s))
    BY <2>1 DEF DockInv, Fine, Healthy
  <2>3. Living(t)
    BY <1>8, <2>1, NotHaunted
  <2>4. Paired(t) /\ Apart(t)
    <3>1. \A x : In(s, x) => x \in DOMAIN s.win
      BY <1>2, InIsOpened DEF In
    <3>2. \A x : In(s, x) =>
            t.win[x].name = s.win[x].name /\ t.win[x].x = s.win[x].x /\ t.win[x].y = s.win[x].y
      BY <1>3, <3>1
    <3>3. t.groups = s.groups /\ t.storage = s.storage /\ Sane(s)
      BY <1>1, <1>2
    <3> QED
      BY <2>2, <3>2, <3>3, GroupsUnmoved
  <2>5. Told(t, marked)
    BY <1>1, <1>8, <1>9, <2>2 DEF Told, ToldOf
  <2>6. Remembered(s) => Remembered(t)
    BY <1>1, <1>8 DEF Remembered
  <2> QED
    BY <2>2, <2>3, <2>4, <2>5, <2>6 DEF Fine, Healthy
<1>11. Opened' = Opened
  BY <1>2, <1>3, DesktopNext DEF Opened
<1>12. \A k \in marked : HasPopout(t, k)
  BY <1>9 DEF DockInv
<1> QED
  BY <1>1, <1>4, <1>8, <1>10, <1>11, <1>12 DEF DockInv

LEMMA UndockTileKeeps ==
  ASSUME DockInv, NEW w \in Opened, UndockTile(w)
  PROVE  DockInv'
<1> PICK s : s = Desktop
  OBVIOUS
<1> PICK t : t = Desktop'
  OBVIOUS
<1> PICK n : n = s.win[w].name
  OBVIOUS
<1>1. /\ t.win = s.win /\ t.groups = s.groups /\ t.storage = s.storage
      /\ t.bus = Append(s.bus, <<"undock", n>>) /\ w \in DOMAIN s.win
      /\ UNCHANGED <<snaps, dragged, marked, place, ghost, restarts>>
  BY DesktopIs, DesktopNext DEF UndockTile, NameOf, Opened
<1>2. /\ s.win = win /\ Sane(s) /\ s \in Desk
      /\ s.win \in Seq(Window) /\ s.bus \in Seq(Messages)
  BY DesktopIs DEF DockInv, Sane, Desk
<1>3. n \in Names
  <2>1. s.win[w] \in Window
    BY <1>1, <1>2
  <2> QED
    BY <2>1 DEF Window
<1>4. t \in Desk
  <2>1. <<"undock", n>> \in Messages
    BY <1>3 DEF Messages
  <2>2. t.bus \in Seq(Messages)
    BY <1>1, <1>2, <2>1
  <2>3. t = [win |-> t.win, groups |-> t.groups, bus |-> t.bus, storage |-> t.storage]
    BY DEF Desktop
  <2> QED
    BY <1>1, <1>2, <2>2, <2>3 DEF Desk
<1>5. SameNames(s, t)
  BY <1>1 DEF SameNames
<1>6. Known(t)
  BY <1>1, <1>2, KnownMore
<1>7. /\ Sane(t) /\ \A x : In(t, x) <=> In(s, x)
      /\ \A k : Docks(t, k) <=> Docks(s, k)
  BY <1>1, <1>2, <1>4, <1>5, <1>6, GroupsKept
<1>8. \A k : HasPopout(t, k) <=> HasPopout(s, k)
  BY <1>1 DEF HasPopout
<1>9. ASSUME ~ghost PROVE Fine(t, marked, restarts)
  <2>1. Living(s) /\ Paired(s) /\ Apart(s) /\ Told(s, marked) /\ (restarts = 0 => Remembered(s))
    BY <1>9 DEF DockInv, Fine, Healthy
  <2>2. Living(t)
    BY <1>1, <1>7, <2>1 DEF Living
  <2>3. Paired(t) /\ Apart(t)
    BY <1>1, <2>1 DEF Paired, Apart
  <2>4. Told(t, marked)
    <3>1. \A k \in Names : ToldOf(s, marked, k)
      BY <2>1 DEF Told
    <3> QED
      BY <1>1, <1>2, <1>3, <1>7, <1>8, <3>1, UndockAsked
  <2>5. Remembered(s) => Remembered(t)
    BY <1>1, <1>7 DEF Remembered
  <2> QED
    BY <2>1, <2>2, <2>3, <2>4, <2>5 DEF Fine, Healthy
<1>10. Opened' = Opened
  BY <1>1, <1>2, DesktopNext DEF Opened
<1>11. \A k \in marked : HasPopout(t, k)
  BY <1>8 DEF DockInv
<1> QED
  BY <1>1, <1>7, <1>9, <1>10, <1>11 DEF DockInv

LEMMA RestartKeeps ==
  ASSUME DockInv, Restart
  PROVE  DockInv'
<1> PICK t : t = Desktop'
  OBVIOUS
<1>1. /\ t.win = <<>> /\ t.groups = {} /\ t.bus = <<>> /\ t.storage = storage
      /\ snaps' = {} /\ dragged' = 0 /\ marked' = {} /\ restarts' = restarts + 1
  BY DesktopNext DEF Restart
<1>2. storage \in [Names -> Names \cup {NoName}] /\ win \in Seq(Window)
  BY DesktopIs DEF DockInv, Sane, Desk
<1>3. Sane(t) /\ Living(t) /\ Healthy(t, marked')
  BY <1>1, <1>2, EmptyDesktop
<1>4. restarts' \in Nat /\ restarts' # 0
  BY <1>1 DEF DockInv
<1>5. place' \in [Names -> Int \X Int]
  <2>1. ASSUME NEW n \in Names, \E w \in Registered : NameOf(w) = n
        PROVE  <<win[Max(InstancesOf(n))].x, win[Max(InstancesOf(n))].y>> \in Int \X Int
    <3>1. InstancesOf(n) # {}
      BY <2>1 DEF InstancesOf, Registered
    <3>2. Max(InstancesOf(n)) \in DOMAIN win
      BY <3>1, LastInstance
    <3> PICK m \in DOMAIN win : m = Max(InstancesOf(n))
      BY <3>2
    <3>3. win[m] \in Window
      BY <1>2
    <3> QED
      BY <3>3 DEF Window
  <2>2. \A n \in Names : place[n] \in Int \X Int
    BY DEF DockInv
  <2>3. place' = [n \in Names |->
                    IF \E w \in Registered : NameOf(w) = n
                    THEN <<win[Max(InstancesOf(n))].x, win[Max(InstancesOf(n))].y>>
                    ELSE place[n]]
    BY DEF Restart
  <2> QED
    BY <2>1, <2>2, <2>3
<1>6. Fine(t, marked', restarts')
  BY <1>3, <1>4 DEF Fine
<1> QED
  BY <1>1, <1>3, <1>4, <1>5, <1>6 DEF DockInv

-----------------------------------------------------------------------------
(* Pairs are joined in turn.                                               *)

\* A pair brings no closed window into a group: it has none, or the one that
\* would join is in a group already.
Harmless(s, w, v) ==
  \/ In(s, w)
  \/ s.win[w].phase # "closed" /\ s.win[v].phase # "closed"

LEMMA JoinFine ==
  ASSUME NEW s, Sane(s), NEW w \in DOMAIN s.win, NEW v \in DOMAIN s.win, NEW marks, NEW r
  PROVE  /\ Sane(Join(s, w, v)) /\ Join(s, w, v).win = s.win
         /\ \A x : In(s, x) => In(Join(s, w, v), x)
         /\ Living(Join(s, w, v)) => Living(s)
         /\ Living(s) /\ Harmless(s, w, v) => Living(Join(s, w, v))
         /\ Living(Join(s, w, v)) /\ Fine(s, marks, r) => Fine(Join(s, w, v), marks, r)
<1> PICK t : t = Join(s, w, v)
  OBVIOUS
<1>1. t = s \/ (t \in Desk /\ Joins(s, t, w, v))
  BY JoinIs
<1>2. CASE t \in Desk /\ Joins(s, t, w, v)
  <2>1. Sane(t) /\ t.win = s.win /\ (Living(t) => Living(s))
    BY <1>2, JoinSane, JoinLiving DEF Joins
  <2>2. ~In(s, w) /\ \A x : In(t, x) <=> In(s, x) \/ x \in {w, v}
    BY <1>2, JoinedGroups, JoinsWindows
  <2>3. Living(s) /\ Harmless(s, w, v) => Living(t)
    BY <2>1, <2>2 DEF Harmless, Living
  <2>4. ASSUME Living(t), Fine(s, marks, r) PROVE Fine(t, marks, r)
    <3>1. Paired(s) /\ Apart(s) /\ Told(s, marks) /\ (r = 0 => Remembered(s))
      BY <2>4 DEF Fine, Healthy
    <3>2. Paired(t) /\ Apart(t)
      BY <1>2, <2>4, <3>1, JoinPaired, JoinApart
    <3>3. \A n \in Names : ToldOf(t, marks, n)
      BY <1>2, <3>1, JoinTold DEF Told
    <3>4. Remembered(s) => Remembered(t)
      BY <1>2, JoinRemembers
    <3> QED
      BY <2>4, <3>1, <3>2, <3>3, <3>4 DEF Fine, Healthy, Told
  <2> QED
    BY <2>1, <2>2, <2>3, <2>4
<1> QED
  BY <1>1, <1>2

LEMMA Induction ==
  ASSUME NEW S, 0 \in S, \A n \in Nat : n \in S => n + 1 \in S
  PROVE  Nat \subseteq S
<1>1. SUFFICES ASSUME Nat \ S # {} PROVE FALSE
  OBVIOUS
<1>2. PICK x \in Nat \ S : \A y \in Nat \ S : <<y, x>> \notin OpToRel(<, Nat)
  BY <1>1, NatLessThanWellFounded, WFMin
<1>3. x - 1 \in S
  <2>1. x # 0
    OBVIOUS
  <2>2. x - 1 \in Nat /\ x - 1 < x
    BY <2>1
  <2>3. <<x - 1, x>> \in OpToRel(<, Nat)
    BY <2>2 DEF OpToRel
  <2> QED
    BY <1>2, <2>2, <2>3
<1>4. x - 1 \in Nat /\ (x - 1) + 1 = x
  OBVIOUS
<1> QED
  BY <1>3, <1>4

\* The desktop after each of the first n pairs.
Joined(s, pairs, n, f) ==
  f = [k \in 0..n |-> IF k = 0 THEN s ELSE Join(f[k - 1], pairs[k][1], pairs[k][2])]

LEMMA JoinedExist ==
  ASSUME NEW s, NEW pairs, NEW n \in Nat
  PROVE  \E f : Joined(s, pairs, n, f)
<1> DEFINE S == {k \in Nat : \E f : Joined(s, pairs, k, f)}
<1>1. 0 \in S
  <2>1. Joined(s, pairs, 0, [k \in 0..0 |-> s])
    BY DEF Joined
  <2> QED
    BY <2>1
<1>2. ASSUME NEW k \in Nat, k \in S PROVE k + 1 \in S
  <2>1. PICK f : Joined(s, pairs, k, f)
    BY <1>2
  <2> DEFINE g == [i \in 0..(k + 1) |->
                     IF i \in 0..k THEN f[i] ELSE Join(f[k], pairs[k + 1][1], pairs[k + 1][2])]
  <2>2. ASSUME NEW i \in 0..(k + 1)
        PROVE  g[i] = IF i = 0 THEN s ELSE Join(g[i - 1], pairs[i][1], pairs[i][2])
    <3>1. CASE i = 0
      BY <2>1, <3>1 DEF Joined
    <3>2. CASE i \in 1..k
      BY <2>1, <3>2 DEF Joined
    <3>3. CASE i = k + 1
      BY <2>1, <3>3 DEF Joined
    <3> QED
      BY <3>1, <3>2, <3>3
  <2>3. Joined(s, pairs, k + 1, g)
    BY <2>2 DEF Joined
  <2> QED
    BY <2>3
<1> HIDE DEF S
<1>3. Nat \subseteq S
  BY <1>1, <1>2, Induction
<1> QED
  BY <1>3 DEF S

LEMMA JoinAllIs ==
  ASSUME NEW s, NEW pairs, Len(pairs) \in Nat
  PROVE  \E f : Joined(s, pairs, Len(pairs), f) /\ JoinAll(s, pairs) = f[Len(pairs)]
<1>1. \E f : Joined(s, pairs, Len(pairs), f)
  BY JoinedExist
<1> QED
  BY <1>1 DEF JoinAll, Joined

\* The pairs are of windows that have opened.
InTurn(s, pairs, n, f) ==
  /\ Sane(s) /\ n \in Nat /\ Joined(s, pairs, n, f)
  /\ \A k \in 1..n : pairs[k] \in (DOMAIN s.win) \X (DOMAIN s.win)

LEMMA JoinedStep ==
  ASSUME NEW s, NEW pairs, NEW n, NEW f, InTurn(s, pairs, n, f), NEW k \in Nat, k + 1 <= n
  PROVE  \E w, v \in DOMAIN s.win :
           /\ f[k + 1] = Join(f[k], w, v)
           /\ w = pairs[k + 1][1] /\ v = pairs[k + 1][2] /\ k + 1 \in 1..n
<1>1. k + 1 \in 1..n /\ k + 1 \in 0..n /\ k + 1 # 0 /\ (k + 1) - 1 = k
  BY DEF InTurn
<1>2. pairs[k + 1] \in (DOMAIN s.win) \X (DOMAIN s.win)
  BY <1>1 DEF InTurn
<1>3. f[k + 1] = Join(f[k], pairs[k + 1][1], pairs[k + 1][2])
  BY <1>1 DEF InTurn, Joined
<1> QED
  BY <1>1, <1>2, <1>3

LEMMA JoinedSane ==
  ASSUME NEW s, NEW pairs, NEW n, NEW f, InTurn(s, pairs, n, f)
  PROVE  Sane(f[n]) /\ f[n].win = s.win /\ n \in Nat
<1> DEFINE S == {k \in Nat : k <= n => Sane(f[k]) /\ f[k].win = s.win}
<1>1. 0 \in S
  BY DEF InTurn, Joined
<1>2. ASSUME NEW k \in Nat, k \in S PROVE k + 1 \in S
  <2> SUFFICES ASSUME k + 1 <= n PROVE Sane(f[k + 1]) /\ f[k + 1].win = s.win
    OBVIOUS
  <2>1. Sane(f[k]) /\ f[k].win = s.win
    BY <1>2 DEF InTurn
  <2>2. PICK w, v \in DOMAIN s.win : f[k + 1] = Join(f[k], w, v)
    BY JoinedStep
  <2> PICK t : t = f[k]
    OBVIOUS
  <2>3. Sane(t) /\ w \in DOMAIN t.win /\ v \in DOMAIN t.win /\ f[k + 1] = Join(t, w, v)
    BY <2>1, <2>2
  <2>4. Sane(Join(t, w, v)) /\ Join(t, w, v).win = t.win
    BY <2>3, JoinFine
  <2> QED
    BY <2>1, <2>3, <2>4
<1> HIDE DEF S
<1>3. n \in S /\ n \in Nat
  BY <1>1, <1>2, Induction DEF InTurn
<1> QED
  BY <1>3 DEF S

LEMMA JoinedFine ==
  ASSUME NEW s, NEW pairs, NEW n, NEW f, InTurn(s, pairs, n, f),
         NEW marks, NEW r, Fine(s, marks, r), Living(f[n])
  PROVE  Fine(f[n], marks, r)
<1> DEFINE Kept(u) == /\ Sane(u) /\ u.win = s.win
                      /\ Living(u) => Fine(u, marks, r)
           S == {k \in Nat : k <= n => Kept(f[k])}
<1>1. 0 \in S
  BY DEF InTurn, Joined
<1>2. ASSUME NEW k \in Nat, k \in S PROVE k + 1 \in S
  <2> SUFFICES ASSUME k + 1 <= n PROVE Kept(f[k + 1])
    OBVIOUS
  <2>1. Kept(f[k])
    BY <1>2 DEF InTurn
  <2>2. PICK w, v \in DOMAIN s.win : f[k + 1] = Join(f[k], w, v)
    BY JoinedStep
  <2> PICK t : t = f[k]
    OBVIOUS
  <2> PICK u : u = f[k + 1]
    OBVIOUS
  <2>3. Sane(t) /\ w \in DOMAIN t.win /\ v \in DOMAIN t.win /\ u = Join(t, w, v)
    BY <2>1, <2>2
  <2>4. /\ Sane(u) /\ u.win = t.win /\ (Living(u) => Living(t))
        /\ Living(u) /\ Fine(t, marks, r) => Fine(u, marks, r)
    BY <2>3, JoinFine
  <2> QED
    BY <2>1, <2>4
<1> HIDE DEF S
<1>3. n \in S /\ n \in Nat
  BY <1>1, <1>2, Induction DEF InTurn
<1> QED
  BY <1>3 DEF S

LEMMA JoinedLiving ==
  ASSUME NEW s, NEW pairs, NEW n, NEW f, InTurn(s, pairs, n, f), Living(s),
         \A k \in 1..n : Harmless(s, pairs[k][1], pairs[k][2])
  PROVE  Living(f[n])
<1> DEFINE Kept(u) == /\ Sane(u) /\ Living(u) /\ u.win = s.win
                      /\ \A x : In(s, x) => In(u, x)
           S == {k \in Nat : k <= n => Kept(f[k])}
<1>1. 0 \in S
  BY DEF InTurn, Joined
<1>2. ASSUME NEW k \in Nat, k \in S PROVE k + 1 \in S
  <2> SUFFICES ASSUME k + 1 <= n PROVE Kept(f[k + 1])
    OBVIOUS
  <2>1. Kept(f[k])
    BY <1>2 DEF InTurn
  <2>2. PICK w, v \in DOMAIN s.win :
          f[k + 1] = Join(f[k], w, v) /\ w = pairs[k + 1][1] /\ v = pairs[k + 1][2]
          /\ k + 1 \in 1..n
    BY JoinedStep
  <2> PICK t : t = f[k]
    OBVIOUS
  <2> PICK u : u = f[k + 1]
    OBVIOUS
  <2>3. Sane(t) /\ w \in DOMAIN t.win /\ v \in DOMAIN t.win /\ u = Join(t, w, v)
    BY <2>1, <2>2
  <2>4. Harmless(s, w, v)
    BY <2>2
  <2>5. Living(t) /\ Harmless(t, w, v)
    BY <2>1, <2>4 DEF Harmless
  <2>6. /\ Sane(u) /\ u.win = t.win /\ Living(u)
        /\ \A x : In(t, x) => In(u, x)
    BY <2>3, <2>5, JoinFine
  <2> QED
    BY <2>1, <2>6
<1> HIDE DEF S
<1>3. n \in S /\ n \in Nat
  BY <1>1, <1>2, Induction DEF InTurn
<1> QED
  BY <1>3 DEF S

-----------------------------------------------------------------------------
(* A message is delivered.                                                 *)

LEMMA ReadIs ==
  ASSUME NEW s, NEW r \in Desk, Sane(s), s.bus # <<>>, SameWindows(s, r),
         \A x \in DOMAIN s.win : r.win[x].x = s.win[x].x /\ r.win[x].y = s.win[x].y,
         r.groups = s.groups, r.storage = s.storage, r.bus = Tail(s.bus)
  PROVE  /\ Sane(r)
         /\ \A x : In(r, x) <=> In(s, x)
         /\ \A n : Docks(r, n) <=> Docks(s, n)
         /\ \A n : HasPopout(r, n) <=> HasPopout(s, n)
         /\ Living(r) <=> Living(s)
         /\ (Paired(s) => Paired(r)) /\ (Apart(s) => Apart(r))
         /\ Remembered(s) => Remembered(r)
<1>1. SameNames(s, r)
  BY DEF SameWindows, SameNames
<1>2. Known(r)
  BY <1>1, KnownLess
<1>3. /\ Sane(r) /\ \A x : In(r, x) <=> In(s, x)
      /\ \A n : Docks(r, n) <=> Docks(s, n)
  BY <1>1, <1>2, GroupsKept
<1>4. \A n : HasPopout(r, n) <=> HasPopout(s, n)
  BY DEF HasPopout, SameWindows
<1>5. Living(r) <=> Living(s)
  BY <1>3 DEF Living, SameWindows
<1>6. (Paired(s) => Paired(r)) /\ (Apart(s) => Apart(r))
  <2>1. \A x : In(s, x) => x \in DOMAIN s.win
    BY InIsOpened DEF In
  <2>2. \A x \in DOMAIN s.win : r.win[x].name = s.win[x].name
    BY DEF SameWindows
  <2> QED
    BY <2>1, <2>2, GroupsUnmoved
<1>7. Remembered(s) => Remembered(r)
  BY <1>3 DEF Remembered
<1> QED
  BY <1>3, <1>4, <1>5, <1>6, <1>7

\* The message is the only thing that has changed.
LEMMA JustRead ==
  ASSUME NEW s, Sane(s), s.bus # <<>>
  PROVE  /\ [s EXCEPT !.bus = Tail(s.bus)] \in Desk
         /\ [s EXCEPT !.bus = Tail(s.bus)].win = s.win
         /\ [s EXCEPT !.bus = Tail(s.bus)].groups = s.groups
         /\ [s EXCEPT !.bus = Tail(s.bus)].storage = s.storage
         /\ [s EXCEPT !.bus = Tail(s.bus)].bus = Tail(s.bus)
<1>1. s \in Desk /\ s.bus \in Seq(Messages)
  BY DEF Sane, Desk
<1>2. Tail(s.bus) \in Seq(Messages)
  BY <1>1
<1> QED
  BY <1>1, <1>2 DEF Desk

\* The windows of the name no longer wait either.
Ready(s, n) ==
  [s EXCEPT !.win = [w \in DOMAIN s.win |-> [s.win[w] EXCEPT !.waits = @ /\ s.win[w].name # n]],
            !.bus = Tail(s.bus)]

LEMMA ReadyIs ==
  ASSUME NEW s, Sane(s), s.bus # <<>>, NEW n
  PROVE  \E r \in Desk :
           /\ r = Ready(s, n) /\ SameWindows(s, r)
           /\ \A x \in DOMAIN s.win : r.win[x].x = s.win[x].x /\ r.win[x].y = s.win[x].y
           /\ r.groups = s.groups /\ r.storage = s.storage /\ r.bus = Tail(s.bus)
<1>1. s \in Desk /\ s.bus \in Seq(Messages) /\ s.win \in Seq(Window)
  BY DEF Sane, Desk
<1>2. Tail(s.bus) \in Seq(Messages)
  BY <1>1
<1> DEFINE c(b) == [b EXCEPT !.waits = b.waits /\ b.name # n]
<1>3. ASSUME NEW b \in Window
      PROVE  c(b) \in Window /\ c(b).name = b.name /\ c(b).phase = b.phase
             /\ c(b).x = b.x /\ c(b).y = b.y
  <2>1. (b.waits /\ b.name # n) \in BOOLEAN
    OBVIOUS
  <2>2. c(b) \in Window
    BY <2>1, Zenon DEF Window
  <2> QED
    BY <2>2 DEF Window
<1> DEFINE W == [w \in DOMAIN s.win |-> c(s.win[w])]
           r == [s EXCEPT !.win = W, !.bus = Tail(s.bus)]
<1>4. r = Ready(s, n)
  BY DEF Ready
<1> HIDE DEF c
<1>5. /\ W \in Seq(Window) /\ DOMAIN W = DOMAIN s.win
      /\ \A x \in DOMAIN s.win : W[x] = c(s.win[x]) /\ s.win[x] \in Window
  <2>1. DOMAIN s.win = 1..Len(s.win) /\ Len(s.win) \in Nat
        /\ \A x \in DOMAIN s.win : s.win[x] \in Window
    BY <1>1
  <2>2. W \in [1..Len(s.win) -> Window]
    BY <1>3, <2>1
  <2> QED
    BY <2>1, <2>2
<1> HIDE DEF W
<1>6. /\ r \in Desk /\ r.win = W /\ r.groups = s.groups /\ r.storage = s.storage
      /\ r.bus = Tail(s.bus)
  BY <1>1, <1>2, <1>5 DEF Desk
<1> HIDE DEF r
<1>7. \A x \in DOMAIN s.win : /\ r.win[x].name = s.win[x].name /\ r.win[x].phase = s.win[x].phase
                              /\ r.win[x].x = s.win[x].x /\ r.win[x].y = s.win[x].y
  BY <1>3, <1>5, <1>6
<1>8. SameWindows(s, r)
  BY <1>5, <1>6, <1>7 DEF SameWindows
<1> QED
  BY <1>4, <1>6, <1>7, <1>8

\* What the bus holds is a kind of message and a name.
LEMMA FirstMessage ==
  ASSUME DockInv, bus # <<>>
  PROVE  /\ Head(bus) \in Messages /\ Head(bus) = <<Head(bus)[1], Head(bus)[2]>>
         /\ \E x \in DOMAIN win : win[x].name = Head(bus)[2]
         /\ \A k : IsAbout(Head(bus), k) <=> k = Head(bus)[2] /\ Head(bus)[1] # "load"
<1>1. bus \in Seq(Messages)
  BY DesktopIs DEF DockInv, Sane, Desk
<1>2. 1 \in DOMAIN bus /\ bus[1] = Head(bus)
  BY <1>1
<1>3. Head(bus) \in Messages /\ Head(bus) = <<Head(bus)[1], Head(bus)[2]>>
  BY <1>1 DEF Messages
<1>4. \E x \in DOMAIN win : win[x].name = Head(bus)[2]
  BY <1>2, DesktopIs DEF DockInv, Sane, Known
<1> QED
  BY <1>3, <1>4 DEF IsAbout

LEMMA LivingNotHaunted ==
  ASSUME Sane(Desktop'), Living(Desktop')
  PROVE  ~HoldsClosed'
<1> PICK t : t = Desktop'
  OBVIOUS
<1>1. \A g \in t.groups : \A w \in Range(g) : w \in DOMAIN t.win /\ In(t, w)
  BY InIsOpened
<1>2. \A g \in t.groups : \A w \in Range(g) : t.win[w].phase # "closed"
  BY <1>1 DEF Living
<1> QED
  BY <1>2, DesktopNext DEF HoldsClosed

LEMMA Becomes ==
  ASSUME NEW t \in Desk, BecomesDesktop(t)
  PROVE  Desktop' = t
BY DEF BecomesDesktop, Desktop, Desk

\* Delivery leaves alone what is not the desktop's.
Delivery ==
  /\ bus # <<>>
  /\ UNCHANGED <<snaps, dragged, place, acts, restarts>>
  /\ Haunt

LEMMA DeliveryKeeps ==
  ASSUME DockInv, Delivery, NEW t, t = Desktop', Sane(t), DOMAIN t.win = DOMAIN win,
         marked' \subseteq Names, \A n \in marked' : HasPopout(t, n),
         ~ghost /\ Living(t) => Healthy(t, marked') /\ (restarts = 0 => Remembered(t))
  PROVE  DockInv'
<1>1. Opened' = Opened
  BY DesktopNext DEF Opened
<1>2. ASSUME ~ghost' PROVE Fine(t, marked', restarts)
  <2>1. ~ghost /\ ~HoldsClosed'
    BY <1>2 DEF Delivery, Haunt
  <2>2. Living(t)
    BY <2>1, NotHaunted
  <2> QED
    BY <2>1, <2>2 DEF Fine
<1> QED
  BY <1>1, <1>2 DEF DockInv, Delivery

\* Unless a closed window is announced or remembered, what joins is open.
LEMMA LoadHarmless ==
  ASSUME DockInv, ~ghost, bus # <<>>, Head(bus)[1] = "load",
         NEW n, n = Head(bus)[2], NEW m, m = storage[n], InstancesOf(m) # {},
         ~ClosedIsAnnounced, NEW w \in InstancesOf(n), win[w].waits
  PROVE  Harmless(Desktop, w, Max(InstancesOf(m)))
<1> PICK s : s = Desktop
  OBVIOUS
<1> PICK v : v = Max(InstancesOf(m))
  OBVIOUS
<1>1. /\ s.win = win /\ s.storage = storage /\ s.groups = groups
      /\ Sane(s) /\ s \in Desk /\ s.win \in Seq(Window)
  BY DesktopIs DEF DockInv, Sane, Desk
<1>2. w \in DOMAIN s.win /\ s.win[w].name = n
  BY <1>1 DEF InstancesOf, Opened, NameOf
<1>3. restarts = 0 => /\ IsGrouped(Max(InstancesOf(n)))
                      /\ win[w].phase # "closed" => w = Max(InstancesOf(n))
  <2> SUFFICES ASSUME restarts = 0
               PROVE  /\ IsGrouped(Max(InstancesOf(n)))
                      /\ win[w].phase # "closed" => w = Max(InstancesOf(n))
    OBVIOUS
  <2>1. m \in Names /\ n \in Names
    <3>1. v \in DOMAIN s.win /\ s.win[v].name = m
      BY <1>1, LastInstance
    <3>2. s.win[v] \in Window /\ s.win[w] \in Window
      BY <1>1, <1>2, <3>1
    <3> QED
      BY <1>2, <3>1, <3>2 DEF Window
  <2>2. Living(s) /\ Remembered(s)
    BY DEF DockInv, Fine
  <2>3. Docks(s, n)
    BY <1>1, <2>1, <2>2, DockingAssumption DEF Remembered
  <2>4. IsGrouped(Max(InstancesOf(n)))
    BY <2>2, <2>3, DockedIsLast
  <2> PICK k : k = Max(InstancesOf(n))
    OBVIOUS
  <2>5. k \in DOMAIN s.win /\ s.win[k].name = n /\ k >= w
    BY <1>1, <1>2, LastInstance
  <2>6. k \in Nat /\ w \in Nat
    BY <1>1, <1>2, <2>5, WindowIs
  <2>7. s.win[w].phase # "closed" => ~(w < k)
    BY <1>1, <1>2, <2>5 DEF Sane, LastOfName
  <2> QED
    BY <1>1, <2>4, <2>5, <2>6, <2>7
<1>4. restarts = 0 \/ restarts > 0
  BY DEF DockInv
<1>5. win[w].phase # "closed"
  BY <1>3, <1>4 DEF ClosedIsAnnounced
<1>6. CASE restarts > 0
  <2>1. win[v].phase # "closed"
    BY <1>6 DEF ClosedIsAnnounced
  <2> QED
    BY <1>1, <1>5, <2>1 DEF Harmless
<1>7. CASE restarts = 0
  <2>1. In(s, w)
    BY <1>1, <1>3, <1>5, <1>7 DEF In, IsGrouped, GroupsOf
  <2> QED
    BY <2>1 DEF Harmless
<1> QED
  BY <1>4, <1>6, <1>7

LEMMA LoadKeeps ==
  ASSUME DockInv, Delivery, Head(bus)[1] = "load", OnLoad(Head(bus)[2]), marked' = marked
  PROVE  DockInv' /\ (~ghost /\ ~ClosedIsAnnounced => Living(Desktop'))
<1> PICK s : s = Desktop
  OBVIOUS
<1> DEFINE n == Head(bus)[2]
           m == storage[n]
           v == Max(InstancesOf(m))
           near == {w \in InstancesOf(n) :
                      /\ win[w].waits /\ InstancesOf(m) # {}
                      /\ {isSnapable(win[w], win[v]), isSnapable(win[v], win[w])} # {"none"}}
<1>1. /\ s.win = win /\ s.bus = bus /\ s.storage = storage /\ Sane(s) /\ s \in Desk
      /\ s.win \in Seq(Window) /\ s.bus # <<>>
  BY DesktopIs DEF DockInv, Sane, Desk, Delivery
<1>2. \A k : ~IsAbout(Head(bus), k)
  BY FirstMessage DEF Delivery
<1>3. PICK r \in Desk :
        /\ r = Ready(s, n) /\ SameWindows(s, r)
        /\ \A x \in DOMAIN s.win : r.win[x].x = s.win[x].x /\ r.win[x].y = s.win[x].y
        /\ r.groups = s.groups /\ r.storage = s.storage /\ r.bus = Tail(s.bus)
  BY <1>1, ReadyIs
<1>4. /\ Sane(r)
      /\ \A x : In(r, x) <=> In(s, x)
      /\ \A k : Docks(r, k) <=> Docks(s, k)
      /\ \A k : HasPopout(r, k) <=> HasPopout(s, k)
      /\ Living(r) <=> Living(s)
      /\ (Paired(s) => Paired(r)) /\ (Apart(s) => Apart(r))
      /\ Remembered(s) => Remembered(r)
  <2>1. Sane(s) /\ s.bus # <<>>
    BY <1>1
  <2>2. /\ SameWindows(s, r)
        /\ \A x \in DOMAIN s.win : r.win[x].x = s.win[x].x /\ r.win[x].y = s.win[x].y
        /\ r.groups = s.groups /\ r.storage = s.storage /\ r.bus = Tail(s.bus)
    BY <1>3
  <2> QED
    BY <2>1, <2>2, ReadIs
<1>5. \A k \in Names : ToldOf(s, marked, k) => ToldOf(r, marked, k)
  <2> SUFFICES ASSUME NEW k \in Names, ToldOf(s, marked, k) PROVE ToldOf(r, marked, k)
    OBVIOUS
  <2>1. ~IsAbout(Head(s.bus), k) /\ Sane(s) /\ s.bus # <<>> /\ r.bus = Tail(s.bus)
    BY <1>1, <1>2, <1>3
  <2>2. (HasPopout(r, k) => HasPopout(s, k)) /\ (Docks(r, k) <=> Docks(s, k))
    BY <1>4
  <2> QED
    BY <2>1, <2>2, ReadTold
<1>6. ~ghost => Fine(r, marked, restarts)
  BY <1>4, <1>5 DEF DockInv, Fine, Healthy, Told
<1>7. PICK order \in SetToSeqs(near) :
        BecomesDesktop(JoinAll(r, [k \in DOMAIN order |-> <<order[k], v>>]))
  <2>1. r = [Desktop EXCEPT !.win = [w \in Opened |-> [win[w] EXCEPT !.waits = @ /\ NameOf(w) # n]],
                            !.bus = Tail(bus)]
    BY <1>1, <1>3 DEF Ready, Opened, NameOf
  <2> QED
    BY <2>1, Zenon DEF OnLoad
<1>8. \A w \in near : /\ w \in InstancesOf(n) /\ win[w].waits /\ InstancesOf(m) # {}
                       /\ w \in DOMAIN win
  BY DEF InstancesOf, Opened
<1>9. InstancesOf(m) # {} => v \in DOMAIN win
  BY LastInstance
<1> HIDE DEF near, v, m, n
<1> PICK N : N = Cardinality(near)
  OBVIOUS
<1> PICK pairs : pairs = [k \in DOMAIN order |-> <<order[k], v>>]
  OBVIOUS
<1>10. N \in Nat
  <2>1. near \subseteq 1..Len(win) /\ Len(win) \in Nat
    BY <1>1, <1>8
  <2>2. IsFiniteSet(near)
    <3>1. IsFiniteSet(1..Len(win))
      BY <2>1, FS_Interval
    <3> QED
      BY <2>1, <3>1, FS_Subset
  <2> QED
    BY <2>2, FS_CardinalityType
<1>11. order \in [1..N -> near]
  BY DEF SetToSeqs
<1>12. DOMAIN r.win = DOMAIN win
  BY <1>1, <1>3 DEF SameWindows
<1>13. ASSUME NEW k \in 1..N
       PROVE  /\ order[k] \in InstancesOf(n) /\ win[order[k]].waits /\ InstancesOf(m) # {}
              /\ order[k] \in DOMAIN r.win /\ v \in DOMAIN r.win
              /\ pairs[k] \in (DOMAIN r.win) \X (DOMAIN r.win)
              /\ pairs[k][1] = order[k] /\ pairs[k][2] = v
  <2>1. order[k] \in near /\ pairs[k] = <<order[k], v>>
    BY <1>11
  <2>2. /\ order[k] \in InstancesOf(n) /\ win[order[k]].waits /\ InstancesOf(m) # {}
        /\ order[k] \in DOMAIN r.win /\ v \in DOMAIN r.win
    BY <1>12, <1>8, <1>9, <2>1
  <2> PICK w : w = order[k]
    OBVIOUS
  <2>3. pairs[k] = <<w, v>> /\ w \in DOMAIN r.win /\ v \in DOMAIN r.win
    BY <2>1, <2>2
  <2>4. pairs[k] \in (DOMAIN r.win) \X (DOMAIN r.win) /\ pairs[k][1] = w /\ pairs[k][2] = v
    BY <2>3
  <2> QED
    BY <2>2, <2>4
<1>14. Len(pairs) = N
  BY <1>10, <1>11
<1>15. PICK f : Joined(r, pairs, N, f) /\ JoinAll(r, pairs) = f[N]
  BY <1>10, <1>14, JoinAllIs
<1> PICK t : t = f[N]
  OBVIOUS
<1>16. InTurn(r, pairs, N, f)
  <2>1. \A k \in 1..N : pairs[k] \in (DOMAIN r.win) \X (DOMAIN r.win)
    BY <1>13
  <2> QED
    BY <1>4, <1>10, <1>15, <2>1 DEF InTurn
<1>17. /\ Sane(t) /\ t.win = r.win
       /\ Living(t) /\ Fine(r, marked, restarts) => Fine(t, marked, restarts)
  BY <1>16, JoinedSane, JoinedFine
<1>18. Desktop' = t
  BY <1>7, <1>15, <1>17, Becomes DEF Sane
<1>19. \A k \in marked : HasPopout(t, k)
  <2>1. \A k \in marked : HasPopout(r, k)
    BY <1>1, <1>4 DEF DockInv
  <2> QED
    BY <1>17, <2>1 DEF HasPopout
<1>20. DockInv'
  <2>1. ~ghost /\ Living(t) => Healthy(t, marked) /\ (restarts = 0 => Remembered(t))
    BY <1>6, <1>17 DEF Fine
  <2>2. DOMAIN t.win = DOMAIN win
    BY <1>12, <1>17
  <2> QED
    BY <1>17, <1>18, <1>19, <2>1, <2>2, DeliveryKeeps DEF DockInv
<1>21. ASSUME ~ghost, ~ClosedIsAnnounced PROVE Living(t)
  <2>1. ASSUME NEW k \in 1..N PROVE Harmless(r, pairs[k][1], pairs[k][2])
    <3>1. Harmless(s, order[k], v)
      BY <1>1, <1>13, <1>21, LoadHarmless DEF n, m, v
    <3>2. Harmless(r, order[k], v)
      BY <1>1, <1>3, <1>4, <1>12, <1>13, <3>1 DEF Harmless, SameWindows
    <3>3. pairs[k][1] = order[k] /\ pairs[k][2] = v
      BY <1>13
    <3> QED
      BY <3>2, <3>3
  <2>2. Living(r)
    BY <1>6, <1>21 DEF Fine
  <2> QED
    BY <1>16, <2>1, <2>2, JoinedLiving
<1> QED
  BY <1>18, <1>20, <1>21

LEMMA UndockKeeps ==
  ASSUME DockInv, Delivery, Head(bus)[1] = "undock", OnUndock(Head(bus)[2]), marked' = marked
  PROVE  DockInv' /\ (~ghost => Living(Desktop'))
<1> PICK s : s = Desktop
  OBVIOUS
<1> PICK n : n = Head(bus)[2]
  OBVIOUS
<1>1. /\ s.win = win /\ s.bus = bus /\ Sane(s) /\ s \in Desk
      /\ s.win \in Seq(Window) /\ s.bus # <<>>
  BY DesktopIs DEF DockInv, Sane, Desk, Delivery
<1> DEFINE ws == {w \in Registered : NameOf(w) = n}
<1>2. \A w : w \in ws <=> w \in DOMAIN s.win /\ s.win[w].phase # "closed" /\ s.win[w].name = n
  BY <1>1 DEF Registered, Opened, NameOf
<1>r. PICK r : r = [s EXCEPT !.bus = Tail(s.bus)]
  OBVIOUS
<1>3. /\ r \in Desk /\ r.win = s.win /\ r.groups = s.groups /\ r.storage = s.storage
      /\ r.bus = Tail(s.bus)
  BY <1>r, <1>1, JustRead
<1>4. /\ Sane(r)
      /\ \A x : In(r, x) <=> In(s, x)
      /\ \A k : Docks(r, k) <=> Docks(s, k)
      /\ \A k : HasPopout(r, k) <=> HasPopout(s, k)
      /\ Living(r) <=> Living(s)
      /\ (Paired(s) => Paired(r)) /\ (Apart(s) => Apart(r))
      /\ Remembered(s) => Remembered(r)
  <2>1. SameWindows(s, r)
    BY <1>3 DEF SameWindows
  <2>2. Sane(s) /\ s.bus # <<>> /\ r \in Desk
    BY <1>1, <1>3
  <2>3. /\ \A x \in DOMAIN s.win : r.win[x].x = s.win[x].x /\ r.win[x].y = s.win[x].y
        /\ r.groups = s.groups /\ r.storage = s.storage /\ r.bus = Tail(s.bus)
    BY <1>3
  <2> QED
    BY <2>1, <2>2, <2>3, ReadIs
<1>5. ~ghost => Living(s) /\ Paired(s) /\ Apart(s) /\ Told(s, marked)
                /\ (restarts = 0 => Remembered(s))
  BY DEF DockInv, Fine, Healthy
<1>6. \A k \in Names : k # n \/ ~HasPopout(r, k) => (ToldOf(s, marked, k) => ToldOf(r, marked, k))
  <2> SUFFICES ASSUME NEW k \in Names, k # n \/ ~HasPopout(r, k), ToldOf(s, marked, k)
               PROVE  ToldOf(r, marked, k)
    OBVIOUS
  <2>1. ~IsAbout(Head(s.bus), k) \/ ~HasPopout(r, k)
    BY <1>1, FirstMessage DEF Delivery
  <2>2. Sane(s) /\ s.bus # <<>> /\ r.bus = Tail(s.bus)
    BY <1>1, <1>3
  <2>3. (HasPopout(r, k) => HasPopout(s, k)) /\ (Docks(r, k) <=> Docks(s, k))
    BY <1>4
  <2>4. k \in marked <=> k \in marked
    OBVIOUS
  <2> QED
    BY <2>1, <2>2, <2>3, <2>4, ReadTold
<1> PICK t : t = Desktop'
  OBVIOUS
<1>w. PICK w : w = CHOOSE x \in ws : TRUE
  OBVIOUS
<1>7. BecomesDesktop(IF ws = {} THEN r ELSE Leave(r, w))
  BY <1>r, <1>w, <1>1 DEF OnUndock
<1>8. \A k \in marked : HasPopout(r, k)
  BY <1>1, <1>4 DEF DockInv
<1> HIDE DEF ws
<1>9. CASE ws = {}
  <2>1. t = r
    BY <1>3, <1>7, <1>9, Becomes
  <2>2. ~HasPopout(r, n)
    BY <1>2, <1>3, <1>9 DEF HasPopout
  <2>3. ASSUME ~ghost PROVE Living(r) /\ Healthy(r, marked) /\ (restarts = 0 => Remembered(r))
    <3>1. \A k \in Names : ToldOf(r, marked, k)
      BY <1>5, <1>6, <2>2, <2>3 DEF Told
    <3> QED
      BY <1>4, <1>5, <2>3, <3>1 DEF Healthy, Told
  <2> QED
    BY <1>1, <1>3, <1>4, <1>8, <2>1, <2>3, DeliveryKeeps DEF DockInv
<1>10. CASE ws # {}
  <2>1. w \in DOMAIN r.win /\ r.win[w].phase # "closed" /\ r.win[w].name = n
    BY <1>w, <1>2, <1>3, <1>10
  <2>2. Leave(r, w) \in Desk /\ Leaves(r, Leave(r, w), w)
    BY <1>4, <2>1, LeaveIs
  <2>3. t = Leave(r, w)
    BY <1>7, <1>10, <2>2, Becomes
  <2>4. t \in Desk /\ Leaves(r, t, w)
    BY <2>2, <2>3
  <2>5. Sane(t) /\ SameWindows(r, t) /\ (Living(r) => Living(t))
    BY <1>4, <2>1, <2>4, LeavesSane
  <2>6. \A k \in marked : HasPopout(t, k)
    BY <1>8, <2>5 DEF HasPopout, SameWindows
  <2>7. ASSUME ~ghost PROVE Living(t) /\ Healthy(t, marked) /\ (restarts = 0 => Remembered(t))
    <3>1. Living(r) /\ Paired(r) /\ Apart(r)
      BY <1>4, <1>5, <2>7
    <3>2. \A k \in Names : k # r.win[w].name => ToldOf(r, marked, k)
      BY <1>5, <1>6, <2>1, <2>7 DEF Told
    <3>3. Healthy(t, marked) /\ (Remembered(r) => Remembered(t))
      <4>1. Sane(r) /\ w \in DOMAIN r.win /\ r.win[w].phase # "closed"
        BY <1>4, <2>1
      <4> QED
        BY <2>4, <3>1, <3>2, <4>1, LeavesHealthy
    <3> QED
      BY <1>4, <1>5, <2>5, <2>7, <3>1, <3>3
  <2>8. DOMAIN t.win = DOMAIN win
    BY <1>1, <1>3, <2>5 DEF SameWindows
  <2> QED
    BY <2>5, <2>6, <2>7, <2>8, DeliveryKeeps DEF DockInv
<1> QED
  BY <1>9, <1>10

\* The marks change when the bus says so.
LEMMA MarkKeeps ==
  ASSUME DockInv, Delivery, bus' = Tail(bus), UNCHANGED <<win, groups, storage>>,
         \/ Head(bus)[1] = "docked" /\ Mark(Head(bus)[2])
         \/ Head(bus)[1] = "undocked" /\ marked' = marked \ {Head(bus)[2]}
  PROVE  DockInv' /\ (~ghost => Living(Desktop'))
<1> PICK s : s = Desktop
  OBVIOUS
<1> PICK t : t = Desktop'
  OBVIOUS
<1> PICK n : n = Head(bus)[2]
  OBVIOUS
<1>1. /\ s.win = win /\ s.bus = bus /\ Sane(s) /\ s \in Desk
      /\ s.win \in Seq(Window) /\ s.bus # <<>> /\ s.bus \in Seq(Messages)
  BY DesktopIs DEF DockInv, Sane, Desk, Delivery
<1>2. /\ n \in Names /\ Head(s.bus) = <<Head(s.bus)[1], n>>
      /\ \A k : IsAbout(Head(s.bus), k) => k = n
  <2>1. Head(bus) \in Messages
    BY FirstMessage DEF Delivery
  <2> QED
    BY <1>1, <2>1, FirstMessage DEF Delivery, Messages
<1>3. /\ t.win = s.win /\ t.groups = s.groups /\ t.storage = s.storage /\ t.bus = Tail(s.bus)
  BY <1>1, DesktopIs, DesktopNext
<1>4. t \in Desk
  <2>1. Tail(s.bus) \in Seq(Messages)
    BY <1>1
  <2>2. t = [win |-> t.win, groups |-> t.groups, bus |-> t.bus, storage |-> t.storage]
    BY DEF Desktop
  <2> QED
    BY <1>1, <1>3, <2>1, <2>2 DEF Desk
<1>5. /\ Sane(t)
      /\ \A x : In(t, x) <=> In(s, x)
      /\ \A k : Docks(t, k) <=> Docks(s, k)
      /\ \A k : HasPopout(t, k) <=> HasPopout(s, k)
      /\ Living(t) <=> Living(s)
      /\ (Paired(s) => Paired(t)) /\ (Apart(s) => Apart(t))
      /\ Remembered(s) => Remembered(t)
  <2>1. SameWindows(s, t)
    BY <1>3 DEF SameWindows
  <2> QED
    BY <1>1, <1>3, <1>4, <2>1, ReadIs
<1>6. HasPopout(s, n) <=> \E w \in Popouts : NameOf(w) = n
  BY <1>1 DEF HasPopout, Popouts, Opened, NameOf
<1>7. \/ Head(s.bus) = <<"docked", n>> /\ marked' = IF HasPopout(s, n) THEN marked \cup {n} ELSE marked
      \/ Head(s.bus) = <<"undocked", n>> /\ marked' = marked \ {n}
  BY <1>1, <1>2, <1>6 DEF Mark
<1>8. marked' \subseteq Names /\ \A k \in marked' : HasPopout(t, k)
  BY <1>1, <1>2, <1>5, <1>7 DEF DockInv
<1>9. \A k : k # n => (k \in marked' <=> k \in marked)
  BY <1>7
<1>10. ~ghost => Living(s) /\ Paired(s) /\ Apart(s) /\ Told(s, marked)
                 /\ (restarts = 0 => Remembered(s))
  BY DEF DockInv, Fine, Healthy
<1>11. ASSUME NEW k \in Names, k # n, ToldOf(s, marked, k) PROVE ToldOf(t, marked', k)
  <2>1. ~IsAbout(Head(s.bus), k) /\ Sane(s) /\ s.bus # <<>> /\ t.bus = Tail(s.bus)
    BY <1>1, <1>2, <1>3, <1>11
  <2>2. (HasPopout(t, k) => HasPopout(s, k)) /\ (Docks(t, k) <=> Docks(s, k))
        /\ (k \in marked' <=> k \in marked)
    BY <1>5, <1>9, <1>11
  <2> QED
    BY <1>11, <2>1, <2>2, ReadTold
<1>12. ASSUME ToldOf(s, marked, n) PROVE ToldOf(t, marked', n)
  <2>1. /\ \A kind : LastIs(t.bus, n, kind) => LastIs(s.bus, n, kind)
        /\ \A kind : Head(s.bus) = <<kind, n>> /\ Silent(t.bus, n) => LastIs(s.bus, n, kind)
    <3>1. s.bus \in Seq(Messages) /\ s.bus # <<>> /\ t.bus = Tail(s.bus)
      BY <1>1, <1>3
    <3>2. ASSUME NEW kind, LastIs(t.bus, n, kind) PROVE LastIs(s.bus, n, kind)
      BY <3>1, <3>2, ReadOne
    <3>3. ASSUME NEW kind, Head(s.bus) = <<kind, n>>, Silent(t.bus, n)
          PROVE  LastIs(s.bus, n, kind)
      BY <3>1, <3>3, ReadOne
    <3> QED
      BY <3>2, <3>3
  <2>2. Head(s.bus) = <<"docked", n>> /\ Silent(t.bus, n) => Docks(s, n)
    BY <1>12, <2>1 DEF ToldOf
  <2>3. Head(s.bus) = <<"undocked", n>> /\ Silent(t.bus, n) => ~Docks(s, n)
    BY <1>12, <2>1 DEF ToldOf
  <2>4. /\ LastIs(t.bus, n, "docked") => Docks(t, n)
        /\ LastIs(t.bus, n, "undocked") => ~Docks(t, n)
    BY <1>5, <1>12, <2>1 DEF ToldOf
  <2>5. Silent(t.bus, n) /\ HasPopout(t, n) => (n \in marked' <=> Docks(t, n))
    BY <1>5, <1>7, <2>2, <2>3
  <2> QED
    BY <2>4, <2>5 DEF ToldOf
<1>13. ASSUME ~ghost
       PROVE  Living(t) /\ Healthy(t, marked') /\ (restarts = 0 => Remembered(t))
  <2>1. \A k \in Names : ToldOf(t, marked', k)
    BY <1>2, <1>10, <1>11, <1>12, <1>13 DEF Told
  <2> QED
    BY <1>5, <1>10, <1>13, <2>1 DEF Healthy, Told
<1> QED
  BY <1>1, <1>3, <1>5, <1>8, <1>13, DeliveryKeeps

LEMMA DeliverKeeps ==
  ASSUME DockInv, Deliver
  PROVE  /\ DockInv'
         /\ ~ghost /\ ghost' => ClosedIsAnnounced
<1>1. Delivery
  BY DEF Deliver, Delivery
<1>2. ASSUME DockInv', Living(Desktop'), ~ghost PROVE ~ghost'
  <2>1. ~HoldsClosed'
    BY <1>2, LivingNotHaunted DEF DockInv
  <2> QED
    BY <1>1, <1>2, <2>1 DEF Delivery, Haunt
<1>3. CASE Head(bus)[1] = "load" /\ OnLoad(Head(bus)[2]) /\ UNCHANGED marked
  <2>1. DockInv' /\ (~ghost /\ ~ClosedIsAnnounced => Living(Desktop'))
    BY <1>1, <1>3, LoadKeeps
  <2> QED
    BY <1>2, <2>1
<1>4. CASE Head(bus)[1] = "undock" /\ OnUndock(Head(bus)[2]) /\ UNCHANGED marked
  BY <1>1, <1>2, <1>4, UndockKeeps
<1>5. CASE /\ \/ Head(bus)[1] = "docked" /\ Mark(Head(bus)[2])
              \/ Head(bus)[1] = "undocked" /\ marked' = marked \ {Head(bus)[2]}
           /\ bus' = Tail(bus) /\ UNCHANGED <<win, groups, storage>>
  BY <1>1, <1>2, <1>5, MarkKeeps
<1> QED
  BY <1>3, <1>4, <1>5 DEF Deliver

-----------------------------------------------------------------------------
(* Windows move.                                                           *)

Sides == {"right", "left", "bottom", "top"}

LEMMA SideIs ==
  ASSUME NEW b, NEW d
  PROVE  SnapSide(b, d) \in Sides \cup {"none"}
<1>1. \A c, w : isSnapable(c, w) \in Sides \cup {"none"}
  BY DEF isSnapable, Sides
<1>2. \A side \in Sides \cup {"none"} : _reverse[side] \in Sides \cup {"none"}
  BY DEF _reverse, Sides
<1> QED
  BY <1>1, <1>2 DEF SnapSide

LEMMA SnapIs ==
  ASSUME NEW b \in Window, NEW w \in Window, NEW side \in Sides
  PROVE  snapToWindow(b, w, side) \in Int \X Int
<1>1. b.x \in Int /\ b.y \in Int /\ w.x \in Int /\ w.y \in Int
      /\ b.name \in Names /\ w.name \in Names
  BY DEF Window
<1>2. Width(b) \in Int /\ Height(b) \in Int /\ Width(w) \in Int /\ Height(w) \in Int
  <2>1. Size[b.name] \in Nat \X Nat /\ Size[w.name] \in Nat \X Nat
    BY <1>1, DockingAssumption
  <2> QED
    BY <2>1 DEF Width, Height
<1>3. \A q, m, p, l \in Int : EdgeSnapping(q, m, p, l) \in Int
  BY DEF EdgeSnapping
<1> DEFINE x == EdgeSnapping(w.x, Width(w), b.x, Width(b))
           y == EdgeSnapping(w.y, Height(w), b.y, Height(b))
<1>4. x \in Int /\ y \in Int
  BY <1>1, <1>2, <1>3
<1>5. snapToWindow(b, w, side) =
        CASE side = "right"  -> <<w.x + Width(w) + spacing, y>>
          [] side = "left"   -> <<w.x - Width(b) - spacing, y>>
          [] side = "top"    -> <<x, w.y - Height(b) - spacing>>
          [] side = "bottom" -> <<x, w.y + Height(w) + spacing>>
  BY DEF snapToWindow
<1> HIDE DEF x, y
<1> QED
  BY <1>1, <1>2, <1>4, <1>5 DEF Sides, spacing

LEMMA LastSetIs ==
  ASSUME NEW m \in Nat, NEW at, DOMAIN at \subseteq 1..m,
         \A d \in DOMAIN at : at[d] \in Int \X Int, NEW k \in {1, 2}
  PROVE  LastSet(at, k) \in Int
<1> DEFINE set == {d \in DOMAIN at : at[d][k] # 0}
<1>1. LastSet(at, k) = IF set = {} THEN 0 ELSE at[Max(set)][k]
  BY DEF LastSet
<1>2. set \in SUBSET (1..m) /\ set \subseteq DOMAIN at
  OBVIOUS
<1> HIDE DEF set
<1>3. CASE set # {}
  <2>1. Max(set) \in DOMAIN at
    BY <1>2, <1>3, MaxIn
  <2>2. at[Max(set)] \in Int \X Int
    BY <2>1
  <2> QED
    BY <1>1, <1>3, <2>2
<1> QED
  BY <1>1, <1>3

\* Nothing has changed but places, and the members of a group are still apart.
LEMMA PlacesKeep ==
  ASSUME DockInv, NEW t \in Desk, t = Desktop', SameWindows(Desktop, t),
         UNCHANGED <<groups, bus, marked, storage, place, ghost, restarts>>,
         snaps' \subseteq Opened \X Opened, dragged' \in Opened \cup {0},
         Living(Desktop) /\ Apart(Desktop) => Apart(t)
  PROVE  DockInv'
<1> PICK s : s = Desktop
  OBVIOUS
<1>1. t.groups = s.groups /\ t.bus = s.bus /\ t.storage = s.storage /\ Sane(s)
  BY DesktopIs, DesktopNext DEF DockInv
<1>2. /\ Sane(t)
      /\ \A n : HasPopout(t, n) <=> HasPopout(s, n)
      /\ Living(t) <=> Living(s)
      /\ Remembered(s) => Remembered(t)
      /\ \A marks : Told(s, marks) => Told(t, marks)
      /\ Paired(s) => Paired(t)
  BY <1>1, PlacesChange
<1>3. Opened' = Opened
  BY DesktopIs, DesktopNext DEF SameWindows, Opened
<1>4. ~ghost => Fine(t, marked, restarts)
  BY <1>2 DEF DockInv, Fine, Healthy
<1> QED
  BY <1>2, <1>3, <1>4 DEF DockInv

LEMMA DragKeeps ==
  ASSUME DockInv, NEW w \in Opened, NEW p \in Points, Drag(w, p)
  PROVE  DockInv'
<1> PICK s : s = Desktop
  OBVIOUS
<1> PICK t : t = Desktop'
  OBVIOUS
<1>1. PICK jump \in BOOLEAN : Moved(w, p, jump)
  BY DEF Drag
<1>2. /\ s.win = win /\ Sane(s) /\ s \in Desk /\ s.win \in Seq(Window)
      /\ DOMAIN s.win = 1..Len(s.win) /\ Len(s.win) \in Nat
      /\ w \in DOMAIN s.win /\ s.win[w] \in Window
      /\ t.groups = s.groups /\ t.bus = s.bus /\ t.storage = s.storage
  BY DesktopIs, DesktopNext DEF DockInv, Sane, Desk, Opened, Drag
<1>3. p[1] \in Int /\ p[2] \in Int
  BY DockingAssumption
<1> DEFINE bounds == [win[w] EXCEPT !.x = p[1], !.y = p[2]]
           side == [d \in Registered |-> SnapSide(bounds, win[d])]
           near == {d \in Registered : side[d] # "none" /\ (d = w => jump)}
           at == [d \in near |-> snapToWindow(bounds, win[d], side[d])]
           x == LastSet(at, 1)
           y == LastSet(at, 2)
           listed == (snaps \ UNION {Listed(w, d) : d \in Registered})
                     \cup {<<w, d>> : d \in near}
<1>4. bounds \in Window
  <2>1. win[w] \in Window
    BY <1>2
  <2> QED
    BY <1>3, <2>1, MovedWindow, Zenon
<1> HIDE DEF bounds
<1>5. near \subseteq Registered /\ Registered \subseteq DOMAIN s.win
      /\ \A d \in near : side[d] \in Sides
  BY <1>2, SideIs DEF Registered, Opened
<1> HIDE DEF side
<1>6. DOMAIN at = near /\ \A d \in near : at[d] \in Int \X Int
  <2>1. \A d \in near : win[d] \in Window
    BY <1>2, <1>5
  <2> QED
    BY <1>4, <1>5, <2>1, SnapIs
<1>7. listed \subseteq Opened \X Opened
  BY <1>2, <1>5 DEF DockInv, Opened
<1> HIDE DEF near, at
<1>8. x \in Int /\ y \in Int
  <2>1. DOMAIN at \subseteq 1..Len(s.win)
    BY <1>2, <1>5, <1>6
  <2> QED
    BY <1>2, <1>6, <2>1, LastSetIs
<1>X. PICK X \in Int : X = IF x # 0 THEN x ELSE p[1]
  BY <1>3, <1>8
<1>Y. PICK Y \in Int : Y = IF y # 0 THEN y ELSE p[2]
  BY <1>3, <1>8
<1>R. PICK R \in {40, 50} : R = range + IF Min(Registered) \in near THEN 10 ELSE 0
  BY DEF range
<1>9. /\ win' = [win EXCEPT ![w] = [@ EXCEPT !.x = X, !.y = Y, !.range = R]]
      /\ snaps' = IF x # 0 \/ y # 0 THEN StillSnapped(listed, win') ELSE listed
  BY <1>X, <1>Y, <1>R, <1>1 DEF Moved, bounds, side, near, at
<1> HIDE DEF x, y, listed
<1>b. PICK b \in Window : b = win[w]
  BY <1>2
<1> DEFINE c == [b EXCEPT !.x = X, !.y = Y, !.range = R]
<1>10. c \in Window /\ c.name = b.name /\ c.phase = b.phase
  <2>1. c \in Window
    BY Zenon DEF Window
  <2> QED
    BY DEF Window
<1>11. t.win = [s.win EXCEPT ![w] = c]
  BY <1>b, <1>2, <1>9, DesktopNext
<1> HIDE DEF c
<1>12. /\ t.win \in Seq(Window) /\ DOMAIN t.win = DOMAIN s.win /\ t.win[w] = c
       /\ \A v \in DOMAIN s.win : v # w => t.win[v] = s.win[v]
  BY <1>2, <1>10, <1>11
<1>13. t \in Desk
  <2>1. t = [win |-> t.win, groups |-> t.groups, bus |-> t.bus, storage |-> t.storage]
    BY DEF Desktop
  <2> QED
    BY <1>2, <1>12, <2>1 DEF Desk
<1>14. SameWindows(s, t)
  BY <1>b, <1>2, <1>10, <1>12 DEF SameWindows
<1>15. snaps' \subseteq Opened \X Opened
  BY <1>7, <1>9 DEF StillSnapped
<1>16. Apart(s) => Apart(t)
  <2>1. ~In(s, w)
    BY DesktopIs DEF Drag, IsGrouped, GroupsOf, In
  <2>2. \A v : In(s, v) => v \in DOMAIN s.win /\ v # w
    BY <1>2, <2>1, InIsOpened DEF In
  <2>3. \A v : In(s, v) => t.win[v].name = s.win[v].name
                /\ t.win[v].x = s.win[v].x /\ t.win[v].y = s.win[v].y
    BY <1>12, <2>2
  <2> QED
    BY <1>2, <2>3, GroupsUnmoved
<1>17. dragged' \in Opened \cup {0}
  BY DEF Drag
<1> QED
  BY <1>13, <1>14, <1>15, <1>16, <1>17, PlacesKeep DEF Drag

LEMMA DragGroupKeeps ==
  ASSUME DockInv, NEW w \in Opened, NEW p \in Points, DragGroup(w, p)
  PROVE  DockInv'
<1> PICK s : s = Desktop
  OBVIOUS
<1> PICK t : t = Desktop'
  OBVIOUS
<1>1. /\ s.win = win /\ Sane(s) /\ s \in Desk /\ s.win \in Seq(Window)
      /\ DOMAIN s.win = 1..Len(s.win) /\ Len(s.win) \in Nat
      /\ w \in DOMAIN s.win /\ s.win[w] \in Window
      /\ t.groups = s.groups /\ t.bus = s.bus /\ t.storage = s.storage /\ s.groups = groups
  <2>1. s.win = win /\ Sane(s) /\ s \in Desk /\ s.win \in Seq(Window) /\ w \in DOMAIN s.win
    BY DesktopIs DEF DockInv, Sane, Desk, Opened
  <2>2. t.groups = s.groups /\ t.bus = s.bus /\ t.storage = s.storage /\ s.groups = groups
    BY DesktopIs, DesktopNext DEF DragGroup
  <2> QED
    BY <2>1, <2>2
<1>10. p[1] \in Int /\ p[2] \in Int /\ s.win[w].x \in Int /\ s.win[w].y \in Int
  <2>1. p[1] \in Int /\ p[2] \in Int
    BY DockingAssumption
  <2>2. s.win[w].x \in Int /\ s.win[w].y \in Int
    BY <1>1 DEF Window
  <2> QED
    BY <2>1, <2>2
<1> PICK dx \in Int : dx = p[1] - s.win[w].x
  BY <1>10
<1> PICK dy \in Int : dy = p[2] - s.win[w].y
  BY <1>10
<1> DEFINE Moves(v) == \E g \in s.groups : w \in Range(g) /\ v \in Range(g) /\ v \in Registered
           shifted(v) == [s.win[v] EXCEPT !.x = @ + p[1] - s.win[w].x, !.y = @ + p[2] - s.win[w].y]
<1>2. t.win = [v \in DOMAIN s.win |-> IF Moves(v) THEN shifted(v) ELSE s.win[v]]
  BY <1>1, DesktopNext DEF DragGroup, GroupsOf, Opened
<1>3. ASSUME NEW v \in DOMAIN s.win
      PROVE  /\ shifted(v) \in Window
             /\ shifted(v).name = s.win[v].name /\ shifted(v).phase = s.win[v].phase
             /\ shifted(v).x = s.win[v].x + dx /\ shifted(v).y = s.win[v].y + dy
  <2> PICK b \in Window : b = s.win[v]
    BY <1>1
  <2>5. /\ s.win[v].x \in Int /\ s.win[v].y \in Int /\ s.win[w].x \in Int /\ s.win[w].y \in Int
        /\ p[1] \in Int /\ p[2] \in Int
    <3>1. s.win[v] \in Window
      OBVIOUS
    <3>2. s.win[v].x \in Int /\ s.win[v].y \in Int
      BY <3>1 DEF Window
    <3> QED
      BY <1>10, <3>2
  <2> PICK k \in Int : k = s.win[v].x + p[1] - s.win[w].x
    BY <2>5
  <2> PICK l \in Int : l = s.win[v].y + p[2] - s.win[w].y
    BY <2>5
  <2>1. k = s.win[v].x + dx /\ l = s.win[v].y + dy
    BY <2>5
  <2>2. [b EXCEPT !.x = k, !.y = l] \in Window
    BY Zenon DEF Window
  <2>3. /\ [b EXCEPT !.x = k, !.y = l].name = b.name
        /\ [b EXCEPT !.x = k, !.y = l].phase = b.phase
        /\ [b EXCEPT !.x = k, !.y = l].x = k /\ [b EXCEPT !.x = k, !.y = l].y = l
    BY DEF Window
  <2>4. shifted(v) = [b EXCEPT !.x = k, !.y = l]
    OBVIOUS
  <2> QED
    BY <2>1, <2>2, <2>3, <2>4
<1> HIDE DEF shifted, Moves
<1>4. /\ DOMAIN t.win = DOMAIN s.win
      /\ \A v \in DOMAIN s.win : t.win[v] = IF Moves(v) THEN shifted(v) ELSE s.win[v]
  BY <1>2
<1>5. t.win \in Seq(Window)
  <2>1. \A v \in DOMAIN s.win : s.win[v] \in Window
    BY <1>1
  <2>2. \A v \in 1..Len(s.win) : (IF Moves(v) THEN shifted(v) ELSE s.win[v]) \in Window
    BY <1>1, <1>3, <2>1
  <2>3. t.win = [v \in 1..Len(s.win) |-> IF Moves(v) THEN shifted(v) ELSE s.win[v]]
    BY <1>1, <1>2
  <2> QED
    BY <1>1, <2>2, <2>3
<1>6. t \in Desk
  <2>1. t = [win |-> t.win, groups |-> t.groups, bus |-> t.bus, storage |-> t.storage]
    BY DEF Desktop
  <2> QED
    BY <1>1, <1>5, <2>1 DEF Desk
<1>7. SameWindows(s, t)
  BY <1>3, <1>4 DEF SameWindows
<1>8. ASSUME Living(s), Apart(s) PROVE Apart(t)
  <2>1. ASSUME NEW g \in s.groups PROVE Together(s, t, g)
    <3>1. \A v \in Range(g) : v \in DOMAIN s.win /\ v \in Registered
      <4> TAKE v \in Range(g)
      <4>1. v \in DOMAIN s.win /\ In(s, v)
        BY <1>1, InIsOpened
      <4> QED
        BY <1>1, <1>8, <4>1 DEF Living, Registered, Opened
    <3>2. CASE w \in Range(g)
      <4>1. \A v \in Range(g) : Moves(v)
        BY <3>1, <3>2 DEF Moves
      <4>2. \A v \in Range(g) : t.win[v].x = s.win[v].x + dx /\ t.win[v].y = s.win[v].y + dy
        BY <1>3, <1>4, <3>1, <4>1
      <4> QED
        BY <4>2 DEF Together
    <3>3. CASE w \notin Range(g)
      <4>1. \A v \in Range(g) : ~Moves(v)
        <5>1. \A h \in s.groups : Range(h) \cap Range(g) # {} => h = g
          BY <1>1 DEF Sane, Disjoint
        <5> QED
          BY <3>3, <5>1 DEF Moves
      <4>2. \A v \in Range(g) : t.win[v] = s.win[v]
        BY <1>4, <3>1, <4>1
      <4>3. Range(g) \subseteq DOMAIN s.win
        BY <3>1
      <4> QED
        BY <1>1, <4>2, <4>3, Unmoved
    <3> QED
      BY <3>2, <3>3
  <2>2. \A g : Order(g, g)
    BY DEF Order
  <2>3. Sane(t)
    BY <1>1, <1>6, <1>7, PlacesChange
  <2> QED
    BY <1>1, <1>7, <1>8, <2>1, <2>2, <2>3, ApartKept
<1>9. snaps \subseteq Opened \X Opened /\ dragged \in Opened \cup {0}
  BY DEF DockInv
<1> QED
  BY <1>6, <1>7, <1>8, <1>9, PlacesKeep DEF DragGroup

LEMMA ReleaseDockedKeeps ==
  ASSUME DockInv, ReleaseDocked
  PROVE  DockInv'
<1>1. Desktop' = Desktop
  BY DEF ReleaseDocked, Desktop
<1>2. Opened' = Opened
  BY DEF ReleaseDocked, Opened
<1> QED
  BY <1>1, <1>2 DEF DockInv, ReleaseDocked

-----------------------------------------------------------------------------
(* A window is released.                                                   *)

LEMMA ReleaseKeeps ==
  ASSUME DockInv, Release
  PROVE  /\ DockInv'
         /\ ~ghost /\ ghost' => ListedHasClosed
<1> PICK s : s = Desktop
  OBVIOUS
<1>1. s.win = win /\ Sane(s) /\ s.win \in Seq(Window) /\ snaps \subseteq (DOMAIN s.win) \X (DOMAIN s.win)
  BY DesktopIs DEF DockInv, Sane, Desk, Opened
<1>2. IsFiniteSet(snaps)
  <2>1. IsFiniteSet(1..Len(s.win))
    BY <1>1, FS_Interval
  <2>2. IsFiniteSet((1..Len(s.win)) \X (1..Len(s.win)))
    BY <2>1, FS_Product
  <2>3. snaps \subseteq (1..Len(s.win)) \X (1..Len(s.win))
    BY <1>1
  <2> QED
    BY <2>2, <2>3, FS_Subset
<1>3. Cardinality(snaps) \in Nat
  BY <1>2, FS_CardinalityType
<1>4. PICK order \in SetToSeqs(snaps) : BecomesDesktop(JoinAll(s, order))
  BY DEF Release
<1>5. order \in [1..Cardinality(snaps) -> snaps]
  BY DEF SetToSeqs
<1>6. Len(order) \in Nat /\ \A k \in 1..Len(order) : order[k] \in (DOMAIN s.win) \X (DOMAIN s.win)
  BY <1>1, <1>3, <1>5
<1>7. PICK f : Joined(s, order, Len(order), f) /\ JoinAll(s, order) = f[Len(order)]
  BY <1>6, JoinAllIs
<1> PICK t : t = JoinAll(s, order)
  OBVIOUS
<1>8. InTurn(s, order, Len(order), f) /\ t = f[Len(order)]
  BY <1>1, <1>6, <1>7 DEF InTurn
<1>9. /\ Sane(t) /\ t.win = s.win
      /\ Living(t) /\ Fine(s, marked, restarts) => Fine(t, marked, restarts)
  BY <1>8, JoinedSane, JoinedFine
<1>10. Desktop' = t
  BY <1>4, <1>9, Becomes DEF Sane
<1>11. \A n \in marked : HasPopout(t, n)
  BY <1>9 DEF DockInv, HasPopout
<1>12. ASSUME ~ghost' PROVE Fine(t, marked, restarts)
  <2>1. ~ghost /\ ~HoldsClosed'
    BY <1>12 DEF Release, Haunt
  <2>2. Living(t)
    BY <1>9, <1>10, <2>1, NotHaunted
  <2> QED
    BY <1>9, <2>1, <2>2 DEF DockInv
<1>13. DockInv'
  BY <1>9, <1>10, <1>11, <1>12 DEF DockInv, Release
<1>14. ASSUME ~ghost, ghost' PROVE ListedHasClosed
  <2> SUFFICES ASSUME ~ListedHasClosed PROVE FALSE
    OBVIOUS
  <2>1. ASSUME NEW k \in 1..Len(order) PROVE Harmless(s, order[k][1], order[k][2])
    <3>1. order[k] \in snaps
      BY <1>3, <1>5
    <3> QED
      BY <1>1, <3>1 DEF ListedHasClosed, Harmless, Release
  <2>2. Living(t)
    <3>1. Living(s)
      BY <1>14 DEF DockInv, Fine
    <3> QED
      BY <1>8, <2>1, <3>1, JoinedLiving
  <2>3. ~HoldsClosed'
    BY <1>9, <1>10, <2>2, LivingNotHaunted
  <2> QED
    BY <1>14, <2>3 DEF Release, Haunt
<1> QED
  BY <1>13, <1>14

-----------------------------------------------------------------------------
(* Theorems.                                                               *)

LEMMA InvNext == DockInv /\ [Next]_vars => DockInv'
<1> SUFFICES ASSUME DockInv, [Next]_vars PROVE DockInv'
  OBVIOUS
<1>1. CASE \E n \in Names : Open(n)
  BY <1>1, OpenKeeps
<1>2. CASE \E w \in Opened : CloseRequested(w)
  BY <1>2, CloseRequestedKeeps
<1>3. CASE \E w \in Opened : Closed(w)
  BY <1>3, ClosedKeeps
<1>4. CASE \E w \in Opened : UndockTile(w)
  BY <1>4, UndockTileKeeps
<1>5. CASE \E w \in Opened, p \in Points : Drag(w, p)
  BY <1>5, DragKeeps
<1>6. CASE \E w \in Opened, p \in Points : DragGroup(w, p)
  BY <1>6, DragGroupKeeps
<1>7. CASE Release
  BY <1>7, ReleaseKeeps
<1>8. CASE ReleaseDocked
  BY <1>8, ReleaseDockedKeeps
<1>9. CASE Deliver
  BY <1>9, DeliverKeeps
<1>10. CASE Restart
  BY <1>10, RestartKeeps
<1>11. CASE UNCHANGED vars
  <2>1. Desktop' = Desktop /\ Opened' = Opened
    BY <1>11 DEF vars, Desktop, Opened
  <2> QED
    BY <1>11, <2>1 DEF DockInv, vars
<1> QED
  BY <1>1, <1>2, <1>3, <1>4, <1>5, <1>6, <1>7, <1>8, <1>9, <1>10, <1>11 DEF Next

LEMMA Invariance == Spec => []DockInv
BY InvInit, InvNext, PTL DEF Spec

\* Docking keeps its types, and a window is in one group at most
\* (dockingManager.js:292-312).
THEOREM DockingTypeCorrect == Spec => []DockingTypeOK
<1>1. ASSUME DockInv PROVE DockingTypeOK
  <2>1. /\ win \in Seq(Window) /\ storage \in [Names -> Names \cup {NoName}]
        /\ Disjoint(Desktop)
    BY <1>1, DesktopIs DEF DockInv, Sane, Desk
  <2>2. \A w \in Opened : win[w] \in Window
    BY <2>1 DEF Opened
  <2>3. groups \subseteq Seq(Opened)
    BY <2>1, DesktopIs DEF Disjoint, Opened
  <2>4. ASSUME NEW w \in Opened PROVE Cardinality(GroupsOf(w)) <= 1
    <3>1. \A g, h \in GroupsOf(w) : g = h
      BY <2>1, DesktopIs DEF Disjoint, GroupsOf
    <3>2. Cardinality({}) = 0 /\ \A g : Cardinality({g}) = 1
      BY FS_EmptySet, FS_Singleton
    <3>3. GroupsOf(w) = {} \/ \E g : GroupsOf(w) = {g}
      <4> SUFFICES ASSUME GroupsOf(w) # {} PROVE \E g : GroupsOf(w) = {g}
        OBVIOUS
      <4>1. PICK g : g \in GroupsOf(w)
        OBVIOUS
      <4>2. GroupsOf(w) = {g}
        BY <3>1, <4>1
      <4> QED
        BY <4>2
    <3> QED
      BY <3>2, <3>3
  <2> QED
    BY <1>1, <2>1, <2>2, <2>3, <2>4 DEF DockingTypeOK, DockInv, Window
<1> QED
  BY <1>1, Invariance, PTL

\* The last member of a group is let go, unless it docked to itself
\* (dockingManager.js:354-372).
THEOREM NoneIsLeftAlone == Spec => []NoLoneMember
<1>1. DockInv => NoLoneMember
  BY DesktopIs DEF DockInv, Fine, Healthy, Paired, NoLoneMember, NameOf
<1> QED
  BY <1>1, Invariance, PTL

\* What the marks and the storage say of docked windows agrees with the groups
\* (dockingManager.js:349-376, openfinPopoutService.js:85-92).
THEOREM MarksFollowGroups == Spec => []DockedIsTold
<1>1. ASSUME DockInv, ~ghost, bus = <<>>, NEW w \in Popouts
      PROVE  NameOf(w) \in marked <=> IsGrouped(w)
  <2> PICK s : s = Desktop
    OBVIOUS
  <2> PICK n : n = s.win[w].name
    OBVIOUS
  <2>1. /\ s.win = win /\ s.groups = groups /\ Sane(s) /\ Living(s) /\ Told(s, marked)
        /\ s.bus = <<>> /\ w \in DOMAIN s.win /\ s.win[w].phase = "open" /\ n = NameOf(w)
    BY <1>1, DesktopIs DEF DockInv, Fine, Healthy, Popouts, Opened, NameOf
  <2>2. n \in Names
    <3>1. s.win[w] \in Window
      BY <2>1, WindowIs
    <3> QED
      BY <3>1 DEF Window
  <2>3. n \in marked <=> Docks(s, n)
    <3>1. Silent(s.bus, n) /\ HasPopout(s, n)
      <4>1. DOMAIN s.bus = {}
        BY <2>1
      <4> QED
        BY <2>1, <4>1 DEF Silent, HasPopout
    <3> QED
      BY <2>1, <2>2, <3>1 DEF Told, ToldOf
  <2>4. Docks(s, n) <=> In(s, w)
    <3>1. ASSUME NEW x \in DOMAIN s.win, s.win[x].name = n, In(s, x) PROVE x = w
      <4>1. s.win[x].phase # "closed"
        BY <2>1, <3>1 DEF Living
      <4> QED
        BY <2>1, <3>1, <4>1, SameName
    <3> QED
      BY <2>1, <3>1 DEF Docks
  <2>5. In(s, w) <=> IsGrouped(w)
    BY <2>1 DEF In, IsGrouped, GroupsOf
  <2> QED
    BY <2>1, <2>3, <2>4, <2>5
<1>2. ASSUME DockInv, ~ghost, restarts = 0, NEW n \in Names, storage[n] # NoName
      PROVE  IsGrouped(Max(InstancesOf(n)))
  BY <1>2, DesktopIs, DockedIsLast DEF DockInv, Fine, Remembered
<1>3. DockInv => DockedIsTold
  BY <1>1, <1>2 DEF DockedIsTold
<1> QED
  BY <1>3, Invariance, PTL

\* Of the members of a group only its founders can overlap, however they are
\* moved (dockingManager.js:298-303).
THEOREM OthersAreApart == Spec => []OnlyFoundersOverlap
<1>1. ASSUME DockInv, ~ghost, NEW g \in groups, NEW i \in 1..Len(g), NEW j \in 3..Len(g), i < j
      PROVE  ~intersact(win[g[i]], win[g[j]])
  <2>1. Apart(Desktop) /\ Disjoint(Desktop)
    BY <1>1 DEF DockInv, Fine, Healthy, Sane
  <2>2. g \in Seq(DOMAIN win)
    BY <2>1, DesktopIs DEF Disjoint
  <2>3. i \in DOMAIN g /\ j \in DOMAIN g /\ j >= 3
    BY <2>2
  <2> QED
    BY <1>1, <2>1, <2>3, DesktopIs DEF Apart
<1>2. DockInv => OnlyFoundersOverlap
  BY <1>1 DEF OnlyFoundersOverlap
<1> QED
  BY <1>2, Invariance, PTL

\* A group comes to hold a closed window only when a member closes, when a
\* window is released while one of a listed pair has closed, or when a window is
\* announced that has closed or, after a restart, remembers one that has
\* (dockingManager.js:168-179, 562-565, 818-838).
THEOREM ClosedStaysHow == Spec => HowClosedStays
<1>1. ASSUME DockInv, [Next]_vars, ~ghost, ghost'
      PROVE  MemberCloses \/ ListedHasClosed \/ ClosedIsAnnounced
  <2>1. CASE \E w \in Opened : Closed(w)
    <3>1. PICK w \in Opened : Closed(w)
      BY <2>1
    <3>2. win \in Seq(Window) /\ Sane(Desktop) /\ Living(Desktop)
      BY <1>1, DesktopIs DEF DockInv, Sane, Desk, Fine
    <3>3. win'[w].phase = "closed" /\ \A x \in Opened : x # w => win'[x] = win[x]
      BY <3>1, <3>2, PhaseChanges DEF Closed, Opened
    <3>4. PICK g \in groups : \E x \in Range(g) : win'[x].phase = "closed"
      BY <1>1, <3>1 DEF Closed, Haunt, HoldsClosed
    <3>5. \A x \in Range(g) : x \in Opened /\ win[x].phase # "closed"
      BY <3>2, <3>4, DesktopIs, InIsOpened DEF Living, Opened
    <3>6. w \in Range(g)
      BY <3>3, <3>4, <3>5
    <3> QED
      BY <3>1, <3>3, <3>4, <3>6 DEF Closed, MemberCloses, IsGrouped, GroupsOf
  <2>2. CASE Release
    BY <1>1, <2>2, ReleaseKeeps
  <2>3. CASE Deliver
    BY <1>1, <2>3, DeliverKeeps
  <2>4. CASE UNCHANGED ghost
    BY <1>1, <2>4
  <2>5. CASE (\E n \in Names : Open(n)) \/ (\E w \in Opened : CloseRequested(w) \/ UndockTile(w))
    BY <2>4, <2>5 DEF Open, CloseRequested, UndockTile
  <2>6. CASE \E w \in Opened, p \in Points : Drag(w, p) \/ DragGroup(w, p)
    BY <2>4, <2>6 DEF Drag, DragGroup
  <2>7. CASE ReleaseDocked \/ Restart \/ UNCHANGED vars
    BY <2>4, <2>7 DEF ReleaseDocked, Restart, vars
  <2> QED
    BY <1>1, <2>1, <2>2, <2>3, <2>5, <2>6, <2>7 DEF Next
<1>2. DockInv /\ [Next]_vars =>
        [~ghost /\ ghost' => MemberCloses \/ ListedHasClosed \/ ClosedIsAnnounced]_vars
  BY <1>1
<1> QED
  BY <1>2, Invariance, PTL DEF Spec, HowClosedStays

=============================================================================
