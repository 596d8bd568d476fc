------------------------- MODULE ReferenceDataProofs -------------------------
(***************************************************************************)
(* Reference data, written and read: however requests interleave, the       *)
(* events of a pair are written in turn, and what EventStoreCacheProofs     *)
(* asks of the operators of a cache holds of those of the pairs for a log   *)
(* that is written so.                                                      *)
(***************************************************************************)
EXTENDS ReferenceData, FiniteSetTheorems, WellFoundedInduction, TLAPS

PairCache == INSTANCE EventStoreCacheProofs WITH
  Events <- PairEvents, CanFollow <- PairCanFollow,
  UpdateStateOfTheWorld <- PairUpdate, EmptyView <- {},
  Load <- PairLoad, MapSingleEvent <- PairSingleUpdate, Merge <- PairMerge

-----------------------------------------------------------------------------
(* The cache of ReferenceData is an instance of the one the proofs are     *)
(* about.                                                                  *)

LEMMA BoundsHold == PairCache!Bounded
BY BoundsAssumption DEF PairCache!Bounded, PairCache!IsFiniteSet, IsFiniteSet

\* It takes an event as the cache does.
LEMMA RunEventIs == RunEvent => PairCache!RunEvent
BY DEF RunEvent, PairCache!RunEvent, Next1, PairCache!Next1, Dequeue, PairCache!Dequeue,
   IsObserved, PairCache!IsObserved, Awaiting, PairCache!Awaiting,
   storeVars, PairCache!storeVars, streamVars, PairCache!streamVars

\* Its steps are steps of the cache.
LEMMA PairsStep == CacheStep => PairCache!CacheStep
<1> USE DEF
      Awaiting, PairCache!Awaiting, ConnectionItem, PairCache!ConnectionItem,
      Dequeue, PairCache!Dequeue, Disposed, PairCache!Disposed, EmptySotw,
      PairCache!EmptySotw, EventItem, PairCache!EventItem, Generations,
      PairCache!Generations, IsObserved, PairCache!IsObserved, Listening,
      PairCache!Listening, Next1, PairCache!Next1, OpenItem,
      PairCache!OpenItem, PublishTo, PairCache!PublishTo, Remaining,
      PairCache!Remaining, Repeated, PairCache!Repeated, Schedule,
      PairCache!Schedule, StopReplaced, PairCache!StopReplaced, SubItem,
      PairCache!SubItem, cacheVars, PairCache!cacheVars, storeVars,
      PairCache!storeVars, streamVars, PairCache!streamVars
<1>1. Connect => PairCache!Connect
  BY DEF Connect, PairCache!Connect
<1>2. Disconnect => PairCache!Disconnect
  BY DEF Disconnect, PairCache!Disconnect
<1>3. \A s \in Streams : GetOutputStream(s) => PairCache!GetOutputStream(s)
  BY DEF GetOutputStream, PairCache!GetOutputStream
<1>4. RunConnected => PairCache!RunConnected
  BY DEF RunConnected, PairCache!RunConnected, SetToSeq, PairCache!SetToSeq,
     IsInjective, PairCache!IsInjective,
     Cardinality, PairCache!Cardinality
<1>5. RunDisconnected => PairCache!RunDisconnected
  BY DEF RunDisconnected, PairCache!RunDisconnected
<1>6. RunStartSub => PairCache!RunStartSub
  BY DEF RunStartSub, PairCache!RunStartSub
<1>7. RunStopSub => PairCache!RunStopSub
  BY DEF RunStopSub, PairCache!RunStopSub
<1>8. RunEvent => PairCache!RunEvent
  BY RunEventIs
<1>9. RunCaughtUp => PairCache!RunCaughtUp
  BY DEF RunCaughtUp, PairCache!RunCaughtUp
<1>10. RunOpen => PairCache!RunOpen
  BY DEF RunOpen, PairCache!RunOpen
<1>11. \A g \in Generations : OnEvent(g) => PairCache!OnEvent(g)
  BY DEF OnEvent, PairCache!OnEvent
<1>12. \A g \in Generations : OnCaughtUp(g) => PairCache!OnCaughtUp(g)
  BY DEF OnCaughtUp, PairCache!OnCaughtUp
<1> QED
  BY <1>1, <1>2, <1>3, <1>4, <1>5, <1>6, <1>7, <1>8, <1>9, <1>10, <1>11, <1>12
     DEF CacheStep, PairCache!CacheStep, RunLoop, PairCache!RunLoop

-----------------------------------------------------------------------------
(* The currency pair cache.                                                *)

Pair == [symbol : Symbols, enabled : BOOLEAN]

LEMMA PairsAreTyped ==
  ASSUME NEW trace \in Seq(PairEvents), NEW m \in 0..Len(trace)
  PROVE  PairCache!Replay(trace, m) \subseteq Pair
<1> DEFINE S == {n \in Nat : n <= Len(trace) => PairCache!Replay(trace, n) \subseteq Pair}
<1>1. 0 \in S
  <2>1. PairCache!Replay(trace, 0) = {}
    BY PairCache!ReplayOfNone DEF PairCache!EmptySotw
  <2> QED
    BY <2>1
<1>2. ASSUME NEW n \in Nat, n \in S PROVE n + 1 \in S
  <2> DEFINE world == PairCache!Replay(trace, n)
             e == trace[n + 1]
  <2> SUFFICES ASSUME n + 1 <= Len(trace)
               PROVE  PairCache!Replay(trace, n + 1) \subseteq Pair
    OBVIOUS
  <2>1. PairCache!Replay(trace, n + 1) = PairUpdate(world, e)
    BY PairCache!ReplayOfNext
  <2>2. world \subseteq Pair
    BY <1>2
  <2>3. e \in PairEvents
    OBVIOUS
  <2> HIDE DEF world, e
  <2>4. CASE e.kind = "Created"
    <3>1. [symbol |-> e.symbol, enabled |-> FALSE] \in Pair
      BY <2>3 DEF PairEvents, Pair
    <3> QED
      BY <2>1, <2>2, <2>4, <3>1 DEF PairUpdate
  <2>5. CASE e.kind # "Created"
    <3>1. (e.kind = "Activated") \in BOOLEAN
      OBVIOUS
    <3>2. \A p \in world : [p EXCEPT !.enabled = (e.kind = "Activated")] \in Pair
      BY <2>2, <3>1 DEF Pair
    <3> QED
      BY <2>1, <2>2, <2>5, <3>2 DEF PairUpdate
  <2> QED
    BY <2>4, <2>5
<1> HIDE DEF S
<1>3. Nat \subseteq S
  BY <1>1, <1>2, PairCache!Induction
<1> QED
  BY <1>3 DEF S

\* An update makes of the enabled pairs those that are after the event.
LEMMA PairsLawful == PairCache!Lawful
<1>1. PairCache!LoadReplaces
  BY DEF PairCache!LoadReplaces, PairLoad
<1> SUFFICES ASSUME NEW trace \in Seq(PairEvents), PairCache!Legal(trace),
                    NEW n \in DOMAIN trace
             PROVE  PairCache!MergeTells(PairCache!Replay(trace, n - 1), trace[n])
  BY <1>1 DEF PairCache!Lawful
<1> DEFINE world == PairCache!Replay(trace, n - 1)
           e == trace[n]
           next == PairUpdate(world, e)
           update == PairSingleUpdate(next, e)
<1>2. n - 1 \in 0..Len(trace) /\ e \in PairEvents
  OBVIOUS
<1>3. \A p \in world : p \in Pair
  BY <1>2, PairsAreTyped
<1>4. PairCache!MergeTells(world, e) <=>
        IF update = {} THEN PairLoad({}, world) = PairLoad({}, next)
        ELSE PairMerge(PairLoad({}, world), update) = PairLoad({}, next)
  BY DEF PairCache!MergeTells
<1> HIDE DEF world
<1>5. CASE e.kind = "Created"
  <2>1. next = world \union {[symbol |-> e.symbol, enabled |-> FALSE]} /\ update = {}
    BY <1>5 DEF PairUpdate, PairSingleUpdate
  <2>2. {q \in next : q.enabled} = {q \in world : q.enabled}
    BY <2>1
  <2>3. PairLoad({}, world) = PairLoad({}, next)
    BY <2>2 DEF PairLoad
  <2> QED
    BY <1>4, <2>1, <2>3 DEF world
<1>6. CASE e.kind # "Created"
  <2> DEFINE on == (e.kind = "Activated")
             set(p) == [p EXCEPT !.enabled = on]
             own == {p \in world : p.symbol = e.symbol}
  <2>1. next = {IF p.symbol = e.symbol THEN set(p) ELSE p : p \in world}
    BY <1>6 DEF PairUpdate
  <2>2. \A p \in world : set(p).symbol = p.symbol /\ set(p).enabled = on
    BY <1>3 DEF Pair
  <2>3. PairLoad({}, next) =
          {p.symbol : p \in {q \in world : q.enabled /\ q.symbol # e.symbol}}
            \union {p.symbol : p \in {q \in own : on}}
    <3> HIDE DEF set, on
    <3>1. {q \in next : q.enabled} =
            {q \in world : q.enabled /\ q.symbol # e.symbol}
              \union {set(p) : p \in {q \in own : on}}
      BY <2>1, <2>2
    <3>2. {s.symbol : s \in {set(p) : p \in {q \in own : on}}} =
            {p.symbol : p \in {q \in own : on}}
      BY <2>2
    <3> QED
      BY <3>1, <3>2 DEF PairLoad
  <2>4. PairLoad({}, world) = {p.symbol : p \in {q \in world : q.enabled}}
    BY DEF PairLoad
  <2>5. {q \in next : q.symbol = e.symbol} = {set(p) : p \in own}
    <3> HIDE DEF set
    <3> QED
      BY <2>1, <2>2
  <2>6. CASE own = {}
    <3>1. update = {}
      BY <1>6, <2>5, <2>6 DEF PairSingleUpdate
    <3>2. \A q \in world : q.symbol # e.symbol
      BY <2>6
    <3>3. PairLoad({}, next) = PairLoad({}, world)
      BY <2>3, <2>4, <2>6, <3>2
    <3> QED
      BY <1>4, <3>1, <3>3 DEF world
  <2>7. CASE own # {}
    <3> DEFINE type == IF on THEN "Added" ELSE "Removed"
               told == [symbol |-> e.symbol, type |-> type]
    <3>1. update = {[symbol |-> u.symbol, type |-> type] : u \in {set(p) : p \in own}}
      BY <1>6, <2>5 DEF PairSingleUpdate
    <3>2. update = {told}
      <4> HIDE DEF set, type
      <4> QED
        BY <2>2, <2>7, <3>1
    <3>3. /\ on => Updated(update, "Added") = {e.symbol} /\ Updated(update, "Removed") = {}
          /\ ~on => Updated(update, "Added") = {} /\ Updated(update, "Removed") = {e.symbol}
      <4>1. told.symbol = e.symbol /\ told.type = type
        OBVIOUS
      <4>2. \A t : Updated(update, t) = IF type = t THEN {e.symbol} ELSE {}
        <5> HIDE DEF told, update
        <5>1. \A t : {w \in {told} : w.type = t} = IF type = t THEN {told} ELSE {}
          BY <4>1
        <5> QED
          BY <3>2, <4>1, <5>1 DEF Updated
      <4> QED
        BY <4>2
    <3>4. PairMerge(PairLoad({}, world), update) = PairLoad({}, next)
      <4> HIDE DEF on, update
      <4>1. CASE on
        <5>1. {p.symbol : p \in {q \in own : on}} = {e.symbol}
          BY <2>7, <4>1
        <5> QED
          BY <2>3, <2>4, <3>3, <4>1, <5>1 DEF PairMerge
      <4>2. CASE ~on
        <5>1. {p.symbol : p \in {q \in own : on}} = {}
          BY <4>2
        <5> QED
          BY <2>3, <2>4, <3>3, <4>2, <5>1 DEF PairMerge
      <4> QED
        BY <4>1, <4>2
    <3> QED
      BY <1>4, <3>2, <3>4 DEF world
  <2> QED
    BY <2>6, <2>7
<1> QED
  BY <1>5, <1>6

-----------------------------------------------------------------------------
(* Writing reference data.                                                 *)

\* The kind of the event that makes a version of a pair's stream.
KindAt(v) ==
  IF v = -1 THEN "none"
  ELSE IF v = 0 THEN "Created"
  ELSE IF v % 2 = 1 THEN "Activated" ELSE "Deactivated"

VersionOf(trace, i) == Cardinality(OwnEvents(trace, i)) - 1

\* The events of a pair are told apart by their version alone.
KindsAlternate(trace) ==
  \A i \in Symbols : LastOf(trace, i) = KindAt(VersionOf(trace, i))

InTurn(trace) ==
  \A n \in DOMAIN trace : PairCanFollow(SubSeq(trace, 1, n - 1), trace[n])

\* What a request that loaded a pair is about to save.
PendingOf(r) ==
  \/ pending[r] = <<>>
  \/ /\ pending[r] = <<Event(wanted[r].symbol, KindAt(version[r]))>>
     /\ version[r] >= 1

WriteInv ==
  /\ log \in Seq(PairEvents)
  /\ wanted \in [Requests -> [symbol : Symbols, active : BOOLEAN]]
  /\ progress \in [Requests -> {"new", "save", "done", "failed"}]
  /\ version \in [Requests -> Int]
  /\ DOMAIN pending = Requests
  /\ \A r \in Requests : progress[r] = "save" => PendingOf(r)
  /\ KindsAlternate(log) /\ InTurn(log)

LEMMA OwnEventsType ==
  ASSUME NEW trace \in Seq(PairEvents), NEW i
  PROVE  /\ IsFiniteSet(OwnEvents(trace, i))
         /\ VersionOf(trace, i) \in Int /\ VersionOf(trace, i) + 1 \in Nat
         /\ OwnEvents(trace, i) \subseteq 1..Len(trace)
         /\ VersionOf(trace, i) = -1 <=> OwnEvents(trace, i) = {}
<1>1. OwnEvents(trace, i) \subseteq 1..Len(trace)
  BY DEF OwnEvents
<1>2. IsFiniteSet(OwnEvents(trace, i))
  BY <1>1, FS_Interval, FS_Subset
<1>3. Cardinality(OwnEvents(trace, i)) \in Nat
  BY <1>2, FS_CardinalityType
<1>4. Cardinality(OwnEvents(trace, i)) = 0 <=> OwnEvents(trace, i) = {}
  BY <1>2, FS_EmptySet
<1> QED
  BY <1>1, <1>2, <1>3, <1>4 DEF VersionOf

LEMMA HasMax ==
  ASSUME NEW m \in Nat, NEW S \in SUBSET (1..m), S # {}
  PROVE  \E x \in S : \A y \in S : x >= y
<1> DEFINE gaps == {m - n : n \in S}
<1>1. gaps \subseteq Nat /\ gaps # {}
  OBVIOUS
<1>2. PICK d \in gaps : \A c \in gaps : <<c, d>> \notin OpToRel(<, Nat)
  BY <1>1, NatLessThanWellFounded, WFMin
<1>3. \A c \in gaps : ~(c < d)
  BY <1>1, <1>2 DEF OpToRel
<1>4. PICK x \in S : d = m - x
  OBVIOUS
<1>5. ASSUME NEW y \in S PROVE x >= y
  <2>1. ~(m - y < m - x)
    BY <1>3, <1>4
  <2> QED
    BY <2>1
<1> QED
  BY <1>5

LEMMA MaxIs ==
  ASSUME NEW S \in SUBSET Nat, NEW m \in S, \A n \in S : m >= n
  PROVE  Max(S) = m
<1>1. \E x \in S : \A y \in S : x >= y
  OBVIOUS
<1>2. Max(S) \in S /\ \A y \in S : Max(S) >= y
  BY <1>1 DEF Max
<1>3. Max(S) >= m /\ m >= Max(S) /\ Max(S) \in Nat /\ m \in Nat
  BY <1>2
<1> QED
  BY <1>3

\* An event is the last of its pair and makes the next version of it.
LEMMA LastAppended ==
  ASSUME NEW trace \in Seq(PairEvents), NEW e \in PairEvents, NEW i
  PROVE  /\ LastOf(Append(trace, e), i) =
              IF e.symbol = i THEN e.kind ELSE LastOf(trace, i)
         /\ VersionOf(Append(trace, e), i) =
              VersionOf(trace, i) + IF e.symbol = i THEN 1 ELSE 0
<1> DEFINE next == Append(trace, e)
           own == OwnEvents(trace, i)
           last == Len(trace) + 1
<1>1. /\ own \subseteq 1..Len(trace) /\ IsFiniteSet(own) /\ Cardinality(own) \in Nat
      /\ last \notin own
  <2>1. own \subseteq 1..Len(trace) /\ IsFiniteSet(own)
    BY OwnEventsType
  <2>2. Len(trace) \in Nat
    OBVIOUS
  <2> QED
    BY <2>1, <2>2, FS_CardinalityType
<1>2. /\ next[last] = e /\ DOMAIN next = 1..last
      /\ \A n \in 1..Len(trace) : next[n] = trace[n]
  OBVIOUS
<1> HIDE DEF next
<1>3. OwnEvents(next, i) = own \union IF e.symbol = i THEN {last} ELSE {}
  BY <1>2 DEF OwnEvents
<1>4. CASE e.symbol = i
  <2>1. OwnEvents(next, i) = own \union {last}
    BY <1>3, <1>4
  <2>2. Cardinality(own \union {last}) = Cardinality(own) + 1
    BY <1>1, FS_AddElement
  <2>3. last \in Nat /\ \A n \in own \union {last} : n \in Nat /\ last >= n
    BY <1>1
  <2>4. Max(own \union {last}) = last
    BY <2>3, MaxIs
  <2>5. LastOf(next, i) = e.kind
    BY <1>2, <2>1, <2>4 DEF LastOf
  <2>6. VersionOf(next, i) = VersionOf(trace, i) + 1
    BY <1>1, <2>1, <2>2 DEF VersionOf
  <2> QED
    BY <1>4, <2>5, <2>6 DEF next
<1>5. CASE e.symbol # i
  <2>1. OwnEvents(next, i) = own
    BY <1>3, <1>5
  <2>2. LastOf(next, i) = LastOf(trace, i)
    <3>1. CASE own = {}
      BY <2>1, <3>1 DEF LastOf
    <3>2. CASE own # {}
      <4>1. \E x \in own : \A y \in own : x >= y
        <5>1. Len(trace) \in Nat
          OBVIOUS
        <5> QED
          BY <1>1, <3>2, <5>1, HasMax
      <4>2. Max(own) \in own
        BY <4>1 DEF Max
      <4>3. next[Max(own)] = trace[Max(own)]
        BY <1>1, <1>2, <4>2
      <4> QED
        BY <2>1, <3>2, <4>3 DEF LastOf
    <3> QED
      BY <3>1, <3>2
  <2>3. VersionOf(next, i) = VersionOf(trace, i) + 0
    BY <1>1, <2>1 DEF VersionOf
  <2> QED
    BY <1>5, <2>2, <2>3 DEF next
<1> QED
  BY <1>4, <1>5

\* An event of the kind that the version asks for may follow.
LEMMA NextInTurn ==
  ASSUME NEW trace \in Seq(PairEvents), KindsAlternate(trace), InTurn(trace),
         NEW i \in Symbols, NEW e \in PairEvents, e.symbol = i,
         e.kind = KindAt(VersionOf(trace, i) + 1)
  PROVE  KindsAlternate(Append(trace, e)) /\ InTurn(Append(trace, e))
<1> DEFINE v == VersionOf(trace, i)
<1>1. v + 1 \in Nat /\ v \in Int
  BY OwnEventsType
<1>2. LastOf(trace, i) = KindAt(v)
  BY DEF KindsAlternate
<1> HIDE DEF v
<1>3. PairCanFollow(trace, e)
  <2>1. CASE v = -1
    BY <1>2, <2>1 DEF KindAt, PairCanFollow, v
  <2>2. CASE v # -1
    <3>1. v \in Nat /\ v + 1 # 0 /\ v + 1 # -1
      BY <1>1, <2>2
    <3>2. v % 2 \in {0, 1} /\ (v + 1) % 2 = 1 - (v % 2)
      BY <3>1
    <3>3. CASE v % 2 = 0
      <4>1. e.kind = "Activated"
        BY <3>1, <3>2, <3>3 DEF KindAt, v
      <4>2. KindAt(v) \in {"Created", "Deactivated"}
        BY <3>1, <3>3 DEF KindAt
      <4> QED
        BY <1>2, <4>1, <4>2 DEF PairCanFollow
    <3>4. CASE v % 2 = 1
      <4>1. e.kind = "Deactivated"
        BY <3>1, <3>2, <3>4 DEF KindAt, v
      <4>2. KindAt(v) = "Activated"
        BY <3>1, <3>4 DEF KindAt
      <4> QED
        BY <1>2, <4>1, <4>2 DEF PairCanFollow
    <3> QED
      BY <3>2, <3>3, <3>4
  <2> QED
    BY <2>1, <2>2
<1>4. InTurn(Append(trace, e))
  <2>1. PairCache!Legal(trace)
    BY DEF InTurn, PairCache!Legal
  <2>2. PairCache!Legal(Append(trace, e))
    BY <1>3, <2>1, PairCache!LegalAppend
  <2> QED
    BY <2>2 DEF InTurn, PairCache!Legal
<1>5. KindsAlternate(Append(trace, e))
  <2> SUFFICES ASSUME NEW j \in Symbols
               PROVE  LastOf(Append(trace, e), j) = KindAt(VersionOf(Append(trace, e), j))
    BY DEF KindsAlternate
  <2>1. VersionOf(trace, j) \in Int
    BY OwnEventsType
  <2>2. CASE j = i
    BY <2>2, LastAppended
  <2>3. CASE j # i
    <3>1. LastOf(Append(trace, e), j) = LastOf(trace, j)
      BY <2>3, LastAppended
    <3>2. VersionOf(Append(trace, e), j) = VersionOf(trace, j)
      BY <2>1, <2>3, LastAppended
    <3> QED
      BY <3>1, <3>2 DEF KindsAlternate
  <2> QED
    BY <2>2, <2>3
<1> QED
  BY <1>4, <1>5

\* The log grows beside the cache.
Grows == \E more \in Seq(PairEvents) : log' = log \o more /\ UNCHANGED cacheState

LEMMA WriteInvInit == Init => WriteInv
<1> SUFFICES ASSUME Init PROVE WriteInv
  OBVIOUS
<1>1. log = <<>>
  BY DEF Init, CacheInit
<1>2. \A i \in Symbols : OwnEvents(log, i) = {}
  BY <1>1 DEF OwnEvents
<1>3. \A i \in Symbols : VersionOf(log, i) = -1 /\ LastOf(log, i) = "none"
  BY <1>2, FS_EmptySet DEF VersionOf, LastOf
<1>4. KindsAlternate(log) /\ InTurn(log)
  BY <1>1, <1>3 DEF KindsAlternate, KindAt, InTurn
<1>5. log \in Seq(PairEvents)
  BY <1>1
<1> QED
  BY <1>4, <1>5 DEF Init, WriteInv

LEMMA Created ==
  ASSUME WriteInv, NEW i \in Symbols, NEW activate \in BOOLEAN,
         CreateCurrencyPair(i, activate)
  PROVE  WriteInv' /\ Grows
<1> DEFINE c == Event(i, "Created")
           a == Event(i, "Activated")
           more == <<c>> \o IF activate THEN <<a>> ELSE <<>>
<1>1. /\ c \in PairEvents /\ c.symbol = i /\ c.kind = "Created"
      /\ a \in PairEvents /\ a.symbol = i /\ a.kind = "Activated"
  BY DEF Event, PairEvents
<1>2. /\ VersionOf(log, i) = -1
      /\ log' = log \o <<c>> \o IF activate THEN <<a>> ELSE <<>>
      /\ UNCHANGED <<cacheState, requestVars>>
  BY DEF CreateCurrencyPair, StreamVersion, VersionOf
<1> HIDE DEF c, a
<1>3. log \in Seq(PairEvents) /\ KindsAlternate(log) /\ InTurn(log)
  BY DEF WriteInv
<1> DEFINE one == Append(log, c)
<1>4. KindAt(VersionOf(log, i) + 1) = "Created"
  BY <1>2 DEF KindAt
<1>5. one \in Seq(PairEvents) /\ KindsAlternate(one) /\ InTurn(one)
  BY <1>1, <1>3, <1>4, NextInTurn
<1>6. VersionOf(one, i) = 0
  BY <1>1, <1>2, <1>3, LastAppended
<1>7. KindAt(VersionOf(one, i) + 1) = "Activated"
  BY <1>6 DEF KindAt
<1>8. log' = IF activate THEN Append(one, a) ELSE one
  <2>1. log \o <<c>> = one
    BY <1>1, <1>3
  <2>2. one \o <<a>> = Append(one, a) /\ one \o <<>> = one
    BY <1>1, <1>5
  <2> QED
    BY <1>2, <2>1, <2>2
<1> HIDE DEF one
<1>9. log' \in Seq(PairEvents) /\ KindsAlternate(log') /\ InTurn(log')
  <2>1. CASE activate
    <3>1. /\ Append(one, a) \in Seq(PairEvents)
          /\ KindsAlternate(Append(one, a)) /\ InTurn(Append(one, a))
      BY <1>1, <1>5, <1>7, NextInTurn
    <3> QED
      BY <1>8, <2>1, <3>1
  <2>2. CASE ~activate
    BY <1>5, <1>8, <2>2
  <2> QED
    BY <2>1, <2>2
<1>10. more \in Seq(PairEvents) /\ log' = log \o more
  BY <1>1, <1>2, <1>3
<1>11. Grows
  BY <1>2, <1>10 DEF Grows
<1>12. WriteInv'
  BY <1>2, <1>9 DEF WriteInv, requestVars, KindsAlternate, InTurn, PendingOf
<1> QED
  BY <1>11, <1>12

LEMMA Loaded ==
  ASSUME WriteInv, NEW r \in Requests, LoadPair(r)
  PROVE  WriteInv' /\ Grows
<1> DEFINE i == wanted[r].symbol
           v == VersionOf(log, i)
           isActive == LastOf(log, i) = "Activated"
           raised == IF wanted[r].active = isActive THEN <<>>
                     ELSE <<Event(i, IF isActive THEN "Deactivated" ELSE "Activated")>>
<1>1. /\ v # -1
      /\ pending' = [pending EXCEPT ![r] = raised]
      /\ version' = [version EXCEPT ![r] = v + Len(raised)]
      /\ progress' = [progress EXCEPT ![r] = "save"]
      /\ UNCHANGED <<log, cacheState, wanted>>
  BY DEF LoadPair, StreamVersion, VersionOf, To
<1>2. i \in Symbols /\ log \in Seq(PairEvents)
  BY DEF WriteInv
<1>3. v \in Nat
  <2>1. v \in Int /\ v + 1 \in Nat
    BY <1>2, OwnEventsType
  <2> QED
    BY <1>1, <2>1
<1>4. LastOf(log, i) = KindAt(v)
  BY <1>2 DEF WriteInv, KindsAlternate
<1>5. KindAt(v + 1) = IF isActive THEN "Deactivated" ELSE "Activated"
  <2> HIDE DEF v
  <2>1. v % 2 \in {0, 1} /\ (v + 1) % 2 = 1 - (v % 2) /\ v + 1 # 0 /\ v + 1 # -1
    BY <1>3
  <2>2. isActive <=> v % 2 = 1
    BY <1>3, <1>4, <2>1 DEF KindAt
  <2> QED
    BY <2>1, <2>2 DEF KindAt
<1>6. raised = <<>> \/ raised = <<Event(i, KindAt(v + 1))>>
  BY <1>5
<1> HIDE DEF v, isActive, raised
<1>7. /\ pending'[r] = raised /\ version'[r] = v + Len(raised) /\ version'[r] \in Int
      /\ raised # <<>> => version'[r] = v + 1
  <2>1. r \in DOMAIN pending /\ r \in DOMAIN version /\ Len(raised) \in Nat
    BY <1>6 DEF WriteInv
  <2>2. raised # <<>> => Len(raised) = 1
    BY <1>6
  <2>3. pending'[r] = raised /\ version'[r] = v + Len(raised)
    BY <1>1, <2>1
  <2>4. v + Len(raised) \in Int
    BY <1>3, <2>1
  <2>5. raised # <<>> => v + Len(raised) = v + 1
    BY <2>2
  <2> QED
    BY <2>3, <2>4, <2>5
<1>8. PendingOf(r)'
  <2>1. CASE raised = <<>>
    BY <1>7, <2>1 DEF PendingOf
  <2>2. CASE raised # <<>>
    <3>1. version'[r] = v + 1 /\ version'[r] >= 1
      BY <1>3, <1>7, <2>2
    <3>2. pending'[r] = <<Event(wanted'[r].symbol, KindAt(version'[r]))>>
      BY <1>1, <1>6, <1>7, <2>2, <3>1
    <3> QED
      BY <3>1, <3>2 DEF PendingOf
  <2> QED
    BY <2>1, <2>2
<1>9. \A s \in Requests \ {r} : progress'[s] = "save" => PendingOf(s)'
  BY <1>1 DEF WriteInv, PendingOf
<1>10. WriteInv'
  <2>1. version' \in [Requests -> Int] /\ DOMAIN pending' = Requests
        /\ progress' \in [Requests -> {"new", "save", "done", "failed"}]
    BY <1>1, <1>7 DEF WriteInv
  <2> QED
    BY <1>1, <1>8, <1>9, <2>1 DEF WriteInv, KindsAlternate, InTurn
<1>11. <<>> \in Seq(PairEvents) /\ log \o <<>> = log
  BY <1>2
<1>12. Grows
  BY <1>1, <1>11 DEF Grows
<1> QED
  BY <1>10, <1>12

\* A save whose expected version is that of the stream continues it.
LEMMA SavedInTurn ==
  ASSUME WriteInv, NEW r \in Requests, progress[r] = "save",
         version[r] - Len(pending[r]) = StreamVersion(wanted[r].symbol)
  PROVE  /\ pending[r] \in Seq(PairEvents) /\ log \o pending[r] \in Seq(PairEvents)
         /\ KindsAlternate(log \o pending[r]) /\ InTurn(log \o pending[r])
<1> DEFINE i == wanted[r].symbol
           e == Event(i, KindAt(version[r]))
<1>1. i \in Symbols /\ log \in Seq(PairEvents) /\ version[r] \in Int
  BY DEF WriteInv
<1>2. CASE pending[r] = <<>>
  <2>1. log \o pending[r] = log
    BY <1>1, <1>2
  <2> QED
    BY <1>1, <1>2, <2>1 DEF WriteInv
<1>3. CASE pending[r] # <<>>
  <2>1. pending[r] = <<e>> /\ version[r] >= 1
    BY <1>3 DEF WriteInv, PendingOf
  <2>2. KindAt(version[r]) \in {"Activated", "Deactivated"}
    BY <1>1, <2>1 DEF KindAt
  <2>3. e \in PairEvents /\ e.symbol = i /\ e.kind = KindAt(version[r])
    BY <1>1, <2>2 DEF Event, PairEvents
  <2>4. version[r] - 1 = VersionOf(log, i)
    BY <2>1 DEF StreamVersion, VersionOf
  <2>5. VersionOf(log, i) + 1 = version[r]
    BY <1>1, <2>4
  <2> HIDE DEF e
  <2>6. log \o pending[r] = Append(log, e) /\ pending[r] \in Seq(PairEvents)
    BY <1>1, <2>1, <2>3
  <2>7. e.kind = KindAt(VersionOf(log, i) + 1)
    BY <2>3, <2>5
  <2>8. KindsAlternate(Append(log, e)) /\ InTurn(Append(log, e))
    BY <1>1, <2>3, <2>7, NextInTurn DEF WriteInv
  <2> QED
    BY <1>1, <2>3, <2>6, <2>8
<1> QED
  BY <1>2, <1>3

LEMMA WriteInvStep ==
  ASSUME WriteInv, [Next]_dataVars
  PROVE  WriteInv' /\ (Grows \/ CacheStep)
<1>1. ASSUME UNCHANGED log, UNCHANGED cacheState PROVE Grows
  <2>1. log \in Seq(PairEvents)
    BY DEF WriteInv
  <2>2. <<>> \in Seq(PairEvents) /\ log \o <<>> = log
    BY <2>1
  <2> QED
    BY <1>1, <2>2 DEF Grows
<1>2. ASSUME NEW i \in Symbols, NEW activate \in BOOLEAN, CreateCurrencyPair(i, activate)
      PROVE  WriteInv' /\ Grows
  BY <1>2, Created
<1>3. ASSUME NEW r \in Requests, LoadFails(r) PROVE WriteInv' /\ Grows
  <2>1. UNCHANGED <<log, cacheState, wanted, version, pending>>
        /\ progress' = [progress EXCEPT ![r] = "failed"]
    BY <1>3 DEF LoadFails, To
  <2>2. WriteInv'
    BY <2>1 DEF WriteInv, PendingOf, KindsAlternate, InTurn
  <2> QED
    BY <1>1, <2>1, <2>2
<1>4. ASSUME NEW r \in Requests, LoadPair(r) PROVE WriteInv' /\ Grows
  BY <1>4, Loaded
<1>5. ASSUME NEW r \in Requests, SaveAsync(r) PROVE WriteInv' /\ Grows
  <2>1. /\ progress[r] = "save"
        /\ version[r] - Len(pending[r]) = StreamVersion(wanted[r].symbol)
        /\ log' = log \o pending[r]
        /\ pending' = [pending EXCEPT ![r] = <<>>]
        /\ progress' = [progress EXCEPT ![r] = "done"]
        /\ UNCHANGED <<cacheState, wanted, version>>
    BY <1>5 DEF SaveAsync, To
  <2>2. /\ pending[r] \in Seq(PairEvents) /\ log' \in Seq(PairEvents)
        /\ KindsAlternate(log') /\ InTurn(log')
    BY <2>1, SavedInTurn
  <2>3. WriteInv'
    BY <2>1, <2>2 DEF WriteInv, PendingOf, KindsAlternate, InTurn
  <2> QED
    BY <2>1, <2>2, <2>3 DEF Grows
<1>6. ASSUME NEW r \in Requests, SaveFails(r) PROVE WriteInv' /\ Grows
  <2>1. /\ progress[r] = "save" /\ progress' = [progress EXCEPT ![r] = "failed"]
        /\ UNCHANGED <<cacheState, wanted, version, pending>>
        /\ \/ UNCHANGED log
           \/ /\ version[r] - Len(pending[r]) = StreamVersion(wanted[r].symbol)
              /\ log' = log \o pending[r]
    BY <1>6 DEF SaveFails, To
  <2>2. CASE UNCHANGED log
    <3>1. WriteInv'
      BY <2>1, <2>2 DEF WriteInv, PendingOf, KindsAlternate, InTurn
    <3> QED
      BY <1>1, <2>1, <2>2, <3>1
  <2>3. CASE /\ version[r] - Len(pending[r]) = StreamVersion(wanted[r].symbol)
             /\ log' = log \o pending[r]
    <3>1. /\ pending[r] \in Seq(PairEvents) /\ log' \in Seq(PairEvents)
          /\ KindsAlternate(log') /\ InTurn(log')
      BY <2>1, <2>3, SavedInTurn
    <3>2. WriteInv'
      BY <2>1, <3>1 DEF WriteInv, PendingOf, KindsAlternate, InTurn
    <3> QED
      BY <2>1, <2>3, <3>1, <3>2 DEF Grows
  <2> QED
    BY <2>1, <2>2, <2>3
<1>7. CASE CacheStep /\ UNCHANGED requestVars
  <2>1. UNCHANGED log
    BY <1>7, PairsStep, PairCache!CacheStepKeepsLog
  <2>2. WriteInv'
    BY <1>7, <2>1 DEF WriteInv, requestVars, PendingOf, KindsAlternate, InTurn
  <2> QED
    BY <1>7, <2>2
<1>8. CASE UNCHANGED dataVars
  <2>1. UNCHANGED log /\ UNCHANGED cacheState /\ UNCHANGED requestVars
    BY <1>8 DEF dataVars
  <2>2. WriteInv'
    BY <2>1 DEF WriteInv, requestVars, PendingOf, KindsAlternate, InTurn
  <2> QED
    BY <1>1, <2>1, <2>2
<1> QED
  BY <1>2, <1>3, <1>4, <1>5, <1>6, <1>7, <1>8 DEF Next

LEMMA WriteInvariant == Spec => []WriteInv
<1>1. WriteInv /\ [Next]_dataVars => WriteInv'
  BY WriteInvStep
<1> QED
  BY <1>1, WriteInvInit, PTL DEF Spec

\* Under optimistic concurrency and however many requests interleave and fail,
\* a pair is created once and first, then activated and deactivated in turn.
THEOREM PairsInTurn == Spec => []PairsChangeInTurn
<1>1. WriteInv => PairsChangeInTurn
  BY DEF WriteInv, InTurn, PairsChangeInTurn
<1> QED
  BY <1>1, WriteInvariant, PTL

\* The cache of the pairs behind its writer.
PairsInv ==
  /\ PairCache!RestInv /\ PairCache!CacheInv
  /\ PairCache!Viewed /\ PairCache!StreamsMirrorCache

LEMMA PairsInvariant == Spec => []PairsInv
<1>1. Init => PairsInv
  <2> SUFFICES ASSUME Init PROVE PairsInv
    OBVIOUS
  <2>1. PairCache!CacheInit
    BY DEF Init, CacheInit, PairCache!CacheInit, Generations, PairCache!Generations,
       EmptySotw, PairCache!EmptySotw
  <2> QED
    BY <2>1, BoundsHold, PairCache!CacheInvInit, PairCache!RestInit
       DEF PairsInv, PairCache!RestInv, PairCache!CacheInit, PairCache!Viewed,
           PairCache!StreamsMirrorCache
<1>2. PairsInv /\ WriteInv /\ [Next]_dataVars => PairsInv'
  <2> SUFFICES ASSUME PairsInv, WriteInv, [Next]_dataVars PROVE PairsInv'
    OBVIOUS
  <2>1. CASE CacheStep
    <3>1. PairCache!CacheStep
      BY <2>1, PairsStep
    <3>2. PairCache!Legal(log)
      BY DEF WriteInv, InTurn, PairCache!Legal
    <3> QED
      BY <3>1, <3>2, BoundsHold, PairsLawful, PairCache!RestStep,
         PairCache!ViewedStep, PairCache!MirrorStep DEF PairsInv, PairCache!RestInv
  <2>2. CASE Grows
    <3>1. PICK more \in Seq(PairEvents) : log' = log \o more /\ UNCHANGED cacheState
      BY <2>2 DEF Grows
    <3>2. UNCHANGED <<up, connects, sub, queue, PairCache!cacheVars, PairCache!streamVars>>
      BY <3>1 DEF cacheState, PairCache!cacheVars, PairCache!streamVars
    <3>3. PairCache!RestInv' /\ PairCache!CacheInv'
      BY <3>1, <3>2, BoundsHold, PairCache!RestGrows DEF PairsInv, PairCache!RestInv
    <3>4. PairCache!Viewed' /\ PairCache!StreamsMirrorCache'
      BY <3>1 DEF PairsInv, cacheState, PairCache!Viewed,
                     PairCache!StreamsMirrorCache
    <3> QED
      BY <3>3, <3>4 DEF PairsInv
  <2> QED
    BY <2>1, <2>2, WriteInvStep
<1> QED
  BY <1>1, <1>2, WriteInvariant, PTL DEF Spec

\* Reference data that is written so is read so: a subscriber that has had its
\* state of the world has exactly the pairs that are enabled in the cache.
THEOREM PairsMirrored == Spec => []StreamsMirrorCache
<1>1. PairsInv => StreamsMirrorCache
  BY DEF PairsInv, PairCache!StreamsMirrorCache, StreamsMirrorCache
<1> QED
  BY <1>1, PairsInvariant, PTL

-----------------------------------------------------------------------------
(* What the replay of a log of pairs is, said without the replay.          *)

PairAfter(trace, i) == [symbol |-> i, enabled |-> LastOf(trace, i) = "Activated"]

PairsAfter(trace) ==
  {PairAfter(trace, i) : i \in {j \in Symbols : LastOf(trace, j) # "none"}}

\* An event that may follow changes its own pair alone.
LEMMA PairsOfAppend ==
  ASSUME NEW trace \in Seq(PairEvents), NEW e \in PairEvents, PairCanFollow(trace, e)
  PROVE  PairsAfter(Append(trace, e)) = PairUpdate(PairsAfter(trace), e)
<1> DEFINE next == Append(trace, e)
           known == {j \in Symbols : LastOf(trace, j) # "none"}
<1>1. e.symbol \in Symbols /\ e.kind \in {"Created", "Activated", "Deactivated"}
  BY DEF PairEvents
<1>2. \A i : LastOf(next, i) = IF e.symbol = i THEN e.kind ELSE LastOf(trace, i)
  BY LastAppended
<1>3. IF e.kind = "Created" THEN LastOf(trace, e.symbol) = "none"
      ELSE LastOf(trace, e.symbol) # "none"
  BY <1>1 DEF PairCanFollow
<1> HIDE DEF next
<1>4. {j \in Symbols : LastOf(next, j) # "none"} = known \union {e.symbol}
  BY <1>1, <1>2
<1>5. PairsAfter(next) = {PairAfter(next, i) : i \in known \union {e.symbol}}
  BY <1>4 DEF PairsAfter
<1>6. \A i : i # e.symbol => PairAfter(next, i) = PairAfter(trace, i)
  BY <1>2 DEF PairAfter
<1>7. PairAfter(next, e.symbol) = [symbol |-> e.symbol, enabled |-> e.kind = "Activated"]
  BY <1>2 DEF PairAfter
<1>8. PairsAfter(trace) = {PairAfter(trace, i) : i \in known}
  BY DEF PairsAfter
<1>9. CASE e.kind = "Created"
  <2>1. e.symbol \notin known
    BY <1>3, <1>9
  <2>2. PairAfter(next, e.symbol) = [symbol |-> e.symbol, enabled |-> FALSE]
    BY <1>7, <1>9
  <2> HIDE DEF known
  <2>3. PairsAfter(next) =
          PairsAfter(trace) \union {[symbol |-> e.symbol, enabled |-> FALSE]}
    BY <1>5, <1>6, <1>8, <2>1, <2>2
  <2> QED
    BY <1>9, <2>3 DEF PairUpdate, next
<1>10. CASE e.kind # "Created"
  <2> DEFINE set(p) == [p EXCEPT !.enabled = (e.kind = "Activated")]
  <2>1. e.symbol \in known
    BY <1>1, <1>3, <1>10
  <2>2. PairsAfter(next) = {PairAfter(next, i) : i \in known}
    BY <1>5, <2>1
  <2>3. \A i : PairAfter(trace, i).symbol = i
    BY DEF PairAfter
  <2>4. set(PairAfter(trace, e.symbol)) = PairAfter(next, e.symbol)
    <3>1. set(PairAfter(trace, e.symbol))
            = [symbol |-> e.symbol, enabled |-> e.kind = "Activated"]
      BY DEF PairAfter
    <3> QED
      BY <1>7, <3>1
  <2>5. PairUpdate(PairsAfter(trace), e) =
          {IF p.symbol = e.symbol THEN set(p) ELSE p : p \in PairsAfter(trace)}
    BY <1>10 DEF PairUpdate
  <2> HIDE DEF set, known
  <2>6. \A i : PairAfter(next, i) =
          IF i = e.symbol THEN set(PairAfter(trace, i)) ELSE PairAfter(trace, i)
    BY <1>6, <2>4
  <2>7. PairUpdate(PairsAfter(trace), e) =
          {IF i = e.symbol THEN set(PairAfter(trace, i)) ELSE PairAfter(trace, i) :
             i \in known}
    BY <1>8, <2>3, <2>5
  <2> QED
    BY <2>2, <2>6, <2>7 DEF next
<1> QED
  BY <1>9, <1>10

LEMMA ReplayIsPairs ==
  ASSUME NEW trace \in Seq(PairEvents), PairCache!Legal(trace),
         NEW m \in Nat, m <= Len(trace)
  PROVE  PairCache!Replay(trace, m) = PairsAfter(SubSeq(trace, 1, m))
<1> DEFINE S == {n \in Nat : n <= Len(trace) =>
                   PairCache!Replay(trace, n) = PairsAfter(SubSeq(trace, 1, n))}
<1>1. 0 \in S
  <2>1. PairCache!Replay(trace, 0) = {}
    BY PairCache!ReplayOfNone DEF PairCache!EmptySotw
  <2>2. SubSeq(trace, 1, 0) = <<>>
    OBVIOUS
  <2>3. \A i : OwnEvents(<<>>, i) = {}
    BY DEF OwnEvents
  <2>4. \A i : LastOf(<<>>, i) = "none"
    BY <2>3 DEF LastOf
  <2>5. PairsAfter(<<>>) = {}
    BY <2>4 DEF PairsAfter
  <2> QED
    BY <2>1, <2>2, <2>5
<1>2. ASSUME NEW n \in Nat, n \in S PROVE n + 1 \in S
  <2> DEFINE before == SubSeq(trace, 1, n)
             e == trace[n + 1]
  <2> SUFFICES ASSUME n + 1 <= Len(trace)
               PROVE  PairCache!Replay(trace, n + 1) = PairsAfter(SubSeq(trace, 1, n + 1))
    OBVIOUS
  <2>1. PairCache!Replay(trace, n) = PairsAfter(before)
    BY <1>2
  <2>2. PairCache!Replay(trace, n + 1) = PairUpdate(PairCache!Replay(trace, n), e)
    BY PairCache!ReplayOfNext
  <2>3. n + 1 \in DOMAIN trace /\ (n + 1) - 1 = n
    OBVIOUS
  <2>4. e \in PairEvents
    BY <2>3
  <2>5. PairCanFollow(before, e)
    BY <2>3 DEF PairCache!Legal
  <2>6. before \in Seq(PairEvents) /\ SubSeq(trace, 1, n + 1) = Append(before, e)
    BY <2>3
  <2> HIDE DEF before, e
  <2> QED
    BY <2>1, <2>2, <2>4, <2>5, <2>6, PairsOfAppend
<1> HIDE DEF S
<1>3. Nat \subseteq S
  BY <1>1, <1>2, PairCache!Induction
<1> QED
  BY <1>3 DEF S

\* A subscriber that has had its state of the world has just the pairs whose
\* last event among those taken by the cache is an activation
\* (CurrencyPairCache.cs:25-95): none that is only created, none twice.
ShowsLastChange ==
  \A s \in Streams : phase[s] = "events" =>
    view[s] = {i \in Symbols : LastOf(SubSeq(log, 1, Applied), i) = "Activated"}

\* However requests, failed saves and reconnections interleave, the pairs that
\* a client is offered are the ones last activated.
THEOREM PairsShowLastChange == Spec => []ShowsLastChange
<1>1. WriteInv /\ PairsInv => ShowsLastChange
  <2> SUFFICES ASSUME WriteInv, PairsInv, NEW s \in Streams, phase[s] = "events"
               PROVE  view[s] = {i \in Symbols :
                                   LastOf(SubSeq(log, 1, Applied), i) = "Activated"}
    BY DEF ShowsLastChange
  <2> DEFINE taken == SubSeq(log, 1, Applied)
  <2>1. Applied = PairCache!Applied
    BY DEF Applied, PairCache!Applied, QueuedEvents, PairCache!QueuedEvents,
           Cardinality, PairCache!Cardinality
  <2>2. Applied \in 0..Len(log) /\ sotw = PairCache!Replay(log, Applied)
    BY <2>1, BoundsHold, PairCache!AppliedIsPosition DEF PairsInv
  <2>3. Applied \in Nat /\ Applied <= Len(log) /\ log \in Seq(PairEvents)
    BY <2>2 DEF WriteInv
  <2>4. PairCache!Legal(log)
    BY DEF WriteInv, InTurn, PairCache!Legal
  <2>5. sotw = PairsAfter(taken)
    BY <2>2, <2>3, <2>4, ReplayIsPairs
  <2>6. view[s] = PairLoad({}, sotw)
    BY DEF PairsInv, PairCache!StreamsMirrorCache
  <2> HIDE DEF taken
  <2>7. view[s] = {p.symbol : p \in {q \in PairsAfter(taken) : q.enabled}}
    BY <2>5, <2>6 DEF PairLoad
  <2>8. \A i : PairAfter(taken, i).symbol = i
               /\ (PairAfter(taken, i).enabled <=> LastOf(taken, i) = "Activated")
    BY DEF PairAfter
  <2>9. view[s] = {i \in Symbols : LastOf(taken, i) = "Activated"}
    <3>1. ASSUME NEW i \in view[s]
          PROVE  i \in Symbols /\ LastOf(taken, i) = "Activated"
      BY <2>7, <2>8, <3>1 DEF PairsAfter
    <3>2. ASSUME NEW i \in Symbols, LastOf(taken, i) = "Activated" PROVE i \in view[s]
      <4>1. PairAfter(taken, i) \in PairsAfter(taken)
        BY <3>2 DEF PairsAfter
      <4> QED
        BY <2>7, <2>8, <3>2, <4>1
    <3> QED
      BY <3>1, <3>2
  <2> QED
    BY <2>9 DEF taken
<1> QED
  BY <1>1, WriteInvariant, PairsInvariant, PTL

\* Every client that asked for the reference data has it: not stale, and the
\* pairs that the whole log leaves activated.
ShowsWholeLog ==
  \A s \in Streams : phase[s] # "off" =>
    /\ phase[s] = "events" /\ ~stale[s]
    /\ view[s] = {i \in Symbols : LastOf(log, i) = "Activated"}

\* Whenever the connection is up, its subscription has delivered what the
\* requests saved and the loop has nothing left to do, every client is offered
\* just the pairs that are active.
THEOREM PairsShowLogAtRest == Spec => [](PairCache!AtRest => ShowsWholeLog)
<1>1. WriteInv /\ PairsInv /\ ShowsLastChange => (PairCache!AtRest => ShowsWholeLog)
  <2> SUFFICES ASSUME WriteInv, PairsInv, ShowsLastChange, PairCache!AtRest
               PROVE  ShowsWholeLog
    OBVIOUS
  <2>1. PairCache!ShowsTheLog /\ PairCache!Applied = Len(log)
    BY BoundsHold, PairCache!RestShows DEF PairsInv
  <2>2. Applied = PairCache!Applied
    BY DEF Applied, PairCache!Applied, QueuedEvents, PairCache!QueuedEvents,
           Cardinality, PairCache!Cardinality
  <2>3. SubSeq(log, 1, Len(log)) = log
    BY DEF WriteInv
  <2> QED
    BY <2>1, <2>2, <2>3 DEF ShowsWholeLog, ShowsLastChange, PairCache!ShowsTheLog
<1> QED
  BY <1>1, WriteInvariant, PairsInvariant, PairsShowLastChange, PTL

\* The dictionary of the cache takes the event: Add of a pair that it does not
\* have, or the flag of one that it has (CurrencyPairCache.cs:58-81: both throw
\* otherwise, which would end the subscription).
PairEventFits ==
  RunEvent /\ IsObserved(Head(queue)) =>
    LET e == log[Head(queue).pos]
    IN  e.kind = "Created" <=> \A p \in sotw : p.symbol # e.symbol

\* What the write side saves never makes the dictionary of the read side throw.
THEOREM PairEventsFit == Spec => [][PairEventFits]_dataVars
<1>1. WriteInv /\ PairsInv => PairEventFits
  <2> DEFINE n == Head(queue).pos
             e == log[n]
             before == SubSeq(log, 1, n - 1)
  <2> SUFFICES ASSUME WriteInv, PairsInv, RunEvent, IsObserved(Head(queue))
               PROVE  e.kind = "Created" <=> \A p \in sotw : p.symbol # e.symbol
    BY DEF PairEventFits
  <2>1. PairCache!RunEvent /\ PairCache!IsObserved(Head(queue))
    BY RunEventIs DEF IsObserved, PairCache!IsObserved
  <2>2. n \in DOMAIN log /\ sotw = PairCache!Replay(log, n - 1)
    BY <2>1, BoundsHold, PairCache!TakenIsNext DEF PairsInv
  <2>3. log \in Seq(PairEvents) /\ PairCache!Legal(log)
    BY DEF WriteInv, InTurn, PairCache!Legal
  <2>4. n - 1 \in Nat /\ n - 1 <= Len(log) /\ e \in PairEvents
    BY <2>2, <2>3
  <2>5. sotw = PairsAfter(before)
    BY <2>2, <2>3, <2>4, ReplayIsPairs
  <2>6. PairCanFollow(before, e)
    BY <2>2, <2>3 DEF PairCache!Legal
  <2> HIDE DEF n, e, before
  <2>7. e.kind = "Created" <=> LastOf(before, e.symbol) = "none"
    BY <2>4, <2>6 DEF PairCanFollow, PairEvents
  <2>8. e.symbol \in Symbols
    BY <2>4 DEF PairEvents
  <2>9. (\E p \in sotw : p.symbol = e.symbol) <=> LastOf(before, e.symbol) # "none"
    <3>1. \A i : PairAfter(before, i).symbol = i
      BY DEF PairAfter
    <3>2. LastOf(before, e.symbol) # "none" => PairAfter(before, e.symbol) \in sotw
      BY <2>5, <2>8 DEF PairsAfter
    <3>3. \A p \in sotw : LastOf(before, p.symbol) # "none"
      BY <2>5, <3>1 DEF PairsAfter
    <3> QED
      BY <3>1, <3>2, <3>3
  <2> QED
    BY <2>7, <2>9
<1> QED
  BY <1>1, WriteInvariant, PairsInvariant, PTL
=============================================================================
