--------------------------- MODULE TradeCacheProofs ---------------------------
(***************************************************************************)
(* The trade cache: what EventStoreCacheProofs asks of the operators of a   *)
(* cache holds of those of the trades, so its theorems are theorems about   *)
(* TradeCache.                                                              *)
(***************************************************************************)
EXTENDS TradeCache, FiniteSetTheorems, TLAPS

Cache == INSTANCE EventStoreCacheProofs WITH
  Events <- TradeEvents, CanFollow <- TradeCanFollow,
  UpdateStateOfTheWorld <- TradeUpdate, EmptyView <- {},
  Load <- BlotterLoad, MapSingleEvent <- TradeSingleUpdate,
  Merge <- BlotterMerge

-----------------------------------------------------------------------------
(* TradeCache is an instance of the cache the proofs are about.            *)

LEMMA BoundsHold == Cache!Bounded
BY BoundsAssumption DEF Cache!Bounded, Cache!IsFiniteSet, IsFiniteSet

\* It takes an event as the cache does.
LEMMA RunEventIs == RunEvent => Cache!RunEvent
BY DEF RunEvent, Cache!RunEvent, Next1, Cache!Next1, Dequeue, Cache!Dequeue,
   IsObserved, Cache!IsObserved, Awaiting, Cache!Awaiting,
   storeVars, Cache!storeVars, streamVars, Cache!streamVars

\* Its steps are steps of the cache.
LEMMA TradesStep == CacheStep => Cache!CacheStep
<1> USE DEF
      Awaiting, Cache!Awaiting, ConnectionItem, Cache!ConnectionItem,
      Dequeue, Cache!Dequeue, Disposed, Cache!Disposed, EmptySotw,
      Cache!EmptySotw, EventItem, Cache!EventItem, Generations,
      Cache!Generations, IsObserved, Cache!IsObserved, Listening,
      Cache!Listening, Next1, Cache!Next1, OpenItem, Cache!OpenItem,
      PublishTo, Cache!PublishTo, Remaining, Cache!Remaining, Repeated,
      Cache!Repeated, Schedule, Cache!Schedule, StopReplaced,
      Cache!StopReplaced, SubItem, Cache!SubItem, cacheVars, Cache!cacheVars,
      storeVars, Cache!storeVars, streamVars, Cache!streamVars
<1>1. Connect => Cache!Connect
  BY DEF Connect, Cache!Connect
<1>2. Disconnect => Cache!Disconnect
  BY DEF Disconnect, Cache!Disconnect
<1>3. \A s \in Streams : GetOutputStream(s) => Cache!GetOutputStream(s)
  BY DEF GetOutputStream, Cache!GetOutputStream
<1>4. RunConnected => Cache!RunConnected
  BY DEF RunConnected, Cache!RunConnected, SetToSeq, Cache!SetToSeq,
     IsInjective, Cache!IsInjective,
     Cardinality, Cache!Cardinality
<1>5. RunDisconnected => Cache!RunDisconnected
  BY DEF RunDisconnected, Cache!RunDisconnected
<1>6. RunStartSub => Cache!RunStartSub
  BY DEF RunStartSub, Cache!RunStartSub
<1>7. RunStopSub => Cache!RunStopSub
  BY DEF RunStopSub, Cache!RunStopSub
<1>8. RunEvent => Cache!RunEvent
  BY RunEventIs
<1>9. RunCaughtUp => Cache!RunCaughtUp
  BY DEF RunCaughtUp, Cache!RunCaughtUp
<1>10. RunOpen => Cache!RunOpen
  BY DEF RunOpen, Cache!RunOpen
<1>11. \A g \in Generations : OnEvent(g) => Cache!OnEvent(g)
  BY DEF OnEvent, Cache!OnEvent
<1>12. \A g \in Generations : OnCaughtUp(g) => Cache!OnCaughtUp(g)
  BY DEF OnCaughtUp, Cache!OnCaughtUp
<1> QED
  BY <1>1, <1>2, <1>3, <1>4, <1>5, <1>6, <1>7, <1>8, <1>9, <1>10, <1>11, <1>12
     DEF CacheStep, Cache!CacheStep, RunLoop, Cache!RunLoop

-----------------------------------------------------------------------------
(* The trade cache.                                                        *)

Row == [id : TradeIds, status : {"Pending", "Done", "Rejected"}]

CreatedBy(trace, n, i) ==
  \E k \in 1..n : trace[k].kind = "Created" /\ trace[k].id = i

\* The rows after n events are those of trades that one of them created.
LEMMA RowsAreOfCreated ==
  ASSUME NEW trace \in Seq(TradeEvents), NEW m \in 0..Len(trace)
  PROVE  \A t \in Cache!Replay(trace, m) : t \in Row /\ CreatedBy(trace, m, t.id)
<1> DEFINE S == {n \in Nat : n <= Len(trace) =>
                  \A t \in Cache!Replay(trace, n) :
                    t \in Row /\ CreatedBy(trace, n, t.id)}
<1>1. 0 \in S
  <2>1. Cache!Replay(trace, 0) = {}
    BY Cache!ReplayOfNone DEF Cache!EmptySotw
  <2> QED
    BY <2>1
<1>2. ASSUME NEW n \in Nat, n \in S PROVE n + 1 \in S
  <2> DEFINE world == Cache!Replay(trace, n)
             next == Cache!Replay(trace, n + 1)
             e == trace[n + 1]
  <2> SUFFICES ASSUME n + 1 <= Len(trace), NEW t \in next
               PROVE  t \in Row /\ CreatedBy(trace, n + 1, t.id)
    OBVIOUS
  <2>1. next = TradeUpdate(world, e)
    BY Cache!ReplayOfNext
  <2>2. \A u \in world : u \in Row /\ CreatedBy(trace, n, u.id)
    BY <1>2
  <2>3. e \in TradeEvents /\ n + 1 \in 1..(n + 1)
    OBVIOUS
  <2> HIDE DEF world, next
  <2>4. \A i : CreatedBy(trace, n, i) => CreatedBy(trace, n + 1, i)
    BY DEF CreatedBy
  <2>5. CASE t \in world
    BY <2>2, <2>4, <2>5
  <2>6. CASE t \notin world /\ e.kind = "Created"
    <3>1. t = [id |-> e.id, status |-> "Pending"]
      BY <2>1, <2>6 DEF TradeUpdate
    <3>2. e.id \in TradeIds
      BY <2>3 DEF TradeEvents
    <3>3. CreatedBy(trace, n + 1, e.id)
      BY <2>3, <2>6 DEF CreatedBy
    <3> QED
      BY <3>1, <3>2, <3>3 DEF Row
  <2>7. CASE t \notin world /\ e.kind # "Created"
    <3>1. PICK u \in world : t = [u EXCEPT !.status = StatusOf(e)]
      BY <2>1, <2>7 DEF TradeUpdate
    <3>2. StatusOf(e) \in {"Pending", "Done", "Rejected"}
      BY <2>3 DEF StatusOf, TradeEvents
    <3>3. t \in Row /\ t.id = u.id
      BY <2>2, <3>1, <3>2 DEF Row
    <3> QED
      BY <2>2, <2>4, <3>3
  <2> QED
    BY <2>5, <2>6, <2>7
<1> HIDE DEF S
<1>3. Nat \subseteq S
  BY <1>1, <1>2, Cache!Induction
<1> QED
  BY <1>3 DEF S

\* An update of the blotter makes of its rows the rows after the event.
LEMMA TradesLawful == Cache!Lawful
<1>1. Cache!LoadReplaces
  BY DEF Cache!LoadReplaces, BlotterLoad
<1> SUFFICES ASSUME NEW trace \in Seq(TradeEvents), Cache!Legal(trace),
                    NEW n \in DOMAIN trace
             PROVE  Cache!MergeTells(Cache!Replay(trace, n - 1), trace[n])
  BY <1>1 DEF Cache!Lawful
<1> DEFINE world == Cache!Replay(trace, n - 1)
           e == trace[n]
           next == TradeUpdate(world, e)
           update == TradeSingleUpdate(next, e)
<1>2. n \in 1..Len(trace) /\ n - 1 \in 0..Len(trace) /\ e \in TradeEvents
  OBVIOUS
<1>3. \A t \in world : t \in Row /\ CreatedBy(trace, n - 1, t.id)
  BY <1>2, RowsAreOfCreated
<1>4. e.kind = "Created" => \A t \in world : t.id # e.id
  <2> SUFFICES ASSUME e.kind = "Created", NEW t \in world, t.id = e.id PROVE FALSE
    OBVIOUS
  <2> DEFINE before == SubSeq(trace, 1, n - 1)
  <2>1. TradeCanFollow(before, e)
    BY DEF Cache!Legal
  <2>2. ~Recorded(before, {"Created"}, e.id)
    BY <2>1 DEF TradeCanFollow
  <2>3. PICK k \in 1..(n - 1) : trace[k].kind = "Created" /\ trace[k].id = e.id
    BY <1>3 DEF CreatedBy
  <2>4. k \in DOMAIN before /\ before[k] = trace[k]
    BY <1>2
  <2> HIDE DEF before
  <2> QED
    BY <2>2, <2>3, <2>4 DEF Recorded
<1>5. Cache!MergeTells(world, e) <=>
       IF update = {} THEN world = next ELSE BlotterMerge(world, update) = next
  BY DEF Cache!MergeTells, BlotterLoad
<1> HIDE DEF world
<1>6. CASE e.kind = "Created"
  <2> DEFINE new == [id |-> e.id, status |-> "Pending"]
  <2>1. next = world \union {new}
    BY <1>6 DEF TradeUpdate
  <2>2. StatusOf(e) = "Pending"
    BY <1>6 DEF StatusOf
  <2>3. {u \in next : u.id = e.id} = {new}
    BY <1>4, <1>6, <2>1
  <2>4. update = {[t EXCEPT !.status = "Pending"] : t \in {new}}
    BY <2>2, <2>3 DEF TradeSingleUpdate
  <2>5. [new EXCEPT !.status = "Pending"] = new
    OBVIOUS
  <2>6. update = {new}
    BY <2>4, <2>5
  <2>7. {r \in world : \A t \in update : t.id # r.id} = world
    BY <1>4, <1>6, <2>6
  <2>8. BlotterMerge(world, update) = next
    BY <2>1, <2>6, <2>7 DEF BlotterMerge
  <2> QED
    BY <1>5, <2>6, <2>8 DEF world
<1>7. CASE e.kind # "Created"
  <2> DEFINE set(t) == [t EXCEPT !.status = StatusOf(e)]
             own == {t \in world : t.id = e.id}
  <2>1. next = {IF t.id = e.id THEN set(t) ELSE t : t \in world}
    BY <1>7 DEF TradeUpdate
  <2>2. \A t \in world : set(t).id = t.id /\ set(set(t)) = set(t)
    BY <1>3 DEF Row
  <2> HIDE DEF set
  <2>3. next = {t \in world : t.id # e.id} \union {set(t) : t \in own}
    BY <2>1
  <2>4. {u \in next : u.id = e.id} = {set(t) : t \in own}
    BY <2>2, <2>3
  <2>5. update = {set(t) : t \in {u \in next : u.id = e.id}}
    BY DEF TradeSingleUpdate, set
  <2>6. update = {set(t) : t \in own}
    BY <2>2, <2>4, <2>5
  <2>7. CASE own = {}
    <3>1. update = {} /\ next = world
      BY <2>3, <2>6, <2>7
    <3> QED
      BY <1>5, <3>1 DEF world
  <2>8. CASE own # {}
    <3>1. update # {} /\ \A t \in update : t.id = e.id
      BY <2>2, <2>6, <2>8
    <3>2. {r \in world : \A t \in update : t.id # r.id} = {t \in world : t.id # e.id}
      BY <3>1
    <3>3. BlotterMerge(world, update) = next
      BY <2>3, <2>6, <3>2 DEF BlotterMerge
    <3> QED
      BY <1>5, <3>1, <3>3 DEF world
  <2> QED
    BY <2>7, <2>8
<1> QED
  BY <1>6, <1>7

\* What the trade cache's specification says in the words of the cache.
LEMMA TradesAreCached ==
  /\ CacheInit => Cache!CacheInit
  /\ [CacheNext]_vars => [Cache!CacheNext]_Cache!vars
<1>1. CacheInit => Cache!CacheInit
  BY DEF CacheInit, Cache!CacheInit, Generations, Cache!Generations, EmptySotw,
     Cache!EmptySotw
<1>2. ASSUME NEW e \in TradeEvents, Write(e) PROVE Cache!Write(e)
  BY <1>2 DEF Write, Cache!Write, cacheVars, Cache!cacheVars, streamVars,
     Cache!streamVars
<1>3. UNCHANGED vars => UNCHANGED Cache!vars
  BY DEF vars, storeVars, cacheVars, streamVars, Cache!vars, Cache!storeVars,
     Cache!cacheVars, Cache!streamVars
<1> QED
  BY <1>1, <1>2, <1>3, TradesStep DEF CacheNext, Cache!CacheNext

LEMMA SameTradeProperties ==
  /\ Cache!CacheTypeOK => CacheTypeOK
  /\ Cache!CacheIsReplay => CacheIsReplay
  /\ Cache!StreamsMirrorCache => StreamsMirrorCache
<1>1. Cache!CacheTypeOK => CacheTypeOK
  BY DEF Cache!CacheTypeOK, CacheTypeOK, Cache!Generations, Generations
<1>2. Cache!CacheIsReplay => CacheIsReplay
  BY DEF Cache!CacheIsReplay, CacheIsReplay, Cache!Applied, Applied,
     Cache!QueuedEvents, QueuedEvents, Cache!Replay, Replay, Cache!EmptySotw,
     EmptySotw, Cache!Cardinality, Cardinality
<1>3. Cache!StreamsMirrorCache => StreamsMirrorCache
  BY DEF Cache!StreamsMirrorCache, StreamsMirrorCache
<1> QED
  BY <1>1, <1>2, <1>3

\* TradeCache has its types for any number of streams, trades, events and
\* connections.
THEOREM TradesTyped == CacheSpec => []CacheTypeOK
<1>1. Cache!CacheInv => CacheTypeOK
  BY BoundsHold, SameTradeProperties, Cache!CacheInvMeans
<1> QED
  BY <1>1, BoundsHold, TradesAreCached, Cache!CacheInvariant, PTL DEF CacheSpec

\* TradeCache holds what the events taken from its current subscription make.
THEOREM TradesReplayed == CacheSpec => []CacheIsReplay
<1>1. Cache!CacheInv => CacheIsReplay
  BY BoundsHold, SameTradeProperties, Cache!CacheInvMeans
<1> QED
  BY <1>1, BoundsHold, TradesAreCached, Cache!CacheInvariant, PTL DEF CacheSpec

\* A blotter that has had its state of the world shows the trades that
\* TradeCache holds: between them no event is missing and none is told twice.
THEOREM TradesMirrored == CacheSpec => []StreamsMirrorCache
BY BoundsHold, TradesLawful, TradesAreCached, SameTradeProperties,
   Cache!MirrorInvariant, PTL DEF CacheSpec
-----------------------------------------------------------------------------
(* What the replay of a log of trades is, said without the replay.         *)

\* Where a legal log has an event, what comes before it.
LEMMA LegalBefore ==
  ASSUME NEW trace \in Seq(TradeEvents), Cache!Legal(trace), NEW n \in DOMAIN trace
  PROVE  /\ trace[n] \in TradeEvents
         /\ trace[n].kind = "Created" <=> ~CreatedBy(trace, n - 1, trace[n].id)
         /\ trace[n].kind # "Created" =>
              \A k \in 1..(n - 1) :
                trace[k].id = trace[n].id => trace[k].kind = "Created"
<1> DEFINE before == SubSeq(trace, 1, n - 1)
           e == trace[n]
<1>1. e \in TradeEvents /\ n \in 1..Len(trace)
  OBVIOUS
<1>2. TradeCanFollow(before, e)
  BY DEF Cache!Legal
<1>3. DOMAIN before = 1..(n - 1) /\ \A k \in 1..(n - 1) : before[k] = trace[k]
  BY <1>1
<1>4. ASSUME NEW k \in 1..(n - 1)
      PROVE  trace[k].kind \in {"Created", "Completed", "Rejected"}
  <2>1. trace[k] \in TradeEvents
    BY <1>1
  <2> QED
    BY <2>1 DEF TradeEvents
<1> HIDE DEF before, e
<1>5. Recorded(before, {"Created"}, e.id) <=> CreatedBy(trace, n - 1, e.id)
  BY <1>3 DEF Recorded, CreatedBy
<1>6. Recorded(before, {"Completed", "Rejected"}, e.id) <=>
        \E k \in 1..(n - 1) :
          trace[k].id = e.id /\ trace[k].kind \in {"Completed", "Rejected"}
  BY <1>3 DEF Recorded
<1>7. e.kind = "Created" <=> ~CreatedBy(trace, n - 1, e.id)
  BY <1>2, <1>5 DEF TradeCanFollow
<1>8. e.kind # "Created" =>
        \A k \in 1..(n - 1) : trace[k].id = e.id => trace[k].kind = "Created"
  BY <1>2, <1>4, <1>6 DEF TradeCanFollow
<1> QED
  BY <1>1, <1>7, <1>8 DEF e

Ended(trace, n, i, kind) ==
  \E k \in 1..n : trace[k].kind = kind /\ trace[k].id = i

\* How the first n events of a log leave a trade.
StatusAfter(trace, n, i) ==
  IF Ended(trace, n, i, "Completed") THEN "Done"
  ELSE IF Ended(trace, n, i, "Rejected") THEN "Rejected" ELSE "Pending"

TradeRow(trace, n, i) == [id |-> i, status |-> StatusAfter(trace, n, i)]

RowsAfter(trace, n) ==
  {TradeRow(trace, n, i) : i \in {j \in TradeIds : CreatedBy(trace, n, j)}}

\* The next event changes the row of its own trade alone.
LEMMA RowsOfNext ==
  ASSUME NEW trace \in Seq(TradeEvents), Cache!Legal(trace),
         NEW n \in Nat, n + 1 <= Len(trace)
  PROVE  RowsAfter(trace, n + 1) = TradeUpdate(RowsAfter(trace, n), trace[n + 1])
<1> DEFINE e == trace[n + 1]
           own == TradeRow(trace, n + 1, e.id)
<1>1. /\ e \in TradeEvents
      /\ e.kind = "Created" <=> ~CreatedBy(trace, n, e.id)
      /\ e.kind # "Created" =>
           \A k \in 1..n : trace[k].id = e.id => trace[k].kind = "Created"
  <2>1. n + 1 \in DOMAIN trace /\ (n + 1) - 1 = n
    OBVIOUS
  <2> QED
    BY <2>1, LegalBefore
<1>2. e.id \in TradeIds /\ e.kind \in {"Created", "Completed", "Rejected"}
  BY <1>1 DEF TradeEvents
<1>3. \A k : k \in 1..(n + 1) <=> k \in 1..n \/ k = n + 1
  OBVIOUS
<1>4. \A i : CreatedBy(trace, n + 1, i) <=>
               \/ CreatedBy(trace, n, i)
               \/ i = e.id /\ e.kind = "Created"
  BY <1>3 DEF CreatedBy
<1>5. \A i, k : Ended(trace, n + 1, i, k) <=>
               \/ Ended(trace, n, i, k)
               \/ i = e.id /\ e.kind = k
  BY <1>3 DEF Ended
<1>6. \A i : i # e.id => TradeRow(trace, n + 1, i) = TradeRow(trace, n, i)
  BY <1>5 DEF TradeRow, StatusAfter
<1>7. ~Ended(trace, n, e.id, "Completed") /\ ~Ended(trace, n, e.id, "Rejected")
  <2>1. CASE e.kind # "Created"
    BY <1>1, <2>1 DEF Ended
  <2>2. CASE e.kind = "Created"
    <3> SUFFICES ASSUME NEW k \in 1..n, trace[k].id = e.id, trace[k].kind # "Created"
                 PROVE  FALSE
      BY DEF Ended
    <3>1. k \in DOMAIN trace
      OBVIOUS
    <3>2. CreatedBy(trace, k - 1, e.id)
      BY <3>1, LegalBefore
    <3>3. CreatedBy(trace, n, e.id)
      BY <3>2 DEF CreatedBy
    <3> QED
      BY <1>1, <2>2, <3>3
  <2> QED
    BY <2>1, <2>2
<1>8. own = [id |-> e.id, status |-> StatusOf(e)]
  BY <1>2, <1>5, <1>7 DEF TradeRow, StatusAfter, StatusOf
<1>9. \A i : TradeRow(trace, n, i).id = i
  BY DEF TradeRow
<1> HIDE DEF e, own
<1>10. CASE e.kind = "Created"
  <2>1. own = [id |-> e.id, status |-> "Pending"]
    BY <1>8, <1>10 DEF StatusOf
  <2>2. \A i : CreatedBy(trace, n, i) => i # e.id
    BY <1>1, <1>10
  <2>3. RowsAfter(trace, n + 1) = RowsAfter(trace, n) \union {own}
    BY <1>2, <1>4, <1>6, <1>10, <2>2 DEF RowsAfter, own
  <2> QED
    BY <1>10, <2>1, <2>3 DEF TradeUpdate, e
<1>11. CASE e.kind # "Created"
  <2> DEFINE set(t) == [t EXCEPT !.status = StatusOf(e)]
             old == {j \in TradeIds : CreatedBy(trace, n, j)}
  <2>1. RowsAfter(trace, n + 1) = {TradeRow(trace, n + 1, i) : i \in old}
    BY <1>4, <1>11 DEF RowsAfter
  <2>2. ASSUME NEW i
        PROVE  TradeRow(trace, n + 1, i) =
                 IF i = e.id THEN set(TradeRow(trace, n, i)) ELSE TradeRow(trace, n, i)
    <3>1. CASE i = e.id
      <4>1. set(TradeRow(trace, n, i)) = [id |-> i, status |-> StatusOf(e)]
        BY DEF TradeRow
      <4> QED
        BY <1>8, <3>1, <4>1 DEF own
    <3> QED
      BY <1>6, <3>1
  <2>3. TradeUpdate(RowsAfter(trace, n), e) =
          {IF t.id = e.id THEN set(t) ELSE t : t \in RowsAfter(trace, n)}
    BY <1>11 DEF TradeUpdate
  <2> HIDE DEF set
  <2>4. TradeUpdate(RowsAfter(trace, n), e) =
          {IF i = e.id THEN set(TradeRow(trace, n, i)) ELSE TradeRow(trace, n, i) :
             i \in old}
    <3> DEFINE row(i) == TradeRow(trace, n, i)
               upd(t) == IF t.id = e.id THEN set(t) ELSE t
    <3>1. RowsAfter(trace, n) = {row(i) : i \in old}
      BY DEF RowsAfter
    <3>2. \A i : upd(row(i)) = IF i = e.id THEN set(row(i)) ELSE row(i)
      BY <1>9
    <3>3. TradeUpdate(RowsAfter(trace, n), e) = {upd(t) : t \in RowsAfter(trace, n)}
      BY <2>3
    <3> HIDE DEF row, upd, old
    <3>4. {upd(t) : t \in {row(i) : i \in old}} = {upd(row(i)) : i \in old}
      OBVIOUS
    <3>5. {upd(row(i)) : i \in old} =
            {IF i = e.id THEN set(row(i)) ELSE row(i) : i \in old}
      BY <3>2
    <3> QED
      BY <3>1, <3>3, <3>4, <3>5 DEF row
  <2> QED
    BY <2>1, <2>2, <2>4 DEF e
<1> QED
  BY <1>10, <1>11

LEMMA ReplayIsRows ==
  ASSUME NEW trace \in Seq(TradeEvents), Cache!Legal(trace),
         NEW m \in Nat, m <= Len(trace)
  PROVE  Cache!Replay(trace, m) = RowsAfter(trace, m)
<1> DEFINE S == {n \in Nat : n <= Len(trace) =>
                   Cache!Replay(trace, n) = RowsAfter(trace, n)}
<1>1. 0 \in S
  <2>1. Cache!Replay(trace, 0) = {}
    BY Cache!ReplayOfNone DEF Cache!EmptySotw
  <2>2. \A i : ~CreatedBy(trace, 0, i)
    BY DEF CreatedBy
  <2>3. RowsAfter(trace, 0) = {}
    BY <2>2 DEF RowsAfter
  <2> QED
    BY <2>1, <2>3
<1>2. ASSUME NEW n \in Nat, n \in S PROVE n + 1 \in S
  <2> SUFFICES ASSUME n + 1 <= Len(trace)
               PROVE  Cache!Replay(trace, n + 1) = RowsAfter(trace, n + 1)
    OBVIOUS
  <2>1. Cache!Replay(trace, n) = RowsAfter(trace, n)
    BY <1>2
  <2>2. Cache!Replay(trace, n + 1) = TradeUpdate(Cache!Replay(trace, n), trace[n + 1])
    BY Cache!ReplayOfNext
  <2> QED
    BY <2>1, <2>2, RowsOfNext
<1> HIDE DEF S
<1>3. Nat \subseteq S
  BY <1>1, <1>2, Cache!Induction
<1> QED
  BY <1>3 DEF S
\* What the writers of the log may append, and its type, hold of it.
LogOK == log \in Seq(TradeEvents) /\ Cache!Legal(log)

LEMMA LogInvariant == CacheSpec => []LogOK
<1>1. CacheInit => LogOK
  BY Cache!LegalNone DEF CacheInit, LogOK
<1>2. LogOK /\ [CacheNext]_vars => LogOK'
  <2> SUFFICES ASSUME LogOK, [CacheNext]_vars PROVE LogOK'
    OBVIOUS
  <2>1. ASSUME NEW e \in TradeEvents, Write(e) PROVE LogOK'
    <3>1. log' = Append(log, e) /\ TradeCanFollow(log, e)
      BY <2>1 DEF Write
    <3>2. Cache!Legal(Append(log, e))
      BY <3>1, Cache!LegalAppend DEF LogOK
    <3> QED
      BY <3>1, <3>2 DEF LogOK, Cache!Legal
  <2>2. CASE CacheStep
    <3>1. log' = log
      BY <2>2, TradesStep, Cache!CacheStepKeepsLog
    <3> QED
      BY <3>1 DEF LogOK, Cache!Legal
  <2>3. CASE UNCHANGED vars
    BY <2>3 DEF LogOK, Cache!Legal, vars, storeVars
  <2> QED
    BY <2>1, <2>2, <2>3 DEF CacheNext
<1> QED
  BY <1>1, <1>2, PTL DEF CacheSpec

\* The cache holds one row for each trade that the events taken have created,
\* with the last status they give it; so do the rows of a blotter that follows
\* (TradeCache.cs:36-59, blotterModel.js:96-142).
ShowsLastStatus ==
  /\ sotw = RowsAfter(log, Applied)
  /\ \A s \in Streams : phase[s] = "events" => view[s] = RowsAfter(log, Applied)

\* Whatever is replaced, repeated or late, neither the trade cache nor a
\* blotter behind it misses a trade, shows one twice or shows a status that is
\* not the last one taken.
THEOREM TradesShowLastStatus == CacheSpec => []ShowsLastStatus
<1> DEFINE Inv == LogOK /\ Cache!CacheInv /\ StreamsMirrorCache
<1>1. CacheSpec => []Inv
  BY LogInvariant, BoundsHold, TradesAreCached, Cache!CacheInvariant,
     TradesMirrored, PTL DEF CacheSpec
<1>2. Inv => ShowsLastStatus
  <2> SUFFICES ASSUME Inv PROVE ShowsLastStatus
    OBVIOUS
  <2>1. Applied = Cache!Applied
    BY DEF Applied, Cache!Applied, QueuedEvents, Cache!QueuedEvents,
           Cardinality, Cache!Cardinality
  <2>2. Applied \in 0..Len(log) /\ sotw = Cache!Replay(log, Applied)
    BY <2>1, BoundsHold, Cache!AppliedIsPosition
  <2>3. Applied \in Nat /\ Applied <= Len(log)
    BY <2>2 DEF LogOK
  <2>4. sotw = RowsAfter(log, Applied)
    BY <2>2, <2>3, ReplayIsRows DEF LogOK
  <2> QED
    BY <2>4 DEF ShowsLastStatus, StreamsMirrorCache, BlotterLoad
<1> QED
  BY <1>1, <1>2, PTL

\* Every blotter that was asked for has one row for each trade of the whole log,
\* with the last status of it, and none is marked stale
\* (EventStoreCache.cs:94-146, blotterModel.js:96-142).
ShowsWholeLog ==
  \A s \in Streams : phase[s] # "off" =>
    /\ phase[s] = "events" /\ ~stale[s]
    /\ view[s] = RowsAfter(log, Len(log))

\* Whenever the connection is up, its subscription has delivered the log and
\* the loop has nothing left to do, no blotter is left waiting, stale or behind,
\* whatever reconnections and late callbacks came before.
THEOREM BlottersShowLogAtRest == CacheSpec => [](Cache!AtRest => ShowsWholeLog)
<1>1. Cache!RestInv /\ StreamsMirrorCache /\ ShowsLastStatus =>
        (Cache!AtRest => ShowsWholeLog)
  <2> SUFFICES ASSUME Cache!RestInv, StreamsMirrorCache, ShowsLastStatus, Cache!AtRest
               PROVE  ShowsWholeLog
    OBVIOUS
  <2>1. Cache!StreamsMirrorCache
    BY DEF Cache!StreamsMirrorCache, StreamsMirrorCache
  <2>2. Cache!ShowsTheLog /\ Cache!Applied = Len(log)
    BY <2>1, BoundsHold, Cache!RestShows
  <2>3. Applied = Cache!Applied
    BY DEF Applied, Cache!Applied, QueuedEvents, Cache!QueuedEvents,
           Cardinality, Cache!Cardinality
  <2> QED
    BY <2>2, <2>3 DEF ShowsWholeLog, ShowsLastStatus, Cache!ShowsTheLog
<1> QED
  BY <1>1, BoundsHold, TradesAreCached, Cache!RestInvariant, TradesMirrored,
     TradesShowLastStatus, PTL DEF CacheSpec

\* The dictionary of the cache takes the event: Add of a trade that it does not
\* have, or the status of one that it has (TradeCache.cs:77-104: both throw
\* otherwise, which would end the subscription).
EventFits ==
  RunEvent /\ IsObserved(Head(queue)) =>
    LET e == log[Head(queue).pos]
    IN  e.kind = "Created" <=> \A t \in sotw : t.id # e.id

\* No event that the cache takes makes its dictionary throw, also when all
\* are read again after a reconnection.
THEOREM TradeEventsFit == CacheSpec => [][EventFits]_vars
<1>1. LogOK /\ Cache!CacheInv => EventFits
  <2> DEFINE n == Head(queue).pos
             e == log[n]
  <2> SUFFICES ASSUME LogOK, Cache!CacheInv, RunEvent, IsObserved(Head(queue))
               PROVE  e.kind = "Created" <=> \A t \in sotw : t.id # e.id
    BY DEF EventFits
  <2>1. Cache!RunEvent /\ Cache!IsObserved(Head(queue))
    BY RunEventIs DEF IsObserved, Cache!IsObserved
  <2>2. n \in DOMAIN log /\ sotw = Cache!Replay(log, n - 1)
    BY <2>1, BoundsHold, Cache!TakenIsNext
  <2>3. n - 1 \in Nat /\ n - 1 <= Len(log)
    BY <2>2 DEF LogOK
  <2>4. sotw = RowsAfter(log, n - 1)
    BY <2>2, <2>3, ReplayIsRows DEF LogOK
  <2>5. /\ e \in TradeEvents
        /\ e.kind = "Created" <=> ~CreatedBy(log, n - 1, e.id)
    BY <2>2, LegalBefore DEF LogOK
  <2>6. e.id \in TradeIds
    BY <2>5 DEF TradeEvents
  <2> HIDE DEF n, e
  <2>7. (\E t \in sotw : t.id = e.id) <=> CreatedBy(log, n - 1, e.id)
    <3>1. \A i : TradeRow(log, n - 1, i).id = i
      BY DEF TradeRow
    <3>2. CreatedBy(log, n - 1, e.id) => TradeRow(log, n - 1, e.id) \in sotw
      BY <2>4, <2>6 DEF RowsAfter
    <3>3. \A t \in sotw : CreatedBy(log, n - 1, t.id)
      BY <2>4, <3>1 DEF RowsAfter
    <3> QED
      BY <3>1, <3>2, <3>3
  <2> QED
    BY <2>5, <2>7
<1>2. CacheSpec => [](LogOK /\ Cache!CacheInv)
  BY LogInvariant, BoundsHold, TradesAreCached, Cache!CacheInvariant, PTL DEF CacheSpec
<1> QED
  BY <1>1, <1>2, PTL

==============================================================================
