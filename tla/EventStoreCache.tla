--------------------------- MODULE EventStoreCache ---------------------------
(***************************************************************************)
(* EventStoreCache.cs: a read-side cache of the Event Store and the streams *)
(* it serves.  Everything the cache does runs on one event loop, a FIFO of  *)
(* work items; what is concurrent is who puts items there: the connection   *)
(* going up and down, the callbacks of the catch-up subscriptions, clients  *)
(* asking for a stream.  A stream is first sent the state of the world,     *)
(* until one that is not stale, then one update per event.                  *)
(*                                                                          *)
(* The abstract members of the class are constant operators; TradeCache and *)
(* CurrencyPairCache supply them.                                           *)
(***************************************************************************)
EXTENDS Naturals, Sequences, FiniteSets, SequencesExt

CONSTANTS
  Streams,                      \* subscribers of the output stream
  Events,                       \* events the Event Store may record
  CanFollow(_, _),              \* log, event: whether a writer may append it
  UpdateStateOfTheWorld(_, _),  \* state of the world, event: the new state
  EmptyView,                    \* what a subscriber knows to begin with
  Load(_, _),                   \* what it makes of a state of the world
  MapSingleEvent(_, _),         \* state, event: the items of the update,
                                \*   {} when IsValidUpdate filters it out
  Merge(_, _),                  \* what it makes of an update
  MaxEvents, MaxConnects        \* bounds on the log and on connections

\* What the modules that supply the operators assume of the other constants.
Bounded == {MaxEvents, MaxConnects} \subseteq Nat /\ IsFiniteSet(Streams)

VARIABLES
  log,         \* the events recorded by the Event Store
  up,          \* whether the Event Store connection is up
  connects,    \* times it came up
  sub,         \* catch-up subscriptions, one for each Initialize
  queue,       \* work items of the event loop
  current,     \* the subscription behind _events, 0 for Never
  sotw, isStale, isCaughtUp,   \* the cache
  published,   \* whether _stateOfTheWorldUpdates left its initial value
  phase,       \* per stream: off, queued, sotw or events
  view, stale  \* what its subscriber knows

storeVars  == <<log, up, connects>>
cacheVars  == <<current, sotw, isStale, isCaughtUp, published>>
streamVars == <<phase, view, stale>>
vars == <<storeVars, sub, queue, cacheVars, streamVars>>

Generations == 1..MaxConnects

ConnectionItem(k)  == [kind |-> k]
SubItem(k, g)      == [kind |-> k, gen |-> g]
EventItem(g, n)    == [kind |-> "event", gen |-> g, pos |-> n]
OpenItem(s)        == [kind |-> "open", stream |-> s]

EmptySotw == {}

CacheInit ==
  /\ log = <<>>
  /\ up = FALSE
  /\ connects = 0
  /\ sub = [g \in Generations |-> [live |-> FALSE, pos |-> 0, caught |-> FALSE]]
  /\ queue = <<>>
  /\ current = 0
  /\ sotw = EmptySotw /\ isStale = TRUE /\ isCaughtUp = FALSE
  /\ published = FALSE
  /\ phase = [s \in Streams |-> "off"]
  /\ view = [s \in Streams |-> EmptyView]
  /\ stale = [s \in Streams |-> TRUE]

Schedule(item) == queue' = Append(queue, item)

-----------------------------------------------------------------------------
(* Around the loop: the Event Store, its connection, the subscribers.       *)

Write(e) ==
  /\ Len(log) < MaxEvents
  /\ CanFollow(log, e)
  /\ log' = Append(log, e)
  /\ UNCHANGED <<up, connects, sub, queue, cacheVars, streamVars>>

\* The connection comes up; subscriptions that outlive it catch up anew.
Connect ==
  /\ ~up
  /\ connects < MaxConnects
  /\ up' = TRUE
  /\ connects' = connects + 1
  /\ sub' = [g \in Generations |->
       IF sub[g].live THEN [sub[g] EXCEPT !.caught = FALSE] ELSE sub[g]]
  /\ Schedule(ConnectionItem("connected"))
  /\ UNCHANGED <<log, cacheVars, streamVars>>

\* A subscription may end with its connection, or resume with the next one
\* for as long as it is not stopped.
Disconnect ==
  /\ up
  /\ up' = FALSE
  /\ \E survivors \in SUBSET Generations :
       sub' = [g \in Generations |->
         [sub[g] EXCEPT !.live = @ /\ g \in survivors]]
  /\ Schedule(ConnectionItem("disconnected"))
  /\ UNCHANGED <<log, connects, cacheVars, streamVars>>

\* The callbacks given to SubscribeToAllFrom: each schedules its work.  They
\* run on the Event Store client's threads, in no order with its Connected and
\* Disconnected events.
OnEvent(g) ==
  /\ sub[g].live
  /\ sub[g].pos < Len(log)
  /\ sub' = [sub EXCEPT ![g].pos = @ + 1]
  /\ Schedule(EventItem(g, sub[g].pos + 1))
  /\ UNCHANGED <<storeVars, cacheVars, streamVars>>

OnCaughtUp(g) ==
  /\ sub[g].live
  /\ sub[g].pos = Len(log)
  /\ ~sub[g].caught
  /\ sub' = [sub EXCEPT ![g].caught = TRUE]
  /\ Schedule(SubItem("caughtUp", g))
  /\ UNCHANGED <<storeVars, cacheVars, streamVars>>

\* GetOutputStream is subscribed to: SubscribeOn queues the rest.
GetOutputStream(s) ==
  /\ phase[s] = "off"
  /\ phase' = [phase EXCEPT ![s] = "queued"]
  /\ Schedule(OpenItem(s))
  /\ UNCHANGED <<storeVars, sub, cacheVars, view, stale>>

-----------------------------------------------------------------------------
(* The loop: one work item at a time, from the head of the queue.           *)

Next1(kind) == queue # <<>> /\ Head(queue).kind = kind

Dequeue == queue' = Tail(queue)

Listening == {s \in Streams : phase[s] \in {"sotw", "events"}}
Awaiting  == {s \in Streams : phase[s] = "sotw"}

\* Mutant: TakeUntil, not TakeUntilInclusive: the state of the world that ends
\* the wait is not itself sent.
PublishToExclusive(waiting, world, isStaleNow) ==
  /\ view' = [s \in Streams |->
       IF s \in waiting /\ isStaleNow THEN Load(view[s], world) ELSE view[s]]
  /\ stale' = [s \in Streams |-> (s \in waiting /\ isStaleNow) \/ stale[s]]
  /\ phase' = [s \in Streams |->
       IF s \in waiting /\ ~isStaleNow THEN "events" ELSE phase[s]]

\* _stateOfTheWorldUpdates.OnNext: streams still waiting for a state of the
\* world that is not stale are sent it; such a one completes their wait.
PublishTo(waiting, world, isStaleNow) ==
  /\ view' = [s \in Streams |->
       IF s \in waiting THEN Load(view[s], world) ELSE view[s]]
  /\ stale' = [s \in Streams |-> IF s \in waiting THEN isStaleNow ELSE stale[s]]
  /\ phase' = [s \in Streams |->
       IF s \in waiting /\ ~isStaleNow THEN "events" ELSE phase[s]]

\* Mutant: streams end with the connection they started on (no Repeat).
RepeatedNone == {}

\* The streams that TakeUntil(Connected) ends and Repeat subscribes to again.
Repeated == {s \in Streams : phase[s] # "off"}

\* Mutant: the first Initialize stops a subscription that never was.
StopReplacedAlways == <<SubItem("stopSub", current)>>

\* Replacing _eventsConnection ends the subscription it held.
StopReplaced == IF current = 0 THEN <<>> ELSE <<SubItem("stopSub", current)>>

\* Work whose subscription is disposed of before the loop comes to it.
Disposed(item) == item.kind \in {"open", "startSub"}

\* What remains of a queue, in its order.
Remaining(items) ==
  LET rest[n \in 0..Len(items)] ==
        IF n = 0 THEN <<>>
        ELSE IF Disposed(items[n]) THEN rest[n - 1]
        ELSE Append(rest[n - 1], items[n])
  IN  rest[Len(items)]

\* Connected: Initialize replaces the subscription (the new one is started,
\* the old one stopped, on the loop), then every stream is repeated.
RunConnected ==
  /\ Next1("connected")
  /\ isStale' = TRUE
  /\ sotw' = EmptySotw
  /\ isCaughtUp' = FALSE
  /\ current' = current + 1
  /\ LET again == SetToSeq(Repeated)
     IN  queue' = Remaining(Tail(queue))
                    \o <<SubItem("startSub", current + 1)>> \o StopReplaced
                    \o [n \in DOMAIN again |-> OpenItem(again[n])]
  /\ phase' = [s \in Streams |-> IF s \in Repeated THEN "queued" ELSE phase[s]]
  /\ UNCHANGED <<storeVars, sub, published, view, stale>>

\* Disconnected: the cache turns stale and every listening stream is told.
RunDisconnected ==
  /\ Next1("disconnected")
  /\ Dequeue
  /\ isStale' = TRUE
  /\ published' = (published \/ ~isStale)
  /\ view' = [s \in Streams |->
       IF s \in Awaiting /\ ~isStale THEN Load(view[s], sotw) ELSE view[s]]
  /\ stale' = [s \in Streams |-> IF s \in Listening THEN TRUE ELSE stale[s]]
  /\ UNCHANGED <<storeVars, sub, current, sotw, isCaughtUp, phase>>

\* SubscribeOn: GetAllEvents' subscription to the Event Store (made while the
\* connection is down it may wait for it or be lost), and its end.
RunStartSub ==
  /\ Next1("startSub")
  /\ Dequeue
  /\ \E live \in {up, TRUE} : sub' = [sub EXCEPT ![Head(queue).gen].live = live]
  /\ UNCHANGED <<storeVars, cacheVars, streamVars>>

RunStopSub ==
  /\ Next1("stopSub")
  /\ Dequeue
  /\ sub' = [sub EXCEPT ![Head(queue).gen].live = FALSE]
  /\ UNCHANGED <<storeVars, cacheVars, streamVars>>

\* Mutant: replacing the subscription leaves its observer attached.
IsObservedAlways(item) == TRUE

\* _eventsSubscription holds one observer: the current subscription's.
IsObserved(item) == item.gen = current

\* An event of the current subscription updates the state of the world, then
\* reaches the streams; one of a replaced subscription has no observer left.
RunEvent ==
  /\ Next1("event")
  /\ Dequeue
  /\ IF IsObserved(Head(queue))
       THEN LET e      == log[Head(queue).pos]
                world  == UpdateStateOfTheWorld(sotw, e)
                update == MapSingleEvent(world, e)
                sent   == IF isCaughtUp THEN Awaiting ELSE {}
                told   == IF update = {} THEN {}
                          ELSE {s \in Streams : phase[s] = "events"}
            IN  /\ sotw' = world
                /\ published' = (published \/ isCaughtUp)
                /\ view' = [s \in Streams |->
                     IF s \in sent THEN Load(view[s], world)
                     ELSE IF s \in told THEN Merge(view[s], update)
                     ELSE view[s]]
                /\ stale' = [s \in Streams |->
                     IF s \in sent THEN isStale
                     ELSE s \notin told /\ stale[s]]
                /\ phase' = [s \in Streams |->
                     IF s \in sent /\ ~isStale THEN "events" ELSE phase[s]]
       ELSE UNCHANGED <<sotw, published, streamVars>>
  /\ UNCHANGED <<storeVars, sub, current, isStale, isCaughtUp>>

\* Caught up, of whichever subscription.
RunCaughtUp ==
  /\ Next1("caughtUp")
  /\ Dequeue
  /\ isCaughtUp' = TRUE
  /\ isStale' = FALSE
  /\ published' = TRUE
  /\ PublishTo(Awaiting, sotw, FALSE)
  /\ UNCHANGED <<storeVars, sub, current, sotw>>

\* GetOutputStreamImpl: the last published state of the world, at once.
RunOpen ==
  /\ Next1("open")
  /\ Dequeue
  /\ LET s == Head(queue).stream
         isStaleNow == ~published \/ isStale
     IN  /\ view' = [view EXCEPT ![s] =
              Load(@, IF published THEN sotw ELSE EmptySotw)]
         /\ stale' = [stale EXCEPT ![s] = isStaleNow]
         /\ phase' = [phase EXCEPT ![s] =
              IF isStaleNow THEN "sotw" ELSE "events"]
  /\ UNCHANGED <<storeVars, sub, cacheVars>>

RunLoop ==
  \/ RunConnected \/ RunDisconnected
  \/ RunStartSub \/ RunStopSub
  \/ RunEvent \/ RunCaughtUp
  \/ RunOpen

\* What happens besides writes to the Event Store.
CacheStep ==
  \/ Connect \/ Disconnect
  \/ \E g \in Generations : OnEvent(g) \/ OnCaughtUp(g)
  \/ \E s \in Streams : GetOutputStream(s)
  \/ RunLoop

CacheNext == (\E e \in Events : Write(e)) \/ CacheStep

\* The loop thread runs, and the Event Store serves its subscriptions.
CacheFairness ==
  /\ WF_vars(RunLoop)
  /\ \A g \in Generations : WF_vars(OnEvent(g)) /\ WF_vars(OnCaughtUp(g))

CacheSpec == CacheInit /\ [][CacheNext]_vars /\ CacheFairness

-----------------------------------------------------------------------------
\* Every variable has its type; work items name what exists.
CacheTypeOK ==
  /\ up \in BOOLEAN /\ isStale \in BOOLEAN /\ isCaughtUp \in BOOLEAN
  /\ published \in BOOLEAN
  /\ connects \in 0..MaxConnects /\ current \in 0..connects
  /\ \A g \in Generations : sub[g].pos \in 0..Len(log)
  /\ \A n \in DOMAIN queue :
       \/ queue[n] \in [kind : {"connected", "disconnected"}]
       \/ queue[n] \in [kind : {"startSub", "stopSub", "caughtUp"},
                        gen : 1..current]
       \/ queue[n] \in [kind : {"event"}, gen : 1..current, pos : 1..Len(log)]
       \/ queue[n] \in [kind : {"open"}, stream : Streams]
  /\ phase \in [Streams -> {"off", "queued", "sotw", "events"}]
  /\ stale \in [Streams -> BOOLEAN]

\* The state of the world the first n events of a log make.
Replay(trace, n) ==
  LET world[k \in 0..n] ==
        IF k = 0 THEN EmptySotw ELSE UpdateStateOfTheWorld(world[k - 1], trace[k])
  IN  world[n]

\* Where the queue has an event of a subscription.
QueuedEvents(g) ==
  {n \in DOMAIN queue : queue[n].kind = "event" /\ queue[n].gen = g}

Applied ==
  IF current = 0 THEN 0
  ELSE sub[current].pos - Cardinality(QueuedEvents(current))

\* The cache holds what the events it has taken from the current subscription
\* make, no more and no less: nothing of a replaced subscription is mixed in.
CacheIsReplay == sotw = Replay(log, Applied)

\* A stream past its state of the world knows exactly what the cache knows: no
\* event falls between the snapshot and the updates, or is sent twice.
StreamsMirrorCache ==
  \A s \in Streams : phase[s] = "events" => view[s] = Load(EmptyView, sotw)

\* When the connection ends up and stays up, every stream that was asked for
\* ends up showing the whole log, and not as stale.
StreamsConverge ==
  \A s \in Streams :
    <>[](up /\ phase[s] # "off") =>
      <>[](/\ phase[s] = "events" /\ ~stale[s]
           /\ view[s] = Load(EmptyView, Replay(log, Len(log))))
=============================================================================
