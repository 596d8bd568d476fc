# Reactive Trader Cloud: specifications

TLA+ specifications of Reactive Trader Cloud, with the TLC runs that check them
and the TLAPS proofs of what holds for every size of the system. Paths below
are relative to the repository; `server/X` stands for
`src/server/Adaptive.ReactiveTrader.X` and `client/` for `src/client/src/`.

## 1. The system

A trading desktop in the browser talks through a WAMP broker (crossbar) to
.NET services; the services keep their data as events in Event Store.

| part | state it keeps | operations | talks to |
|---|---|---|---|
| Trade execution (`server/Server.TradeExecution`) | id block (`_hiValue`, `_loValue`, `_isInitialized`), one trade per request | `executeTrade` | Event Store through `Repository`; id provider |
| Reference data write (`Server.ReferenceDataWrite`) | none between requests | `activateCurrencyPair`, `deactivateCurrencyPair`, initial pairs | `Repository` |
| Repository (`server/EventStore/Domain`) | none; aggregates hold version and pending events | `GetById`, `SaveAsync` | Event Store, expected versions |
| Event Store cache (`EventStoreCache.cs`) with `TradeCache`, `CurrencyPairCache` | state of the world, caught-up and stale flags, subscription | (re)initialise, apply an event, open a stream | Event Store catch-up subscription, its callbacks |
| Analytics (`Server.Analytics`) | position and prices per pair | `OnTrade`, `OnPrice`, `getAnalytics` | trade cache, price topic |
| Blotter, reference read, pricing hosts | a subscription per client, load | stream requests | broker private end points |
| Messaging (`server/Messaging`) | registrations, heartbeats | register, publish, find subscribers | broker |
| LaunchOrKill (`server/Common`) | live host | launch, kill on (dis)connection | broker and Event Store connections |
| Client `ServiceClient`, `Connection` (`client/system/service`) | dictionary of instances, operations | request, stream, status | broker |
| Client services and models (`client/services`, `client/ui`) | caches, trades in flight, statuses | execute, merge updates | `ServiceClient`, OpenFin |
| Workspace (`client/appBootstrapper.js`, `client/ui/regions`, `client/ui/common`) | tiles and panels, regions, windows, saved settings | start, load tiles, pop out, close, collapse | reference data, desktop |
| Docking manager (`src/src/client/lib/dockingManager.js`) | windows, groups, snapped pairs, stored partners | drag, snap, join, leave, restore | desktop's windows and bus, popout service |

What is hard in it:

* *Concurrency.* RPC operations run as tasks side by side; an `await` gives an
  event loop away in the middle of a method; callbacks of Event Store come on
  threads of their own and are queued on an event loop.
* *Failure.* Saves fail with or without having written; processes die between
  two saves; both connections go up and down on their own; instances fall
  silent or their heartbeats come late.
* *Ordering.* Work of a replaced subscription is still queued; a stream changes
  from a snapshot to single events; two streams feed one model.
* *Timers.* Heartbeat time-outs, retries, a session that expires, request
  time-outs racing answers.
* *The desktop.* Windows are created asynchronously, close by events that do
  not wait for the message bus, and come back after a restart from what the
  local storage remembers.

What makes the parts correct, in one line each: ids are distinct across
instances; a trade has one writer and at most one outcome, and an answer is on
record; a cache is the replay of the log and a stream shows what the cache
shows; a currency pair changes in turn; an operation depends on the instance
it asked, and streams come back after failures; the blotter shows the
server's trades; tiles follow the pairs and each component is in one place; groups
of docked windows, marks and storage agree.
`PROJECT.json` lists all components and, under `hazards`, where each difficulty
bites and which property is about it.

## 2. The modules

    TradeIdProvider <- MCTradeIdProvider
          ^
    TradeExecution --INSTANCE--> TradeBook;   TradeExecution <- TradeExecutionProofs
    TradeLog <- TradeCache;   TradeExecutionProofs --INSTANCE--> TradeLog
    EventStoreCache <- EventStoreCacheProofs
    TradeCache        --INSTANCE--> EventStoreCache;   <- Analytics, TradeCacheProofs
    CurrencyPairCache --INSTANCE--> EventStoreCache;   <- ReferenceData
    ReferenceData <- ReferenceDataProofs
    TradeCacheProofs, ReferenceDataProofs --INSTANCE--> EventStoreCacheProofs
    ServiceClient <- ClientStatus <- ClientStatusProofs
    Blotter   <- BlotterProofs
    SpotTile, Workspace <- WorkspaceProofs
    Docking   <- MCDocking, DockingProofs

`A <- B` says that B extends A; `^`, that the module below extends the one above. The
two caches instantiate the generic one with their own operators.

**TradeIdProvider** (`TradeIdProvider.cs`, `Domain/TradeId.cs`). `tidVersion` is
the version of the stream `TradeIdentifier`, and the version is the hi value.
A call is queued on its provider's event loop (`GetNextId`), checks the block
(`Check`: the lock of the loop is held to the end, or given away at the
`await`), reads and appends (`ReadTradeId`, `ReserveHi`, `Conflict`,
`AppendLost`) and, after the await, assigns the fields one statement at a time
(`AssignHi`, `AssignLo`, `SetInitialized`, `Increment`, `Emit`) on the thread
that completed the read. With `SerialContinuations = TRUE` these continuations
of one provider exclude each other; with `FALSE` nothing is assumed. `Restart`
loses a process with its calls. `Multiplier` is 100 in the code.

**TradeBook** is the abstract promise: trades are opened, settled once and
answered after that. **TradeExecution** (`TradeExecutionEngine.cs`, `Trade.cs`,
`Repository.SaveAsync`) extends the id provider with `ExecuteAsync`: every
step up to the answer, both saves with their expected versions (`SaveNew`,
`SaveOutcome`), saves that fail written or not (`SaveFails`) and crashes
(`Crash`). `ImplementsBook` is the refinement: the trades of the book are read
off the event streams.

**TradeLog** stands between the engine and the caches: the trade events of all streams
in the order the Event Store took them, and which event may follow which
(`TradeCanFollow`). The caches assume of whoever writes trades what it says; that the
engine does no more is proved (section 4).

**EventStoreCache** (`EventStoreCache.cs`) is generic as the class is: its
abstract members are constant operators. The event loop is a FIFO `queue` of
work items; `Connect`, `Disconnect`, `OnEvent`, `OnCaughtUp`, `GetOutputStream`
put items on it from outside at any time, the `Run...` actions are the bodies of
the items. `sub[g]` is the g-th catch-up subscription, `current` the one the cache
observes. A stream is `queued`, in its snapshot phase (`sotw`) or following
(`events`), and `view` is what a subscriber makes of what it received.
**TradeCache** and **CurrencyPairCache** supply the operators: the state of the
world and single updates of each cache, and the client's merge of them (for
trades, the blotter's). **ReferenceData** adds the writer in front of the currency
pair cache: load, change and save of a pair by concurrent requests.
**Analytics** instantiates the trade cache with a subscriber that counts done
trades, and lets `LaunchOrKill` replace the host while the engine stays.

**ServiceClient** (`serviceClient.js`, `serviceObservableExtensions.js`,
`connection.js`, `retryPolicyExt.js`). `dict` is the dictionary of instance
statuses (a load, `Lost` or `None`), `op` the operations, each with the instance it
asked, those whose heartbeats it watches and whether it is still looking for
one. `Emit` is the delivery of the dictionary to all that look. Time is
abstracted: a timer may fire whenever its cause is there. The timer of an
operation follows that of the dictionary, which subscribed before it.

**ClientStatus** composes it with what follows it in the browser: the price streams
of `pricingService.js`, the lookup of `compositeStatusService.js` and the status
shown by `footerModel.js`. `Next /\ Follow`: every step of the service client is also
a step of its followers, in the same callback. `heard` is there because the
footer meets the shared lookup only when a status is next sent.

**Blotter** is one stream from end to end, over the parts `ServiceClient`
abstracts: the session with its expiry and Reconnect (`link`, `connectCalled`,
`status` of `connection.js`), the topic an operation opens for itself, whose two
ends are in `topics[t]` (`sub`: asked, acknowledged, left; `serve`: what the host
does for it), `GetPrivateEndPoint` and `TakeUntil` of `Broker.cs`, the truncated
state of the world and the updates of `BlotterServiceHost.cs`, the retries and the
mapper of the client, and the rows of `blotterModel.js`. `torn` is the
router's notice to the host that a subscription has ended; it is delivered late.
One instance runs at a time, a crashed one is followed by a new one.

**SpotTile** (`spotTileModel.js`, `spotTileView.jsx`, `executionService.js`, the
limit check of `openFin.js`). `request` is where the stream of each execution is,
`held` the one in the tile's serial disposable: its reports alone reach the
tile. `Execute` is guarded by what the view shows, `ClosePosition` comes from
the desktop and is not. `server` is what the execution service did, which goes on
whoever listens. The module assumes nothing of the service: `TradeExecution` says
what it does with a request, `ServiceClient` how the operation can fail.

**Workspace** (`appBootstrapper.js`, `referenceDataService.js`,
`spotTileLoader.js`, `spotTileFactory.js`, the regions, `regionManagerHelper.js`, the
popout services). `cache`, `tiles` and `registered` are the pairs the client knows, the
loader's tiles and the models the router holds; `place[c]` counts the
registrations of a component at home and in the popout region and tells its
window; `saved` is the local storage and survives `Restart`. `desktop` chooses
between the two popout services: in a browser everything happens in one step,
on the desktop `Start` (the `init` event) and `WindowCreated` come later. A handler
of the router runs to its end, so it is one action.

**Docking** (`lib/dockingManager.js`, the docking side of
`openfinPopoutService.js`). `win` are the windows in the order they opened with
their bounds in pixels, `groups` the sequences of their numbers, `snaps` the pairs listed
while a window is dragged. The geometry (`isSnapable`, `snapToWindow`,
`intersact`) is the code's, with 0 standing for unset as it does there. `Join` and
`Leave` are functions from one state of the desktop to the next, so that `Release` can
join several windows in turn. `bus` is FIFO; `Closed` does not wait for it. A `load` is
heard by every window of its name that still waits, one that has closed meanwhile too.
**MCDocking** gives it three windows of the real sizes.

## 3. The runs

| run | instance | shows |
|---|---|---|
| `trade_ids` | 2 providers, 3 calls, 1 id per block, 2 tries, 1 restart | `IdTypeOK`; `HiValuesNotShared`: a hi is reserved once, and ids of two instances never share a block, whatever the races within one |
| `unique_ids` (violated) | 1 provider, 3 calls, continuations serial | `UniqueIds` fails: see 5 |
| `trade_execution` | 2 providers, 2 calls, 1 rejected, 1 restart | `TradeStreamsSound` (one writer, one created event, at most one outcome), `AnswersAreOnRecord`, `ImplementsBook`, `PendingIsAccountedFor` (a trade stays pending only after a failure of its execution), `EveryCallEnds` |
| `trade_cache` | 1 stream, 2 trades, 2 events, 2 connections | `CacheIsReplay`, `StreamsMirrorCache`, `StreamsConverge` |
| `reference_data` | 1 pair, 2 requests, 1 stream | `PairsChangeInTurn`, `StreamsMirrorCache` |
| `analytics_count` (violated) | 1 trade, 1 relaunch | `DoneTradesCountedOnce` fails |
| `service_client` (module `ClientStatus`) | 2 instances, 1 price stream, 1 request, 2 loads, 1 crash, 1 late heartbeat, 1 lost connection | `AskedIsWatched`, `WaitsOnlyWhenNone`, `NoneHangsOnDeadInstance`, `StreamsRecover`; `TradableIsStreamed`: no price is left tradable when its stream has failed; `FooterTells`: the indicator agrees with the services |
| `spot_tile` | 2 trades, 1 position to close, a limit checker that may run | `ReportsLastTicket`: no result of an earlier trade is shown as the last one's, and the tile is in flight until its trade is reported; `WarnsWhenPricingDown`; `SentIsGivenUp`: a trade sent is answered or given up |
| `spot_tile_in_flight` (violated) | 1 trade, 1 position, no limit checker | `InFlightEnds` fails |
| `workspace` | 2 pairs, analytics and blotter panels, browser or desktop, 3 changes of pairs, 1 lost stream, 1 restart | `TilesMatchPairs`, `CacheFollowsServer`, `ShownOnceAsSaved`; `WorkspaceTypeOK` with one subscription of each panel |
| `docking` | 2 tiles and the blotter, 3 points, 3 acts of the user, 1 restart | `NoLoneMember`, `DockedIsTold`, `OnlyFoundersOverlap`, `HowClosedStays`; `DockingTypeOK` with one group per window |
| `blotter` | 2 trades, a state of the world of 1, 3 topics, 1 crash, 2 faults in all, 1 pair that may become unknown | `ExpiredReconnects`, `ShownIsBook`, `NotifiedOnce`, `StreamsEndWithTopics`, `BlotterRecovers` |

*Bounds.* Two providers are what sharing a stream takes; three calls are two
that race in one instance and one in the other. A block of one or two ids makes
calls run out of it, which 100 would hide. Two tries let a conflict be
retried and be given up. Two connections of the cache are the one replaced and the
one that replaces it, with late callbacks of the first; two events let one fall
into the snapshot and one after it. Two requests on one pair are every
conflict two writers can have; in that run the Event Store connection comes up
once, as its interleavings with reconnections are those of `trade_cache`. Two
instances let an operation be confused about which is its own. Two trades of a
tile are the one it gave up and the one it waits for. In the workspace, three
changes are a pair disabled, enabled and the other one meanwhile; the panels are
two because a region keeps its own collapsed flag, for which only that of the
analytics has a button (`Sidebar`). In the blotter, a state of the
world of one out of two trades is one that is truncated; three topics are the one in
use, one that leaks and one left whose notice is late; a queue of one message delays
a message past any other step; two faults combine a crash, a late heartbeat
and a lost or expired session by twos. In docking, three windows make a group from which
one leaves two, the points are a corner, the place next to it and one out of view
above; three acts dock two windows and let the third join, leave or close. Every
bound is a constant named in its module (`MaxEvents`, `MaxConnects`, `MaxRestarts`,
`MaxRelaunches`, `MaxCrashes`, `MaxLate`, `MaxDrops`, `MaxChanges`, `MaxTrades`,
`MaxSotw`, `MaxQueue`, `MaxFaults`, `MaxWindows`, `MaxActs`).

*Deadlock* is not checked: each of these systems may stop, when its
requests are answered and its bounds are used up. That nothing is stuck before is
what the liveness properties say.

*Fairness.* A call or an execution that can go on goes on: the threads and tasks
of the runtime are scheduled, and the Event Store client completes every
operation, with success or an error. The event loop runs its queue, and a
catch-up subscription that is live delivers the events and its caught-up
callback. In the client, timers fire, a scheduled retry runs, a live instance
sends a heartbeat each second and answers. In the blotter, the router also opens a
session it is asked for, acknowledges topics and tells hosts of those that ended,
and the host goes on with a stream request. On the tile, only the two time-outs of an
execution are fair: neither the server nor the limit checker has to answer, and
nobody has to dismiss a notification. No fairness is given to
connections, crashes, late heartbeats, new requests or the user:
`StreamsConverge`, `StreamsRecover` and `BlotterRecovers` are conditional on a
connection that stays up. `Workspace` and `Docking` react to a user and to a desktop
that owe them nothing; they have safety properties only.

## 4. The proofs

They hold for any number of providers, calls, trades, services, instances,
operations, topics, pairs, panels and windows, any block size, any sizes of windows and
monitors, any number of tries, losses and restarts, with either reading of the continuations.

* `TradeExecutionProofs`, the id provider. `IdTyped` strengthens `IdTypeOK` where the
  types of the fields are not inductive by themselves. `HiValuesAreNeverShared` needs
  `HiInv`: a call holds a block only after its append, and every hi that is in the
  fields of an initialised provider, or about to be used by a running call, or
  issued, was reserved by a call of that same provider. With that the races on
  the fields cannot leak a block from one instance to another. Distinct blocks do not
  make distinct ids: lo may be read at 0, when a call that resumed has just reset it, or
  be incremented past its block. How far depends on how many calls run at a time on the
  threads of an instance, which the code does not limit: `InstancesMeetOnlyAcrossEdges`
  takes that number k as it comes, and says that nothing else makes two instances meet.
  With one call at a time they do not; with k, one id is past its block by
  less than k, and by no less than the other is into its own.
  `InstancesMeetOnlyAmongCalls` drops the condition: k is then the number of calls.
  `LoInv` counts the calls of a provider still to add to lo (`Adding`): lo and
  they together stay below `Multiplier + k`, because each of them checked lo or reset it
  and at most k run; and a call about to hand out a lo of 0 finds the one that
  reset it still among them, so it was not alone.
* `TradeExecutionProofs`, the engine. `NextRefinesIdNext` shows that the engine steps the
  id provider only as its own specification does, so its theorems carry over.
  `TradeInv` ties the stage of an execution to its aggregate's version and
  pending events (`StageInv`), each event to the call that wrote it
  (`EventInv`), and the writer of an outcome to the writer of the created event
  (`OpenedByWriter`): when ids collide, it is the expected version that keeps the
  second writer out. From it follow `TypeCorrect`, `TradeStreamsAreSound`,
  `AnswersAreTrue` and the refinement `EngineImplementsBook`, step by step.
  `EngineKeepsBook` proves what the book keeps of the book's own steps, and takes it over
  to the engine by the refinement: one outcome to a trade, one answer to a request.
  `EngineWritesLegalLogs` composes the engine with the caches: a history of its
  appends is a behaviour of `TradeLog`, so what `TradeCache` and `Analytics`
  assume of their writer (the guard `CanFollow` of `Write`) is what the engine does,
  whichever ids collide and whichever saves are lost. `NewEventFollows` is the argument: an
  event that leaves every stream in shape follows the events already in the store.
* `EventStoreCacheProofs`, for any operators in the place of the abstract members.
  The states of the world a log makes in turn are a recursive function, and
  `Induction`, drawn from the library's well-founded order of the naturals, shows that it
  exists and that `Replay` follows it event by event (`ReplayOfNext`). `CacheInv` joins
  the types, which include that the subscriptions are as many as the connections,
  to `ReplayInv`: the state of the world is the replay of the events up to a position
  of the log, and the queue holds the events of the subscription observed that come
  next, in order and none left out (`InOrder`), whatever work of replaced
  subscriptions is queued between them. `StreamsMirror` assumes of the operators what
  `Lawful` says: a world sent in full shows as itself, and merging the
  single update of an event into what a subscriber has shows the world after the
  event, for the worlds that a legal log makes (`Legal`: each event can follow those before).
  `RestingStreamsShowLog` is the safety half of `StreamsConverge`, without fairness:
  when the connection is up, its subscription has delivered the log and the loop has
  nothing left to do (`AtRest`), no stream asked for waits, is stale or shows less than the
  log. `RestInv` says what is still due until then: a disconnection in the queue
  has a connection after it (`Reconnected`, which disposing of work leaves as it is), a
  subscription that is up to date has made the cache so or has that queued, a stream
  to be opened has its opening queued. That events and the last item of work do come is
  the other half, and stays with TLC.
* `TradeCacheProofs` and `ReferenceDataProofs` show that the two caches are instances of that
  one, action by action, and that their operators are lawful (`TradesLawful`, on
  `RowsAreOfCreated`; `PairsLawful`), so the theorems hold of them.
  `ReplayIsRows` and `ReplayIsPairs` say what a replay is without the fold: by induction over a
  legal log, each trade created with the last status given it, each pair with its last
  change. So `TradesShowLastStatus` and `PairsShowLastChange` tell what a client sees from
  the log alone, and `TradeEventsFit` and `PairEventsFit`, that the dictionary operations of
  the caches, which throw on a key that is there or missing, never do.
  `BlottersShowLogAtRest` and `PairsShowLogAtRest` say in the same words what a client
  sees once the loop rests: the whole log, not stale.
  The logs they speak of are those of `TradeLog`, which the engine is shown to write
  (`EngineWritesLegalLogs`).
  `PairsInTurn` says that whatever requests interleave, the events of a pair come in turn:
  created first, then activated and deactivated alternately. `WriteInv` is why: the
  number of events of a pair tells the kind of the next one, and a request in flight holds
  an event that would be the next one at the version it loaded, so that the expected version
  that lets it be written makes it right.
* `WorkspaceProofs`, the spot tile. `TileInv` joins the types with the three invariants of the
  tile, for any number of trades and positions. The lemma
  `ReportKeepsTileInv` is the argument: whatever is reported, by an answer, a
  refusal, an error or a time-out, is reported of the execution held, and moves its
  stream out of the stages in which the tile is in flight. `TileWarns` takes the warning
  from the same invariant.
* `WorkspaceProofs`, the workspace. `Typed` are the types that are inductive without the rest.
  `TilesFollowServer` and `PairsFollowServer` need `PairsInv`: the two properties, and
  that nothing is loaded while the stream has not begun. `EachHasOnePlace` needs `PlaceInv`,
  which says what the property leaves open for components that are not initialised,
  initialised twice, or closed: where they can be, and that a window is
  there only with its registration in the popout region. Its lemmas go handler by
  handler (`InitAllKeepsPlaces`, `CloseTilesKeepsPlaces`, `PoppedOutIsPlaced`,
  `BackHomeIsPlaced`), so that the step of each action only cites its own. The bound of two on
  the registrations in `WorkspaceTypeCorrect` comes from `PlaceInv` as well.
* `ClientStatusProofs`. `ClientInv` says of each operation what it knows (`OpOK`: one
  that asked watches its instance, one that waits has none to ask) and
  that no instance is known without a connection; the lemmas `EndedIsOK`, `FoundIsOK` and
  `EmitKeepsInv` carry it over every emission of the dictionary; `OperationsAreWatched`
  and `NoneWaitsInVain` are its two halves.
  `PricesAreStreamed` rests on `AskedGoesOnOrEnds`: an operation that
  has asked goes on or ends, its end makes the price stale, and one that goes on
  watches what it asked. `FooterIsRight` needs `FooterInv`: every change of what
  the status is computed from is an event of the footer's model, so the status shown is
  the one of this moment.
* `BlotterProofs`. `ReconnectWorks` needs only the session (`LinkInv`). `StreamsAreEnded` and
  `EndsAreNotifiedOnce` need `BlotterInv`: the types, that a stream left behind will be told (`WillBeTold`), and
  `NoticeInv`: the end of a trade is told only once it is in the book, at most once on a
  topic, and not on the topic of the operation when it was notified already. Most steps add no end to any queue, and
  `QuietKeepsInv` does them all; the others are the change of a trade, a state of the world,
  and the message received. `RowsAreTheBook` adds what
  the operation holds and which instance serves it (`SessionInv`), rows of distinct
  trades (`RowsInv`), and `FeedInv`: of the messages on their way, the last that tells a trade
  tells it as the book has it, and a state of the world is followed by word of every
  trade that belongs in it; either one is on its way, which will replace the rows, or
  the rows are as the book says but for what the messages will tell. A change of the book
  appends what it changed, a message received moves what it tells from the queue into the rows
  (`ReceivedIsFed`, `ToldIsFed`), and with nothing on its way the rows are the book.
  `NewestFirstIs` draws from the definition of the sort that it orders what it is given.
* `DockingProofs`. `DockInv` is about one state of the desktop, a record, as the
  operators of the module are. `Sane` holds always: groups are of distinct windows, a
  window is in one of them (`Disjoint`), a name is opened again only when its window has
  closed, messages are about windows there have been. Until a group has held a
  closed window (`ghost`), so does `Fine`: members live, a lone one docked to itself
  (`Paired`), only founders overlap (`Apart`), storage remembers docked windows only
  (`Remembered`, before a restart), and for each name the marks are right or the last
  message about it on the bus will set them right (`Told`). `NoLoneMember` and the
  others are not inductive without that: what a handler leaves depends on the messages
  still to come. `JoinIs` and `LeaveIs` say once what the two functions do (`Joins`,
  `Leaves`: two windows begin a group, one comes last in a group it overlaps nobody
  of; one leaves, and the last to stay with it), and every part of the invariant is
  carried over these. Members move `Together` when a group is dragged or recovered, so
  who overlaps whom stays (`ShiftedWindows`). A release and a load join any number of
  pairs: `JoinedFine` goes over them by `Induction`, as above, and `JoinedLiving` says
  that pairs of open windows bring no closed one into a group.

The assumptions are those of the modules' `ASSUME`s. Model-checked only: liveness,
which needs fairness and ENABLED. The theorems about the cache at rest are about states that
the runs reach, also after a reconnection and with the whole log read.

## 5. What was found

With a run of its own:

* `TradeIdProvider.cs:46`: the comment says generation is serialised by the
  event loop, but the `await` releases it; two first calls reserve a block
  each, and the later assignments hand the same id out twice. The engine then
  refuses the second trade (`TradeStreamsSound` holds), so it shows as a failed
  execution.
* `AnalyticsServiceHost.cs:45`: each relaunch of the host counts all done trades
  again.
* `spotTileModel.js:200`: closing a position takes the serial disposable from the
  trade in flight, whose answer and time-outs are then dropped; the tile stays in
  flight and trades no more.

In the models, and allowed for by the properties, which say what holds besides:

* `TradeIdProvider.cs:48-57`, across instances: an id whose lo was just reset to 0, or is
  one past the block, equals one of the neighbouring block (`hi * 100 + 100` is
  `(hi + 1) * 100 + 0`), which may belong to another instance. It takes several
  calls running at once on one instance, and lo is past the block by less than there
  are of them; `InstancesMeetOnlyAcrossEdges` says that there are no other cases. The
  expected version refuses the second trade here too.
* `EventStoreCache.cs:161-171`: the caught-up callback of a replaced subscription
  marks the cleared cache fresh and publishes it. `Repository.cs:110`: the assertion
  that there is something to save fails when a pair is already as requested.
* `serviceObservableExtensions.js:91`: the placeholder is disposed in place of the
  subscription, so an operation goes on looking, watches a second instance and fails
  with it.
* `footerModel.js:85`: until the first status is heard, for ever when no service runs,
  the footer asks an empty lookup whether all are connected, and says Healthy.
* `pricingService.js:31`: a price turns stale when its stream fails; when the
  instance lives and the price stream behind it has died, it stays tradable.
* `connection.js:111-135`: a session lost while it is closing after its expiry ends as
  disconnected, neither retried nor offered for Reconnect.
* `connection.js:168`: a topic disposed of before its acknowledgement stays
  subscribed. `Broker.cs:117-140`: a client that leaves between the lookups and the
  subscription to the teardown events is streamed to for ever.
* `blotterModel.js:143`: after a late heartbeat the status empties the rows while the
  stream, whose own timer was reset in time, goes on without a new state of the world.
  A trade of a pair the client does not know makes the mapper throw after the
  retries, which ends the stream for good.
* `spotTileModel.js:118`, `spotTileLoader.js:51`: the model of a closed tile stays with
  the router, which refuses the tile of the pair when it comes back; the exception ends
  the stream of reference data. `referenceDataService.js:85`: pairs disabled while the
  stream is off stay.
* `appBootstrapper.js`, on the desktop: `init` waits for the desktop, and a
  tile created before it is initialised a second time; its place is then not
  covered by `ShownOnceAsSaved`. A popped out tile of a removed pair keeps its window, and
  closing that puts the tile back.
* `dockingManager.js:82, 168-179`: `_instances` keeps closed windows, and after a restart a
  window may join one; a window that closed before its `load` was delivered still
  tries to join, and can when the next window of its name has docked meanwhile. A closed
  window may stay in a group when it closes before its undocking is delivered
  (`HowClosedStays` lists the ways, and each of them happens in the run). `:298-303`: overlap is not
  checked against a window without group. `:629-646`: a coordinate 0 counts as unset, and
  a window dragged past its own size between two events docks to itself.

## 6. Not modelled

* Prices, PnL and chart series: data without control of their own (random walks,
  sums). Contracts, configuration, views and process start-up change no state that the
  properties are about.
* Event Store, crossbar, OpenFin, the WAMP and Rx libraries are external and appear as
  what the code relies on: expected versions, ordered delivery per session, callbacks
  on other threads, windows created and closed asynchronously.
* Of the service hosts: their one subscription field for all clients, the client counters
  behind the load, the price trunk that outlives its host, a truncated state of the
  world sent as not stale (no client model reads the flag of trades). One
  instance of the blotter service runs at a time.
* Of messaging: registration, waited for on the thread that has to process its
  answer; the threads are the library's.
* Of the client: a retry scheduled before its stream is disposed of, counted retries, the
  highlight of rows, the message that a position is closed (sent on every response
  and twice after a time-out), and the timer that dismisses whatever notification is
  shown (modelled, but nothing says how long one stays).
* Of docking: minimising and hiding, which the manager does for all windows of
  a group and which the desktop answers with events of its own; windows of the same
  name opened twice; frames.

Simplifications inside the modules: read pages and write batches of the
`Repository` are one (no aggregate has more than a handful of events); an answer
an instance sent before it crashed counts as lost; loads and trades are a few
values.

## 7. Plan

1. *LaunchOrKill wiring* of the trade execution factory over both connections;
   `App` and the launcher as its environment.
2. *Hosts with several clients*: the subscription fields and client counters.
3. *Docking*: minimising and restoring a group.
