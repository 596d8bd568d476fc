------------------------------ MODULE Analytics ------------------------------
(***************************************************************************)
(* The analytics service: AnalyticsServiceHost feeds the done trades of the *)
(* trade cache to one AnalyticsEngine, whose trackers add up what was       *)
(* traded.  The engine is made once; the host is made anew for every broker *)
(* connection and reads the cache's stream from its start each time.        *)
(*                                                                          *)
(* A stream of the cache stands for the host's subscription; its view is    *)
(* how often the engine has counted each trade.  Prices, which change the   *)
(* value of a position and not its amount, are left out.                    *)
(***************************************************************************)
EXTENDS TradeCache

CONSTANT MaxRelaunches   \* bound on the broker connections lost

VARIABLE relaunches

analyticsVars == <<log, up, connects, sub, queue, current, sotw, isStale,
                   isCaughtUp, published, phase, view, stale, relaunches>>

\* CurrencyPairTracker.OnTrade for every done trade of a message.
CountDone(counts, trades) ==
  [i \in TradeIds |->
     counts[i] + IF [id |-> i, status |-> "Done"] \in trades THEN 1 ELSE 0]

Cache == INSTANCE EventStoreCache WITH
  Events <- TradeEvents, CanFollow <- TradeCanFollow,
  UpdateStateOfTheWorld <- TradeUpdate, EmptyView <- [i \in TradeIds |-> 0],
  Load <- CountDone, MapSingleEvent <- TradeSingleUpdate, Merge <- CountDone

Init == Cache!CacheInit /\ relaunches = 0

\* The broker connection is lost: LaunchOrKill disposes of the host, and of
\* its subscription, but keeps the engine for the next one.
KillHost(s) ==
  /\ phase[s] # "off"
  /\ relaunches < MaxRelaunches
  /\ relaunches' = relaunches + 1
  /\ phase' = [phase EXCEPT ![s] = "off"]
  /\ queue' = SelectSeq(queue, LAMBDA i : i # Cache!OpenItem(s))
  /\ UNCHANGED <<log, up, connects, sub, current, sotw, isStale, isCaughtUp,
                 published, view, stale>>

Next ==
  \/ Cache!CacheNext /\ UNCHANGED relaunches
  \/ \E s \in Streams : KillHost(s)

Spec == Init /\ [][Next]_analyticsVars

-----------------------------------------------------------------------------
\* The PnL is that of the done trades (README.md of Server.Analytics, line 3:
\* "subscribes to done trades from Event Store ... and provides PnL data"): the
\* engine counts a trade at most once.
DoneTradesCountedOnce ==
  \A s \in Streams, i \in TradeIds : view[s][i] <= 1
=============================================================================
