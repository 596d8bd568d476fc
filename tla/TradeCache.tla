----------------------------- MODULE TradeCache -----------------------------
(***************************************************************************)
(* TradeCache.cs: the cache of trades behind the blotter and the analytics. *)
(* A trade is its id and its status; a subscriber (the blotter) replaces    *)
(* its rows with a state of the world and its row of a trade with an update.*)
(***************************************************************************)
EXTENDS TradeLog, FiniteSets

CONSTANTS Streams, MaxEvents, MaxConnects

ASSUME BoundsAssumption ==
  {MaxEvents, MaxConnects} \subseteq Nat /\ IsFiniteSet(Streams)

VARIABLES up, connects, sub, queue, current, sotw, isStale, isCaughtUp,
          published, phase, view, stale

StatusOf(e) ==
  CASE e.kind = "Created"   -> "Pending"
    [] e.kind = "Completed" -> "Done"
    [] e.kind = "Rejected"  -> "Rejected"

\* Mutant: a rejected trade keeps its pending status in the cache.
TradeUpdateNoReject(trades, e) ==
  CASE e.kind = "Created"   -> trades \union {[id |-> e.id, status |-> "Pending"]}
    [] e.kind = "Completed" -> {IF t.id = e.id THEN [t EXCEPT !.status = "Done"]
                                ELSE t : t \in trades}
    [] e.kind = "Rejected"  -> trades

\* A created event adds the trade, the others set the status of one.
TradeUpdate(trades, e) ==
  IF e.kind = "Created"
    THEN trades \union {[id |-> e.id, status |-> "Pending"]}
    ELSE {IF t.id = e.id THEN [t EXCEPT !.status = StatusOf(e)] ELSE t :
            t \in trades}

\* BlotterModel: a state of the world replaces the rows.
BlotterLoad(rows, trades) == trades

\* The trade of the event, as cached, with the status the event gives it.
TradeSingleUpdate(trades, e) ==
  {[t EXCEPT !.status = StatusOf(e)] : t \in {u \in trades : u.id = e.id}}

\* BlotterModel: each trade of an update replaces its row or becomes one.
BlotterMerge(rows, trades) ==
  {r \in rows : \A t \in trades : t.id # r.id} \union trades

INSTANCE EventStoreCache WITH
  Events <- TradeEvents, CanFollow <- TradeCanFollow,
  UpdateStateOfTheWorld <- TradeUpdate, EmptyView <- {},
  Load <- BlotterLoad, MapSingleEvent <- TradeSingleUpdate, Merge <- BlotterMerge
=============================================================================
