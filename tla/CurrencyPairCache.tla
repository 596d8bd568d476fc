-------------------------- MODULE CurrencyPairCache --------------------------
(***************************************************************************)
(* CurrencyPairCache.cs: the cache of currency pairs behind the reference   *)
(* data.  Every pair is cached with whether it is enabled, but subscribers  *)
(* are told of the enabled ones only, and of no event that leaves them      *)
(* alone: a pair's creation is filtered out by IsValidUpdate.               *)
(***************************************************************************)
EXTENDS Integers, Sequences, FiniteSets, FiniteSetsExt

CONSTANTS Streams, Symbols, MaxEvents, MaxConnects

ASSUME BoundsAssumption ==
  {MaxEvents, MaxConnects} \subseteq Nat /\ IsFiniteSet(Streams)

VARIABLES log, up, connects, sub, queue, current, sotw, isStale, isCaughtUp,
          published, phase, view, stale

PairEvents == [kind : {"Created", "Activated", "Deactivated"}, symbol : Symbols]

\* Where a log has the events of a pair.
OwnEvents(trace, i) == {n \in DOMAIN trace : trace[n].symbol = i}

\* The last event of a pair, "none" before its first.
LastOf(trace, i) ==
  LET own == OwnEvents(trace, i)
  IN  IF own = {} THEN "none" ELSE trace[Max(own)].kind

\* The CurrencyPair aggregate raises an event only for a change.
PairCanFollow(trace, e) ==
  LET last == LastOf(trace, e.symbol)
  IN  CASE e.kind = "Created"     -> last = "none"
        [] e.kind = "Activated"   -> last \in {"Created", "Deactivated"}
        [] e.kind = "Deactivated" -> last = "Activated"

\* A pair is created disabled; the other events enable and disable it.
PairUpdate(pairs, e) ==
  IF e.kind = "Created"
    THEN pairs \union {[symbol |-> e.symbol, enabled |-> FALSE]}
    ELSE {IF p.symbol = e.symbol
            THEN [p EXCEPT !.enabled = (e.kind = "Activated")] ELSE p :
            p \in pairs}

\* Mutant: the state of the world holds the disabled pairs too.
PairLoadAll(symbols, pairs) == {p.symbol : p \in pairs}

\* A state of the world holds the enabled pairs.
PairLoad(symbols, pairs) == {p.symbol : p \in {q \in pairs : q.enabled}}

PairSingleUpdate(pairs, e) ==
  IF e.kind = "Created" THEN {}
  ELSE {[symbol |-> p.symbol,
         type   |-> IF e.kind = "Activated" THEN "Added" ELSE "Removed"] :
          p \in {q \in pairs : q.symbol = e.symbol}}

Updated(updates, t) == {u.symbol : u \in {w \in updates : w.type = t}}

\* What a subscriber makes of an update, given UpdateTypeDto.
PairMerge(symbols, updates) ==
  (symbols \union Updated(updates, "Added")) \ Updated(updates, "Removed")

INSTANCE EventStoreCache WITH
  Events <- PairEvents, CanFollow <- PairCanFollow,
  UpdateStateOfTheWorld <- PairUpdate, EmptyView <- {},
  Load <- PairLoad, MapSingleEvent <- PairSingleUpdate, Merge <- PairMerge
=============================================================================
