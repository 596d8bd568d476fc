---------------------------- MODULE ReferenceData ----------------------------
(***************************************************************************)
(* Reference data end to end: ReferenceWriteService changes CurrencyPair    *)
(* aggregates and the Repository saves them, under optimistic concurrency,  *)
(* into the Event Store that CurrencyPairCache follows.  Requests are       *)
(* served concurrently (RpcOperation starts a task for each); a save can    *)
(* fail with its event written or not.                                      *)
(***************************************************************************)
EXTENDS CurrencyPairCache

CONSTANT Requests   \* activateCurrencyPair and deactivateCurrencyPair requests

VARIABLES
  wanted,     \* per request: the pair and whether it is to be active
  progress,   \* per request: new, save, done or failed
  version,    \* Version of the aggregate it loaded and changed
  pending     \* events of that aggregate not saved yet

requestVars == <<wanted, progress, version, pending>>
cacheState  == <<up, connects, sub, queue, current, sotw, isStale,
                 isCaughtUp, published, phase, view, stale>>
dataVars == <<log, cacheState, requestVars>>

Init ==
  /\ CacheInit
  /\ wanted \in [Requests -> [symbol : Symbols, active : BOOLEAN]]
  /\ progress = [r \in Requests |-> "new"]
  /\ version = [r \in Requests |-> -1]
  /\ pending = [r \in Requests |-> <<>>]

\* Version of the stream of a pair, -1 when there is none.
StreamVersion(i) == Cardinality(OwnEvents(log, i)) - 1

To(r, label) == progress' = [progress EXCEPT ![r] = label]

Event(i, k) == [kind |-> k, symbol |-> i]

\* CurrencyPairInitializer: one save of the created event and, for the pairs
\* that start active, the activated event; for a new stream only.
CreateCurrencyPair(i, activate) ==
  /\ StreamVersion(i) = -1
  /\ log' = log \o <<Event(i, "Created")>>
                \o IF activate THEN <<Event(i, "Activated")>> ELSE <<>>
  /\ UNCHANGED <<cacheState, requestVars>>

\* GetById: the aggregate is not found, or could not be read.
LoadFails(r) ==
  /\ progress[r] = "new"
  /\ To(r, "failed")
  /\ UNCHANGED <<log, cacheState, wanted, version, pending>>

\* GetById, then Activate or Deactivate, which raise no event when the pair is
\* so already.
LoadPair(r) == LET i == wanted[r].symbol
                isActive == LastOf(log, i) = "Activated"
                raised == IF wanted[r].active = isActive THEN <<>>
                          ELSE <<Event(i, IF isActive THEN "Deactivated"
                                          ELSE "Activated")>> IN
  /\ progress[r] = "new"
  /\ StreamVersion(i) # -1
  /\ pending' = [pending EXCEPT ![r] = raised]
  /\ version' = [version EXCEPT ![r] = StreamVersion(i) + Len(raised)]
  /\ To(r, "save")
  /\ UNCHANGED <<log, cacheState, wanted>>

\* Mutant: events are appended whatever the version of the stream.
SaveAsyncAnyVersion(r) ==
  /\ progress[r] = "save"
  /\ log' = log \o pending[r]
  /\ pending' = [pending EXCEPT ![r] = <<>>]
  /\ To(r, "done")
  /\ UNCHANGED <<cacheState, wanted, version>>

\* SaveAsync with the version before the pending events (a transaction with
\* nothing in it when there are none), then ClearPendingEvents.
SaveAsync(r) ==
  /\ progress[r] = "save"
  /\ version[r] - Len(pending[r]) = StreamVersion(wanted[r].symbol)
  /\ log' = log \o pending[r]
  /\ pending' = [pending EXCEPT ![r] = <<>>]
  /\ To(r, "done")
  /\ UNCHANGED <<cacheState, wanted, version>>

\* WrongExpectedVersion, or a failure that leaves the event written or not.
SaveFails(r) ==
  /\ progress[r] = "save"
  /\ \/ UNCHANGED log
     \/ /\ version[r] - Len(pending[r]) = StreamVersion(wanted[r].symbol)
        /\ log' = log \o pending[r]
  /\ To(r, "failed")
  /\ UNCHANGED <<cacheState, wanted, version, pending>>

Next ==
  \/ \E i \in Symbols, activate \in BOOLEAN : CreateCurrencyPair(i, activate)
  \/ \E r \in Requests : LoadFails(r) \/ LoadPair(r) \/ SaveAsync(r) \/ SaveFails(r)
  \/ CacheStep /\ UNCHANGED requestVars

Spec == Init /\ [][Next]_dataVars

-----------------------------------------------------------------------------
\* The log is one the caches can read: a pair is created once and first, and
\* is activated and deactivated in turn, however requests interleave; two that
\* loaded the same pair never both save.
PairsChangeInTurn ==
  \A n \in DOMAIN log : PairCanFollow(SubSeq(log, 1, n - 1), log[n])
=============================================================================
