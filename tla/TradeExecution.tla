--------------------------- MODULE TradeExecution ---------------------------
(***************************************************************************)
(* TradeExecutionEngine.ExecuteAsync over the Repository: take an id, save  *)
(* the new trade, execute it after a delay, save the outcome, answer.  The  *)
(* trades live in the Event Store, one stream "trade-<id>" each, appended   *)
(* to under optimistic concurrency; every save can fail, written or not,    *)
(* and the process can die between any two steps.                           *)
(***************************************************************************)
EXTENDS TradeIdProvider

CONSTANTS
  RejectedCalls   \* the calls that trade GBPJPY, which the engine rejects

ASSUME RejectedAssumption == RejectedCalls \subseteq Calls

VARIABLES
  stage,     \* where ExecuteAsync is
  version,   \* Version of the call's Trade aggregate
  pending,   \* number of its events not saved yet
  events,    \* [id, ver, kind, by]: the trade streams of the Event Store
  answers    \* the responses given to requesters

tradeVars == <<stage, version, pending, events, answers>>
allVars   == <<idVars, tradeVars>>

Outcomes == {"Completed", "Rejected"}
Kinds    == {"Created"} \union Outcomes
Active   == {"awaitId", "saveNew", "executing", "saveOutcome"}
Stages   == {"new", "answered", "failed", "dead"} \union Active

Init ==
  /\ IdInit
  /\ stage = [c \in Calls |-> "new"]
  /\ version = [c \in Calls |-> -1]
  /\ pending = [c \in Calls |-> 0]
  /\ events = {}
  /\ answers = {}

Outcome(c) == IF c \in RejectedCalls THEN "Rejected" ELSE "Completed"

ToStage(c, s) == stage' = [stage EXCEPT ![c] = s]

\* AggregateBase.RaiseEvent: the event is applied and waits to be saved.
RaiseEvent(c) ==
  /\ version' = [version EXCEPT ![c] = @ + 1]
  /\ pending' = [pending EXCEPT ![c] = @ + 1]

\* ExecuteAsync: the request arrives and asks for an id.
Execute(c) ==
  /\ stage[c] = "new"
  /\ GetNextId(c)
  /\ ToStage(c, "awaitId")
  /\ UNCHANGED <<version, pending, events, answers>>

\* While the id is being generated; a failure there reaches the requester.
GenerateId(c) ==
  /\ stage[c] = "awaitId"
  /\ CallStep(c)
  /\ IF pc'[c] = "failed" THEN ToStage(c, "failed") ELSE UNCHANGED stage
  /\ UNCHANGED <<version, pending, events, answers>>

\* new Trade(id, ...) raises TradeCreatedEvent.
CreateTrade(c) ==
  /\ stage[c] = "awaitId"
  /\ pc[c] = "got"
  /\ RaiseEvent(c)
  /\ ToStage(c, "saveNew")
  /\ UNCHANGED <<idVars, events, answers>>

\* Mutant: the rejected pair is never executed.
ExecuteImplNoReject(c) ==
  /\ stage[c] = "executing"
  /\ c \notin RejectedCalls
  /\ RaiseEvent(c)
  /\ ToStage(c, "saveOutcome")
  /\ UNCHANGED <<idVars, events, answers>>

\* ExecuteImpl: after the delay the trade completes or is rejected.
ExecuteImpl(c) ==
  /\ stage[c] = "executing"
  /\ RaiseEvent(c)
  /\ ToStage(c, "saveOutcome")
  /\ UNCHANGED <<idVars, events, answers>>

\* AppendToStreamAsync with the version the aggregate had before its pending
\* event: the stream's last event has that version (-1: there is no stream).
ExpectedVersion(c) == version[c] - pending[c]

\* Mutant: no concurrency control.
AnyVersion(c) == TRUE

VersionMatches(c) ==
  /\ \A e \in events : e.id = Id(c) => e.ver <= ExpectedVersion(c)
  /\ \/ ExpectedVersion(c) = -1
     \/ \E e \in events : e.id = Id(c) /\ e.ver = ExpectedVersion(c)

AppendToStream(c, kind) ==
  events' = events \union
    {[id |-> Id(c), ver |-> version[c], kind |-> kind, by |-> c]}

\* Mutant: saved events stay pending.
KeepPending(c) == UNCHANGED pending

ClearPending(c) == pending' = [pending EXCEPT ![c] = 0]

\* Mutant: a new trade is saved whatever its stream holds.
SaveNewAnyVersion(c) ==
  /\ stage[c] = "saveNew"
  /\ AppendToStream(c, "Created")
  /\ ClearPending(c)
  /\ ToStage(c, "executing")
  /\ UNCHANGED <<idVars, version, answers>>

\* The first SaveAsync.
SaveNew(c) ==
  /\ stage[c] = "saveNew"
  /\ VersionMatches(c)
  /\ AppendToStream(c, "Created")
  /\ ClearPending(c)
  /\ ToStage(c, "executing")
  /\ UNCHANGED <<idVars, version, answers>>

\* The second SaveAsync, then the response.
SaveOutcome(c) ==
  /\ stage[c] = "saveOutcome"
  /\ VersionMatches(c)
  /\ AppendToStream(c, Outcome(c))
  /\ ClearPending(c)
  /\ answers' = answers \union
       {[request |-> c, id |-> Id(c), kind |-> Outcome(c)]}
  /\ ToStage(c, "answered")
  /\ UNCHANGED <<idVars, version>>

\* Mutant: the exception of the second save is swallowed.
SaveFailsSwallowed(c) ==
  /\ stage[c] = "saveOutcome"
  /\ answers' = answers \union
       {[request |-> c, id |-> Id(c), kind |-> Outcome(c)]}
  /\ ToStage(c, "answered")
  /\ UNCHANGED <<idVars, version, pending, events>>

\* A save throws: wrong version, or the operation failed with the event
\* written or not.  The pending event stays, the requester gets the error.
SaveFails(c) ==
  /\ stage[c] \in {"saveNew", "saveOutcome"}
  /\ \/ UNCHANGED events
     \/ /\ VersionMatches(c)
        /\ AppendToStream(c, IF stage[c] = "saveNew" THEN "Created" ELSE Outcome(c))
  /\ ToStage(c, "failed")
  /\ UNCHANGED <<idVars, version, pending, answers>>

\* The process dies: ids being generated and executions under way with it.
Crash(p) ==
  /\ Restart(p)
  /\ stage' = [c \in Calls |->
       IF provider[c] = p /\ stage[c] \in Active THEN "dead" ELSE stage[c]]
  /\ UNCHANGED <<version, pending, events, answers>>

ExecuteStep(c) ==
  \/ GenerateId(c)
  \/ CreateTrade(c)
  \/ SaveNew(c)
  \/ ExecuteImpl(c)
  \/ SaveOutcome(c)
  \/ SaveFails(c)

Next ==
  \/ \E c \in Calls : Execute(c) \/ ExecuteStep(c)
  \/ \E p \in Providers : Crash(p)

Fairness == \A c \in Calls : WF_allVars(ExecuteStep(c))

Spec == Init /\ [][Next]_allVars /\ Fairness

-----------------------------------------------------------------------------
\* Every variable has its type.
TypeOK ==
  /\ IdTypeOK
  /\ stage \in [Calls -> Stages]
  /\ version \in [Calls -> -1..1]
  /\ pending \in [Calls -> 0..1]
  /\ events \subseteq [id : Int, ver : Int, kind : Kinds, by : Calls]
  /\ answers \subseteq [request : Calls, id : Int, kind : Outcomes]

\* A trade stream is written by one execution only, even when two executions
\* were given the same id: the expected version of SaveAsync keeps them apart.
OneWriterPerTrade ==
  \A e, f \in events : e.id = f.id => e.by = f.by

\* A trade stream is one created event, then at most one outcome.
TradeStreamShape ==
  /\ \A e \in events :
       /\ e.ver \in {0, 1}
       /\ (e.ver = 0) <=> (e.kind = "Created")
       /\ \E f \in events : f.id = e.id /\ f.ver = 0
  /\ \A e, f \in events : e.id = f.id /\ e.ver = f.ver => e = f

\* A trade of the Event Store is sound: one writer, one outcome at most
\* (TradeExecutionEngine.cs:50-58).
TradeStreamsSound == OneWriterPerTrade /\ TradeStreamShape

\* A requester is told only what is on record: the response leaves after the
\* outcome is saved, and says that outcome.
AnswersAreOnRecord ==
  \A a \in answers :
    \E e \in events : e.id = a.id /\ e.kind = a.kind /\ e.by = a.request

\* A trade stays pending for ever only if the execution that opened it was
\* answered with an error or died.
PendingIsAccountedFor ==
  \A c \in Calls :
    stage[c] = "executing" ~>
      \/ stage[c] \in {"failed", "dead"}
      \/ \E e \in events : e.by = c /\ e.kind \in Outcomes

\* The engine implements the abstract trade book.
Book == INSTANCE TradeBook WITH
  Requests <- Calls,
  opened   <- {e.id : e \in {f \in events : f.kind = "Created"}},
  settled  <- {[id |-> e.id, kind |-> e.kind] :
                 e \in {f \in events : f.kind \in Outcomes}}

ImplementsBook == Book!BookSpec
=============================================================================
