--------------------------- MODULE TradeIdProvider ---------------------------
(***************************************************************************)
(* The Hi/Lo generator of trade ids (TradeIdProvider.cs).  A provider hands *)
(* out hi * Multiplier + lo; it reserves a new hi by appending one event to *)
(* the stream "TradeIdentifier", whose version is the hi, under the Event   *)
(* Store's optimistic concurrency control.  Several providers (service      *)
(* instances, or the ones a reconnection leaves behind) share that stream.  *)
(*                                                                          *)
(* GetNextId is pushed through the provider's event loop, one call at a     *)
(* time, but its await gives the loop back: what follows the await runs on  *)
(* the thread that completes the Event Store operation, statement by        *)
(* statement beside the loop.                                               *)
(***************************************************************************)
EXTENDS Integers

CONSTANTS
  Providers,            \* the TradeIdProvider objects sharing one Event Store
  Calls,                \* the calls of GetNextId
  NoCall,               \* nobody holds the thread
  Multiplier,           \* ids per reserved hi (100 in the code)
  HiValueTryCount,      \* reservations tried before giving up (3 in the code)
  SerialContinuations,  \* TRUE: a provider's continuations run one at a time
  MaxRestarts           \* bound on the crashes of provider processes

ASSUME NoCallAssumption     == NoCall \notin Calls
ASSUME MultiplierAssumption == Multiplier \in Nat \ {0}
ASSUME TryCountAssumption   == HiValueTryCount \in Nat \ {0}
ASSUME SerialAssumption     == SerialContinuations \in BOOLEAN
ASSUME RestartsAssumption   == MaxRestarts \in Nat

VARIABLES
  tidVersion,   \* version of the stream TradeIdentifier, -1 when there is none
  hiValue, loValue, initialized,   \* the fields of each provider
  loop,         \* the call on the provider's event loop thread
  resumed,      \* the call on the thread completing Event Store operations
  pc,           \* where each call is
  provider,     \* the provider a call was made on
  triesLeft,    \* its reservations left
  tradeId,      \* version of the TradeId aggregate it has read
  block,        \* the hi it reserved, -1 when none
  issued,       \* the pair of field values its id was computed from
  restarts

providerVars == <<hiValue, loValue, initialized>>
threadVars   == <<loop, resumed>>
callVars     == <<provider, triesLeft, tradeId, block, issued>>
idVars == <<tidVersion, providerVars, threadVars, pc, callVars, restarts>>

Waiting == {"queued", "read", "append", "assignHi"}
Running == {"assignLo", "setInitialized", "increment", "emit"}
Ended   == {"got", "failed", "dead"}

Id(c) == issued[c].hi * Multiplier + issued[c].lo

IdInit ==
  /\ tidVersion = -1
  /\ hiValue = [p \in Providers |-> 0]
  /\ loValue = [p \in Providers |-> 0]
  /\ initialized = [p \in Providers |-> FALSE]
  /\ loop = [p \in Providers |-> NoCall]
  /\ resumed = [p \in Providers |-> NoCall]
  /\ pc = [c \in Calls |-> "idle"]
  /\ provider \in [Calls -> Providers]
  /\ triesLeft = [c \in Calls |-> 0]
  /\ tradeId = [c \in Calls |-> -1]
  /\ block = [c \in Calls |-> -1]
  /\ issued = [c \in Calls |-> [hi |-> 0, lo |-> 0]]
  /\ restarts = 0

Goto(c, label) == pc' = [pc EXCEPT ![c] = label]

\* GetNextId: the subscription is queued on the event loop.
GetNextId(c) ==
  /\ pc[c] = "idle"
  /\ Goto(c, "queued")
  /\ UNCHANGED <<tidVersion, providerVars, threadVars, callVars, restarts>>

\* Mutant: the await does not give the loop back.
CheckHoldingLoop(c) == LET p == provider[c] IN
  /\ pc[c] = "queued"
  /\ loop[p] = NoCall
  /\ loop' = [loop EXCEPT ![p] = c]
  /\ IF ~initialized[p] \/ loValue[p] >= Multiplier
       THEN Goto(c, "read") /\ triesLeft' = [triesLeft EXCEPT ![c] = HiValueTryCount]
       ELSE Goto(c, "increment") /\ UNCHANGED triesLeft
  /\ UNCHANGED <<tidVersion, providerVars, resumed, provider, tradeId, block,
                 issued, restarts>>

\* The loop runs the call up to its first await (which frees the loop) or
\* into the rest of the body (which keeps it).
Check(c) == LET p == provider[c] IN
  /\ pc[c] = "queued"
  /\ loop[p] = NoCall
  /\ \/ /\ ~initialized[p] \/ loValue[p] >= Multiplier
        /\ Goto(c, "read")
        /\ triesLeft' = [triesLeft EXCEPT ![c] = HiValueTryCount]
        /\ UNCHANGED loop
     \/ /\ initialized[p] /\ loValue[p] < Multiplier
        /\ Goto(c, "increment")
        /\ loop' = [loop EXCEPT ![p] = c]
        /\ UNCHANGED triesLeft
  /\ UNCHANGED <<tidVersion, providerVars, resumed, provider, tradeId, block,
                 issued, restarts>>

\* GetById<TradeId>: the version of the stream, -1 for a new aggregate when
\* the stream is not found.  Any other failure reaches the caller.
ReadTradeId(c) ==
  /\ pc[c] = "read"
  /\ \/ /\ tradeId' = [tradeId EXCEPT ![c] = tidVersion]
        /\ Goto(c, "append")
     \/ /\ Goto(c, "failed")
        /\ UNCHANGED tradeId
  /\ UNCHANGED <<tidVersion, providerVars, threadVars, provider, triesLeft,
                 block, issued, restarts>>

\* Mutant: the reservation is returned without being saved.
ReserveHiUnsaved(c) ==
  /\ pc[c] = "append"
  /\ block' = [block EXCEPT ![c] = tradeId[c] + 1]
  /\ Goto(c, "assignHi")
  /\ UNCHANGED <<tidVersion, providerVars, threadVars, provider, triesLeft,
                 tradeId, issued, restarts>>

\* Mutant: the append accepts any version of the stream.
ReserveHiAnyVersion(c) ==
  /\ pc[c] = "append"
  /\ tidVersion' = tidVersion + 1
  /\ block' = [block EXCEPT ![c] = tradeId[c] + 1]
  /\ Goto(c, "assignHi")
  /\ UNCHANGED <<providerVars, threadVars, provider, triesLeft, tradeId,
                 issued, restarts>>

\* IncrementId and SaveAsync: appends only if nobody appended since the read.
ReserveHi(c) ==
  /\ pc[c] = "append"
  /\ tradeId[c] = tidVersion
  /\ tidVersion' = tidVersion + 1
  /\ block' = [block EXCEPT ![c] = tradeId[c] + 1]
  /\ Goto(c, "assignHi")
  /\ UNCHANGED <<providerVars, threadVars, provider, triesLeft, tradeId,
                 issued, restarts>>

\* WrongExpectedVersionException: read again, until no try is left.
Conflict(c) ==
  /\ pc[c] = "append"
  /\ tradeId[c] # tidVersion
  /\ triesLeft' = [triesLeft EXCEPT ![c] = @ - 1]
  /\ Goto(c, IF triesLeft[c] > 1 THEN "read" ELSE "failed")
  /\ UNCHANGED <<tidVersion, providerVars, threadVars, provider, tradeId,
                 block, issued, restarts>>

\* The append fails otherwise (connection lost, operation timed out): nobody
\* knows whether the event was written.
AppendLost(c) ==
  /\ pc[c] = "append"
  /\ \/ UNCHANGED tidVersion
     \/ tradeId[c] = tidVersion /\ tidVersion' = tidVersion + 1
  /\ Goto(c, "failed")
  /\ UNCHANGED <<providerVars, threadVars, callVars, restarts>>

\* The statements after the await.
AssignHi(c) == LET p == provider[c] IN
  /\ pc[c] = "assignHi"
  /\ SerialContinuations => resumed[p] = NoCall
  /\ resumed' = [resumed EXCEPT ![p] = c]
  /\ hiValue' = [hiValue EXCEPT ![p] = block[c]]
  /\ Goto(c, "assignLo")
  /\ UNCHANGED <<tidVersion, loValue, initialized, loop, callVars, restarts>>

AssignLo(c) ==
  /\ pc[c] = "assignLo"
  /\ loValue' = [loValue EXCEPT ![provider[c]] = 0]
  /\ Goto(c, "setInitialized")
  /\ UNCHANGED <<tidVersion, hiValue, initialized, threadVars, callVars,
                 restarts>>

SetInitialized(c) ==
  /\ pc[c] = "setInitialized"
  /\ initialized' = [initialized EXCEPT ![provider[c]] = TRUE]
  /\ Goto(c, "increment")
  /\ UNCHANGED <<tidVersion, hiValue, loValue, threadVars, callVars, restarts>>

Increment(c) ==
  /\ pc[c] = "increment"
  /\ loValue' = [loValue EXCEPT ![provider[c]] = @ + 1]
  /\ Goto(c, "emit")
  /\ UNCHANGED <<tidVersion, hiValue, initialized, threadVars, callVars,
                 restarts>>

\* obs.OnNext, obs.OnCompleted: the id is computed from the fields as they
\* are now, and the thread is free.
Release(holder, c) ==
  [p \in Providers |-> IF holder[p] = c THEN NoCall ELSE holder[p]]

Emit(c) == LET p == provider[c] IN
  /\ pc[c] = "emit"
  /\ issued' = [issued EXCEPT ![c] = [hi |-> hiValue[p], lo |-> loValue[p]]]
  /\ Goto(c, "got")
  /\ loop' = Release(loop, c)
  /\ resumed' = Release(resumed, c)
  /\ UNCHANGED <<tidVersion, providerVars, provider, triesLeft, tradeId,
                 block, restarts>>

\* The process of a provider dies with its calls; the next one starts afresh.
Restart(p) ==
  /\ restarts < MaxRestarts
  /\ restarts' = restarts + 1
  /\ hiValue' = [hiValue EXCEPT ![p] = 0]
  /\ loValue' = [loValue EXCEPT ![p] = 0]
  /\ initialized' = [initialized EXCEPT ![p] = FALSE]
  /\ loop' = [loop EXCEPT ![p] = NoCall]
  /\ resumed' = [resumed EXCEPT ![p] = NoCall]
  /\ pc' = [c \in Calls |->
       IF provider[c] = p /\ pc[c] \in Waiting \union Running
         THEN "dead" ELSE pc[c]]
  /\ UNCHANGED <<tidVersion, callVars>>

\* What a call does once it is made.
CallStep(c) ==
  \/ Check(c)
  \/ ReadTradeId(c)
  \/ ReserveHi(c)
  \/ Conflict(c)
  \/ AppendLost(c)
  \/ AssignHi(c)
  \/ AssignLo(c)
  \/ SetInitialized(c)
  \/ Increment(c)
  \/ Emit(c)

IdNext ==
  \/ \E c \in Calls : GetNextId(c) \/ CallStep(c)
  \/ \E p \in Providers : Restart(p)

\* Threads are scheduled: a call that can go on goes on.
IdFairness == \A c \in Calls : WF_idVars(CallStep(c))

IdSpec == IdInit /\ [][IdNext]_idVars /\ IdFairness

-----------------------------------------------------------------------------
\* Every variable has its type; what is read or reserved exists in the stream.
IdTypeOK ==
  /\ tidVersion \in Nat \union {-1}
  /\ hiValue \in [Providers -> Int]
  /\ loValue \in [Providers -> Nat]
  /\ initialized \in [Providers -> BOOLEAN]
  /\ loop \in [Providers -> Calls \union {NoCall}]
  /\ resumed \in [Providers -> Calls \union {NoCall}]
  /\ pc \in [Calls -> {"idle"} \union Waiting \union Running \union Ended]
  /\ provider \in [Calls -> Providers]
  /\ triesLeft \in [Calls -> 0..HiValueTryCount]
  /\ tradeId \in [Calls -> -1..tidVersion]
  /\ block \in [Calls -> -1..tidVersion]
  /\ issued \in [Calls -> [hi : Int, lo : Nat]]
  /\ restarts \in 0..MaxRestarts

\* No two calls, of whichever instances, reserve the same hi value: the
\* expected version of the append in GetHiValueFromEventStore decides.
HiReservedOnce ==
  \A c, d \in Calls : c # d /\ block[c] # -1 => block[c] # block[d]

\* Ids handed out by two instances never come from the same hi block, even
\* though each computes them from fields its own calls race on.
InstancesShareNoHi ==
  \A c, d \in Calls :
    /\ pc[c] = "got" /\ pc[d] = "got"
    /\ provider[c] # provider[d]
    => issued[c].hi # issued[d].hi

\* A hi value belongs to one call while ids are reserved, and to one instance
\* while they are handed out (TradeIdProvider.cs:44-53, 82-100).
HiValuesNotShared == HiReservedOnce /\ InstancesShareNoHi

\* The ids handed out are distinct ("generate TradeIds", TradeIdProvider.cs
\* lines 14-16, serialized by the event loop, lines 40-41).
UniqueIds ==
  \A c, d \in Calls :
    c # d /\ pc[c] = "got" /\ pc[d] = "got" => Id(c) # Id(d)

\* A call of GetNextId ends: conflicts are retried a bounded number of times
\* and an await never keeps the event loop from the calls behind it.
EveryCallEnds == \A c \in Calls : pc[c] = "queued" ~> pc[c] \in Ended
=============================================================================
