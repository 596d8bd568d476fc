-------------------------- MODULE ClientStatusProofs --------------------------
(***************************************************************************)
(* For any instances, operations, loads and bounds: what an operation      *)
(* asked it watches, a wait is for want of an instance, no price outlives  *)
(* its stream as tradable, and the footer tells the truth.                 *)
(***************************************************************************)
EXTENDS ClientStatus, TLAPS

-----------------------------------------------------------------------------
(* The service client.                                                     *)

OpOK(o, p) ==
  /\ p \in Operation
  /\ Asked(p) <=> p.target # None
  /\ Asked(p) <=> p.watch # {}
  /\ p.status = "waiting" => p.looking
  /\ p.looking => p.status = "waiting" \/ Asked(p)
  /\ p.status = "waiting" => o \in StreamOps
  /\ Asked(p) => p.target \in p.watch

\* The properties of the operations hold of each of them, and they need that
\* nothing is known of any instance without the connection.
ClientInv ==
  /\ up \in BOOLEAN /\ listening = up
  /\ alive \subseteq Instances
  /\ dict \in [Instances -> Loads \cup {None, Lost}]
  /\ late \in 0..MaxLate /\ drops \in 0..MaxDrops
  /\ ~up => \A i \in Instances : dict[i] = None
  /\ op \in [Ops -> Operation]
  /\ \A o \in Ops :
       /\ OpOK(o, op[o])
       /\ \A i \in op[o].watch : dict[i] # None
       /\ op[o].status = "waiting" => Connected(dict) = {}

\* What ClientInv is for.
LEMMA ClientInvImplies ==
  ClientInv => ClientTypeOK /\ AskedIsWatched /\ WaitsOnlyWhenNone
<1> SUFFICES ASSUME ClientInv PROVE ClientTypeOK /\ AskedIsWatched /\ WaitsOnlyWhenNone
  OBVIOUS
<1>1. ClientTypeOK
  BY DEF ClientInv, ClientTypeOK, OpOK
<1>2. AskedIsWatched
  <2> SUFFICES ASSUME NEW o \in Ops, Asked(op[o])
               PROVE  up /\ op[o].target \in op[o].watch
                      /\ \A i \in op[o].watch : dict[i] # None
    BY DEF AskedIsWatched
  <2>1. op[o].target \in op[o].watch /\ op[o].watch \subseteq Instances
    BY DEF ClientInv, OpOK, Operation
  <2>2. \A i \in op[o].watch : dict[i] # None
    BY DEF ClientInv
  <2>3. up
    BY <2>1, <2>2 DEF ClientInv
  <2> QED
    BY <2>1, <2>2, <2>3
<1>3. WaitsOnlyWhenNone
  BY DEF ClientInv, WaitsOnlyWhenNone, OpOK
<1> QED
  BY <1>1, <1>2, <1>3

Statuses == {"idle", "waiting", "asked", "streaming", "done", "failed"}

\* The fields of the records that are made of others.
LEMMA EndedIs ==
  ASSUME NEW s \in Statuses
  PROVE  /\ Ended(s) \in Operation /\ Ended(s).status = s
         /\ Ended(s).target = None /\ Ended(s).watch = {} /\ ~Ended(s).looking
<1>1. /\ Idle \in Operation
      /\ Idle.target = None /\ Idle.watch = {} /\ Idle.looking = FALSE
  BY DEF Idle, Operation
<1> QED
  BY <1>1 DEF Ended, Operation, Statuses

LEMMA WaitingIs ==
  /\ Waiting \in Operation /\ Waiting.status = "waiting"
  /\ Waiting.target = None /\ Waiting.watch = {} /\ Waiting.looking
<1>1. "waiting" \in Statuses
  BY DEF Statuses
<1> QED
  BY <1>1, EndedIs DEF Waiting, Operation

LEMMA FoundWaitingIs ==
  ASSUME NEW i \in Instances, NEW p, p = [Found(Waiting, i) EXCEPT !.looking = TRUE]
  PROVE  /\ p \in Operation /\ p.status = "asked"
         /\ p.target = i /\ p.watch = {i} /\ p.looking
<1>1. /\ Found(Waiting, i) \in Operation /\ Found(Waiting, i).status = "asked"
      /\ Found(Waiting, i).target = i /\ Found(Waiting, i).watch = {i}
  BY WaitingIs DEF Found, Operation
<1> QED
  BY <1>1 DEF Operation

\* An operation that ended holds nothing.
LEMMA EndedIsOK ==
  ASSUME NEW o, NEW s \in {"idle", "done", "failed"}
  PROVE  OpOK(o, Ended(s)) /\ Ended(s).watch = {} /\ Ended(s).status = s
BY EndedIs, ClientAssumption DEF OpOK, Statuses, Asked

\* An operation that finds an instance while it looks has asked one.
LEMMA FoundIsOK ==
  ASSUME NEW o, NEW p, OpOK(o, p), p.looking, NEW i \in Instances
  PROVE  /\ OpOK(o, Found(p, i)) /\ Asked(Found(p, i))
         /\ Found(p, i).watch = p.watch \cup {i}
<1>1. p \in Operation /\ (p.status = "waiting" \/ Asked(p))
  BY DEF OpOK
<1>2. CASE p.status = "waiting"
  BY <1>1, <1>2, ClientAssumption DEF OpOK, Found, Operation, Asked
<1>3. CASE Asked(p)
  BY <1>1, <1>3, ClientAssumption DEF OpOK, Found, Operation, Asked
<1> QED
  BY <1>1, <1>2, <1>3

\* A stream that waits, or a request that has failed for want of an instance.
LEMMA NoneAvailableIsOK ==
  ASSUME NEW o \in Ops, NEW p, OpOK(o, p)
  PROVE  /\ OpOK(o, NoneAvailable(o, p))
         /\ NoneAvailable(o, p).watch \subseteq p.watch
         /\ NoneAvailable(o, p).status \in {p.status, "failed"}
BY EndedIsOK DEF NoneAvailable, End

LEMMA LeastLoadConnected ==
  ASSUME NEW d, NEW i \in LeastLoad(d)
  PROVE  i \in Instances /\ d[i] \in Loads /\ d[i] # None /\ Connected(d) # {}
BY ClientAssumption DEF LeastLoad, Connected

\* The dictionary may be emitted with whatever does not forget an instance.
LEMMA EmitKeepsInv ==
  ASSUME ClientInv, NEW d, up' = up, up, listening' = listening, Emit(d),
         d \in [Instances -> Loads \cup {None, Lost}],
         \A i \in Instances : dict[i] # None => d[i] # None,
         alive' = alive, late' \in 0..MaxLate, drops' = drops
  PROVE  ClientInv'
<1>1. dict' = d
  BY DEF Emit
<1>2. CASE /\ Connected(d) = {}
           /\ op' = [o \in Ops |-> IF op[o].looking THEN NoneAvailable(o, op[o])
                                   ELSE op[o]]
  <2> SUFFICES ASSUME NEW o \in Ops
               PROVE  OpOK(o, op'[o]) /\ \A i \in op'[o].watch : d[i] # None
    BY <1>1, <1>2 DEF ClientInv, OpOK
  <2>1. OpOK(o, op[o]) /\ op[o].watch \subseteq Instances
        /\ \A i \in op[o].watch : d[i] # None
    BY DEF ClientInv, OpOK, Operation
  <2> QED
    BY <1>2, <2>1, NoneAvailableIsOK
<1>3. ASSUME NEW i \in LeastLoad(d),
             op' = [o \in Ops |-> IF op[o].looking THEN Found(op[o], i) ELSE op[o]]
      PROVE  ClientInv'
  <2> SUFFICES ASSUME NEW o \in Ops
               PROVE  /\ OpOK(o, op'[o]) /\ \A j \in op'[o].watch : d[j] # None
                      /\ op'[o].status # "waiting"
    BY <1>1, <1>3 DEF ClientInv, OpOK
  <2>1. OpOK(o, op[o]) /\ op[o].watch \subseteq Instances
        /\ \A j \in op[o].watch : d[j] # None
    BY DEF ClientInv, OpOK, Operation
  <2>2. i \in Instances /\ d[i] # None
    BY LeastLoadConnected
  <2>3. CASE op[o].looking
    <3>1. op'[o] = Found(op[o], i)
      BY <1>3, <2>3
    <3>2. /\ OpOK(o, Found(op[o], i)) /\ Asked(Found(op[o], i))
          /\ Found(op[o], i).watch = op[o].watch \cup {i}
      BY <2>1, <2>2, <2>3, FoundIsOK
    <3> QED
      BY <2>1, <2>2, <3>1, <3>2 DEF Asked
  <2>4. CASE ~op[o].looking
    BY <1>3, <2>1, <2>4 DEF OpOK
  <2> QED
    BY <2>3, <2>4
<1> QED
  BY <1>2, <1>3 DEF Emit

\* One operation may become any that is sound, watches known instances, and
\* waits only when there is none.
LEMMA BeginKeepsInv ==
  ASSUME ClientInv, NEW o \in Ops, NEW p, Begin(o, p), OpOK(o, p),
         \A i \in p.watch : dict[i] # None,
         p.status = "waiting" => Connected(dict) = {}
  PROVE  ClientInv'
<1>1. op' = [op EXCEPT ![o] = p] /\ UNCHANGED <<up, listening, alive, dict, late, drops>>
  BY DEF Begin
<1>2. \A q \in Ops : op'[q] = IF q = o THEN p ELSE op[q]
  BY <1>1 DEF ClientInv
<1>3. p \in Operation
  BY DEF OpOK
<1> QED
  BY <1>1, <1>2, <1>3 DEF ClientInv, Connected

LEMMA LookUpKeepsInv ==
  ASSUME ClientInv, NEW o \in Ops, LookUp(o)
  PROVE  ClientInv'
<1>1. CASE Connected(dict) = {} /\ Begin(o, NoneAvailable(o, Waiting))
  <2>1. CASE o \in RequestOps
    <3>1. NoneAvailable(o, Waiting) = Ended("failed")
      BY <2>1 DEF NoneAvailable, End
    <3> QED
      BY <1>1, <3>1, EndedIsOK, BeginKeepsInv
  <2>2. CASE o \notin RequestOps
    <3>1. NoneAvailable(o, Waiting) = Waiting /\ o \in StreamOps
      BY <2>2 DEF NoneAvailable, Ops
    <3>2. OpOK(o, Waiting) /\ Waiting.watch = {}
      BY <3>1, WaitingIs DEF OpOK, Asked
    <3> QED
      BY <1>1, <3>1, <3>2, BeginKeepsInv
  <2> QED
    BY <2>1, <2>2
<1>2. ASSUME NEW i \in LeastLoad(dict), Begin(o, [Found(Waiting, i) EXCEPT !.looking = TRUE])
      PROVE  ClientInv'
  <2> DEFINE p == [Found(Waiting, i) EXCEPT !.looking = TRUE]
  <2>1. i \in Instances /\ dict[i] # None
    BY LeastLoadConnected
  <2>2. /\ p \in Operation /\ p.status = "asked"
        /\ p.target = i /\ p.watch = {i} /\ p.looking
    BY <2>1, FoundWaitingIs
  <2>3. OpOK(o, p)
    BY <2>1, <2>2, ClientAssumption DEF OpOK, Asked
  <2> HIDE DEF p
  <2> QED
    BY <1>2, <2>1, <2>2, <2>3, BeginKeepsInv DEF p
<1> QED
  BY <1>1, <1>2 DEF LookUp

LEMMA ClientInvInit == Init => ClientInv
<1> SUFFICES ASSUME Init PROVE ClientInv
  OBVIOUS
<1>1. Idle \in Operation /\ \A o \in Ops : OpOK(o, Idle) /\ Idle.watch = {}
  BY ClientAssumption DEF OpOK, Idle, Operation, Asked
<1>2. 0 \in 0..MaxLate /\ 0 \in 0..MaxDrops
  BY ClientAssumption
<1>3. \A o \in Ops : op[o] = Idle /\ Idle.status = "idle"
  BY DEF Init, Idle
<1> QED
  BY <1>1, <1>2, <1>3 DEF Init, ClientInv

\* What an operation has ended with: no subscription is left behind.
LEMMA EndKeepsInv ==
  ASSUME ClientInv, NEW o \in Ops, NEW s \in {"done", "failed"},
         Begin(o, End(op[o], s))
  PROVE  ClientInv'
<1>1. /\ OpOK(o, End(op[o], s)) /\ End(op[o], s).watch = {}
      /\ End(op[o], s).status # "waiting"
  BY EndedIsOK DEF End
<1> QED
  BY <1>1, BeginKeepsInv

LEMMA ClientInvStep == ClientInv /\ [Next]_vars => ClientInv'
<1> SUFFICES ASSUME ClientInv, [Next]_vars PROVE ClientInv'
  OBVIOUS
<1> USE DEF ClientInv
<1>1. CASE UNCHANGED vars
  BY <1>1 DEF vars, Connected
<1>2. CASE Connect
  BY <1>2 DEF Connect, Connected
<1>3. CASE Disconnect
  <2>1. /\ up' = FALSE /\ listening' = FALSE /\ alive' = alive /\ late' = late
        /\ drops' \in 0..MaxDrops /\ dict' = [i \in Instances |-> None]
    BY <1>3, ClientAssumption DEF Disconnect
  <2>2. Connected(dict') = {}
    BY <2>1, ClientAssumption DEF Connected
  <2>3. ASSUME NEW o \in Ops PROVE OpOK(o, op'[o]) /\ op'[o].watch = {}
    <3>1. OpOK(o, op[o])
      OBVIOUS
    <3>2. OpOK(o, End(op[o], "failed")) /\ End(op[o], "failed").watch = {}
      BY EndedIsOK DEF End
    <3>3. op'[o] = IF op[o].watch # {} THEN End(op[o], "failed")
                   ELSE IF op[o].looking THEN NoneAvailable(o, op[o]) ELSE op[o]
      BY <1>3 DEF Disconnect
    <3> QED
      BY <3>1, <3>2, <3>3, NoneAvailableIsOK
  <2>4. op' \in [Ops -> Operation]
    <3>1. \A o \in Ops : op'[o] \in Operation
      BY <2>3 DEF OpOK
    <3> QED
      BY <1>3, <3>1 DEF Disconnect
  <2> QED
    BY <2>1, <2>2, <2>3, <2>4
<1>4. ASSUME NEW i \in Instances, NEW load \in Loads, Heartbeat(i, load) PROVE ClientInv'
  <2> DEFINE d == [dict EXCEPT ![i] = load]
  <2>1. d \in [Instances -> Loads \cup {None, Lost}]
        /\ \A j \in Instances : dict[j] # None => d[j] # None
    BY ClientAssumption
  <2>2. up /\ up' = up /\ listening' = listening /\ Emit(d) /\ UNCHANGED <<alive, late, drops>>
    BY <1>4 DEF Heartbeat
  <2> HIDE DEF d
  <2> QED
    BY <2>1, <2>2, EmitKeepsInv
<1>5. ASSUME NEW i \in Instances, MissHeartbeats(i) PROVE ClientInv'
  <2> DEFINE d == [dict EXCEPT ![i] = Lost]
  <2>1. d \in [Instances -> Loads \cup {None, Lost}]
        /\ \A j \in Instances : dict[j] # None => d[j] # None
    BY ClientAssumption
  <2>2. up
    BY <1>5, ClientAssumption DEF MissHeartbeats
  <2>3. up' = up /\ listening' = listening /\ Emit(d) /\ alive' = alive
        /\ late' \in 0..MaxLate /\ drops' = drops
    BY <1>5, ClientAssumption DEF MissHeartbeats
  <2> HIDE DEF d
  <2> QED
    BY <2>1, <2>2, <2>3, EmitKeepsInv
<1>6. ASSUME NEW o \in Ops, NEW i \in Instances, OpMissesHeartbeats(o, i) PROVE ClientInv'
  BY <1>6, EndKeepsInv DEF OpMissesHeartbeats, Begin
<1>7. ASSUME NEW i \in Instances, Crash(i) PROVE ClientInv'
  BY <1>7 DEF Crash, Connected
<1>8. ASSUME NEW o \in Ops, Subscribe(o) \/ Retry(o) PROVE ClientInv'
  BY <1>8, LookUpKeepsInv DEF Subscribe, Retry
<1>9. ASSUME NEW o \in Ops, Respond(o) PROVE ClientInv'
  <2>1. CASE o \in RequestOps
    BY <1>9, <2>1, EndKeepsInv DEF Respond
  <2>2. CASE o \notin RequestOps
    <3> DEFINE p == [op[o] EXCEPT !.status = "streaming"]
    <3>1. OpOK(o, op[o]) /\ op[o] \in Operation /\ op[o].status = "asked"
      BY <1>9 DEF Respond
    <3>2. /\ p \in Operation /\ p.status = "streaming" /\ p.target = op[o].target
          /\ p.watch = op[o].watch /\ p.looking = op[o].looking
      BY <3>1 DEF Operation
    <3>3. Begin(o, p)
      BY <1>9, <2>2 DEF Respond
    <3> HIDE DEF p
    <3>4. OpOK(o, p)
      BY <3>1, <3>2 DEF OpOK, Asked
    <3> QED
      BY <3>2, <3>3, <3>4, BeginKeepsInv
  <2> QED
    BY <2>1, <2>2
<1>10. ASSUME NEW o \in Ops, RpcFails(o) \/ Dispose(o) PROVE ClientInv'
  BY <1>10, EndKeepsInv DEF RpcFails, Dispose
<1> QED
  BY <1>1, <1>2, <1>3, <1>4, <1>5, <1>6, <1>7, <1>8, <1>9, <1>10 DEF Next

\* The followers never move the service client otherwise.
LEMMA StatusNextIsNext == [StatusNext]_statusVars => [Next]_vars
BY DEF StatusNext, statusVars, Quote, OtherServiceChanges, InitFooter

LEMMA ClientInvariant == StatusSpec => []ClientInv
<1>1. StatusInit => ClientInv
  BY ClientInvInit DEF StatusInit
<1>2. ClientInv /\ [StatusNext]_statusVars => ClientInv'
  BY ClientInvStep, StatusNextIsNext
<1> QED
  BY <1>1, <1>2, PTL DEF StatusSpec

\* Types, and the parts of an operation that go together, for any number of
\* instances and operations (serviceClient.js, the composite disposable of
\* an operation).
THEOREM ClientTypeCorrect == StatusSpec => []ClientTypeOK
BY ClientInvariant, ClientInvImplies, PTL

\* Whatever an operation asked it watches, over a connection that is up, for
\* any number of instances (serviceObservableExtensions.js:92-96).
THEOREM OperationsAreWatched == StatusSpec => []AskedIsWatched
BY ClientInvariant, ClientInvImplies, PTL

\* An operation waits for an instance only when there is none
\* (serviceClient.js:41, 89-91).
THEOREM NoneWaitsInVain == StatusSpec => []WaitsOnlyWhenNone
BY ClientInvariant, ClientInvImplies, PTL

-----------------------------------------------------------------------------
(* The prices.                                                             *)

\* An operation that has asked an instance goes on asking or ends.
LEMMA AskedGoesOnOrEnds ==
  ASSUME ClientInv, [Next]_vars, NEW o \in Ops, Asked(op[o])
  PROVE  Asked(op'[o]) \/ op'[o].status \in {"done", "failed"}
<1> USE DEF ClientInv
<1>0. op[o] \in Operation
  OBVIOUS
<1>1. \A p, s : s \in {"done", "failed"} => End(p, s).status \in {"done", "failed"}
  BY EndedIsOK DEF End
<1>2. CASE UNCHANGED vars \/ Connect \/ \E i \in Instances : Crash(i)
  BY <1>2 DEF vars, Connect, Crash
<1>3. CASE Disconnect
  BY <1>1, <1>3 DEF Disconnect, OpOK
<1>4. ASSUME NEW d, Emit(d) PROVE Asked(op'[o]) \/ op'[o].status \in {"done", "failed"}
  <2>1. OpOK(o, op[o])
    OBVIOUS
  <2>2. NoneAvailable(o, op[o]).status \in {op[o].status, "failed"}
    BY <2>1, NoneAvailableIsOK
  <2>3. \A i \in Instances : op[o].looking => Asked(Found(op[o], i))
    BY <2>1, FoundIsOK
  <2>4. LeastLoad(d) \subseteq Instances
    BY LeastLoadConnected
  <2> QED
    BY <1>4, <2>2, <2>3, <2>4 DEF Emit, Asked
<1>5. CASE \E i \in Instances : MissHeartbeats(i) \/ \E load \in Loads : Heartbeat(i, load)
  BY <1>4, <1>5 DEF MissHeartbeats, Heartbeat
<1>6. ASSUME NEW q \in Ops, NEW i \in Instances, OpMissesHeartbeats(q, i)
      PROVE  Asked(op'[o]) \/ op'[o].status \in {"done", "failed"}
  BY <1>1, <1>6 DEF OpMissesHeartbeats
<1>7. ASSUME NEW q \in Ops, NEW p, Begin(q, p)
      PROVE  op'[o] = IF q = o THEN p ELSE op[o]
  BY <1>7 DEF Begin
<1>8. ASSUME NEW q \in Ops, Subscribe(q) \/ Retry(q)
      PROVE  Asked(op'[o]) \/ op'[o].status \in {"done", "failed"}
  <2>1. q # o /\ LookUp(q)
    BY <1>8 DEF Subscribe, Retry, Asked
  <2>2. PICK p : Begin(q, p)
    BY <2>1 DEF LookUp
  <2> QED
    BY <1>7, <2>1, <2>2
<1>9. ASSUME NEW q \in Ops, Respond(q)
      PROVE  Asked(op'[o]) \/ op'[o].status \in {"done", "failed"}
  <2>1. [op[o] EXCEPT !.status = "streaming"].status = "streaming"
    BY <1>0 DEF Operation
  <2> QED
    BY <1>1, <1>7, <1>9, <2>1 DEF Respond, Asked
<1>10. ASSUME NEW q \in Ops, RpcFails(q) \/ Dispose(q)
       PROVE  Asked(op'[o]) \/ op'[o].status \in {"done", "failed"}
  BY <1>1, <1>7, <1>10 DEF RpcFails, Dispose
<1> QED
  BY <1>2, <1>3, <1>5, <1>6, <1>8, <1>9, <1>10 DEF Next

PriceInv ==
  /\ price \in [StreamOps -> {"none", "tradable", "stale"}]
  /\ TradableIsStreamed

LEMMA PriceInvStep ==
  ASSUME ClientInv, AskedIsWatched, AskedIsWatched', PriceInv, [StatusNext]_statusVars
  PROVE  PriceInv'
<1>1. [Next]_vars
  BY StatusNextIsNext
<1>2. CASE Next /\ Follow
  <2>1. price' = [o \in StreamOps |-> FollowPrices(o)]
    BY <1>2 DEF Follow
  <2>2. price' \in [StreamOps -> {"none", "tradable", "stale"}]
    BY <2>1 DEF FollowPrices, PriceInv
  <2>3. ASSUME NEW o \in StreamOps, price'[o] = "tradable"
        PROVE  up' /\ op'[o].target \in op'[o].watch
    <3>1. price[o] = "tradable" /\ op'[o].status # "done"
      BY <2>1, <2>3 DEF FollowPrices
    <3>2. o \in Ops /\ op[o] \in Operation
      BY DEF Ops, ClientInv
    <3>3. Asked(op[o])
      BY <3>1, <3>2, ClientAssumption
      DEF PriceInv, TradableIsStreamed, ClientInv, OpOK, Operation
    <3>4. op'[o].status # "failed"
      BY <2>1, <2>3, <3>1, <3>3 DEF FollowPrices, Asked
    <3>5. Asked(op'[o])
      BY <1>1, <3>1, <3>2, <3>3, <3>4, AskedGoesOnOrEnds
    <3> QED
      BY <3>2, <3>5 DEF AskedIsWatched
  <2> QED
    BY <2>2, <2>3 DEF PriceInv, TradableIsStreamed
<1>3. ASSUME NEW o \in StreamOps, Quote(o) PROVE PriceInv'
  <2>1. o \in Ops /\ Asked(op[o]) /\ UNCHANGED <<up, op>>
    BY <1>3 DEF Quote, vars, Ops
  <2>2. up /\ op[o].target \in op[o].watch
    BY <2>1 DEF AskedIsWatched
  <2> QED
    BY <1>3, <2>1, <2>2 DEF Quote, PriceInv, TradableIsStreamed
<1>4. CASE OtherServiceChanges \/ InitFooter \/ UNCHANGED statusVars
  <2>1. UNCHANGED <<price, up, op>>
    BY <1>4 DEF OtherServiceChanges, InitFooter, statusVars, followers, vars
  <2> QED
    BY <2>1 DEF PriceInv, TradableIsStreamed
<1> QED
  BY <1>2, <1>3, <1>4 DEF StatusNext

\* No tile keeps a tradable price of a stream that has broken, for any number
\* of streams and instances (pricingService.js:26-48).
THEOREM PricesAreStreamed == StatusSpec => []TradableIsStreamed
<1>1. StatusInit => PriceInv
  BY DEF StatusInit, PriceInv, TradableIsStreamed
<1>2. /\ ClientInv /\ AskedIsWatched /\ AskedIsWatched' /\ PriceInv
      /\ [StatusNext]_statusVars
      => PriceInv'
  BY PriceInvStep
<1>3. PriceInv => TradableIsStreamed
  BY DEF PriceInv
<1> QED
  BY <1>1, <1>2, <1>3, ClientInvariant, ClientInvImplies, PTL DEF StatusSpec

-----------------------------------------------------------------------------
(* The footer.                                                             *)

FooterRecord == [subscribed : BOOLEAN, heard : BOOLEAN,
                 status : {"Unknown", "Healthy", "Warning", "Down"}]

LookupRecord == [pricing : BOOLEAN, other : BOOLEAN]

\* The status shown is always the one of this moment: every change of what
\* it is computed from is an event of the footer's model.
FooterInv ==
  /\ lookup \in LookupRecord /\ footer \in FooterRecord
  /\ lookup.pricing = (Connected(dict) # {})
  /\ lookup.other => up
  /\ IF footer.subscribed
     THEN footer.status = ApplicationStatus(footer, lookup, up, kind)
     ELSE footer.status = "Unknown" /\ ~footer.heard

LEMMA FooterInvImplies == ClientInv /\ FooterInv => FooterTells
<1> SUFFICES ASSUME ClientInv, FooterInv PROVE FooterTells
  OBVIOUS
<1>1. Connected(dict) # {} => up
  BY ClientAssumption DEF ClientInv, Connected
<1>2. CASE footer.subscribed /\ footer.heard
  <2>1. Services(footer, lookup) = {lookup.pricing, lookup.other}
    BY <1>2 DEF Services
  <2>2. /\ lookup.pricing \in BOOLEAN /\ lookup.other \in BOOLEAN
        /\ lookup.pricing = (Connected(dict) # {}) /\ (lookup.other => up)
    BY DEF FooterInv, LookupRecord
  <2>3. footer.status =
          IF up /\ lookup.pricing /\ lookup.other /\ kind = "WebSocket" THEN "Healthy"
          ELSE IF lookup.pricing \/ lookup.other THEN "Warning" ELSE "Down"
    <3>1. footer.status = ApplicationStatus(footer, lookup, up, kind)
      BY <1>2 DEF FooterInv
    <3>2. FALSE \notin Services(footer, lookup) <=> lookup.pricing /\ lookup.other
      BY <2>1, <2>2
    <3>3. TRUE \in Services(footer, lookup) <=> lookup.pricing \/ lookup.other
      BY <2>1, <2>2
    <3> QED
      BY <3>1, <3>2, <3>3 DEF ApplicationStatus
  <2> QED
    BY <1>1, <2>2, <2>3 DEF FooterTells
<1>3. CASE footer.subscribed /\ ~footer.heard
  BY <1>3 DEF FooterInv, FooterTells, ApplicationStatus
<1>4. CASE ~footer.subscribed
  BY <1>4 DEF FooterInv, FooterTells
<1> QED
  BY <1>2, <1>3, <1>4

\* What FooterOf makes of a footer.
LEMMA FooterOfIs ==
  ASSUME NEW f \in FooterRecord, NEW sent \in BOOLEAN
  PROVE  /\ FooterOf(f, sent) \in FooterRecord
         /\ FooterOf(f, sent).subscribed = f.subscribed
         /\ ~f.subscribed => FooterOf(f, sent) = f
         /\ f.subscribed => FooterOf(f, sent).status =
              ApplicationStatus(FooterOf(f, sent), lookup', up', kind')
<1> DEFINE g == [f EXCEPT !.heard = @ \/ sent]
           a == ApplicationStatus(g, lookup', up', kind')
           h == [g EXCEPT !.status = a]
<1>1. g \in FooterRecord /\ g.subscribed = f.subscribed
  BY DEF FooterRecord
<1>2. a \in {"Healthy", "Warning", "Down"}
  BY DEF ApplicationStatus
<1>3. FooterOf(f, sent) = IF f.subscribed THEN h ELSE f
  BY DEF FooterOf
<1> HIDE DEF g, a
<1>4. /\ h \in FooterRecord /\ h.subscribed = f.subscribed
      /\ h.heard = g.heard /\ h.status = a
  BY <1>1, <1>2 DEF FooterRecord
<1> HIDE DEF h
<1>5. ApplicationStatus(h, lookup', up', kind') = ApplicationStatus(g, lookup', up', kind')
  BY <1>4 DEF ApplicationStatus, Services
<1> QED
  BY <1>3, <1>4, <1>5 DEF a

LEMMA FooterInvStep ==
  ASSUME ClientInv, FooterInv, [StatusNext]_statusVars
  PROVE  FooterInv'
<1>1. footer \in FooterRecord /\ lookup \in LookupRecord
  BY DEF FooterInv
<1>2. CASE Next /\ Follow
  <2>1. lookup' = [pricing |-> IF Emitted THEN Connected(dict') # {} ELSE lookup.pricing,
                   other   |-> up' /\ lookup.other]
    BY <1>2 DEF Follow, FollowLookup
  <2>2. lookup'.pricing = (Connected(dict') # {}) /\ (lookup'.other => up')
    BY <2>1 DEF Emitted, FooterInv, Connected
  <2>3. lookup' \in LookupRecord
    <3>1. up' \in BOOLEAN
      BY <1>2, ClientInvStep DEF ClientInv
    <3> QED
      BY <1>1, <2>1, <3>1 DEF LookupRecord
  <2>4. footer' = FooterOf(footer, Emitted) /\ Emitted \in BOOLEAN
    BY <1>2 DEF Follow, Emitted
  <2> HIDE DEF Emitted
  <2> QED
    BY <1>1, <2>2, <2>3, <2>4, FooterOfIs DEF FooterInv
<1>3. CASE OtherServiceChanges
  <2>1. /\ up /\ up' = up /\ dict' = dict
        /\ lookup' = [lookup EXCEPT !.other = ~@]
        /\ footer' = FooterOf(footer, TRUE)
    BY <1>3 DEF OtherServiceChanges, vars
  <2>2. lookup' \in LookupRecord /\ lookup'.pricing = lookup.pricing
    BY <1>1, <2>1 DEF LookupRecord
  <2> QED
    BY <1>1, <2>1, <2>2, FooterOfIs DEF FooterInv, Connected
<1>4. CASE InitFooter
  <2> DEFINE f == [footer EXCEPT !.subscribed = TRUE]
  <2>1. UNCHANGED <<up, dict, lookup, kind>> /\ footer' = FooterOf(f, FALSE)
    BY <1>4 DEF InitFooter, vars
  <2>2. f \in FooterRecord /\ f.subscribed
    BY <1>1 DEF FooterRecord
  <2> HIDE DEF f
  <2> QED
    BY <2>1, <2>2, FooterOfIs DEF FooterInv, Connected
<1>5. CASE (\E o \in StreamOps : Quote(o)) \/ UNCHANGED statusVars
  <2>1. UNCHANGED <<up, dict, lookup, kind, footer>>
    BY <1>5 DEF Quote, statusVars, followers, vars
  <2> QED
    BY <2>1 DEF FooterInv, Connected, ApplicationStatus, Services
<1> QED
  BY <1>2, <1>3, <1>4, <1>5 DEF StatusNext

\* The indicator of the footer tells the truth, for any number of instances
\* of the pricing service (footerModel.js:85-95).
THEOREM FooterIsRight == StatusSpec => []FooterTells
<1>1. StatusInit => FooterInv
  <2> SUFFICES ASSUME StatusInit PROVE FooterInv
    OBVIOUS
  <2>1. Connected(dict) = {}
    BY ClientAssumption DEF StatusInit, Init, Connected
  <2>2. lookup \in LookupRecord /\ ~lookup.pricing /\ ~lookup.other
    BY DEF StatusInit, LookupRecord
  <2>3. footer \in FooterRecord /\ ~footer.subscribed /\ ~footer.heard
        /\ footer.status = "Unknown"
    BY DEF StatusInit, FooterRecord
  <2>4. lookup.pricing = (Connected(dict) # {})
    BY <2>1, <2>2 DEF LookupRecord
  <2> QED
    BY <2>2, <2>3, <2>4 DEF FooterInv
<1>2. ClientInv /\ FooterInv /\ [StatusNext]_statusVars => FooterInv'
  BY FooterInvStep
<1> QED
  BY <1>1, <1>2, ClientInvariant, FooterInvImplies, PTL DEF StatusSpec

=============================================================================
