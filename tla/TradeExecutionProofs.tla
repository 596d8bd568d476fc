------------------------ MODULE TradeExecutionProofs ------------------------
(***************************************************************************)
(* For every number of providers, calls, tries and restarts: what           *)
(* TradeIdProvider's variables hold, and that reserved hi values are never  *)
(* shared.  For every number of executions and instances: the trade streams *)
(* keep their shape and their single writer, although ids may collide.      *)
(***************************************************************************)
EXTENDS TradeExecution, Sequences, FiniteSetTheorems, TLAPS

-----------------------------------------------------------------------------
(* The types of the id provider.  They are inductive once a call on its way *)
(* to the store is known to have a try left.                                *)

TriesRemain ==
  \A c \in Calls : pc[c] \in {"read", "append"} => triesLeft[c] >= 1

IdTyped == IdTypeOK /\ TriesRemain

\* The initial state has the types.
LEMMA IdTypedInit == IdInit => IdTyped
  BY NoCallAssumption, TryCountAssumption, RestartsAssumption
     DEF IdInit, IdTypeOK, IdTyped, TriesRemain

\* Every step keeps them.
LEMMA IdTypedStep ==
  ASSUME IdTyped, [IdNext]_idVars
  PROVE  IdTyped'
<1> USE NoCallAssumption, TryCountAssumption, RestartsAssumption
    DEF IdTyped, IdTypeOK, TriesRemain, Waiting, Running, Ended, Goto,
        providerVars, threadVars, callVars
<1>1. ASSUME NEW c \in Calls, GetNextId(c) PROVE IdTyped'
  BY <1>1 DEF GetNextId
<1>2. ASSUME NEW c \in Calls, Check(c) PROVE IdTyped'
  <2> DEFINE p == provider[c]
  <2>1. CASE /\ Goto(c, "read")
             /\ triesLeft' = [triesLeft EXCEPT ![c] = HiValueTryCount]
             /\ UNCHANGED loop
    BY <1>2, <2>1 DEF Check
  <2>2. CASE /\ Goto(c, "increment")
             /\ loop' = [loop EXCEPT ![p] = c]
             /\ UNCHANGED triesLeft
    BY <1>2, <2>2 DEF Check
  <2> QED
    BY <1>2, <2>1, <2>2 DEF Check
<1>3. ASSUME NEW c \in Calls, ReadTradeId(c) PROVE IdTyped'
  <2>1. CASE pc' = [pc EXCEPT ![c] = "append"]
    BY <1>3, <2>1 DEF ReadTradeId
  <2>2. CASE pc' = [pc EXCEPT ![c] = "failed"]
    BY <1>3, <2>2 DEF ReadTradeId
  <2> QED
    BY <1>3, <2>1, <2>2 DEF ReadTradeId
<1>4. ASSUME NEW c \in Calls, ReserveHi(c) PROVE IdTyped'
  BY <1>4 DEF ReserveHi
<1>5. ASSUME NEW c \in Calls, Conflict(c) PROVE IdTyped'
  <2>1. CASE triesLeft[c] > 1
    BY <1>5, <2>1 DEF Conflict
  <2>2. CASE ~(triesLeft[c] > 1)
    BY <1>5, <2>2 DEF Conflict
  <2> QED
    BY <2>1, <2>2
<1>6. ASSUME NEW c \in Calls, AppendLost(c) PROVE IdTyped'
  BY <1>6 DEF AppendLost
<1>7. ASSUME NEW c \in Calls, AssignHi(c) PROVE IdTyped'
  BY <1>7 DEF AssignHi
<1>8. ASSUME NEW c \in Calls, AssignLo(c) PROVE IdTyped'
  BY <1>8 DEF AssignLo
<1>9. ASSUME NEW c \in Calls, SetInitialized(c) PROVE IdTyped'
  BY <1>9 DEF SetInitialized
<1>10. ASSUME NEW c \in Calls, Increment(c) PROVE IdTyped'
  BY <1>10 DEF Increment
<1>11. ASSUME NEW c \in Calls, Emit(c) PROVE IdTyped'
  BY <1>11 DEF Emit, Release
<1>12. ASSUME NEW p \in Providers, Restart(p) PROVE IdTyped'
  BY <1>12 DEF Restart
<1>13. CASE UNCHANGED idVars
  BY <1>13 DEF idVars
<1> QED
  BY <1>1, <1>2, <1>3, <1>4, <1>5, <1>6, <1>7, <1>8, <1>9, <1>10, <1>11,
     <1>12, <1>13 DEF IdNext, CallStep

\* Every variable keeps its type, retries stay within their count, and nobody
\* holds a version the TradeIdentifier stream does not have.
THEOREM IdTypeCorrect == IdSpec => []IdTypeOK
<1>1. IdInit => IdTyped
  BY IdTypedInit
<1>2. IdTyped /\ [IdNext]_idVars => IdTyped'
  BY IdTypedStep
<1>3. IdTyped => IdTypeOK
  BY DEF IdTyped
<1> QED
  BY <1>1, <1>2, <1>3, PTL DEF IdSpec

-----------------------------------------------------------------------------
(* Reserved hi values.  The strengthening: a call reserves at most once, and *)
(* the hi a provider holds, or has issued ids from, is one its own calls     *)
(* reserved.                                                                 *)

Reserved(p, hi) == \E d \in Calls :
  provider[d] = p /\ block[d] = hi /\ hi # -1

HiInv ==
  /\ HiReservedOnce
  /\ \A c \in Calls :
       /\ pc[c] \in {"idle", "queued", "read", "append"} => block[c] = -1
       /\ pc[c] = "assignHi" => block[c] # -1
       /\ pc[c] \in Running => Reserved(provider[c], hiValue[provider[c]])
       /\ pc[c] = "got" => Reserved(provider[c], issued[c].hi)
  /\ \A p \in Providers : initialized[p] => Reserved(p, hiValue[p])

\* Initially nothing is reserved.
LEMMA HiInvInit == IdInit => HiInv
  BY DEF IdInit, HiInv, HiReservedOnce, Running

\* Every step keeps the strengthening.
LEMMA HiInvStep ==
  ASSUME IdTyped, HiInv, [IdNext]_idVars
  PROVE  HiInv'
<1> USE NoCallAssumption
    DEF IdTyped, IdTypeOK, Waiting, Running, Ended, Goto, providerVars,
        threadVars, callVars
<1> DEFINE Kept == \A p \in Providers : \A hi : Reserved(p, hi) => Reserved(p, hi)'
<1>1. ASSUME NEW c \in Calls, GetNextId(c) PROVE HiInv'
  BY <1>1 DEF GetNextId, HiInv, HiReservedOnce, Reserved
<1>2. ASSUME NEW c \in Calls, Check(c) PROVE HiInv'
  <2> DEFINE p == provider[c]
  <2>1. CASE pc' = [pc EXCEPT ![c] = "read"]
    BY <1>2, <2>1 DEF Check, HiInv, HiReservedOnce, Reserved
  <2>2. CASE initialized[p] /\ pc' = [pc EXCEPT ![c] = "increment"]
    BY <1>2, <2>2 DEF Check, HiInv, HiReservedOnce, Reserved
  <2> QED
    BY <1>2, <2>1, <2>2 DEF Check
<1>3. ASSUME NEW c \in Calls, ReadTradeId(c) PROVE HiInv'
  BY <1>3 DEF ReadTradeId, HiInv, HiReservedOnce, Reserved
<1>4. ASSUME NEW c \in Calls, ReserveHi(c) PROVE HiInv'
  <2>1. block[c] = -1 /\ block'[c] = tidVersion + 1 /\ block'[c] # -1
    BY <1>4 DEF ReserveHi, HiInv
  <2>2. \A d \in Calls : d # c => block'[d] = block[d] /\ block'[d] # block'[c]
    BY <1>4, <2>1 DEF ReserveHi
  <2>3. HiReservedOnce'
    BY <2>1, <2>2 DEF HiReservedOnce, HiInv
  <2>4. Kept
    BY <1>4, <2>1, <2>2 DEF ReserveHi, Reserved
  <2> QED
    BY <1>4, <2>1, <2>2, <2>3, <2>4 DEF ReserveHi, HiInv
<1>5. ASSUME NEW c \in Calls, Conflict(c) PROVE HiInv'
  BY <1>5 DEF Conflict, HiInv, HiReservedOnce, Reserved
<1>6. ASSUME NEW c \in Calls, AppendLost(c) PROVE HiInv'
  BY <1>6 DEF AppendLost, HiInv, HiReservedOnce, Reserved
<1>7. ASSUME NEW c \in Calls, AssignHi(c) PROVE HiInv'
  BY <1>7 DEF AssignHi, HiInv, HiReservedOnce, Reserved
<1>8. ASSUME NEW c \in Calls, AssignLo(c) PROVE HiInv'
  BY <1>8 DEF AssignLo, HiInv, HiReservedOnce, Reserved
<1>9. ASSUME NEW c \in Calls, SetInitialized(c) PROVE HiInv'
  BY <1>9 DEF SetInitialized, HiInv, HiReservedOnce, Reserved
<1>10. ASSUME NEW c \in Calls, Increment(c) PROVE HiInv'
  BY <1>10 DEF Increment, HiInv, HiReservedOnce, Reserved
<1>11. ASSUME NEW c \in Calls, Emit(c) PROVE HiInv'
  BY <1>11 DEF Emit, HiInv, HiReservedOnce, Reserved
<1>12. ASSUME NEW p \in Providers, Restart(p) PROVE HiInv'
  <2>1. HiReservedOnce'
    BY <1>12 DEF Restart, HiReservedOnce, HiInv
  <2>2. Kept
    BY <1>12 DEF Restart, Reserved
  <2>3. \A c \in Calls : pc'[c] = pc[c] \/ pc'[c] = "dead"
    BY <1>12 DEF Restart
  <2>4. \A c \in Calls : pc'[c] \in Running => provider[c] # p
    BY <1>12 DEF Restart
  <2>5. \A q \in Providers : q # p =>
          hiValue'[q] = hiValue[q] /\ initialized'[q] = initialized[q]
    BY <1>12 DEF Restart
  <2>6. ~initialized'[p]
    BY <1>12 DEF Restart
  <2> QED
    BY <1>12, <2>1, <2>2, <2>3, <2>4, <2>5, <2>6 DEF Restart, HiInv
<1>13. CASE UNCHANGED idVars
  BY <1>13 DEF idVars, HiInv, HiReservedOnce, Reserved
<1> QED
  BY <1>1, <1>2, <1>3, <1>4, <1>5, <1>6, <1>7, <1>8, <1>9, <1>10, <1>11,
     <1>12, <1>13 DEF IdNext, CallStep

\* What the strengthening says of the ids handed out.
LEMMA HiInvImpliesInstancesShareNoHi ==
  IdTyped /\ HiInv => InstancesShareNoHi
  BY DEF IdTyped, IdTypeOK, HiInv, HiReservedOnce, Reserved,
         InstancesShareNoHi

\* However many instances reserve concurrently, crash and retry, a hi value is
\* reserved by one call, and no two instances hand out ids from the same one.
THEOREM HiValuesAreNeverShared ==
  IdSpec => []HiValuesNotShared
<1> DEFINE Inv == IdTyped /\ HiInv
<1>1. IdInit => Inv
  BY IdTypedInit, HiInvInit
<1>2. Inv /\ [IdNext]_idVars => Inv'
  BY IdTypedStep, HiInvStep
<1>3. Inv => HiValuesNotShared
  BY HiInvImpliesInstancesShareNoHi DEF HiInv, HiValuesNotShared
<1> QED
  BY <1>1, <1>2, <1>3, PTL DEF IdSpec

-----------------------------------------------------------------------------
(* What remains of distinct ids between instances.  The statements after    *)
(* the await run beside the loop and beside each other, so it depends on    *)
(* how many calls run on one instance at a time: k of them.  Nothing else   *)
(* is assumed of the threads.  The strengthening counts the calls that are  *)
(* still going to add to lo: each checked it before, or reset it since.     *)

\* The calls running on a provider, and those of them still going to add to lo.
RunningOn(p) == {c \in Calls : provider[c] = p /\ pc[c] \in Running}
Adding(p) ==
  {c \in Calls : provider[c] = p /\ pc[c] \in {"setInitialized", "increment"}}

AtMostRun(k) == \A p \in Providers : Cardinality(RunningOn(p)) <= k

FinitelyManyRun == \A p \in Providers : IsFiniteSet(RunningOn(p))

LoBounded(k) == \A p \in Providers :
  loValue[p] + Cardinality(Adding(p)) <= Multiplier + k - 1

\* A call that is to hand out a block's first value finds the one that reset
\* lo still running.
ZeroIsShared == \A c \in Calls :
  pc[c] = "emit" /\ loValue[provider[c]] = 0 => Adding(provider[c]) # {}

IssuedNearBlock(k) == \A c \in Calls : pc[c] = "got" =>
  /\ issued[c].lo <= Multiplier + k - 1
  /\ k = 1 => issued[c].lo >= 1

LoInv(k) ==
  FinitelyManyRun /\ LoBounded(k) /\ ZeroIsShared /\ IssuedNearBlock(k)

\* Initially nothing runs.
LEMMA LoInvInit ==
  ASSUME NEW k \in Nat \ {0}
  PROVE  IdInit => LoInv(k)
<1> SUFFICES ASSUME IdInit PROVE LoInv(k)
  OBVIOUS
<1>1. pc = [c \in Calls |-> "idle"] /\ loValue = [p \in Providers |-> 0]
  BY DEF IdInit
<1>2. \A p : RunningOn(p) = {} /\ Adding(p) = {}
  <2>1. \A c \in Calls : pc[c] = "idle"
    BY <1>1
  <2> QED
    BY <2>1 DEF RunningOn, Adding, Running
<1>3. IsFiniteSet({}) /\ Cardinality({}) = 0
  BY FS_EmptySet
<1>4. LoBounded(k)
  <2>1. ASSUME NEW p \in Providers
        PROVE  loValue[p] + Cardinality(Adding(p)) <= Multiplier + k - 1
    <3>1. loValue[p] = 0 /\ Cardinality(Adding(p)) = 0
      BY <1>1, <1>2, <1>3
    <3> QED
      BY <3>1, MultiplierAssumption
  <2> QED
    BY <2>1 DEF LoBounded
<1> QED
  BY <1>1, <1>2, <1>3, <1>4
     DEF LoInv, FinitelyManyRun, ZeroIsShared, IssuedNearBlock

\* The calls still to add are running ones, so they are as few.
LEMMA AddingRuns ==
  ASSUME NEW p, IsFiniteSet(RunningOn(p))
  PROVE  /\ IsFiniteSet(Adding(p))
         /\ Cardinality(Adding(p)) \in Nat
         /\ Cardinality(RunningOn(p)) \in Nat
         /\ Cardinality(Adding(p)) <= Cardinality(RunningOn(p))
<1>1. Adding(p) \in SUBSET RunningOn(p)
  BY DEF Adding, RunningOn, Running
<1> QED
  BY <1>1, FS_Subset, FS_CardinalityType

\* One call at most starts to run in a step.
LEMMA FinitelyManyRunStep ==
  ASSUME IdTypeOK, FinitelyManyRun, [IdNext]_idVars
  PROVE  FinitelyManyRun'
<1> USE DEF IdTypeOK, Goto, callVars
<1>1. ASSUME NEW c \in Calls, \A d \in Calls : d # c => pc'[d] = pc[d],
             UNCHANGED provider
      PROVE  FinitelyManyRun'
  <2> SUFFICES ASSUME NEW p \in Providers PROVE IsFiniteSet(RunningOn(p)')
    BY DEF FinitelyManyRun
  <2>1. IsFiniteSet(RunningOn(p) \union {c})
    BY FS_AddElement DEF FinitelyManyRun
  <2>2. RunningOn(p)' \in SUBSET (RunningOn(p) \union {c})
    BY <1>1 DEF RunningOn
  <2> QED
    BY <2>1, <2>2, FS_Subset
<1>2. ASSUME NEW c \in Calls, GetNextId(c) \/ CallStep(c) PROVE FinitelyManyRun'
  <2>1. UNCHANGED provider /\ \E l : pc' = [pc EXCEPT ![c] = l]
    BY <1>2 DEF GetNextId, CallStep, Check, ReadTradeId, ReserveHi, Conflict,
                AppendLost, AssignHi, AssignLo, SetInitialized, Increment, Emit
  <2> QED
    BY <2>1, <1>1
<1>3. ASSUME NEW q \in Providers, Restart(q) PROVE FinitelyManyRun'
  <2> SUFFICES ASSUME NEW p \in Providers PROVE IsFiniteSet(RunningOn(p)')
    BY DEF FinitelyManyRun
  <2>1. RunningOn(p)' \in SUBSET RunningOn(p)
    BY <1>3 DEF Restart, RunningOn, Running
  <2> QED
    BY <2>1, FS_Subset DEF FinitelyManyRun
<1>4. CASE UNCHANGED idVars
  BY <1>4 DEF idVars, FinitelyManyRun, RunningOn
<1> QED
  BY <1>2, <1>3, <1>4 DEF IdNext

\* A step that neither touches lo nor changes who is going to add to it.
LEMMA LoInvQuiet ==
  ASSUME NEW k \in Nat \ {0}, LoInv(k), FinitelyManyRun', IdTypeOK,
         UNCHANGED <<loValue, provider, issued>>,
         \A p \in Providers : Adding(p)' = Adding(p),
         \A c \in Calls : pc'[c] \in {"emit", "got"} => pc'[c] = pc[c]
  PROVE  LoInv(k)'
<1> USE DEF IdTypeOK
<1>1. LoBounded(k)'
  BY DEF LoInv, LoBounded
<1>2. ZeroIsShared'
  BY DEF LoInv, ZeroIsShared
<1>3. IssuedNearBlock(k)'
  BY DEF LoInv, IssuedNearBlock
<1> QED
  BY <1>1, <1>2, <1>3 DEF LoInv

\* Only the check and the reset add a call to those that will increment lo,
\* and then lo is below Multiplier.
LEMMA LoInvJoin ==
  ASSUME NEW k \in Nat \ {0}, LoInv(k), FinitelyManyRun', AtMostRun(k)',
         IdTypeOK, IdTypeOK', NEW c \in Calls, NEW p \in Providers, provider[c] = p,
         NEW l \in {"setInitialized", "increment"},
         pc[c] \in {"queued", "assignLo"}, pc' = [pc EXCEPT ![c] = l],
         UNCHANGED <<provider, issued>>,
         loValue'[p] <= Multiplier - 1,
         \A q \in Providers : q # p => loValue'[q] = loValue[q]
  PROVE  LoInv(k)'
<1> USE DEF IdTypeOK
<1>1. \A d \in Calls : d # c => pc'[d] = pc[d]
  OBVIOUS
<1>2. pc'[c] = l /\ c \in Adding(p)'
  BY DEF Adding
<1>3. LoBounded(k)'
  <2> SUFFICES ASSUME NEW q \in Providers
               PROVE  loValue'[q] + Cardinality(Adding(q)') <= Multiplier + k - 1
    BY DEF LoBounded
  <2>1. CASE q = p
    <3>1. /\ Cardinality(Adding(p)') \in Nat
          /\ Cardinality(RunningOn(p)') \in Nat
          /\ Cardinality(Adding(p)') <= Cardinality(RunningOn(p)')
      <4>1. IsFiniteSet(RunningOn(p)')
        BY DEF FinitelyManyRun
      <4>2. Adding(p)' \in SUBSET RunningOn(p)'
        BY DEF Adding, RunningOn, Running
      <4> QED
        BY <4>1, <4>2, FS_Subset, FS_CardinalityType
    <3>2. Cardinality(RunningOn(p)') <= k
      BY DEF AtMostRun
    <3>3. loValue'[p] \in Nat
      OBVIOUS
    <3> QED
      BY <2>1, <3>1, <3>2, <3>3, MultiplierAssumption
  <2>2. CASE q # p
    <3>1. Adding(q)' = Adding(q)
      BY <2>2, <1>1 DEF Adding
    <3> QED
      BY <2>2, <3>1 DEF LoInv, LoBounded
  <2> QED
    BY <2>1, <2>2
<1>4. ZeroIsShared'
  <2> SUFFICES ASSUME NEW d \in Calls, pc'[d] = "emit", loValue'[provider[d]] = 0
               PROVE  Adding(provider[d])' # {}
    BY DEF ZeroIsShared
  <2>1. pc[d] = "emit" /\ d # c
    BY <1>1, <1>2
  <2>2. CASE provider[d] = p
    BY <2>2, <1>2
  <2>3. CASE provider[d] # p
    <3>1. Adding(provider[d])' = Adding(provider[d])
      BY <2>3, <1>1 DEF Adding
    <3> QED
      BY <2>1, <2>3, <3>1 DEF LoInv, ZeroIsShared
  <2> QED
    BY <2>2, <2>3
<1>5. IssuedNearBlock(k)'
  BY <1>1, <1>2 DEF LoInv, IssuedNearBlock
<1> QED
  BY <1>3, <1>4, <1>5 DEF LoInv

\* While no more than k calls run on an instance, every step keeps the bounds.
LEMMA LoInvStep ==
  ASSUME NEW k \in Nat \ {0}, IdTypeOK, IdTypeOK', LoInv(k),
         AtMostRun(k), AtMostRun(k)', [IdNext]_idVars
  PROVE  LoInv(k)'
<1> USE MultiplierAssumption DEF IdTypeOK, Goto, threadVars, providerVars, callVars
<1>0. FinitelyManyRun'
  BY FinitelyManyRunStep DEF LoInv
<1>1. ASSUME NEW c \in Calls, NEW l,
             pc' = [pc EXCEPT ![c] = l], UNCHANGED <<loValue, provider, issued>>,
             \/ /\ pc[c] \notin {"setInitialized", "increment"}
                /\ l \notin {"setInitialized", "increment", "emit", "got"}
             \/ pc[c] = "setInitialized" /\ l = "increment"
      PROVE  LoInv(k)'
  <2>1. \A p \in Providers : Adding(p)' = Adding(p)
    BY <1>1 DEF Adding
  <2>2. \A d \in Calls : pc'[d] \in {"emit", "got"} => pc'[d] = pc[d]
    BY <1>1
  <2> QED
    BY <1>0, <1>1, <2>1, <2>2, LoInvQuiet
<1>2. ASSUME NEW c \in Calls, GetNextId(c) PROVE LoInv(k)'
  BY <1>1, <1>2 DEF GetNextId
<1>3. ASSUME NEW c \in Calls, Check(c) PROVE LoInv(k)'
  <2>1. CASE Goto(c, "read")
    BY <1>1, <1>3, <2>1 DEF Check
  <2>2. CASE loValue[provider[c]] < Multiplier /\ Goto(c, "increment")
    <3> PICK p \in Providers : p = provider[c]
      OBVIOUS
    <3>1. /\ pc[c] = "queued" /\ pc' = [pc EXCEPT ![c] = "increment"]
          /\ UNCHANGED <<loValue, provider, issued>>
      BY <1>3, <2>2 DEF Check
    <3>2. loValue'[p] <= Multiplier - 1
      BY <2>2, <3>1
    <3> QED
      BY <1>0, <3>1, <3>2, LoInvJoin
  <2> QED
    BY <1>3, <2>1, <2>2 DEF Check
<1>4. ASSUME NEW c \in Calls,
             ReadTradeId(c) \/ ReserveHi(c) \/ Conflict(c) \/ AppendLost(c)
      PROVE  LoInv(k)'
  <2>1. /\ pc[c] \notin {"setInitialized", "increment"}
        /\ \E l \in {"append", "read", "failed", "assignHi"} :
             pc' = [pc EXCEPT ![c] = l]
        /\ UNCHANGED <<loValue, provider, issued>>
    BY <1>4 DEF ReadTradeId, ReserveHi, Conflict, AppendLost
  <2> QED
    BY <1>1, <2>1
<1>5. ASSUME NEW c \in Calls, AssignHi(c) PROVE LoInv(k)'
  BY <1>1, <1>5 DEF AssignHi
<1>6. ASSUME NEW c \in Calls, AssignLo(c) PROVE LoInv(k)'
  <2> PICK p \in Providers : p = provider[c]
    OBVIOUS
  <2>1. /\ pc[c] = "assignLo" /\ pc' = [pc EXCEPT ![c] = "setInitialized"]
        /\ loValue' = [loValue EXCEPT ![p] = 0]
        /\ UNCHANGED <<provider, issued>>
    BY <1>6 DEF AssignLo
  <2>2. /\ loValue'[p] <= Multiplier - 1
        /\ \A q \in Providers : q # p => loValue'[q] = loValue[q]
    BY <2>1
  <2> QED
    BY <1>0, <2>1, <2>2, LoInvJoin
<1>7. ASSUME NEW c \in Calls, SetInitialized(c) PROVE LoInv(k)'
  BY <1>1, <1>7 DEF SetInitialized
<1>8. ASSUME NEW c \in Calls, Increment(c) PROVE LoInv(k)'
  <2> PICK p \in Providers : p = provider[c]
    OBVIOUS
  <2>1. /\ pc[c] = "increment" /\ pc' = [pc EXCEPT ![c] = "emit"]
        /\ loValue' = [loValue EXCEPT ![p] = loValue[p] + 1]
        /\ UNCHANGED <<provider, issued>>
    BY <1>8 DEF Increment
  <2>2. Adding(p)' = Adding(p) \ {c} /\ c \in Adding(p)
    BY <2>1 DEF Adding
  <2>3. \A q \in Providers : q # p => Adding(q)' = Adding(q)
    BY <2>1 DEF Adding
  <2>4. loValue'[p] + Cardinality(Adding(p)') = loValue[p] + Cardinality(Adding(p))
    <3>1. IsFiniteSet(Adding(p)) /\ Cardinality(Adding(p)) \in Nat
      BY AddingRuns DEF LoInv, FinitelyManyRun
    <3>2. Cardinality(Adding(p) \ {c}) = Cardinality(Adding(p)) - 1
      BY <2>2, <3>1, FS_RemoveElement
    <3> QED
      BY <2>1, <2>2, <3>1, <3>2
  <2>5. LoBounded(k)'
    BY <2>1, <2>3, <2>4 DEF LoInv, LoBounded
  <2>6. ZeroIsShared'
    BY <2>1, <2>3 DEF LoInv, ZeroIsShared
  <2>7. IssuedNearBlock(k)'
    BY <2>1 DEF LoInv, IssuedNearBlock
  <2> QED
    BY <1>0, <2>5, <2>6, <2>7 DEF LoInv
<1>9. ASSUME NEW c \in Calls, Emit(c) PROVE LoInv(k)'
  <2> PICK p \in Providers : p = provider[c]
    OBVIOUS
  <2>1. /\ pc[c] = "emit" /\ pc' = [pc EXCEPT ![c] = "got"]
        /\ issued' = [issued EXCEPT ![c] = [hi |-> hiValue[p], lo |-> loValue[p]]]
        /\ UNCHANGED <<loValue, provider>>
    BY <1>9 DEF Emit
  <2>2. \A q \in Providers : Adding(q)' = Adding(q)
    BY <2>1 DEF Adding
  <2>3. LoBounded(k)'
    BY <2>1, <2>2 DEF LoInv, LoBounded
  <2>4. ZeroIsShared'
    BY <2>1, <2>2 DEF LoInv, ZeroIsShared
  <2>5. issued'[c].lo <= Multiplier + k - 1
    <3>1. Cardinality(Adding(p)) \in Nat
      BY AddingRuns DEF LoInv, FinitelyManyRun
    <3>2. loValue[p] + Cardinality(Adding(p)) <= Multiplier + k - 1
      BY DEF LoInv, LoBounded
    <3> QED
      BY <2>1, <3>1, <3>2
  <2>6. ASSUME k = 1 PROVE issued'[c].lo >= 1
    <3> SUFFICES ASSUME loValue[p] = 0 PROVE FALSE
      BY <2>1
    <3>1. PICK r \in Adding(p) : TRUE
      BY <2>1 DEF LoInv, ZeroIsShared
    <3>2. c \in RunningOn(p) /\ r \in RunningOn(p) /\ c # r
      BY <2>1, <3>1 DEF Adding, RunningOn, Running
    <3>3. IsFiniteSet(RunningOn(p)) /\ Cardinality(RunningOn(p)) \in Nat
      BY AddingRuns DEF LoInv, FinitelyManyRun
    <3>4. Cardinality(RunningOn(p)) <= 1
      BY <2>6 DEF AtMostRun
    <3>5. \A n \in Nat : n <= 1 => n = 0 \/ n = 1
      OBVIOUS
    <3>6. Cardinality(RunningOn(p)) = 0 \/ Cardinality(RunningOn(p)) = 1
      BY <3>3, <3>4, <3>5
    <3> QED
      BY <3>2, <3>3, <3>6, FS_EmptySet, FS_Singleton
  <2>7. IssuedNearBlock(k)'
    BY <2>1, <2>5, <2>6 DEF LoInv, IssuedNearBlock
  <2> QED
    BY <1>0, <2>3, <2>4, <2>7 DEF LoInv
<1>10. ASSUME NEW p \in Providers, Restart(p) PROVE LoInv(k)'
  <2>1. /\ loValue' = [loValue EXCEPT ![p] = 0]
        /\ pc' = [c \in Calls |->
             IF provider[c] = p /\ pc[c] \in Waiting \union Running
               THEN "dead" ELSE pc[c]]
        /\ UNCHANGED <<provider, issued>>
    BY <1>10 DEF Restart
  <2>2. Adding(p)' = {} /\ \A c \in Calls : provider[c] = p => pc'[c] # "emit"
    BY <2>1 DEF Adding, Running
  <2>3. \A q \in Providers : q # p => Adding(q)' = Adding(q)
    BY <2>1 DEF Adding
  <2>4. Cardinality({}) = 0
    BY FS_EmptySet
  <2>5. LoBounded(k)'
    <3>1. loValue'[p] + Cardinality(Adding(p)') <= Multiplier + k - 1
      <4>1. loValue'[p] = 0 /\ Cardinality(Adding(p)') = 0
        BY <2>1, <2>2, <2>4
      <4> QED
        BY <4>1
    <3>2. \A q \in Providers : q # p => loValue'[q] = loValue[q]
      BY <2>1
    <3> QED
      BY <2>3, <3>1, <3>2 DEF LoInv, LoBounded
  <2>6. ZeroIsShared'
    BY <2>1, <2>2, <2>3 DEF LoInv, ZeroIsShared
  <2>7. IssuedNearBlock(k)'
    BY <2>1 DEF LoInv, IssuedNearBlock
  <2> QED
    BY <1>0, <2>5, <2>6, <2>7 DEF LoInv
<1>11. CASE UNCHANGED idVars
  BY <1>11 DEF idVars, LoInv, FinitelyManyRun, LoBounded, ZeroIsShared,
               IssuedNearBlock, RunningOn, Adding
<1> QED
  BY <1>2, <1>3, <1>4, <1>5, <1>6, <1>7, <1>8, <1>9, <1>10, <1>11
     DEF IdNext, CallStep

\* Values computed from different blocks are equal only across their edges.
LEMMA BlocksMeetAcrossEdges ==
  ASSUME NEW h \in Int, NEW i \in Int, h < i, NEW m \in Nat, NEW n \in Nat,
         h * Multiplier + m = i * Multiplier + n
  PROVE  m >= n + Multiplier
<1>1. (i - h - 1) * Multiplier >= 0
  BY MultiplierAssumption
<1>2. h * Multiplier \in Int /\ i * Multiplier \in Int
  BY MultiplierAssumption
<1> QED
  BY <1>1, <1>2, MultiplierAssumption

\* The lo of c is past its block, by less than k, and by no less than the lo
\* of d is into its own: d's is 0, or c's is beyond Multiplier, or both.
AcrossEdge(c, d, k) ==
  /\ issued[c].lo >= Multiplier + issued[d].lo
  /\ issued[c].lo < Multiplier + k

\* Two instances hand out the same id only when several calls run at once on
\* one of them, and only as far across the edge between their blocks as calls
\* run at once (TradeIdProvider.cs:44-61: the await lets a call that checked lo
\* run beside one that resets and increments it).
InstancesMeetWithin(k) ==
  \A c, d \in Calls :
    /\ pc[c] = "got" /\ pc[d] = "got" /\ provider[c] # provider[d]
    /\ Id(c) = Id(d)
    => k > 1 /\ (AcrossEdge(c, d, k) \/ AcrossEdge(d, c, k))

\* The bounds and the unshared hi values leave no other common ids.
LEMMA LoInvImpliesInstancesMeetWithin ==
  ASSUME NEW k \in Nat \ {0}, IdTyped, HiInv, LoInv(k)
  PROVE  InstancesMeetWithin(k)
<1>1. SUFFICES ASSUME NEW c \in Calls, NEW d \in Calls,
                      pc[c] = "got", pc[d] = "got", provider[c] # provider[d],
                      Id(c) = Id(d)
               PROVE  k > 1 /\ (AcrossEdge(c, d, k) \/ AcrossEdge(d, c, k))
  BY DEF InstancesMeetWithin
<1>2. issued[c].hi # issued[d].hi
  BY <1>1, HiInvImpliesInstancesShareNoHi DEF InstancesShareNoHi
<1>3. /\ issued[c].hi \in Int /\ issued[c].lo \in Nat
      /\ issued[d].hi \in Int /\ issued[d].lo \in Nat
  BY DEF IdTyped, IdTypeOK
<1>4. /\ issued[c].lo <= Multiplier + k - 1 /\ issued[d].lo <= Multiplier + k - 1
      /\ k = 1 => issued[c].lo >= 1 /\ issued[d].lo >= 1
  BY <1>1 DEF LoInv, IssuedNearBlock
<1>5. issued[c].lo >= issued[d].lo + Multiplier \/ issued[d].lo >= issued[c].lo + Multiplier
  <2>1. issued[c].hi < issued[d].hi \/ issued[d].hi < issued[c].hi
    BY <1>2, <1>3
  <2>2. CASE issued[c].hi < issued[d].hi
    BY <1>1, <1>3, <2>2, BlocksMeetAcrossEdges DEF Id
  <2>3. CASE issued[d].hi < issued[c].hi
    BY <1>1, <1>3, <2>3, BlocksMeetAcrossEdges DEF Id
  <2> QED
    BY <2>1, <2>2, <2>3
<1> QED
  BY <1>3, <1>4, <1>5, MultiplierAssumption DEF AcrossEdge

\* While at most k calls run on an instance at a time, instances share ids
\* only across the edges of their blocks, less than k past them; with one, none.
THEOREM InstancesMeetOnlyAcrossEdges ==
  ASSUME NEW k \in Nat \ {0}
  PROVE  IdSpec /\ []AtMostRun(k) => []InstancesMeetWithin(k)
<1> DEFINE Inv == IdTyped /\ HiInv /\ LoInv(k)
<1>1. IdInit => Inv
  BY IdTypedInit, HiInvInit, LoInvInit
<1>2. Inv /\ AtMostRun(k) /\ AtMostRun(k)' /\ [IdNext]_idVars => Inv'
  BY IdTypedStep, HiInvStep, LoInvStep DEF IdTyped
<1>3. Inv => InstancesMeetWithin(k)
  BY LoInvImpliesInstancesMeetWithin
<1> QED
  BY <1>1, <1>2, <1>3, PTL DEF IdSpec

\* Without any condition on the threads: no more calls run than are made.
THEOREM InstancesMeetOnlyAmongCalls ==
  ASSUME IsFiniteSet(Calls), Calls # {}
  PROVE  IdSpec => []InstancesMeetWithin(Cardinality(Calls))
<1> DEFINE k == Cardinality(Calls)
           Inv == IdTyped /\ HiInv /\ LoInv(k)
<1>1. k \in Nat \ {0}
  BY FS_CardinalityType, FS_EmptySet
<1>2. AtMostRun(k) /\ AtMostRun(k)'
  <2>1. \A p : RunningOn(p) \in SUBSET Calls /\ RunningOn(p)' \in SUBSET Calls
    BY DEF RunningOn
  <2> QED
    BY <2>1, FS_Subset DEF AtMostRun
<1> HIDE DEF k
<1>3. IdInit => Inv
  BY <1>1, IdTypedInit, HiInvInit, LoInvInit
<1>4. Inv /\ [IdNext]_idVars => Inv'
  BY <1>1, <1>2, IdTypedStep, HiInvStep, LoInvStep DEF IdTyped
<1>5. Inv => InstancesMeetWithin(k)
  BY <1>1, LoInvImpliesInstancesMeetWithin
<1>6. IdSpec => []InstancesMeetWithin(k)
  BY <1>3, <1>4, <1>5, PTL DEF IdSpec
<1> QED
  BY <1>6 DEF k

-----------------------------------------------------------------------------
(* What the id generation leaves alone.                                     *)

\* Once a call has its id, nothing takes it back.
LEMMA GotIsStable ==
  ASSUME IdTypeOK, [IdNext]_idVars, NEW c \in Calls, pc[c] = "got"
  PROVE  pc'[c] = "got" /\ Id(c)' = Id(c)
<1> SUFFICES pc'[c] = "got" /\ issued'[c] = issued[c]
  BY DEF Id
<1> USE DEF IdTypeOK, Goto, Waiting, Running, Ended, callVars
<1>1. ASSUME NEW d \in Calls, GetNextId(d) PROVE pc'[c] = "got" /\ issued'[c] = issued[c]
  BY <1>1 DEF GetNextId
<1>2. ASSUME NEW d \in Calls, CallStep(d) PROVE pc'[c] = "got" /\ issued'[c] = issued[c]
  <2>1. d # c
    BY <1>2 DEF CallStep, Check, ReadTradeId, ReserveHi, Conflict, AppendLost,
                AssignHi, AssignLo, SetInitialized, Increment, Emit
  <2> QED
    BY <1>2, <2>1 DEF CallStep, Check, ReadTradeId, ReserveHi, Conflict,
        AppendLost, AssignHi, AssignLo, SetInitialized, Increment, Emit
<1>3. ASSUME NEW p \in Providers, Restart(p) PROVE pc'[c] = "got" /\ issued'[c] = issued[c]
  BY <1>3 DEF Restart
<1>4. CASE UNCHANGED idVars
  BY <1>4 DEF idVars
<1> QED
  BY <1>1, <1>2, <1>3, <1>4 DEF IdNext

\* Every step of an execution is a step of the id generation or leaves it.
LEMMA NextRefinesIdNext == [Next]_allVars => [IdNext]_idVars
<1>1. ASSUME NEW c \in Calls, Execute(c) \/ ExecuteStep(c)
      PROVE  IdNext \/ UNCHANGED idVars
  BY <1>1 DEF Execute, ExecuteStep, GenerateId, CreateTrade, SaveNew,
              ExecuteImpl, SaveOutcome, SaveFails, IdNext
<1>2. ASSUME NEW p \in Providers, Crash(p) PROVE IdNext
  BY <1>2 DEF Crash, IdNext
<1> QED
  BY <1>1, <1>2 DEF Next, allVars

\* Ids are integers.
LEMMA IdIsInt == ASSUME IdTypeOK, NEW c \in Calls PROVE Id(c) \in Int
<1>1. issued[c].hi \in Int /\ issued[c].lo \in Int /\ Multiplier \in Int
  BY MultiplierAssumption DEF IdTypeOK
<1> QED
  BY <1>1 DEF Id

-----------------------------------------------------------------------------
(* The strengthening: where an execution is says what its aggregate and its *)
(* trade's stream hold.                                                     *)

HasId == {"saveNew", "executing", "saveOutcome", "answered"}

StageInv == \A c \in Calls :
  /\ stage[c] \in HasId => pc[c] = "got"
  /\ stage[c] \in {"new", "awaitId"} => version[c] = -1 /\ pending[c] = 0
  /\ stage[c] = "saveNew" => version[c] = 0 /\ pending[c] = 1
  /\ stage[c] = "executing" => version[c] = 0 /\ pending[c] = 0
  /\ stage[c] = "saveOutcome" => version[c] = 1 /\ pending[c] = 1
  /\ stage[c] \in {"executing", "saveOutcome"} =>
       [id |-> Id(c), ver |-> 0, kind |-> "Created", by |-> c] \in events

EventInv == \A e \in events :
  /\ pc[e.by] = "got"
  /\ e.id = Id(e.by)
  /\ stage[e.by] \notin {"new", "awaitId", "saveNew"}

OpenedByWriter == \A e \in events :
  \E f \in events : f.id = e.id /\ f.by = e.by /\ f.ver = 0

TradeInv ==
  /\ IdTyped
  /\ TypeOK
  /\ StageInv
  /\ EventInv
  /\ TradeStreamShape
  /\ OpenedByWriter
  /\ AnswersAreOnRecord

\* One writer per trade follows from the created event being unique.
LEMMA TradeInvImpliesOneWriter == TradeInv => OneWriterPerTrade
<1> SUFFICES ASSUME TradeInv, NEW e \in events, NEW f \in events, e.id = f.id
             PROVE  e.by = f.by
  BY DEF OneWriterPerTrade
<1>1. PICK g \in events : g.id = e.id /\ g.by = e.by /\ g.ver = 0
  BY DEF TradeInv, OpenedByWriter
<1>2. PICK h \in events : h.id = f.id /\ h.by = f.by /\ h.ver = 0
  BY DEF TradeInv, OpenedByWriter
<1>3. g = h
  BY <1>1, <1>2 DEF TradeInv, TradeStreamShape
<1> QED
  BY <1>1, <1>2, <1>3

\* Initially there is no trade.
LEMMA TradeInvInit == Init => TradeInv
<1> SUFFICES ASSUME Init PROVE TradeInv
  OBVIOUS
<1>1. IdTyped /\ IdTypeOK
  BY IdTypedInit DEF Init, IdTyped
<1>2. TypeOK
  BY <1>1 DEF Init, TypeOK, Stages
<1>3. StageInv
  BY DEF Init, StageInv, HasId
<1> QED
  BY <1>1, <1>2, <1>3 DEF Init, TradeInv, EventInv, TradeStreamShape,
                          OpenedByWriter, AnswersAreOnRecord

-----------------------------------------------------------------------------
(* The steps that leave the streams alone need only that ids, once given,    *)
(* stay; the ones that append need the expected version.                     *)

\* A step of the id generation under an execution.
LEMMA TradeInvGenerate ==
  ASSUME TradeInv, [IdNext]_idVars, IdTyped', NEW c \in Calls,
         pc[c] # "got",
         stage' = stage \/ stage' = [stage EXCEPT ![c] = "failed"]
                        \/ stage' = [stage EXCEPT ![c] = "awaitId"],
         stage[c] \in {"new", "awaitId"},
         UNCHANGED <<version, pending, events, answers>>
  PROVE  TradeInv'
<1>1. \A d \in Calls : pc[d] = "got" => pc'[d] = "got" /\ Id(d)' = Id(d)
  BY GotIsStable DEF TradeInv, TypeOK
<1>2. TypeOK'
  BY DEF TradeInv, TypeOK, IdTyped, Stages, Active
<1>3. StageInv'
  BY <1>1 DEF TradeInv, TypeOK, StageInv, HasId, Stages
<1>4. EventInv'
  BY <1>1 DEF TradeInv, TypeOK, EventInv
<1> QED
  BY <1>2, <1>3, <1>4 DEF TradeInv, TradeStreamShape, OpenedByWriter,
                          AnswersAreOnRecord

\* An append under the expected version keeps the shape of the streams: a
\* created event where there was none, or an outcome after the writer's own.
LEMMA AppendKeepsStreams ==
  ASSUME TradeInv, NEW c \in Calls, NEW kind \in Kinds,
         AppendToStream(c, kind), VersionMatches(c),
         \/ kind = "Created" /\ version[c] = 0 /\ pending[c] = 1
         \/ /\ kind \in Outcomes /\ version[c] = 1 /\ pending[c] = 1
            /\ [id |-> Id(c), ver |-> 0, kind |-> "Created", by |-> c] \in events
  PROVE  TradeStreamShape' /\ OpenedByWriter'
<1> DEFINE new == [id |-> Id(c), ver |-> version[c], kind |-> kind, by |-> c]
<1>1. events' = events \union {new}
  BY DEF AppendToStream
<1>2. \A e \in events : e.id = new.id => e.ver < new.ver
  <2>1. \A e \in events : e.ver \in {0, 1}
    BY DEF TradeInv, TradeStreamShape
  <2> QED
    BY <2>1 DEF VersionMatches, ExpectedVersion
<1>3. new.ver \in {0, 1} /\ (new.ver = 0 <=> new.kind = "Created")
  BY DEF Outcomes
<1>4. \E f \in events' : f.id = new.id /\ f.by = new.by /\ f.ver = 0
  <2> DEFINE first == [id |-> Id(c), ver |-> 0, kind |-> "Created", by |-> c]
  <2>1. first \in events'
    BY <1>1
  <2>2. first.id = new.id /\ first.by = new.by /\ first.ver = 0
    OBVIOUS
  <2> QED
    BY <2>1, <2>2
<1>5. TradeStreamShape'
  <2>1. \A e \in events' :
          /\ e.ver \in {0, 1}
          /\ (e.ver = 0) <=> (e.kind = "Created")
          /\ \E f \in events' : f.id = e.id /\ f.ver = 0
    BY <1>1, <1>3, <1>4 DEF TradeInv, TradeStreamShape
  <2>2. \A e, f \in events' : e.id = f.id /\ e.ver = f.ver => e = f
    <3> SUFFICES ASSUME NEW e \in events', NEW f \in events',
                        e.id = f.id, e.ver = f.ver
                 PROVE  e = f
      OBVIOUS
    <3>1. \A g \in events : g.ver \in {0, 1}
      BY DEF TradeInv, TradeStreamShape
    <3>2. CASE e \in events /\ f \in events
      BY <3>2 DEF TradeInv, TradeStreamShape
    <3>3. CASE e = new \/ f = new
      BY <1>1, <1>2, <1>3, <3>1, <3>3
    <3> QED
      BY <1>1, <3>2, <3>3
  <2> QED
    BY <2>1, <2>2 DEF TradeStreamShape
<1>6. OpenedByWriter'
  BY <1>1, <1>4 DEF TradeInv, OpenedByWriter
<1> QED
  BY <1>5, <1>6

\* Every step keeps the strengthening.
LEMMA TradeInvStep ==
  ASSUME TradeInv, [Next]_allVars
  PROVE  TradeInv'
<1>1. [IdNext]_idVars
  BY NextRefinesIdNext
<1>2. IdTyped' /\ IdTypeOK'
  BY <1>1, IdTypedStep DEF TradeInv, IdTyped
<1>3. ASSUME NEW c \in Calls, Execute(c) PROVE TradeInv'
  <2>1. pc[c] # "got"
    BY <1>3 DEF Execute, GetNextId
  <2> QED
    BY <1>1, <1>2, <1>3, <2>1, TradeInvGenerate DEF Execute, ToStage
<1>4. ASSUME NEW c \in Calls, GenerateId(c) PROVE TradeInv'
  <2>1. pc[c] # "got"
    BY <1>4 DEF GenerateId, CallStep, Check, ReadTradeId, ReserveHi, Conflict,
                AppendLost, AssignHi, AssignLo, SetInitialized, Increment, Emit
  <2> QED
    BY <1>1, <1>2, <1>4, <2>1, TradeInvGenerate DEF GenerateId, ToStage
<1>5. ASSUME NEW c \in Calls, CreateTrade(c) \/ ExecuteImpl(c) PROVE TradeInv'
  <2>1. \A d \in Calls : Id(d)' = Id(d) /\ pc'[d] = pc[d]
    BY <1>5 DEF CreateTrade, ExecuteImpl, Id, idVars, callVars
  <2>2. /\ version[c] = IF stage[c] = "awaitId" THEN -1 ELSE 0
        /\ pending[c] = 0
    BY <1>5 DEF CreateTrade, ExecuteImpl, TradeInv, StageInv
  <2>3. TypeOK'
    BY <1>2, <1>5, <2>2 DEF CreateTrade, ExecuteImpl, RaiseEvent, ToStage,
                            TradeInv, TypeOK, Stages, Active
  <2>4. StageInv'
    BY <1>5, <2>1, <2>2 DEF CreateTrade, ExecuteImpl, RaiseEvent, ToStage,
                            TradeInv, TypeOK, StageInv, HasId
  <2>5. EventInv'
    BY <1>5, <2>1 DEF CreateTrade, ExecuteImpl, ToStage, TradeInv, TypeOK,
                      EventInv
  <2>6. (TradeStreamShape /\ OpenedByWriter /\ AnswersAreOnRecord)'
    BY <1>5 DEF CreateTrade, ExecuteImpl, TradeInv, TradeStreamShape,
                OpenedByWriter, AnswersAreOnRecord
  <2> QED
    BY <1>2, <2>3, <2>4, <2>5, <2>6 DEF TradeInv
<1>6. ASSUME NEW c \in Calls, SaveNew(c) PROVE TradeInv'
  <2> DEFINE new == [id |-> Id(c), ver |-> 0, kind |-> "Created", by |-> c]
  <2>1. \A d \in Calls : Id(d)' = Id(d) /\ pc'[d] = pc[d]
    BY <1>6 DEF SaveNew, Id, idVars, callVars
  <2>2. version[c] = 0 /\ pending[c] = 1 /\ pc[c] = "got"
    BY <1>6 DEF SaveNew, TradeInv, StageInv, HasId
  <2>3. events' = events \union {new}
    BY <1>6, <2>2 DEF SaveNew, AppendToStream
  <2>4. TypeOK'
    BY <1>2, <1>6, <2>3, IdIsInt DEF SaveNew, ClearPending, ToStage, TradeInv,
                            TypeOK, Stages, Active, Kinds
  <2>5. StageInv'
    BY <1>6, <2>1, <2>2, <2>3 DEF SaveNew, ClearPending, ToStage, TradeInv,
                                  TypeOK, StageInv, HasId
  <2>6. EventInv'
    BY <1>6, <2>1, <2>2, <2>3 DEF SaveNew, ToStage, TradeInv, TypeOK, EventInv
  <2>7. TradeStreamShape' /\ OpenedByWriter'
    BY <1>6, <2>2, AppendKeepsStreams DEF SaveNew, Kinds
  <2>8. AnswersAreOnRecord'
    BY <1>6, <2>3 DEF SaveNew, TradeInv, AnswersAreOnRecord
  <2> QED
    BY <1>2, <2>4, <2>5, <2>6, <2>7, <2>8 DEF TradeInv
<1>7. ASSUME NEW c \in Calls, SaveOutcome(c) PROVE TradeInv'
  <2> DEFINE new == [id |-> Id(c), ver |-> 1, kind |-> Outcome(c), by |-> c]
  <2>1. \A d \in Calls : Id(d)' = Id(d) /\ pc'[d] = pc[d]
    BY <1>7 DEF SaveOutcome, Id, idVars, callVars
  <2>2. version[c] = 1 /\ pending[c] = 1 /\ pc[c] = "got"
        /\ [id |-> Id(c), ver |-> 0, kind |-> "Created", by |-> c] \in events
    BY <1>7 DEF SaveOutcome, TradeInv, StageInv, HasId
  <2>3. events' = events \union {new}
    BY <1>7, <2>2 DEF SaveOutcome, AppendToStream
  <2>4. Outcome(c) \in Outcomes /\ Outcome(c) \in Kinds
    BY DEF Outcome, Outcomes, Kinds
  <2>5. TypeOK'
    BY <1>2, <1>7, <2>3, <2>4, IdIsInt DEF SaveOutcome, ClearPending, ToStage,
                            TradeInv, TypeOK, Stages, Active
  <2>6. StageInv'
    BY <1>7, <2>1, <2>2, <2>3 DEF SaveOutcome, ClearPending, ToStage, TradeInv,
                                  TypeOK, StageInv, HasId
  <2>7. EventInv'
    BY <1>7, <2>1, <2>2, <2>3 DEF SaveOutcome, ToStage, TradeInv, TypeOK,
                                  EventInv
  <2>8. TradeStreamShape' /\ OpenedByWriter'
    BY <1>7, <2>2, <2>4, AppendKeepsStreams DEF SaveOutcome
  <2>9. AnswersAreOnRecord'
    <3>1. new \in events' /\ new.id = Id(c) /\ new.kind = Outcome(c) /\ new.by = c
      BY <2>3
    <3>2. answers' = answers \union
                       {[request |-> c, id |-> Id(c), kind |-> Outcome(c)]}
      BY <1>7 DEF SaveOutcome
    <3> SUFFICES ASSUME NEW a \in answers'
                 PROVE  \E e \in events' : /\ e.id = a.id /\ e.kind = a.kind
                                           /\ e.by = a.request
      BY DEF AnswersAreOnRecord
    <3>3. CASE a \in answers
      BY <2>3, <3>3 DEF TradeInv, AnswersAreOnRecord
    <3>4. CASE a = [request |-> c, id |-> Id(c), kind |-> Outcome(c)]
      BY <3>1, <3>4
    <3> QED
      BY <3>2, <3>3, <3>4
  <2> QED
    BY <1>2, <2>5, <2>6, <2>7, <2>8, <2>9 DEF TradeInv
<1>8. ASSUME NEW c \in Calls, SaveFails(c) PROVE TradeInv'
  <2> DEFINE kind == IF stage[c] = "saveNew" THEN "Created" ELSE Outcome(c)
             new  == [id |-> Id(c), ver |-> version[c], kind |-> kind, by |-> c]
  <2>1. \A d \in Calls : Id(d)' = Id(d) /\ pc'[d] = pc[d]
    BY <1>8 DEF SaveFails, Id, idVars, callVars
  <2>2. /\ pc[c] = "got"
        /\ version[c] \in {0, 1}
        /\ kind \in Kinds
        /\ \/ kind = "Created" /\ version[c] = 0 /\ pending[c] = 1
           \/ /\ kind \in Outcomes /\ version[c] = 1 /\ pending[c] = 1
              /\ [id |-> Id(c), ver |-> 0, kind |-> "Created", by |-> c] \in events
    BY <1>8 DEF SaveFails, TradeInv, StageInv, HasId, Outcome, Outcomes, Kinds
  <2>3. StageInv'
    BY <1>8, <2>1 DEF SaveFails, AppendToStream, ToStage, TradeInv, TypeOK, StageInv,
                      HasId
  <2>4. CASE events' = events
    <3>1. TypeOK'
      BY <1>2, <1>8, <2>4 DEF SaveFails, ToStage, TradeInv, TypeOK, Stages
    <3>2. EventInv'
      BY <1>8, <2>1, <2>4 DEF SaveFails, ToStage, TradeInv, TypeOK, EventInv
    <3> QED
      BY <1>2, <1>8, <2>3, <2>4, <3>1, <3>2 DEF SaveFails, TradeInv,
         TradeStreamShape, OpenedByWriter, AnswersAreOnRecord
  <2>5. CASE VersionMatches(c) /\ AppendToStream(c, kind)
    <3>1. events' = events \union {new}
      BY <2>5 DEF AppendToStream
    <3>2. TypeOK'
      BY <1>2, <1>8, <2>2, <3>1, IdIsInt DEF SaveFails, ToStage, TradeInv,
                                             TypeOK, Stages
    <3>3. EventInv'
      BY <1>8, <2>1, <2>2, <3>1 DEF SaveFails, ToStage, TradeInv, TypeOK,
                                    EventInv
    <3>4. TradeStreamShape' /\ OpenedByWriter'
      BY <2>2, <2>5, AppendKeepsStreams
    <3>5. AnswersAreOnRecord'
      BY <1>8, <3>1 DEF SaveFails, TradeInv, AnswersAreOnRecord
    <3> QED
      BY <1>2, <2>3, <3>2, <3>3, <3>4, <3>5 DEF TradeInv
  <2> QED
    BY <1>8, <2>4, <2>5 DEF SaveFails
<1>9. ASSUME NEW p \in Providers, Crash(p) PROVE TradeInv'
  <2>1. \A d \in Calls : pc[d] = "got" => pc'[d] = "got" /\ Id(d)' = Id(d)
    BY <1>1, GotIsStable DEF TradeInv, TypeOK
  <2>2. \A d \in Calls : stage'[d] = stage[d] \/ stage'[d] = "dead"
    BY <1>9 DEF Crash
  <2>3. TypeOK'
    BY <1>2, <1>9, <2>2 DEF Crash, TradeInv, TypeOK, Stages
  <2>4. StageInv'
    BY <1>9, <2>1, <2>2 DEF Crash, TradeInv, StageInv, HasId
  <2>5. EventInv'
    BY <1>9, <2>1, <2>2 DEF Crash, TradeInv, TypeOK, EventInv
  <2> QED
    BY <1>2, <1>9, <2>3, <2>4, <2>5 DEF Crash, TradeInv, TradeStreamShape,
       OpenedByWriter, AnswersAreOnRecord
<1>10. CASE UNCHANGED allVars
  <2>1. \A d \in Calls : Id(d)' = Id(d) /\ pc'[d] = pc[d]
    BY <1>10 DEF allVars, Id, idVars, callVars
  <2> QED
    BY <1>2, <1>10, <2>1 DEF allVars, tradeVars, TradeInv, TypeOK, StageInv,
       EventInv, TradeStreamShape, OpenedByWriter, AnswersAreOnRecord
<1> QED
  BY <1>3, <1>4, <1>5, <1>6, <1>7, <1>8, <1>9, <1>10 DEF Next, ExecuteStep

\* Every variable keeps its type: a trade aggregate never has more than one
\* event to save.
THEOREM TypeCorrect == Spec => []TypeOK
<1>1. Init => TradeInv
  BY TradeInvInit
<1>2. TradeInv /\ [Next]_allVars => TradeInv'
  BY TradeInvStep
<1>3. TradeInv => TypeOK
  BY DEF TradeInv
<1> QED
  BY <1>1, <1>2, <1>3, PTL DEF Spec

\* Whatever ids are handed out, a trade's stream has one writer and is one
\* created event followed by at most one outcome.
THEOREM TradeStreamsAreSound == Spec => []TradeStreamsSound
<1>1. Init => TradeInv
  BY TradeInvInit
<1>2. TradeInv /\ [Next]_allVars => TradeInv'
  BY TradeInvStep
<1>3. TradeInv => TradeStreamsSound
  BY TradeInvImpliesOneWriter DEF TradeInv, TradeStreamsSound
<1> QED
  BY <1>1, <1>2, <1>3, PTL DEF Spec

\* Nobody is answered with an outcome that is not on record.
THEOREM AnswersAreTrue == Spec => []AnswersAreOnRecord
<1>1. Init => TradeInv
  BY TradeInvInit
<1>2. TradeInv /\ [Next]_allVars => TradeInv'
  BY TradeInvStep
<1>3. TradeInv => AnswersAreOnRecord
  BY DEF TradeInv
<1> QED
  BY <1>1, <1>2, <1>3, PTL DEF Spec

-----------------------------------------------------------------------------
(* Refinement: the streams, read as opened and settled trades, behave as the *)
(* abstract trade book.                                                      *)

OpenedIds == {e.id : e \in {f \in events : f.kind = "Created"}}

SettledIds == {[id |-> e.id, kind |-> e.kind] :
                 e \in {f \in events : f.kind \in Outcomes}}

\* The created event appended where there was no stream opens a trade.
LEMMA CreatedOpens ==
  ASSUME TradeInv, NEW c \in Calls, version[c] = 0, pending[c] = 1,
         VersionMatches(c), AppendToStream(c, "Created"), UNCHANGED answers
  PROVE  Book!Open
<1> DEFINE new == [id |-> Id(c), ver |-> 0, kind |-> "Created", by |-> c]
<1>1. events' = events \union {new}
  BY DEF AppendToStream
<1>2. \A e \in events : e.ver \in {0, 1}
  BY DEF TradeInv, TradeStreamShape
<1>3. \A e \in events : e.id # Id(c)
  BY <1>2 DEF VersionMatches, ExpectedVersion
<1>4. OpenedIds' = OpenedIds \union {Id(c)} /\ Id(c) \notin OpenedIds
  <2>1. {f \in events' : f.kind = "Created"}
          = {f \in events : f.kind = "Created"} \union {new}
    BY <1>1
  <2>2. OpenedIds' = OpenedIds \union {new.id}
    BY <2>1, Zenon DEF OpenedIds
  <2> QED
    BY <1>3, <2>2 DEF OpenedIds
<1>5. SettledIds' = SettledIds
  BY <1>1 DEF SettledIds, Outcomes
<1> QED
  BY <1>4, <1>5 DEF Book!Open, OpenedIds, SettledIds

\* The outcome appended after the writer's created event settles its trade,
\* which nobody has settled or been answered with.
LEMMA OutcomeSettles ==
  ASSUME TradeInv, NEW c \in Calls, version[c] = 1, pending[c] = 1,
         [id |-> Id(c), ver |-> 0, kind |-> "Created", by |-> c] \in events,
         VersionMatches(c), AppendToStream(c, Outcome(c))
  PROVE  /\ OpenedIds' = OpenedIds
         /\ SettledIds' = SettledIds \union {[id |-> Id(c), kind |-> Outcome(c)]}
         /\ Id(c) \in OpenedIds
         /\ \A s \in SettledIds : s.id # Id(c)
         /\ \A a \in answers : a.request # c /\ a.id # Id(c)
<1> DEFINE new == [id |-> Id(c), ver |-> 1, kind |-> Outcome(c), by |-> c]
<1>1. events' = events \union {new} /\ Outcome(c) \in Outcomes
  BY DEF AppendToStream, Outcome, Outcomes
<1>2. \A e \in events : /\ e.kind \in Outcomes => e.ver = 1
                        /\ e.ver = 1 => e.id # Id(c)
  <2>1. \A e \in events : e.ver \in {0, 1} /\ (e.ver = 0 <=> e.kind = "Created")
    BY DEF TradeInv, TradeStreamShape
  <2> QED
    BY <2>1 DEF VersionMatches, ExpectedVersion, Outcomes
<1>3. OpenedIds' = OpenedIds
  BY <1>1 DEF OpenedIds, Outcomes
<1>4. SettledIds' = SettledIds \union {[id |-> Id(c), kind |-> Outcome(c)]}
  <2>1. {f \in events' : f.kind \in Outcomes}
          = {f \in events : f.kind \in Outcomes} \union {new}
    BY <1>1
  <2>2. SettledIds' = SettledIds \union {[id |-> new.id, kind |-> new.kind]}
    BY <2>1, Zenon DEF SettledIds
  <2> QED
    BY <2>2
<1>5. Id(c) \in OpenedIds
  BY DEF OpenedIds
<1>6. \A s \in SettledIds : s.id # Id(c)
  BY <1>2 DEF SettledIds
<1>7. \A a \in answers : a.request # c /\ a.id # Id(c)
  <2> SUFFICES ASSUME NEW a \in answers PROVE a.request # c /\ a.id # Id(c)
    OBVIOUS
  <2>1. PICK e \in events : e.id = a.id /\ e.kind = a.kind /\ e.by = a.request
    BY DEF TradeInv, AnswersAreOnRecord
  <2>2. a.kind \in Outcomes
    BY DEF TradeInv, TypeOK
  <2>3. e.id = Id(e.by)
    BY DEF TradeInv, EventInv
  <2> QED
    BY <1>2, <2>1, <2>2, <2>3
<1> QED
  BY <1>3, <1>4, <1>5, <1>6, <1>7

\* Every step of the engine is a step of the book or leaves it as it is.
LEMMA StepImplementsBook ==
  ASSUME TradeInv, [Next]_allVars
  PROVE  [Book!BookNext]_(Book!bookVars)
<1> DEFINE Stutter == OpenedIds' = OpenedIds /\ SettledIds' = SettledIds
                      /\ answers' = answers
<1>1. ASSUME NEW c \in Calls, SaveNew(c) PROVE Book!BookNext
  <2>1. version[c] = 0 /\ pending[c] = 1
    BY <1>1 DEF SaveNew, TradeInv, StageInv
  <2>2. Book!Open
    BY <1>1, <2>1, CreatedOpens DEF SaveNew
  <2> QED
    BY <2>2 DEF Book!BookNext
<1>2. ASSUME NEW c \in Calls, SaveOutcome(c) PROVE Book!BookNext
  <2>1. /\ version[c] = 1 /\ pending[c] = 1
        /\ [id |-> Id(c), ver |-> 0, kind |-> "Created", by |-> c] \in events
    BY <1>2 DEF SaveOutcome, TradeInv, StageInv
  <2>2. /\ OpenedIds' = OpenedIds
        /\ SettledIds' = SettledIds \union {[id |-> Id(c), kind |-> Outcome(c)]}
        /\ Id(c) \in OpenedIds
        /\ \A s \in SettledIds : s.id # Id(c)
        /\ \A a \in answers : a.request # c /\ a.id # Id(c)
    BY <1>2, <2>1, OutcomeSettles DEF SaveOutcome
  <2>3. Book!SettleAndAnswer(c, Id(c), Outcome(c))
    BY <1>2, <2>2 DEF SaveOutcome, Book!SettleAndAnswer, OpenedIds, SettledIds
  <2>4. Outcome(c) \in Outcomes
    BY DEF Outcome, Outcomes
  <2> QED
    BY <2>2, <2>3, <2>4 DEF Book!BookNext, OpenedIds
<1>3. ASSUME NEW c \in Calls, SaveFails(c) PROVE Stutter \/ Book!BookNext
  <2>1. CASE events' = events
    BY <1>3, <2>1 DEF SaveFails, OpenedIds, SettledIds
  <2>2. CASE stage[c] = "saveNew" /\ VersionMatches(c) /\ AppendToStream(c, "Created")
    <3>1. version[c] = 0 /\ pending[c] = 1
      BY <2>2 DEF TradeInv, StageInv
    <3>2. Book!Open
      BY <1>3, <2>2, <3>1, CreatedOpens DEF SaveFails
    <3> QED
      BY <3>2 DEF Book!BookNext
  <2>3. CASE stage[c] = "saveOutcome" /\ VersionMatches(c) /\ AppendToStream(c, Outcome(c))
    <3>1. /\ version[c] = 1 /\ pending[c] = 1
          /\ [id |-> Id(c), ver |-> 0, kind |-> "Created", by |-> c] \in events
      BY <2>3 DEF TradeInv, StageInv
    <3>2. /\ OpenedIds' = OpenedIds
          /\ SettledIds' = SettledIds \union {[id |-> Id(c), kind |-> Outcome(c)]}
          /\ Id(c) \in OpenedIds
          /\ \A s \in SettledIds : s.id # Id(c)
      BY <2>3, <3>1, OutcomeSettles
    <3>3. Book!Settle(Id(c), Outcome(c))
      BY <1>3, <3>2 DEF SaveFails, Book!Settle, OpenedIds, SettledIds
    <3>4. Outcome(c) \in Outcomes
      BY DEF Outcome, Outcomes
    <3> QED
      BY <3>2, <3>3, <3>4 DEF Book!BookNext, OpenedIds
  <2> QED
    BY <1>3, <2>1, <2>2, <2>3 DEF SaveFails
<1>4. ASSUME NEW c \in Calls,
             Execute(c) \/ GenerateId(c) \/ CreateTrade(c) \/ ExecuteImpl(c)
      PROVE  Stutter
  BY <1>4 DEF Execute, GenerateId, CreateTrade, ExecuteImpl, OpenedIds,
              SettledIds
<1>5. ASSUME NEW p \in Providers, Crash(p) PROVE Stutter
  BY <1>5 DEF Crash, OpenedIds, SettledIds
<1>6. ASSUME UNCHANGED allVars PROVE Stutter
  BY <1>6 DEF allVars, tradeVars, OpenedIds, SettledIds
<1>7. Stutter => UNCHANGED Book!bookVars
  BY DEF Book!bookVars, OpenedIds, SettledIds
<1>8. Stutter \/ Book!BookNext
  BY <1>1, <1>2, <1>3, <1>4, <1>5, <1>6 DEF Next, ExecuteStep
<1> QED
  BY <1>7, <1>8

\* The engine, with its racing ids, lost writes and crashes, implements the
\* trade book: a trade is opened once, settled at most once, and answered to
\* one requester with the outcome it was settled with.
THEOREM EngineImplementsBook == Spec => ImplementsBook
<1>1. Init => TradeInv
  BY TradeInvInit
<1>2. TradeInv /\ [Next]_allVars => TradeInv'
  BY TradeInvStep
<1>3. Init => Book!BookInit
  BY DEF Init, Book!BookInit
<1>4. TradeInv /\ [Next]_allVars => [Book!BookNext]_(Book!bookVars)
  BY StepImplementsBook
<1> QED
  BY <1>1, <1>2, <1>3, <1>4, PTL DEF Spec, ImplementsBook, Book!BookSpec

-----------------------------------------------------------------------------
(* What the book keeps, whoever implements it.                             *)

\* A settled trade was opened and has one outcome for good; an answer tells the
\* outcome of its trade, no request is answered twice and no two requests are
\* answered with one trade (TradeExecutionEngine.cs:33-58).
BookIsKept ==
  /\ \A s \in SettledIds : s.id \in OpenedIds
  /\ \A s, t \in SettledIds : s.id = t.id => s = t
  /\ \A a \in answers : [id |-> a.id, kind |-> a.kind] \in SettledIds
  /\ \A a, b \in answers : a.request = b.request \/ a.id = b.id => a = b

LEMMA BookStepKeeps ==
  ASSUME BookIsKept, [Book!BookNext]_(Book!bookVars)
  PROVE  BookIsKept'
<1>1. CASE Book!Open
  <2>1. /\ OpenedIds \subseteq OpenedIds'
        /\ SettledIds' = SettledIds /\ answers' = answers
    BY <1>1 DEF Book!Open, OpenedIds, SettledIds
  <2> QED
    BY <2>1 DEF BookIsKept
<1>2. ASSUME NEW i \in OpenedIds, NEW k \in Outcomes, Book!Settle(i, k)
      PROVE  BookIsKept'
  <2>1. /\ \A s \in SettledIds : s.id # i
        /\ SettledIds' = SettledIds \union {[id |-> i, kind |-> k]}
        /\ OpenedIds' = OpenedIds /\ answers' = answers
    BY <1>2 DEF Book!Settle, OpenedIds, SettledIds
  <2> QED
    BY <2>1 DEF BookIsKept
<1>3. ASSUME NEW i \in OpenedIds, NEW k \in Outcomes, NEW r \in Calls,
             Book!SettleAndAnswer(r, i, k)
      PROVE  BookIsKept'
  <2>1. /\ \A s \in SettledIds : s.id # i
        /\ \A a \in answers : a.request # r /\ a.id # i
        /\ SettledIds' = SettledIds \union {[id |-> i, kind |-> k]}
        /\ answers' = answers \union {[request |-> r, id |-> i, kind |-> k]}
        /\ OpenedIds' = OpenedIds
    BY <1>3 DEF Book!SettleAndAnswer, OpenedIds, SettledIds
  <2> QED
    BY <2>1 DEF BookIsKept
<1>4. CASE UNCHANGED Book!bookVars
  <2>1. OpenedIds' = OpenedIds /\ SettledIds' = SettledIds /\ answers' = answers
    BY <1>4 DEF Book!bookVars, OpenedIds, SettledIds
  <2> QED
    BY <2>1 DEF BookIsKept
<1> QED
  BY <1>1, <1>2, <1>3, <1>4 DEF Book!BookNext, OpenedIds

\* The book is kept by all that implements it, so by the engine.
THEOREM EngineKeepsBook == Spec => []BookIsKept
<1>1. Book!BookInit => BookIsKept
  BY DEF Book!BookInit, BookIsKept, OpenedIds, SettledIds
<1>2. BookIsKept /\ [Book!BookNext]_(Book!bookVars) => BookIsKept'
  BY BookStepKeeps
<1> QED
  BY <1>1, <1>2, EngineImplementsBook, PTL DEF ImplementsBook, Book!BookSpec

-----------------------------------------------------------------------------
(* What the caches may rely on.  A history of the Event Store, all trade    *)
(* streams in the order of the appends, is what TradeCache and Analytics    *)
(* read: the engine and its expected versions leave it nothing but what     *)
(* TradeLog asks of a writer, and what the caches assume of theirs.         *)

VARIABLE log

Log == INSTANCE TradeLog WITH TradeIds <- Int

EventOf(e) == [kind |-> e.kind, id |-> e.id]

\* The store's history gains each event as it is appended.
RecordEvents ==
  \/ events' = events /\ log' = log
  \/ \E e \in events' \ events : log' = Append(log, EventOf(e))

HistoryInit == log = <<>>
HistorySpec == HistoryInit /\ [][RecordEvents]_<<events, log>>

\* The history holds the events of the store and no others.
HistoryIsStore ==
  /\ log \in Seq(Log!TradeEvents)
  /\ \A n \in DOMAIN log : \E e \in events : log[n] = EventOf(e)
  /\ \A e \in events : \E n \in DOMAIN log : log[n] = EventOf(e)

\* So what was recorded can be asked of the store.
LEMMA RecordedIsStored ==
  ASSUME HistoryIsStore, NEW kinds, NEW i
  PROVE  Log!Recorded(log, kinds, i) <=> \E e \in events : e.id = i /\ e.kind \in kinds
  BY DEF HistoryIsStore, Log!Recorded, EventOf

\* A save appends one event at most.
LEMMA EventsGrowByOne ==
  ASSUME [Next]_allVars
  PROVE  events' = events \/ \E e : events' = events \union {e}
<1>1. ASSUME NEW c \in Calls, NEW kind, AppendToStream(c, kind)
      PROVE  \E e : events' = events \union {e}
  BY <1>1 DEF AppendToStream
<1>2. ASSUME NEW c \in Calls, Execute(c) \/ ExecuteStep(c)
      PROVE  events' = events \/ \E kind : AppendToStream(c, kind)
  BY <1>2 DEF Execute, ExecuteStep, GenerateId, CreateTrade, SaveNew, ExecuteImpl,
              SaveOutcome, SaveFails
<1>3. ASSUME NEW p \in Providers, Crash(p) PROVE events' = events
  BY <1>3 DEF Crash
<1>4. CASE UNCHANGED allVars
  BY <1>4 DEF allVars, tradeVars
<1> QED
  BY <1>1, <1>2, <1>3, <1>4 DEF Next

\* An event that keeps the streams in shape follows those on record: nothing
\* precedes a created event on its stream, and only the created event an outcome.
LEMMA NewEventFollows ==
  ASSUME TradeInv, TradeInv', HistoryIsStore, NEW e, e \notin events,
         events' = events \union {e}
  PROVE  Log!TradeCanFollow(log, EventOf(e))
<1>1. e \in events' /\ events \subseteq events'
  OBVIOUS
<1>2. \A f \in events' : f.ver \in {0, 1} /\ (f.ver = 0 <=> f.kind = "Created")
  BY DEF TradeInv, TradeStreamShape
<1>3. \A f \in events : f.id = e.id => f.ver # e.ver
  BY <1>1 DEF TradeInv, TradeStreamShape
<1>4. EventOf(e).kind = e.kind /\ EventOf(e).id = e.id
  BY DEF EventOf
<1>5. CASE e.kind = "Created"
  <2>1. \A f \in events : f.id = e.id => f.kind # "Created"
    BY <1>1, <1>2, <1>3, <1>5
  <2> QED
    BY <1>4, <1>5, <2>1, RecordedIsStored DEF Log!TradeCanFollow
<1>6. CASE e.kind # "Created"
  <2>1. e.ver # 0
    BY <1>1, <1>2, <1>6
  <2>2. \E f \in events : f.id = e.id /\ f.kind = "Created"
    <3>1. PICK f \in events' : f.id = e.id /\ f.ver = 0
      BY <1>1 DEF TradeInv, TradeStreamShape
    <3> QED
      BY <1>2, <2>1, <3>1
  <2>3. \A f \in events : f.id = e.id => f.kind = "Created"
    <3> SUFFICES ASSUME NEW f \in events, f.id = e.id PROVE f.kind = "Created"
      OBVIOUS
    <3>1. e.ver \in {0, 1} /\ f.ver \in {0, 1} /\ f.ver # e.ver
      BY <1>1, <1>2, <1>3
    <3>2. f.ver = 0
      BY <2>1, <3>1
    <3> QED
      BY <1>1, <1>2, <3>2
  <2> QED
    BY <1>4, <1>6, <2>2, <2>3, RecordedIsStored DEF Log!TradeCanFollow
<1> QED
  BY <1>5, <1>6

\* A step of the engine writes to the log as it may, or not at all.
LEMMA HistoryStep ==
  ASSUME TradeInv, TradeInv', HistoryIsStore, [Next]_allVars,
         [RecordEvents]_<<events, log>>
  PROVE  HistoryIsStore' /\ [Log!LogNext]_log
<1>1. CASE events' = events /\ log' = log
  BY <1>1 DEF HistoryIsStore
<1>2. ASSUME NEW e \in events' \ events, log' = Append(log, EventOf(e))
      PROVE  HistoryIsStore' /\ [Log!LogNext]_log
  <2>1. events' = events \union {e}
    BY <1>2, EventsGrowByOne
  <2>2. EventOf(e) \in Log!TradeEvents
    BY <1>2 DEF TradeInv, TypeOK, Kinds, Outcomes, EventOf, Log!TradeEvents
  <2>3. HistoryIsStore'
    <3>1. /\ log' \in Seq(Log!TradeEvents)
          /\ DOMAIN log' = (DOMAIN log) \union {Len(log) + 1}
          /\ log'[Len(log) + 1] = EventOf(e)
          /\ \A n \in DOMAIN log : log'[n] = log[n]
      BY <1>2, <2>2 DEF HistoryIsStore
    <3>2. \A n \in DOMAIN log' : \E f \in events' : log'[n] = EventOf(f)
      BY <2>1, <3>1 DEF HistoryIsStore
    <3>3. \A f \in events' : \E n \in DOMAIN log' : log'[n] = EventOf(f)
      BY <2>1, <3>1 DEF HistoryIsStore
    <3> QED
      BY <3>1, <3>2, <3>3 DEF HistoryIsStore
  <2>4. Log!LogNext
    BY <1>2, <2>1, <2>2, NewEventFollows DEF Log!LogNext
  <2> QED
    BY <2>3, <2>4
<1> QED
  BY <1>1, <1>2 DEF RecordEvents

\* Whatever ids collide, whichever saves are lost and whenever instances die,
\* every log of the engine's trades is one the caches are ready for: a trade is
\* created once, and then has one outcome (TradeExecutionEngine.cs:44-57).
THEOREM EngineWritesLegalLogs == Spec /\ HistorySpec => Log!LogSpec
<1>1. Init /\ HistoryInit => TradeInv /\ HistoryIsStore /\ Log!LogInit
  <2>1. Init => events = {}
    BY DEF Init
  <2> QED
    BY <2>1, TradeInvInit DEF HistoryInit, HistoryIsStore, Log!LogInit
<1>2. TradeInv /\ [Next]_allVars => TradeInv'
  BY TradeInvStep
<1>3. /\ TradeInv /\ TradeInv' /\ HistoryIsStore
      /\ [Next]_allVars /\ [RecordEvents]_<<events, log>>
      => HistoryIsStore' /\ [Log!LogNext]_log
  BY HistoryStep
<1> QED
  BY <1>1, <1>2, <1>3, PTL DEF Spec, HistorySpec, Log!LogSpec
=============================================================================
