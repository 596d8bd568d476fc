------------------------------ MODULE TradeBook ------------------------------
(***************************************************************************)
(* What trade execution promises, whatever fails: a trade is opened once,   *)
(* settled at most once afterwards, and a request is answered with a        *)
(* settled trade that no other request is answered with.                    *)
(***************************************************************************)
CONSTANTS Requests, Outcomes

VARIABLES
  opened,    \* ids of the trades on record
  settled,   \* [id, kind]: how trades ended
  answers    \* [request, id, kind]: what requesters were told

bookVars == <<opened, settled, answers>>

BookInit == opened = {} /\ settled = {} /\ answers = {}

\* One trade more: its id is whatever the step adds.
Open ==
  /\ \E i \in opened' : i \notin opened /\ opened' = opened \union {i}
  /\ UNCHANGED <<settled, answers>>

Settle(i, k) ==
  /\ i \in opened
  /\ \A s \in settled : s.id # i
  /\ settled' = settled \union {[id |-> i, kind |-> k]}
  /\ UNCHANGED <<opened, answers>>

\* Saving the outcome may be what the answer waits for: both in one step.
SettleAndAnswer(r, i, k) ==
  /\ i \in opened
  /\ \A s \in settled : s.id # i
  /\ \A a \in answers : a.request # r /\ a.id # i
  /\ settled' = settled \union {[id |-> i, kind |-> k]}
  /\ answers' = answers \union {[request |-> r, id |-> i, kind |-> k]}
  /\ UNCHANGED opened

BookNext ==
  \/ Open
  \/ \E i \in opened, k \in Outcomes :
       Settle(i, k) \/ \E r \in Requests : SettleAndAnswer(r, i, k)

BookSpec == BookInit /\ [][BookNext]_bookVars
=============================================================================
