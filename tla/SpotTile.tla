------------------------------- MODULE SpotTile -------------------------------
(***************************************************************************)
(* A spot tile (spotTileModel.js, spotTileView.jsx) trading through the    *)
(* execution service (executionService.js).  An execution passes the limit *)
(* check of another desktop application, is sent to the server, and ends   *)
(* with its answer, with an error of the operation, or with the second of  *)
(* two time-outs, the first of which only warns.  The tile listens to its  *)
(* last execution alone, held in a serial disposable; the server is told   *)
(* of no one's leaving.  The desktop may also ask the tile to close a      *)
(* position, which it does through that same disposable.                   *)
(*                                                                         *)
(* Time is left out: a timer may fire whenever it is set.  The messages    *)
(* to the desktop (position-closed, prices) change no state here.          *)
(***************************************************************************)
CONSTANTS
  Tickets,        \* executions from the tile
  Closes,         \* requests to close a position
  LimitChecker,   \* whether the desktop may run a limit checker
  None            \* no execution yet

ASSUME TileAssumption ==
  /\ Tickets \cap Closes = {}
  /\ None \notin Tickets \cup Closes
  /\ LimitChecker \in BOOLEAN

VARIABLES
  inFlight,      \* isTradeExecutionInFlight
  notice,        \* notification
  pricingUp, executionUp, priceStale,
  priced,        \* whether currentSpotPrice has been set
  dismissTimer,  \* whether the toast notification timer is running
  held,          \* the execution in the serial disposable
  request,       \* where the stream of each execution is
  server         \* what the server has done about it

tileVars   == <<inFlight, notice, dismissTimer>>
priceVars  == <<pricingUp, executionUp, priceStale, priced>>
tradeVars  == <<held, request, server>>
spotTileVars == <<tileVars, priceVars, tradeVars>>

Executions == Tickets \cup Closes

Results == {"Done", "Rejected", "error"}

\* Notifications: none, "Pricing is unavailable", the result of a ticket.
NoNotice == [kind |-> "none"]
Text     == [kind |-> "text"]
Trade(t, result) == [kind |-> "trade", ticket |-> t, result |-> result]

\* _updatePricingDownStatusNotification
Updated(n, up, stale) ==
  IF n.kind = "trade" THEN n
  ELSE IF up /\ ~stale THEN NoNotice ELSE Text

TileInit ==
  /\ inFlight = FALSE
  /\ pricingUp \in BOOLEAN /\ executionUp \in BOOLEAN
  /\ priceStale = FALSE
  /\ priced = FALSE
  /\ notice = Updated(NoNotice, pricingUp, FALSE)
  /\ dismissTimer = FALSE
  /\ held = None
  /\ request = [r \in Executions |-> "new"]
  /\ server = [r \in Executions |-> "none"]

At(r, stage) == request' = [request EXCEPT ![r] = stage]

Serve(r, done) == server' = [server EXCEPT ![r] = done]

-----------------------------------------------------------------------------
(* Beginning.                                                              *)

Send(r) == At(r, "sent") /\ Serve(r, "sent")

\* executeTrade of the service, in place of what the disposable held.
Begin(r) ==
  /\ request[r] = "new"
  /\ held' = r
  /\ \/ LimitChecker /\ At(r, "limit") /\ UNCHANGED server
     \/ Send(r)

\* The view shows the price buttons while there is a price and nothing else
\* to show.
Execute(t) ==
  /\ notice = NoNotice /\ priced
  /\ pricingUp /\ executionUp /\ ~inFlight
  /\ inFlight' = TRUE
  /\ Begin(t)
  /\ UNCHANGED <<notice, dismissTimer, priceVars>>

ClosePosition(c) ==
  /\ priced
  /\ Begin(c)
  /\ UNCHANGED <<tileVars, priceVars>>

ServerExecutes(r) ==
  /\ server[r] = "sent"
  /\ \E done \in {"Done", "Rejected"} : Serve(r, done)
  /\ UNCHANGED <<tileVars, priceVars, held, request>>

-----------------------------------------------------------------------------
(* Answers.                                                                *)

\* Mutant: executions are added up in a composite disposable.
HeldAny(r) == request[r] # "new"

Held(r) == held = r

\* The handler of a response; a closed position only tells the desktop.
Response(r, result) ==
  IF r \in Closes THEN UNCHANGED tileVars
  ELSE /\ inFlight' = FALSE
       /\ notice' = Trade(r, result)
       /\ dismissTimer' = (dismissTimer \/ result = "Done")

\* Mutant: the answer of the limit checker is not looked at.
LimitAnswerIgnored(r) ==
  /\ Held(r) /\ request[r] = "limit"
  /\ Serve(r, "sent")
  /\ \/ At(r, "sent") /\ UNCHANGED tileVars
     \/ At(r, "refused") /\ Response(r, "error")
  /\ UNCHANGED <<priceVars, held>>

LimitAnswer(r) ==
  /\ Held(r) /\ request[r] = "limit"
  /\ \/ Send(r) /\ UNCHANGED tileVars
     \/ At(r, "refused") /\ Response(r, "error") /\ UNCHANGED server
  /\ UNCHANGED <<priceVars, held>>

Answer(r) ==
  /\ Held(r) /\ request[r] \in {"sent", "warned"}
  /\ server[r] \in {"Done", "Rejected"}
  /\ Response(r, server[r])
  /\ At(r, "ended")
  /\ UNCHANGED <<priceVars, held, server>>

\* EXECUTION_CLIENT_TIMEOUT_MS: an error is shown, the answer still counts.
ClientTimeout(r) ==
  /\ Held(r) /\ request[r] = "sent"
  /\ Response(r, "error")
  /\ At(r, "warned")
  /\ UNCHANGED <<priceVars, held, server>>

\* Mutant: the time-out of the request ends with the warning.
RequestTimeoutUnwarned(r) ==
  /\ Held(r) /\ request[r] = "sent"
  /\ Response(r, "error")
  /\ At(r, "ended")
  /\ UNCHANGED <<priceVars, held, server>>

\* EXECUTION_REQUEST_TIMEOUT_MS, the longer of the two.
RequestTimeout(r) ==
  /\ Held(r) /\ request[r] = "warned"
  /\ Response(r, "error")
  /\ At(r, "ended")
  /\ UNCHANGED <<priceVars, held, server>>

\* The operation errors: no service, the instance or the connection lost.
OperationFails(r) ==
  /\ Held(r) /\ request[r] \in {"sent", "warned"}
  /\ At(r, "ended")
  /\ Response(r, "error")
  /\ UNCHANGED <<priceVars, held, server>>

-----------------------------------------------------------------------------
(* Notifications and prices.                                               *)

\* Mutant: dismissing does not look at the state of pricing.
DismissNotice ==
  /\ notice' = NoNotice
  /\ UNCHANGED <<inFlight, priceVars, tradeVars>>

\* tradeNotificationDismissed
Dismiss ==
  /\ notice' = Updated(NoNotice, pricingUp, priceStale)
  /\ UNCHANGED <<inFlight, priceVars, tradeVars>>

UserDismisses ==
  /\ notice.kind = "trade"
  /\ Dismiss
  /\ UNCHANGED dismissTimer

\* The timer may have been set for an earlier trade than the one shown.
DismissTimeout ==
  /\ dismissTimer
  /\ dismissTimer' = FALSE
  /\ Dismiss

PriceArrives ==
  /\ priced' = TRUE
  /\ priceStale' = FALSE
  /\ notice' = IF priceStale THEN Updated(notice, pricingUp, FALSE) ELSE notice
  /\ UNCHANGED <<inFlight, dismissTimer, pricingUp, executionUp, tradeVars>>

PriceGoesStale ==
  /\ priced /\ ~priceStale
  /\ priceStale' = TRUE
  /\ notice' = Updated(notice, pricingUp, TRUE)
  /\ UNCHANGED <<inFlight, dismissTimer, pricingUp, executionUp, priced,
                 tradeVars>>

StatusChanges ==
  /\ \E pricing, execution \in BOOLEAN :
       /\ <<pricing, execution>> # <<pricingUp, executionUp>>
       /\ pricingUp' = pricing
       /\ executionUp' = execution
  /\ notice' = Updated(notice, pricingUp', priceStale)
  /\ UNCHANGED <<inFlight, dismissTimer, priceStale, priced, tradeVars>>

-----------------------------------------------------------------------------

TileNext ==
  \/ \E t \in Tickets : Execute(t)
  \/ \E c \in Closes : ClosePosition(c)
  \/ \E r \in Executions :
       \/ ServerExecutes(r)
       \/ LimitAnswer(r)
       \/ Answer(r)
       \/ ClientTimeout(r)
       \/ RequestTimeout(r)
       \/ OperationFails(r)
  \/ UserDismisses
  \/ DismissTimeout
  \/ PriceArrives
  \/ PriceGoesStale
  \/ StatusChanges

\* Timers fire.  Nobody has to answer: not the server, not the checker.
Fairness ==
  \A r \in Executions :
    WF_spotTileVars(ClientTimeout(r)) /\ WF_spotTileVars(RequestTimeout(r))

TileSpec == TileInit /\ [][TileNext]_spotTileVars /\ Fairness

-----------------------------------------------------------------------------
(* Properties.                                                             *)

\* Types; and the server knows of an execution just when it was sent, which
\* one that was refused by the limit checker never is
\* (executionService.js:38-62).
TileTypeOK ==
  /\ inFlight \in BOOLEAN /\ dismissTimer \in BOOLEAN
  /\ pricingUp \in BOOLEAN /\ executionUp \in BOOLEAN
  /\ priceStale \in BOOLEAN /\ priced \in BOOLEAN
  /\ \/ notice \in {NoNotice, Text}
     \/ \E t \in Tickets, result \in Results : notice = Trade(t, result)
  /\ held \in Executions \cup {None}
  /\ request \in [Executions ->
       {"new", "limit", "refused", "sent", "warned", "ended"}]
  /\ server \in [Executions -> {"none", "sent", "Done", "Rejected"}]
  /\ \A r \in Executions :
       server[r] = "none" <=> request[r] \in {"new", "limit", "refused"}

\* What the tile shows is about the last trade executed on it: the answer of
\* an earlier one, on which it gave up after the client time-out, never
\* takes its place (spotTileModel.js:164, the serial disposable).
NoticeOfLastTicket ==
  notice.kind = "trade" /\ held \in Tickets => notice.ticket = held

\* While the tile listens to an execution, it is in flight just as long as
\* nothing has been reported of it, whichever of the answer, the refusal,
\* the time-outs and the error comes first (spotTileModel.js:169-184).
InFlightUntilReported ==
  held \in Tickets =>
    (inFlight <=> request[held] \in {"limit", "sent"})

\* A tile reports its last trade, once, and is in flight until it does
\* (spotTileModel.js:155-185).
ReportsLastTicket == NoticeOfLastTicket /\ InFlightUntilReported

\* The user is told that pricing is unavailable exactly when it is, unless
\* the result of a trade is shown, and also after that is dismissed
\* (spotTileModel.js:144-147, 290-298).
WarnsWhenPricingDown ==
  notice.kind # "trade" => (notice = Text <=> ~pricingUp \/ priceStale)

\* An execution that was sent is given up in the end, answered or not, if the
\* tile still listens to it (executionService.js:51-56).
SentIsGivenUp ==
  \A t \in Tickets :
    request[t] = "sent" ~> request[t] = "ended" \/ ~Held(t)

\* A tile in flight comes back.  "if we never receive a response, mark
\* request as complete" (executionService.js:51).
InFlightEnds == inFlight ~> ~inFlight

===============================================================================
