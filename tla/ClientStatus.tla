----------------------------- MODULE ClientStatus -----------------------------
(***************************************************************************)
(* What the browser makes of a service client: the prices of pricing-      *)
(* Service.js, one per stream operation, and the state of the application  *)
(* that the footer shows.  The service client is the one of the pricing    *)
(* service; the other services are one more entry of the lookup in which   *)
(* compositeStatusService.js gathers the status of all of them.            *)
(***************************************************************************)
EXTENDS ServiceClient

VARIABLES
  price,    \* what each price stream has last sent to its tile
  kind,     \* the transport of the connection
  lookup,   \* the lookup, one object that is updated in place
  footer    \* the model of the footer

followers == <<price, kind, lookup, footer>>
statusVars == <<vars, followers>>

Kinds == {"WebSocket", "LongPolling"}

-----------------------------------------------------------------------------
(* The footer.                                                             *)

\* The footer starts with an empty lookup of its own, and meets the shared
\* one only when some status is next sent: the stream is not replayed.
Services(f, l) == IF f.heard THEN {l.pricing, l.other} ELSE {}

ApplicationStatus(f, l, connected, type) ==
  LET services == Services(f, l) IN
  IF connected /\ FALSE \notin services /\ type = "WebSocket" THEN "Healthy"
  ELSE IF TRUE \in services THEN "Warning" ELSE "Down"

\* Every status sent, and every status of the connection, is an event of
\* the model of the footer, after which it computes its own.
FooterOf(f, sent) ==
  LET g == [f EXCEPT !.heard = @ \/ sent] IN
  IF f.subscribed
  THEN [g EXCEPT !.status = ApplicationStatus(g, lookup', up', kind')]
  ELSE f

\* A dictionary was emitted: a disconnect emits an empty one.
Emitted == dict' # dict \/ (up /\ ~up')

\* Mutant: a disconnect ends the dictionary without a last, empty one.
FollowLookupWhileUp ==
  lookup' = IF ~up' THEN lookup
            ELSE [lookup EXCEPT !.pricing = Connected(dict') # {}]

FollowLookup ==
  lookup' = [pricing |-> IF Emitted THEN Connected(dict') # {} ELSE lookup.pricing,
             other   |-> up' /\ lookup.other]

-----------------------------------------------------------------------------
(* The prices.                                                             *)

\* Mutant: a stale price is sent when the stream is retried.
FollowPricesAtRetry(o) ==
  IF op'[o].status = "done" THEN "none"
  ELSE IF /\ op[o].status = "failed" /\ op'[o].status # "failed"
          /\ price[o] # "none" THEN "stale"
  ELSE price[o]

\* An error pumps the last price, if there is one, as not tradable.
FollowPrices(o) ==
  IF op'[o].status = "done" THEN "none"
  ELSE IF /\ op[o].status # "failed" /\ op'[o].status = "failed"
          /\ price[o] # "none" THEN "stale"
  ELSE price[o]

\* All this happens in the step of the service client that causes it.
Follow ==
  /\ price' = [o \in StreamOps |-> FollowPrices(o)]
  /\ IF ~up /\ up' THEN kind' \in Kinds ELSE kind' = kind
  /\ FollowLookup
  /\ footer' = FooterOf(footer, Emitted)

-----------------------------------------------------------------------------
(* Steps of their own.                                                     *)

\* A price comes: the topic is subscribed to before the instance is asked.
Quote(o) ==
  /\ Asked(op[o])
  /\ op[o].target \in alive
  /\ price' = [price EXCEPT ![o] = "tradable"]
  /\ UNCHANGED <<vars, kind, lookup, footer>>

\* Another service gains its first instance, or loses its last.
OtherServiceChanges ==
  /\ up
  /\ UNCHANGED <<vars, price, kind>>
  /\ lookup' = [lookup EXCEPT !.other = ~@]
  /\ footer' = FooterOf(footer, TRUE)

InitFooter ==
  /\ ~footer.subscribed
  /\ UNCHANGED <<vars, price, kind, lookup>>
  /\ footer' = FooterOf([footer EXCEPT !.subscribed = TRUE], FALSE)

StatusInit ==
  /\ Init
  /\ price = [o \in StreamOps |-> "none"]
  /\ kind = "Unknown"
  /\ lookup = [pricing |-> FALSE, other |-> FALSE]
  /\ footer = [subscribed |-> FALSE, heard |-> FALSE, status |-> "Unknown"]

StatusNext ==
  \/ Next /\ Follow
  \/ \E o \in StreamOps : Quote(o)
  \/ OtherServiceChanges
  \/ InitFooter

StatusSpec == StatusInit /\ [][StatusNext]_statusVars /\ Fairness

-----------------------------------------------------------------------------
(* Properties.                                                             *)

\* A tile is never left with a price it may deal on when the stream behind
\* that price has broken: the connection is up and the stream watches the
\* instance that sent it (pricingService.js:26-48, "if it errors (likely
\* connection down) we pump a non tradable price").
TradableIsStreamed ==
  \A o \in StreamOps : price[o] = "tradable" =>
    up /\ op[o].target \in op[o].watch

\* The indicator of the footer agrees with the services at every moment,
\* once it has heard of one: healthy when all are connected over a
\* WebSocket, down when none is, and never healthy without a connection
\* (footerModel.js:85-95, compositeStatusService.js:91-106).
FooterTells ==
  LET pricing == Connected(dict) # {} IN
  /\ footer.status = "Healthy" => up /\ kind = "WebSocket"
  /\ footer.heard =>
       /\ footer.status = "Healthy" => pricing /\ lookup.other
       /\ footer.status = "Warning" => up /\ (pricing \/ lookup.other)
       /\ footer.status = "Down"    => ~pricing /\ ~lookup.other

=============================================================================
