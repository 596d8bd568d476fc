------------------------------ MODULE TradeLog ------------------------------
(***************************************************************************)
(* The trade events of the Event Store, all streams together, in the order  *)
(* it took them: what the trade engine writes and the caches read.          *)
(***************************************************************************)
EXTENDS Naturals, Sequences

CONSTANT TradeIds

VARIABLE log

TradeEvents == [kind : {"Created", "Completed", "Rejected"}, id : TradeIds]

Recorded(trace, kinds, i) ==
  \E n \in DOMAIN trace : trace[n].id = i /\ trace[n].kind \in kinds

\* The trade streams the engine writes: created, then one outcome.
TradeCanFollow(trace, e) ==
  IF e.kind = "Created"
    THEN ~Recorded(trace, {"Created"}, e.id)
    ELSE /\ Recorded(trace, {"Created"}, e.id)
         /\ ~Recorded(trace, {"Completed", "Rejected"}, e.id)

LogInit == log = <<>>

LogNext ==
  \E e \in TradeEvents : TradeCanFollow(log, e) /\ log' = Append(log, e)

\* What the caches ask of whoever writes trades.
LogSpec == LogInit /\ [][LogNext]_log
=============================================================================
