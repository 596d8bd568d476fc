----------------------------- MODULE MCDocking -----------------------------
(* Sizes of the popouts, in pixels, and the points of the model. *)
EXTENDS Docking
CONSTANTS t1, t2, blotter

MCSize == t1 :> <<370, 155>> @@ t2 :> <<370, 155>> @@ blotter :> <<850, 280>>
MCMonitor == <<0, 0, 1600, 900>>
MCHome == t1 :> <<0, 0>> @@ t2 :> <<400, 20>> @@ blotter :> <<375, 200>>
\* Corner; its right neighbour; above the top, out of view.
MCPoints == {<<0, 0>>, <<375, 0>>, <<30, -170>>}
=============================================================================
