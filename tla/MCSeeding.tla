------------------------------ MODULE MCSeeding ------------------------------
(* The turbofan reference, seeded by two starts of the server, and one of    *)
(* the script, whose subtrees are small.                                     *)
EXTENDS Seeding, TurbofanRef

CONSTANTS first, second, scale

MCScale == ScalePlan(7, 2, 3)
MCPlan == (first :> TurbofanPlan) @@ (second :> TurbofanPlan) @@ (scale :> MCScale)
MCStopAt == {1, 7, 20, 80, 150, Len(TurbofanPlan), Len(TurbofanPlan) + 1}
MCOrder == <<first, scale, second>>
=============================================================================
