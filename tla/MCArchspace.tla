----------------------------- MODULE MCArchspace -----------------------------
(* A definer, a user and a proposer of handles, and a reviewer.              *)
EXTENDS Archspace, TLC

CONSTANTS d1, u1, p1, v1, fan, core, nothing

MCMay == (d1 :> {"define"})
         @@ (u1 :> {"decode", "generate"})
         @@ (p1 :> {"propose"}) @@ (v1 :> {"accept", "reject"})

MCInitially == (fan :> 1) @@ (core :> 0)
MCMaxVersion == (fan :> 2) @@ (core :> 0)
=============================================================================
