-------------------------- MODULE MCDocumentImport --------------------------
(* One document, two requests that make a proposal of it, two reviewers.     *)
EXTENDS DocumentImport, TLC

CONSTANTS j1, p1, p2, a1, a2, nothing

MCMay == (p1 :> {"propose"}) @@ (p2 :> {"propose"})
         @@ (a1 :> {"accept"}) @@ (a2 :> {"accept", "reject"})
=============================================================================
