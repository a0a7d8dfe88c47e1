---------------------------- MODULE MCProposals ----------------------------
(* Two subsystems and five requests: a proposer that checks the head, two    *)
(* reviewers, someone who sets the level, and someone else at work.          *)
EXTENDS Proposals, TLC

CONSTANTS p1, a1, a2, e1, l1, fan, core, nothing

MCSubsystems == <<fan, core>>

MCLevel == {[level |-> "L4", threshold |-> nothing], [level |-> "L3", threshold |-> 5],
            [level |-> "L3", threshold |-> nothing]}

MCMay == (p1 :> {"propose"}) @@ (a1 :> {"accept"}) @@ (a2 :> {"accept", "reject"})
         @@ (e1 :> {"edit", "delete", "hazard", "level"}) @@ (l1 :> {"level"})

(* The threshold exactly. *)
MCDeviation == [r \in Req |-> 5]
=============================================================================
