---------------------------- MODULE MCVersioning ----------------------------
(* Five requests over three branch names: enough for a branch of a branch    *)
(* with an edit on each, and for any two of them to race.                    *)
EXTENDS Versioning, TLC

CONSTANTS r1, r2, r3, r4, r5, main, b1, b2

MCMay == (r1 :> {"write", "fail"}) @@ (r2 :> {"write", "fork"}) @@ (r3 :> {"edit"})
         @@ (r4 :> {"fork"}) @@ (r5 :> {"edit"})

(* An empty diff, and one of two entries. *)
MCEntries == (r1 :> 2) @@ (r2 :> 1) @@ (r3 :> 0) @@ (r4 :> 0) @@ (r5 :> 0)

(* Two branch names, and two editors, that nothing tells apart. *)
Interchangeable == Permutations({b1, b2}) \cup Permutations({r3, r5})
=============================================================================
