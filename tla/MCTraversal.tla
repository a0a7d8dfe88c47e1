----------------------------- MODULE MCTraversal -----------------------------
(* Four elements whose edges are one of a few shapes, and one edit.          *)
EXTENDS Traversal

E(k, i, j) == [kind |-> k, source |-> i, target |-> j]
S(i, j) == E("Satisfy", i, j)

(* A chain, a star with a double edge, a diamond, a cycle.                   *)
MCGraphs ==
    {{S(2, 1), S(1, 3), S(3, 4)},
     {S(2, 1), E("Verify", 2, 1), S(2, 3), S(4, 2)},
     {S(2, 1), S(2, 3), S(1, 4), S(3, 4)},
     {S(1, 2), S(2, 3), S(3, 1), S(3, 4)}}

MCAsks == {[root |-> 2, depth |-> d, fanout |-> f, direction |-> w] :
              d \in 1..3, f \in {1, 2, 4}, w \in {"incoming", "outgoing", "both"}}
=============================================================================
