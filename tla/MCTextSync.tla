----------------------------- MODULE MCTextSync -----------------------------
(* A model of two elements, one under the other.                             *)
EXTENDS TextSync

MCFirst ==
    [elements |-> [i \in 1..2 |-> Element("structure", "p")],
     edges |-> {Edge(1, 2, "Contains"), Edge(2, 1, "Satisfy")},
     bodies |-> << >>]
MCNewLines == {[kind |-> "structure", name |-> "q"]}
=============================================================================
