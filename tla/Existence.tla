----------------------------- MODULE Existence -----------------------------
(***************************************************************************)
(* What exists if some elements do (sysml-core, FR-ARCH-02): the walk over *)
(* the edges of kind ArchDerives from a list of seeds, whose cycles are    *)
(* legal.  Edges are a sequence: the graph store gives them in any order.  *)
(***************************************************************************)
EXTENDS Naturals, Sequences, FiniteSets, SequencesExt

Nothing == [stack |-> << >>, finished |-> {}, derived |-> {}, within |-> {}]

Neighbours(edges, node) ==
    LET out == SelectSeq(edges, LAMBDA e : e[1] = node)
    IN  [n \in DOMAIN out |-> out[n][2]]

(* Fault: a node stays on the path when the walk has left it. *)
FaultLeftOn(r, node) == [r EXCEPT !.finished = @ \cup {node}]

Leave(r, node) == [r EXCEPT !.stack = Front(@), !.finished = @ \cup {node}]

RECURSIVE Walk(_, _, _)

(* derive_existence_dfs.                                                     *)
Walk(edges, r, node) ==
    LET Meet(s, next) ==
            LET on == {n \in DOMAIN s.stack : s.stack[n] = next}
                t  == [s EXCEPT !.derived = @ \cup {next}]
            IN  IF on # {}
                THEN [t EXCEPT !.within = @ \cup {s.stack[n] : n \in {n \in DOMAIN s.stack :
                                                     \E m \in on : m <= n}}]
                ELSE IF next \in s.finished THEN t ELSE Walk(edges, t, next)
    IN  Leave(FoldLeft(Meet, [r EXCEPT !.stack = Append(@, node)], Neighbours(edges, node)), node)

ComputeDerivedExistence(seeds, edges) ==
    FoldLeft(LAMBDA r, seed :
                 LET s == [r EXCEPT !.derived = @ \cup {seed}, !.stack = << >>]
                 IN  IF seed \in r.finished THEN s ELSE Walk(edges, s, seed),
             Nothing, seeds)

----------------------------------------------------------------------------
(* What can be reached from some nodes over one or more edges.               *)
Reach(edges, from) ==
    LET links == {edges[n] : n \in DOMAIN edges}
        step[n \in 0..Len(edges)] ==
            IF n = 0 THEN {l[2] : l \in {l \in links : l[1] \in from}}
            ELSE LET s == step[n - 1] IN s \cup {l[2] : l \in {l \in links : l[1] \in s}}
    IN  step[Len(edges)]

OnCycle(edges, node) == node \in Reach(edges, {node})

(* Exactly what can be reached is derived; what is said to be on a cycle is; *)
(* and no cycle goes unsaid, though of some not every member is (a node that *)
(* leads to one that the walk had left is not marked).                       *)
DerivesWhatIsReached(seeds, edges) ==
    LET r    == ComputeDerivedExistence(seeds, edges)
        from == {seeds[n] : n \in DOMAIN seeds}
    IN  /\ r.derived = from \cup Reach(edges, from)
        /\ \A node \in r.within : OnCycle(edges, node)
        /\ \A node \in r.derived :
              OnCycle(edges, node) =>
                  \E other \in r.within :
                      other \in Reach(edges, {node}) /\ node \in Reach(edges, {other})
=============================================================================
