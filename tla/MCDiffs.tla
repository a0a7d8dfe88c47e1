------------------------------- MODULE MCDiffs -------------------------------
EXTENDS Diffs

(* Snapshots of two elements, with bodies and without.                       *)
Elements(one, two) ==
    [i \in {i \in {1, 2} : <<one, two>>[i] # "absent"} |-> <<one, two>>[i]]
Named(name, active, origin) == [kind |-> "Structure", name |-> name, active |-> active, origin |-> origin]
Graphs ==
    LET ones == {Named(n, a, "Human") : n \in {"p", "q"}, a \in BOOLEAN}
        twos == {Named(n, TRUE, o) : n \in {"p", "q"}, o \in {"Human", "AI"}}
        snap(e, edges) == [elements |-> e, edges |-> edges, bodies |-> << >>]
        all == {Edge(1, 2, "Contains"), Edge(2, 1, "Satisfy")}
    IN  {snap(<< >>, {})} \cup {snap(<<e>>, {}) : e \in ones}
        \cup {snap([i \in {2} |-> e], {}) : e \in twos}
        \cup {snap(<<e, f>>, edges) : e \in ones, f \in twos, edges \in SUBSET all}
Written ==
    LET props == {<< >>, [k |-> "v"], [k |-> "w"], [k |-> "none"], [j |-> "v", k |-> "v"]}
        body  == [rationale : {"none", "r"}, properties : props]
        e     == Named("p", TRUE, "Human")
        snap(els, bodies) == [elements |-> els, edges |-> {}, bodies |-> bodies]
    IN  {snap(<<e, e>>, bodies) : bodies \in {<< >>} \cup {<<b>> : b \in body} \cup {<<b, b>> : b \in body}}
        \cup {snap(<<e>>, bodies) : bodies \in {<< >>} \cup {<<b>> : b \in body}}
MCPairs == [old : Graphs, new : Graphs] \cup [old : Written, new : Written]
=============================================================================
