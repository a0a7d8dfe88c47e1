----------------------------- MODULE MCTopology -----------------------------
(* Three requests over three elements and two new ones: enough for two       *)
(* writers to close a cycle, and for a third to delete what they checked.    *)
EXTENDS Topology, TLC

CONSTANTS r1, r2, r3, n1, n2, n3, f1, f2, t1, t2, nobody

MCClient == {n1, n2, n3}
E(k, s, t) == [kind |-> k, source |-> s, target |-> t]

Create(e)  == [call |-> "createEdge", edge |-> e]
Delete(e)  == [call |-> "deleteEdge", edge |-> e]
Remove(i, ack) == [call |-> "deleteElement", id |-> i, acknowledge |-> ack]
New(k)     == [call |-> "createElement", kind |-> k]
Import(els, pairs) ==
    [call |-> "import", elements |-> {[id |-> x[1], kind |-> x[2]] : x \in els}, items |-> pairs]
Text(ops)  == [call |-> "text", items |-> ops]
Make(t, p) == [do |-> "create", temp |-> t, kind |-> "Structure", parent |-> p]
Move(i, p) == [do |-> "reparent", id |-> i, parent |-> p]

Graph(ks, es) == [kinds |-> [i \in MCClient \cup {f1, f2} |-> IF i \in MCClient THEN ks[i] ELSE {}],
                  edges |-> es]
Of(ka, kb, kc) == (n1 :> ka) @@ (n2 :> kb) @@ (n3 :> kc)
S == {"Structure"}

(* Elements contained one way, twice, or not at all; actions in a loop of    *)
(* flows; a requirement that something satisfies.                            *)
MCSeeds ==
    {Graph(Of(S, S, S), {E("Contains", n1, n2)}),
     Graph(Of(S, S, S), {E("Contains", n1, n3), E("Contains", n2, n3)}),
     Graph(Of({"Action"}, {"Action"}, {"Action"}),
           {E("Flow", n1, n2), E("Flow", n2, n3), E("Flow", n3, n1)}),
     Graph(Of(S, {"Requirement"}, {}), {E("Satisfy", n1, n2)})}

MCScript ==
    (r1 :> {Create(E("Contains", n2, n1)), Create(E("Contains", n2, n3)), Create(E("Satisfy", n3, n2)),
            Create(E("Flow", n2, n1)),
            Delete(E("Flow", n1, n2)), Delete(E("Contains", n1, n2)),
            Import({<<n3, "Structure">>}, <<<<n2, n3>>, <<n3, n2>>>>),
            Import({<<n3, "Action">>}, << >>),
            Text(<<Make(t1, n1), Move(n2, t1)>>)})
    @@
    (r2 :> {Create(E("Contains", n3, n1)), Create(E("Contains", n1, n2)),
            Delete(E("Flow", n2, n3)), Remove(n2, FALSE), New("Action"),
            Import({<<n3, "Structure">>, <<n2, "Structure">>}, <<<<n3, n2>>>>),
            Text(<<Move(n3, n2), Move(n3, n1), Move(n1, n3)>>),
            Text(<<Make(t1, t2), Make(t2, nobody)>>)})
    @@
    (r3 :> {Remove(n1, TRUE), Remove(n3, FALSE),
            Import({<<n2, "Structure">>, <<n2, "Action">>}, << >>)})

(* Two requests that each close half of a cycle. *)
TwoEdges == [r \in {r1, r2, r3} |->
    CASE r = r1 -> {Create(E("Contains", n2, n3))}
      [] r = r2 -> {Create(E("Contains", n3, n1))}
      [] r = r3 -> {Import({}, << >>)}]
=============================================================================
