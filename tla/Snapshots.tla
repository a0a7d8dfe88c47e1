----------------------------- MODULE Snapshots -----------------------------
(***************************************************************************)
(* Snapshots of a project and the entries of its commits                   *)
(* (store/versioning.rs): what the comparison of two snapshots lists, and  *)
(* what the replay of an entry does.                                       *)
(*                                                                         *)
(* A snapshot's vector of elements is a function on their ids, its vector  *)
(* of edges a set: no id is there twice, and no edge is pushed that is     *)
(* there.                                                                  *)
(***************************************************************************)
EXTENDS Naturals, Sequences, FiniteSets, SequencesExt, FiniteSetsExt

NoOne  == 0         \* Option<ElementId>: None
NoText == "none"    \* Option<String>: None

Element(kind, name) == [kind |-> kind, name |-> name, active |-> TRUE, origin |-> "Human"]
Edge(source, target, kind) == [source |-> source, target |-> target, kind |-> kind]
NoBody == [rationale |-> NoText, properties |-> << >>]
Empty  == [elements |-> << >>, edges |-> {}, bodies |-> << >>]

(* A function like f, but for the value at x.                                *)
With(f, x, v) == [y \in DOMAIN f \cup {x} |-> IF y = x THEN v ELSE f[y]]
Without(f, x) == [y \in DOMAIN f \ {x} |-> f[y]]

----------------------------------------------------------------------------
(* compute_snapshot_diff                                                     *)

Differ(old, new, field) ==
    {i \in DOMAIN old.elements \cap DOMAIN new.elements :
        old.elements[i][field] # new.elements[i][field]}

ElementEntries(old, new) ==
    {[do |-> "renamed", id |-> i, to |-> new.elements[i].name] : i \in Differ(old, new, "name")}
    \cup {[do |-> "active", id |-> i, on |-> new.elements[i].active] : i \in Differ(old, new, "active")}
    \cup {[do |-> "origin", id |-> i, to |-> new.elements[i].origin] : i \in Differ(old, new, "origin")}
    \cup {[do |-> "created", id |-> i, kind |-> new.elements[i].kind, name |-> new.elements[i].name] :
             i \in DOMAIN new.elements \ DOMAIN old.elements}

DeletedEntries(old, new) ==
    {[do |-> "deleted", id |-> i] : i \in DOMAIN old.elements \ DOMAIN new.elements}

(* Only a body both have is compared, and of its properties those it has now.*)
PropertyOf(body, k) == IF k \in DOMAIN body.properties THEN body.properties[k] ELSE NoText

BothBodies(old, new) == DOMAIN old.bodies \cap DOMAIN new.bodies
ChangedKeys(old, new, i) ==
    {k \in DOMAIN new.bodies[i].properties :
        PropertyOf(old.bodies[i], k) # new.bodies[i].properties[k]}
Reworded(old, new) == {i \in BothBodies(old, new) : old.bodies[i].rationale # new.bodies[i].rationale}

PropertyEntries(old, new, i) ==
    {[do |-> "property", id |-> i, key |-> k, to |-> new.bodies[i].properties[k]] :
        k \in ChangedKeys(old, new, i)}
BodyEntries(old, new) ==
    (UNION {PropertyEntries(old, new, i) : i \in BothBodies(old, new)})
    \cup {[do |-> "rationale", id |-> i, to |-> new.bodies[i].rationale] : i \in Reworded(old, new)}

(* Fault: an edge that is gone is not listed. *)
FaultOnlyAdded(old, new) ==
    <<{[do |-> "linked", edge |-> e] : e \in new.edges \ old.edges}, {}>>

EdgeEntries(old, new) ==
    <<{[do |-> "linked", edge |-> e] : e \in new.edges \ old.edges},
      {[do |-> "unlinked", edge |-> e] : e \in old.edges \ new.edges}>>

(* In this order; within each set, in the order of a vector or a hash map.   *)
SnapshotDiff(old, new) ==
    <<ElementEntries(old, new), DeletedEntries(old, new), BodyEntries(old, new)>>
        \o EdgeEntries(old, new)

----------------------------------------------------------------------------
(* apply_graph_op: an op of a text edit, its ids real.                       *)

ParentEdge(parent, id) == IF parent = NoOne THEN {} ELSE {Edge(parent, id, "Contains")}

SetName(s, id, name) ==
    IF id \in DOMAIN s.elements THEN [s EXCEPT !.elements[id].name = name] ELSE s

(* Fault: the edge from the parent it had is kept. *)
FaultKeptParent(s, op) == [s EXCEPT !.edges = @ \cup ParentEdge(op.parent, op.id)]

Reparented(s, op) ==
    [s EXCEPT !.edges = {e \in @ : ~(e.target = op.id /\ e.kind = "Contains")}
                        \cup ParentEdge(op.parent, op.id)]

AddElement(s, id, kind, name) ==
    IF id \in DOMAIN s.elements THEN s
    ELSE [s EXCEPT !.elements = With(@, id, Element(kind, name))]

ApplyGraphOp(s, op) ==
    CASE op.do = "rename"   -> SetName(s, op.id, op.name)
      [] op.do = "create"   -> [AddElement(s, op.id, op.kind, op.name) EXCEPT
                                   !.edges = @ \cup ParentEdge(op.parent, op.id)]
      [] op.do = "reparent" -> Reparented(s, op)

----------------------------------------------------------------------------
(* apply_diff                                                                *)

BodyOf(s, id) == IF id \in DOMAIN s.bodies THEN s.bodies[id] ELSE NoBody

(* The live delete drops an element's edges too, its entry does not say so.  *)
Removed(s, id) ==
    [elements |-> Without(s.elements, id),
     bodies   |-> Without(s.bodies, id),
     edges    |-> {e \in s.edges : id \notin {e.source, e.target}}]

(* An entry about an element that is not there changes nothing; one about a  *)
(* body that is not there makes it.                                          *)
ApplyDiff(s, d) ==
    CASE d.do = "property"  ->
            [s EXCEPT !.bodies = With(@, d.id,
                [BodyOf(s, d.id) EXCEPT !.properties = With(@, d.key, d.to)])]
      [] d.do = "rationale" ->
            [s EXCEPT !.bodies = With(@, d.id, [BodyOf(s, d.id) EXCEPT !.rationale = d.to])]
      [] d.do = "renamed"   -> SetName(s, d.id, d.to)
      [] d.do = "active"    -> IF d.id \in DOMAIN s.elements
                               THEN [s EXCEPT !.elements[d.id].active = d.on] ELSE s
      [] d.do = "origin"    -> IF d.id \in DOMAIN s.elements
                               THEN [s EXCEPT !.elements[d.id].origin = d.to] ELSE s
      [] d.do = "created"   -> AddElement(s, d.id, d.kind, d.name)
      [] d.do = "deleted"   -> Removed(s, d.id)
      [] d.do = "linked"    -> [s EXCEPT !.edges = @ \cup {d.edge}]
      [] d.do = "unlinked"  -> [s EXCEPT !.edges = @ \ {d.edge}]
      [] d.do = "text"      -> FoldLeft(ApplyGraphOp, s, d.ops)

Replay(s, entries) == FoldLeft(ApplyDiff, s, entries)

----------------------------------------------------------------------------
(* A snapshot: finitely many elements, edges and bodies, and of each body    *)
(* finitely many properties.                                                 *)
Snap(s) == s = [elements |-> s.elements, edges |-> s.edges, bodies |-> s.bodies]
IsElement(e) == e = [kind |-> e.kind, name |-> e.name, active |-> e.active, origin |-> e.origin]
IsBody(b) ==
    /\ b = [rationale |-> b.rationale, properties |-> b.properties]
    /\ b.properties = [k \in DOMAIN b.properties |-> b.properties[k]]
    /\ IsFiniteSet(DOMAIN b.properties)
IsSnapshot(s) ==
    /\ Snap(s)
    /\ s.elements = [i \in DOMAIN s.elements |-> s.elements[i]]
    /\ s.bodies = [i \in DOMAIN s.bodies |-> s.bodies[i]]
    /\ IsFiniteSet(DOMAIN s.elements) /\ IsFiniteSet(s.edges) /\ IsFiniteSet(DOMAIN s.bodies)
    /\ \A i \in DOMAIN s.elements : IsElement(s.elements[i])
    /\ \A i \in DOMAIN s.bodies : IsBody(s.bodies[i])

(* What a diff can say: kinds stay, what is new is active and made by hand,  *)
(* no body is new, none is lost but with its element, no property is lost,   *)
(* none is new with nothing for a value, and an edge does not stay when an   *)
(* element it ends in goes.                                                  *)
Expressible(old, new) ==
    /\ \A i \in DOMAIN new.elements :
          LET e == new.elements[i]
          IN  IF i \in DOMAIN old.elements THEN e.kind = old.elements[i].kind
              ELSE e = Element(e.kind, e.name)
    /\ DOMAIN new.bodies = DOMAIN old.bodies \ (DOMAIN old.elements \ DOMAIN new.elements)
    /\ \A i \in DOMAIN new.bodies :
          LET was == old.bodies[i].properties
              now == new.bodies[i].properties
          IN  DOMAIN was \subseteq DOMAIN now /\ \A k \in DOMAIN now \ DOMAIN was : now[k] # NoText
    /\ \A e \in new.edges : {e.source, e.target} \cap (DOMAIN old.elements \ DOMAIN new.elements) = {}

(* In whatever order a set of entries is listed.                             *)
ApplyEntries(s, entries) == FoldSet(LAMBDA d, t : ApplyDiff(t, d), s, entries)

(* The comparison of two snapshots, replayed on the first, gives the second. *)
DiffReplays(old, new) ==
    Expressible(old, new) => FoldLeft(ApplyEntries, old, SnapshotDiff(old, new)) = new
=============================================================================
