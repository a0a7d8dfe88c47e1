------------------------------ MODULE TextDiff ------------------------------
(***************************************************************************)
(* The text of a model's elements (sysml-textual): what a snapshot is      *)
(* printed as, and what an edited text asks to be changed of it.  A text   *)
(* is the sequence of its elements in the order of their first lines, each *)
(* with the depth of its block: Notation has the characters.               *)
(***************************************************************************)
EXTENDS Snapshots

(* A text that does not parse.                                               *)
Unparsable == <<[anchor |-> NoOne, kind |-> "error", name |-> "error", depth |-> 0]>>

----------------------------------------------------------------------------
(* print_tree: an element under each of its parents, at top if it has none.  *)

Line(i, s, depth) ==
    [anchor |-> i, kind |-> s.elements[i].kind, name |-> s.elements[i].name, depth |-> depth]

SortedIds(S) == [n \in 1..Cardinality(S) |-> CHOOSE i \in S : Cardinality({j \in S : j < i}) = n - 1]

ContainsOf(s) == {e \in s.edges : e.kind = "Contains"}
ChildrenOf(s, i) == {e.target : e \in {e \in ContainsOf(s) : e.source = i}} \cap DOMAIN s.elements
Roots(s) == DOMAIN s.elements \ {e.target : e \in ContainsOf(s)}

PrintTree(s) ==
    LET n == Cardinality(DOMAIN s.elements)
        Each(S, print) == LET ids == SortedIds(S)
                          IN  FlattenSeq([k \in DOMAIN ids |-> print[ids[k]]])
        below[left \in 0..n] ==
            LET next == IF left = 0 THEN << >> ELSE below[left - 1]
            IN  [i \in DOMAIN s.elements |->
                    <<Line(i, s, n - left)>>
                        \o (IF left = 0 THEN << >> ELSE Each(ChildrenOf(s, i), next))]
    IN  Each(Roots(s), below[n])

----------------------------------------------------------------------------
(* diff: the ops that take the model read to the text, or errors.            *)

(* What the line's block is in: the last line above of a smaller depth.      *)
BlockOf(t, n) ==
    LET above == {m \in 1..(n - 1) : t[m].depth < t[n].depth}
    IN  IF above = {} THEN 0 ELSE CHOOSE m \in above : \A k \in above : k <= m

Anchors(t) == {t[n].anchor : n \in DOMAIN t} \ {NoOne}

(* A line without an anchor is new: its temporary id, -n, is never of Id.    *)
RefOf(t, n) == IF n = 0 THEN NoOne ELSE IF t[n].anchor # NoOne THEN t[n].anchor ELSE 0 - n

ParentOf(s, i) ==
    LET up == {e.source : e \in {e \in ContainsOf(s) : e.target = i}}
    IN  IF up = {} THEN NoOne ELSE CHOOSE p \in up : TRUE

(* An anchor twice, of no element, of one of another kind, or one missing.   *)
HasErrors(s, t) ==
    \/ \E m, n \in DOMAIN t : m # n /\ t[m].anchor = t[n].anchor /\ t[m].anchor # NoOne
    \/ Anchors(t) # DOMAIN s.elements
    \/ \E n \in DOMAIN t : t[n].anchor \in DOMAIN s.elements /\ s.elements[t[n].anchor].kind # t[n].kind

(* Fault: where the element is in the text is not looked at. *)
FaultNotMoved(s, t, n) ==
    LET line == t[n]
        i    == line.anchor
    IN  IF i = NoOne
        THEN <<[do |-> "create", id |-> RefOf(t, n), kind |-> line.kind, name |-> line.name,
                parent |-> RefOf(t, BlockOf(t, n))]>>
        ELSE IF s.elements[i].name # line.name
             THEN <<[do |-> "rename", id |-> i, name |-> line.name]>> ELSE << >>

(* Fault: a name is written whether it is new or not. *)
FaultAlwaysRename(s, t, n) ==
    LET line   == t[n]
        i      == line.anchor
        parent == RefOf(t, BlockOf(t, n))
    IN  IF i = NoOne
        THEN <<[do |-> "create", id |-> RefOf(t, n), kind |-> line.kind, name |-> line.name,
                parent |-> parent]>>
        ELSE <<[do |-> "rename", id |-> i, name |-> line.name]>>
             \o (IF ParentOf(s, i) # parent
                 THEN <<[do |-> "reparent", id |-> i, parent |-> parent]>> ELSE << >>)

OpsOf(s, t, n) ==
    LET line   == t[n]
        i      == line.anchor
        parent == RefOf(t, BlockOf(t, n))
    IN  IF i = NoOne
        THEN <<[do |-> "create", id |-> RefOf(t, n), kind |-> line.kind, name |-> line.name,
                parent |-> parent]>>
        ELSE (IF s.elements[i].name # line.name
              THEN <<[do |-> "rename", id |-> i, name |-> line.name]>> ELSE << >>)
             \o (IF ParentOf(s, i) # parent
                 THEN <<[do |-> "reparent", id |-> i, parent |-> parent]>> ELSE << >>)

DiffOps(s, t) == FlattenSeq([n \in DOMAIN t |-> OpsOf(s, t, n)])
=============================================================================
