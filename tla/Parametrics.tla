----------------------------- MODULE Parametrics -----------------------------
(***************************************************************************)
(* Parametrics (api/parametrics.rs): a curve of sampled points, and a      *)
(* model of formulas that use and produce parameters' symbols.             *)
(*                                                                         *)
(* Numbers are whole and large enough; a value between two points of a     *)
(* curve is a fraction <<numerator, denominator>>.  A formula adds what it *)
(* reads to a number: which symbols it reads need not be those its Uses    *)
(* edges say, and it may fail.                                             *)
(***************************************************************************)
EXTENDS Integers, Sequences, FiniteSets, Functions, SequencesExt

NotEvaluable == << >>
Refused      == [refused |-> TRUE]

(* The places in I, in order; and the items of q that are at them.           *)
InOrder(I)   == [k \in 1..Cardinality(I) |-> CHOOSE i \in I : Cardinality({j \in I : j < i}) = k - 1]
AtPlaces(q, I) == [k \in 1..Cardinality(I) |-> q[InOrder(I)[k]]]

----------------------------------------------------------------------------
(* evaluate_one                                                              *)

Before(points, m, n) ==
    points[m][1] < points[n][1] \/ (points[m][1] = points[n][1] /\ m < n)

(* A stable sort by x.                                                       *)
Samples(points) ==
    [k \in DOMAIN points |->
        points[CHOOSE n \in DOMAIN points :
                  Cardinality({m \in DOMAIN points : Before(points, m, n)}) = k - 1]]

Between(p, q, x) ==
    IF p[1] = q[1] THEN <<p[2], 1>>
    ELSE <<p[2] * (q[1] - p[1]) + (x - p[1]) * (q[2] - p[2]), q[1] - p[1]>>

Interpolate(points, x) ==
    LET s       == Samples(points)
        windows == {k \in 1..(Len(s) - 1) : s[k][1] <= x /\ x <= s[k + 1][1]}
        first   == CHOOSE k \in windows : \A j \in windows : k <= j
    IN  IF Len(s) < 2 THEN NotEvaluable
        ELSE IF x < s[1][1] \/ x > s[Len(s)][1] THEN NotEvaluable
        ELSE Between(s[first], s[first + 1], x)

----------------------------------------------------------------------------
(* load_model_subgraph.  The model's children come in any order: children    *)
(* lists them.  g has the kinds of elements, the edges uses (a sequence) and *)
(* produces (a sequence), the symbols of parameters and formulas.            *)

NoSymbol == "none"

Symbol(g, p) == IF p \in DOMAIN g.symbols THEN g.symbols[p] ELSE p

IsParameter(g, children, i) == i \in ToSet(children) /\ g.kinds[i] = "Parameter"

UsesOf(g, children, c) ==
    LET edges == AtPlaces(g.uses, {n \in DOMAIN g.uses : /\ g.uses[n][1] = c
                                                        /\ IsParameter(g, children, g.uses[n][2])})
    IN  [n \in DOMAIN edges |-> Symbol(g, edges[n][2])]

(* Only the first edge counts, whether its target is a parameter or not.     *)
ProducesOf(g, children, c) ==
    LET edges == AtPlaces(g.produces, {n \in DOMAIN g.produces : g.produces[n][1] = c})
    IN  IF edges # << >> /\ IsParameter(g, children, edges[1][2])
        THEN Symbol(g, edges[1][2]) ELSE NoSymbol

Constraints(g, children) ==
    LET ids == AtPlaces(children, {n \in DOMAIN children : g.kinds[children[n]] = "Constraint"})
    IN  [n \in DOMAIN ids |->
            [id |-> ids[n], uses |-> UsesOf(g, children, ids[n]),
             produces |-> ProducesOf(g, children, ids[n]), formula |-> g.formulas[ids[n]]]]

----------------------------------------------------------------------------
(* topological_order                                                         *)

Cyclic == <<0>>

(* The last of a symbol's producers; 0 if it has none.                       *)
Producer(cs, symbol) ==
    LET all == {n \in DOMAIN cs : cs[n].produces = symbol}
    IN  IF all = {} THEN 0 ELSE CHOOSE n \in all : \A m \in all : m <= n

(* The uses of n that wait for what a produces, one dependency for each.     *)
Awaits(cs, a, n) == {u \in DOMAIN cs[n].uses : a # n /\ Producer(cs, cs[n].uses[u]) = a}

Degree(cs, n) == Cardinality({u \in DOMAIN cs[n].uses : Producer(cs, cs[n].uses[u]) \notin {0, n}})

(* Fault: one that waited for several is let go by the first. *)
FaultLetGo(cs, r, a, n) == IF Awaits(cs, a, n) = {} THEN r.degree[n] ELSE 0

(* The degree of n when a has been popped.                                   *)
Left(cs, r, a, n) == r.degree[n] - Cardinality(Awaits(cs, a, n))

Pop(cs, r) ==
    LET a    == Head(r.queue)
        left == [n \in DOMAIN cs |-> Left(cs, r, a, n)]
    IN  IF r.queue = << >> THEN r
        ELSE [degree |-> left,
              order  |-> Append(r.order, a),
              queue  |-> Tail(r.queue) \o InOrder({n \in DOMAIN cs : r.degree[n] # 0 /\ left[n] = 0})]

TopologicalOrder(cs) ==
    LET first == [degree |-> [n \in DOMAIN cs |-> Degree(cs, n)], order |-> << >>,
                  queue |-> InOrder({n \in DOMAIN cs : Degree(cs, n) = 0})]
        order == FoldLeft(LAMBDA r, c : Pop(cs, r), first, cs).order
    IN  IF Len(order) = Len(cs) THEN order ELSE Cyclic

----------------------------------------------------------------------------
(* evaluate_model                                                            *)

With(f, x, v) == [y \in DOMAIN f \cup {x} |-> IF y = x THEN v ELSE f[y]]

CanRead(formula, scope) == ~formula.fails /\ formula.reads \subseteq DOMAIN scope
Value(formula, scope)   == FoldFunction(+, formula.plus, [s \in formula.reads |-> scope[s]])

(* A formula that fails ends the evaluation; what was computed is returned.  *)
EvaluateOne(r, c) ==
    IF r.failed THEN r
    ELSE IF ~CanRead(c.formula, r.scope)
    THEN [r EXCEPT !.failed = TRUE, !.order = Append(@, c.id)]
    ELSE IF c.produces = NoSymbol THEN [r EXCEPT !.order = Append(@, c.id)]
    ELSE [r EXCEPT !.order   = Append(@, c.id),
                   !.scope   = With(@, c.produces, Value(c.formula, r.scope)),
                   !.outputs = With(@, c.produces, Value(c.formula, r.scope))]

EvaluateModel(cs, inputs) ==
    LET order == TopologicalOrder(cs)
    IN  IF order = Cyclic THEN Refused
        ELSE FoldLeft(EvaluateOne,
                      [scope |-> inputs, outputs |-> << >>, order |-> << >>, failed |-> FALSE],
                      [n \in DOMAIN order |-> cs[order[n]]])

----------------------------------------------------------------------------
(* At a sampled x the value is that of the first point given there.  At any  *)
(* other it is on the line from the last point given at the next lower x to  *)
(* the first given at the next higher: whatever the order of the rest.       *)
FollowsTheCurve(points, x) ==
    LET xs       == {points[n][1] : n \in DOMAIN points}
        below    == {y \in xs : y < x}
        above    == {y \in xs : y > x}
        at(y)    == {n \in DOMAIN points : points[n][1] = y}
        first(y) == points[CHOOSE n \in at(y) : \A m \in at(y) : n <= m]
        last(y)  == points[CHOOSE n \in at(y) : \A m \in at(y) : m <= n]
        low      == last(CHOOSE y \in below : \A z \in below : z <= y)
        high     == first(CHOOSE y \in above : \A z \in above : y <= z)
        v        == Interpolate(points, x)
    IN  IF Len(points) < 2 \/ (x \notin xs /\ (below = {} \/ above = {})) THEN v = NotEvaluable
        ELSE /\ v # NotEvaluable
             /\ IF x \in xs THEN v[1] = first(x)[2] * v[2]
                ELSE (v[1] - low[2] * v[2]) * (high[1] - low[1]) = (high[2] - low[2]) * (x - low[1]) * v[2]

(* Formulas read only what they are said to use, none uses what it produces, *)
(* and no symbol is produced twice.                                          *)
Declared(cs) ==
    /\ \A c \in ToSet(cs) : c.formula.reads \subseteq ToSet(c.uses) /\ c.produces \notin ToSet(c.uses)
    /\ \A m, n \in DOMAIN cs : m # n => cs[m].produces = NoSymbol \/ cs[m].produces # cs[n].produces

(* A declared model's outputs, with what is given and produced nowhere, are  *)
(* a solution of its formulas, whatever the order they are stored in and     *)
(* whatever else the caller sends; if one can not be computed those before   *)
(* it are right and it really can not; and the model is refused only if some *)
(* formulas do wait for each other.                                          *)
ComputesTheSolution(cs, inputs) ==
    LET r        == EvaluateModel(cs, inputs)
        produced == {c.produces : c \in ToSet(cs)} \ {NoSymbol}
        known    == [s \in (DOMAIN inputs \ produced) \cup DOMAIN r.outputs |->
                        IF s \in DOMAIN r.outputs THEN r.outputs[s] ELSE inputs[s]]
    IN  Declared(cs) =>
            IF r = Refused
            THEN \E S \in (SUBSET ToSet(cs)) \ {{}} :
                    \A c \in S : \E d \in S : d.produces \in ToSet(c.uses)
            ELSE /\ DOMAIN r.outputs \subseteq produced
                 /\ \A c \in ToSet(cs) : c.produces \in DOMAIN r.outputs =>
                        CanRead(c.formula, known) /\ r.outputs[c.produces] = Value(c.formula, known)
                 /\ IF r.failed
                    THEN \E c \in ToSet(cs) : /\ c.id = Last(r.order)
                                              /\ \/ c.formula.fails
                                                 \/ ~(c.formula.reads \subseteq DOMAIN inputs \cup produced)
                    ELSE DOMAIN r.outputs = produced
=============================================================================
