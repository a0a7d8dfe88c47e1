------------------------------ MODULE MCAnswers ------------------------------
(* Small inputs of each computation, and among them the odd ones.            *)
EXTENDS Answers, SequencesExt

(* Two subsystems with a parameter and a choice each, and a connection.      *)
MCSpaces ==
    LET kinds == [s1 |-> "Structure", s2 |-> "Structure", p |-> "Parameter", q |-> "Parameter",
                  c |-> "SelectionChoice", d |-> "SelectionChoice", k |-> "ConnectionChoice",
                  o1 |-> "Structure", o3 |-> "Structure"]
        edges == {Design!Incompatible("p", "q"), Design!Incompatible("c", "o1"), Design!Incompatible("o1", "o3"),
                  Design!Constraint("q", "p", "Linked"), Design!Constraint("p", "q", "Odd"),
                  Design!Constraint("d", "c", "Linked"), Design!Incompatible("p", "o3")}
        few   == {{}} \cup {{e, f} : e, f \in edges}
        bounds  == {<< >>, <<1, 1>>, <<0, 1>>}
        options == {<< >>, <<"o1", "o1">>, <<"o1", "null", "o2">>}
        bodies  == {[p |-> [bound |-> b], q |-> [bound |-> e], c |-> [options |-> o],
                     d |-> [options |-> <<"o3", "", "o2">>], k |-> [from |-> <<"x">>, to |-> to]] :
                       b, e \in bounds, o \in options, to \in {<<"null">>, <<"x", "y">>}}
    IN  [model : {[kinds |-> kinds, bound |-> {<<"p", "s1">>, <<"q", "s2">>, <<"c", "s1">>},
                   derives |-> {<<"c", "s1">>, <<"d", "s2">>, <<"o1", "s1">>},
                   constraints |-> es, bodies |-> bs] : es \in few, bs \in bodies},
         subsystem : {"s1", "s2"}]

MCInstances ==
    LET nodes == {"p", "o1", "o2", "o3"}
    IN  [definition : {[choices |-> [c |-> <<"o1", "o2">>, d |-> o]] : o \in {<<"o3", "o1">>, <<"o2", "o3">>}},
         present : UNION {{s \in [1..n -> nodes] : IsInjective(s)} : n \in 0..4}]

MCCurves ==
    [points : UNION {[1..n -> (0..2) \X {0, 1, 4}] : n \in 0..3}, x : -1..3]

(* Three formulas over four parameters, one of them of another model.        *)
MCModels ==
    LET kinds == [p |-> "Parameter", q |-> "Parameter", r |-> "Parameter", far |-> "Parameter",
                  f |-> "Constraint", g |-> "Constraint", h |-> "Constraint"]
        uses  == [{"f", "g", "h"} -> SUBSET {"p", "q", "r", "far"}]
        some  == {u \in uses : u["f"] \subseteq {"p", "q", "far"} /\ Cardinality(u["g"]) < 2}
        symbols == [p |-> "x", q |-> "y", far |-> "x"]
        read(s) == {IF i \in DOMAIN symbols THEN symbols[i] ELSE i : i \in s}
        all     == FlattenSeq([n \in 1..3 |-> [m \in 1..4 |-> <<<<"f", "g", "h">>[n], <<"far", "p", "q", "r">>[m]>>]])
        list(u) == SelectSeq(all, LAMBDA e : e[2] \in u[e[1]])
        model(u, makes, fails) ==
            [kinds |-> kinds, symbols |-> symbols, uses |-> list(u), produces |-> makes,
             formulas |-> [c \in {"f", "g", "h"} |->
                             [reads |-> read(u[c] \ {"far"}), plus |-> 1, fails |-> c = fails]]]
    IN  [model : {model(u, makes, fails) : u \in some, fails \in {"none", "g"},
                     makes \in {<<<<"f", "q">>, <<"g", "r">>>>, <<<<"f", "r">>, <<"g", "q">>, <<"g", "p">>, <<"h", "far">>>>}},
         children : {<<"f", "g", "h", "p", "q", "r">>, <<"r", "h", "q", "g", "p", "f">>},
         inputs : {[x |-> 1], [x |-> 1, y |-> 7, r |-> 9]}]
=============================================================================
