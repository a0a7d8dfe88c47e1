----------------------------- MODULE DesignSpace -----------------------------
(***************************************************************************)
(* The design space of a subsystem: what of the model is in it             *)
(* (api/archspace.rs), how that is encoded for the solver, and how an      *)
(* instance the solver found is decoded (cem-core/archspace.rs).           *)
(*                                                                         *)
(* A model g has                                                           *)
(*   kinds: of its elements, by id; a name of an option may be an id too   *)
(*   bound, derives: its edges of those kinds, <<source, target>>          *)
(*   constraints: its IncompatibleWith and ChoiceConstraint edges          *)
(*   bodies: those of its elements that have one.                          *)
(* The vectors the code makes of hash maps are sets here.  The element     *)
(* kinds, edges and bodies are read by six calls: g is what they returned. *)
(***************************************************************************)
EXTENDS Integers, Sequences, FiniteSets, SequencesExt

NoBound  == << >>       \* a Parameter's property is missing or no pair of numbers
NoString == "null"      \* an item of an array that is not a string
NoNames  == << >>       \* a property that is missing or no array
Blank    == ""

ConstraintTypes == {"Linked", "Permutation", "Unordered", "UnorderedNorepl"}

Incompatible(s, t) == [kind |-> "IncompatibleWith", source |-> s, target |-> t, type |-> "none"]
Constraint(s, t, type) == [kind |-> "ChoiceConstraint", source |-> s, target |-> t, type |-> type]
Ends(e) == {e.source, e.target}

OfKind(g, kind) == {i \in DOMAIN g.kinds : g.kinds[i] = kind}
Into(edges, i)  == {e[1] : e \in {e \in edges : e[2] = i}}

(* A property of an element's body, or what a missing one reads as.          *)
PropertyOf(g, i, key, missing) ==
    IF i \in DOMAIN g.bodies /\ key \in DOMAIN g.bodies[i] THEN g.bodies[i][key] ELSE missing

----------------------------------------------------------------------------
(* fetch_subsystem_content                                                   *)

(* Fault: an edge is followed from its source only. *)
FaultOneWay(e, scope) == IF e.source \in scope THEN {e.target} ELSE {}

(* The other end of an edge that touches the scope.                          *)
OtherEnd(e, scope) ==
    IF e.source \in scope THEN {e.target}
    ELSE IF e.target \in scope THEN {e.source} ELSE {}

Direct(g, s) ==
    (Into(g.bound, s) \cap OfKind(g, "Parameter"))
    \cup (Into(g.derives, s) \cap OfKind(g, "SelectionChoice"))

(* One hop over the constraints, each seen from what is directly in.         *)
Scope(g, s) ==
    Direct(g, s)
    \cup ((UNION {OtherEnd(e, Direct(g, s)) : e \in g.constraints})
          \cap (OfKind(g, "Parameter") \cup OfKind(g, "SelectionChoice")))

NamesOf(g, i, key) ==
    LET names == PropertyOf(g, i, key, NoNames)
    IN  SelectSeq(names, LAMBDA name : name # NoString)

(* Every connection choice of the project is in every design space.          *)
Connectors(g) ==
    UNION {UNION {ToSet(NamesOf(g, i, key)) : key \in {"from", "to"}} :
              i \in OfKind(g, "ConnectionChoice")}

Content(g, s) ==
    [parameters  |-> Scope(g, s) \cap OfKind(g, "Parameter"),
     choices     |-> Scope(g, s) \cap OfKind(g, "SelectionChoice"),
     connections |-> OfKind(g, "ConnectionChoice"),
     constraints |-> {e \in g.constraints : Ends(e) \cap Scope(g, s) # {}}]

----------------------------------------------------------------------------
(* encode_design_space                                                       *)

Bounded(g, p) ==
    LET bound == PropertyOf(g, p, "bound", NoBound)
    IN  bound # NoBound /\ bound[1] < bound[2]

OptionsOf(g, c) ==
    SelectSeq(PropertyOf(g, c, "options", NoNames), LAMBDA name : name \notin {NoString, Blank})

Selectable(g, c) ==
    LET options == OptionsOf(g, c) IN Len(options) >= 2 /\ IsInjective(options)

(* At each side there is a connector, and all are declared.                  *)
Connectable(g, c) ==
    \A key \in {"from", "to"} :
        NamesOf(g, c, key) # << >> /\ ToSet(NamesOf(g, c, key)) \subseteq Connectors(g)

(* What a constraint may name: a design variable, or an option of a choice,  *)
(* never the choice.                                                         *)
Known(g, content) ==
    {p \in content.parameters : Bounded(g, p)}
    \cup UNION {ToSet(OptionsOf(g, c)) : c \in {c \in content.choices : Selectable(g, c)}}

Encodable(g, content, e) ==
    /\ Ends(e) \subseteq Known(g, content)
    /\ e.kind = "ChoiceConstraint" => e.type \in ConstraintTypes

(* One objective for each design variable, or one if there are but choices.  *)
Objectives(root, variables, choices) ==
    IF variables # {} THEN variables ELSE IF choices # {} THEN {root} ELSE {}

Encode(g, s) ==
    LET content   == Content(g, s)
        variables == {p \in content.parameters : Bounded(g, p)}
        choices   == {c \in content.choices : Selectable(g, c)}
        connected == {c \in content.connections : Connectable(g, c)}
        holds     == {e \in content.constraints : Encodable(g, content, e)}
    IN  [variables   |-> variables,
         choices     |-> [c \in choices |-> OptionsOf(g, c)],
         connections |-> [c \in connected |-> [from |-> NamesOf(g, c, "from"), to |-> NamesOf(g, c, "to")]],
         connectors  |-> Connectors(g),
         constraints |-> holds,
         objectives  |-> Objectives(s, variables, choices),
         skipped     |-> (content.parameters \ variables) \cup (content.choices \ choices)
                         \cup (content.connections \ connected),
         unencoded   |-> content.constraints \ holds]

----------------------------------------------------------------------------
(* summarize_instance: present lists the nodes the solver says are there.    *)

NoOption == "none"

(* The first of a choice's options, in their own order, that is present.     *)
PresentOption(options, present) ==
    LET there == SelectSeq(options, LAMBDA name : name \in ToSet(present))
    IN  IF there = << >> THEN NoOption ELSE there[1]

Accounted(d, present) == {PresentOption(d.choices[c], present) : c \in DOMAIN d.choices}

Summarize(d, present) ==
    [choices |-> [c \in DOMAIN d.choices |-> PresentOption(d.choices[c], present)],
     other   |-> ToSet(present) \ Accounted(d, present)]

----------------------------------------------------------------------------
(* A constraint between two parameters that have bounds is in the design     *)
(* space of either's subsystem, as the comment on SubsystemContent has it.   *)
ReachesBothSides(g, s) ==
    \A e \in g.constraints :
        /\ Ends(e) \subseteq {p \in OfKind(g, "Parameter") : Bounded(g, p)}
        /\ Ends(e) \cap Into(g.bound, s) # {}
        /\ e.kind = "ChoiceConstraint" => e.type \in ConstraintTypes
        => e \in Encode(g, s).constraints

(* What the definition names it declares; and what the subsystem directly    *)
(* has, and each of its constraints, is in the definition or is reported.    *)
NamesWhatItDeclares(g, s) ==
    LET d        == Encode(g, s)
        declared == d.variables \cup UNION {ToSet(d.choices[c]) : c \in DOMAIN d.choices}
    IN  /\ \A e \in d.constraints : Ends(e) \subseteq declared
        /\ \A c \in DOMAIN d.connections :
              ToSet(d.connections[c].from) \cup ToSet(d.connections[c].to) \subseteq d.connectors
        /\ Direct(g, s) \subseteq d.variables \cup DOMAIN d.choices \cup d.skipped
        /\ \A e \in g.constraints :
              Ends(e) \cap Direct(g, s) # {} => e \in d.constraints \cup d.unencoded

(* Every node of an instance is reported once: as the option of a choice, or *)
(* among the others, even if the solver has two options of a choice present. *)
LosesNoNode(d, present) ==
    LET r == Summarize(d, present)
    IN  \A name \in ToSet(present) :
            name \in r.other <=> ~\E c \in DOMAIN r.choices : r.choices[c] = name
=============================================================================
