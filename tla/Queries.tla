------------------------------- MODULE Queries -------------------------------
(***************************************************************************)
(* What parses, or walks a graph depth first: text of models and programs, *)
(* and what existence derives.  Like those of Answers, each takes what it  *)
(* is given and keeps nothing: a behaviour makes one query.                *)
(***************************************************************************)
EXTENDS Naturals, Sequences

CONSTANTS
    Spelling,   \* of ids
    Texts,      \* snapshots to print
    Programs,   \* sequences of tokens
    Walks       \* seeds and edges

Textual   == INSTANCE Notation
Action    == INSTANCE Alf
Existing  == INSTANCE Existence

VARIABLE query

Nothing == [about |-> "nothing"]

Init == query = Nothing

AskText    == query' \in {[about |-> "text",    of |-> q] : q \in Texts}
AskProgram == query' \in {[about |-> "program", of |-> q] : q \in Programs}
AskWalk    == query' \in {[about |-> "walk",    of |-> q] : q \in Walks}

Next ==
    /\ query = Nothing
    /\ AskText \/ AskProgram \/ AskWalk

Spec == Init /\ [][Next]_query

Concerns(what) == query.about = what

----------------------------------------------------------------------------
(* The text of a model is read back as what was printed, and a slip in it    *)
(* renames at most.                                                          *)
TextReadsBack ==
    Concerns("text") => Textual!ReadsBack(query.of) /\ Textual!SlipsOnlyRename(query.of)

(* The parser of actions agrees with its grammar.                            *)
ProgramsParse == Concerns("program") => Action!ReadsTheGrammar(query.of)

(* What existence implies is what can be reached, and no cycle goes unsaid.  *)
ExistenceIsReach ==
    Concerns("walk") => Existing!DerivesWhatIsReached(query.of.seeds, query.of.edges)
=============================================================================
