------------------------------ MODULE Notation ------------------------------
(***************************************************************************)
(* The characters of the text view (sysml-textual): what the printer       *)
(* writes for the lines of TextDiff, and what the parser reads.            *)
(*                                                                         *)
(* A text is a sequence of symbols: a character each, but that a keyword   *)
(* of the grammar is one symbol of its own, a letter to the scanner.  The  *)
(* case of keywords, which the parser ignores, and the places that errors  *)
(* name are left out.  A name is a sequence of symbols.                    *)
(***************************************************************************)
EXTENDS TextDiff

CONSTANT Spelling       \* of each element's id

(* kind_keyword, and kind_from_keyword, its inverse.                         *)
Keyword ==
    [Element |-> "element", Structure |-> "structure", Requirement |-> "requirement",
     Port |-> "port", Hazard |-> "hazard", Control |-> "control", Mission |-> "mission",
     Stakeholder |-> "stakeholder", SimulationRun |-> "simulationrun",
     Constraint |-> "constraint", Parameter |-> "parameter",
     InformationElement |-> "informationelement", Interaction |-> "interaction",
     InteractionFragment |-> "interactionfragment", Collection |-> "collection",
     CandidateStructureSuggestion |-> "candidatestructuresuggestion",
     Function |-> "function", SelectionChoice |-> "selectionchoice",
     ConnectionChoice |-> "connectionchoice", Action |-> "action", Model |-> "model"]

KindsOf(word) == {k \in DOMAIN Keyword : word = <<Keyword[k]>>}

Quote  == "\""
Escape == "\\"
White  == {" ", "newline"}
Letter == {Keyword[k] : k \in DOMAIN Keyword} \cup {"a", "b"}
Bare   == Letter \cup {"1", "2", "_", "-"}
Symbol == Bare \cup White \cup {Quote, Escape, "/", "*", "#", "{", "}"}
End    == "end of text"

----------------------------------------------------------------------------
(* print_element and format_identifier.                                      *)

Escaped(c) == IF c \in {Quote, Escape} THEN <<Escape, c>> ELSE <<c>>

FormatName(name) ==
    IF name # << >> /\ \A n \in DOMAIN name : name[n] \in Bare THEN name
    ELSE <<Quote>> \o FlattenSeq([n \in DOMAIN name |-> Escaped(name[n])]) \o <<Quote>>

Margin(depth) == [n \in 1..(2 * depth) |-> " "]

(* The brackets closed after a line, the innermost first.                    *)
Closed(from, to) ==
    FlattenSeq([k \in 1..(from - to) |-> Margin(from - k) \o <<"}", "newline">>])

Render(lines) ==
    LET depth(n) == IF n > Len(lines) THEN 0 ELSE lines[n].depth
        Opening(l) == Margin(l.depth) \o <<Keyword[l.kind], " ">> \o FormatName(l.name)
                    \o <<" ", "/", "*", " ", "#">> \o Spelling[l.anchor] \o <<" ", "*", "/", " ", "{">>
    IN  FlattenSeq([n \in DOMAIN lines |->
            Opening(lines[n])
            \o (IF depth(n + 1) > depth(n) THEN <<"newline">> ELSE <<"}", "newline">>)
            \o Closed(depth(n), depth(n + 1))])

----------------------------------------------------------------------------
(* The parser: each reads on from a place, and fails or says where it got.   *)

Failed       == [ok |-> FALSE]
Got(at, is)  == [ok |-> TRUE, at |-> at, is |-> is]
Peek(t, p)   == IF p <= Len(t) THEN t[p] ELSE End

(* The first place from p on that does not hold one of S.                    *)
Past(t, p, S) ==
    CHOOSE q \in p..(p + Len(t)) : Peek(t, q) \notin S /\ \A r \in p..(q - 1) : t[r] \in S
SkipWhite(t, p) == Past(t, p, White)

Run(t, p, S) ==
    LET q == Past(t, p, S) IN IF q = p THEN Failed ELSE Got(q, SubSeq(t, p, q - 1))

ParseWord(t, p) == Run(t, p, Letter)

RECURSIVE Unquote(_, _, _)
Unquote(t, p, s) ==
    LET c == Peek(t, p)
        d == Peek(t, p + 1)
    IN  CASE c = End     -> Failed
          [] c = Quote   -> Got(p + 1, s)
          [] c = Escape  -> IF d = End THEN Failed
                            ELSE Unquote(t, p + 2, s \o (IF d \in {Quote, Escape} THEN <<d>> ELSE <<c, d>>))
          [] OTHER       -> Unquote(t, p + 1, Append(s, c))

ParseName(t, p) == IF Peek(t, p) = Quote THEN Unquote(t, p + 1, << >>) ELSE Run(t, p, Bare)

Stranger == 99      \* the id of no element
IdOf(spelled) ==
    LET S == {i \in DOMAIN Spelling : Spelling[i] = spelled}
    IN  IF S = {} THEN Stranger ELSE CHOOSE i \in S : TRUE

(* A comment there is an anchor, or an error.                                *)
ParseAnchor(t, p) ==
    IF <<Peek(t, p), Peek(t, p + 1)>> # <<"/", "*">> THEN Got(p, NoOne)
    ELSE LET hash == SkipWhite(t, p + 2)
             id   == Run(t, SkipWhite(t, hash + 1), Symbol \ (White \cup {"*"}))
             last == IF id.ok THEN SkipWhite(t, id.at) ELSE 0
         IN  IF Peek(t, hash) = "#" /\ id.ok /\ <<Peek(t, last), Peek(t, last + 1)>> = <<"*", "/">>
             THEN Got(last + 2, IdOf(id.is)) ELSE Failed

(* Fault: the text may end before a block does. *)
FaultEndCloses(t, p) == Peek(t, p) \in {"}", End}

Closes(t, p) == Peek(t, p) = "}"

RECURSIVE ParseElement(_, _, _), ParseBlock(_, _, _, _)

(* The lines of an element and of what is in its block.                      *)
ParseElement(t, p, depth) ==
    LET word   == ParseWord(t, p)
        kinds  == IF word.ok THEN KindsOf(word.is) ELSE {}
        name   == ParseName(t, SkipWhite(t, word.at))
        anchor == ParseAnchor(t, SkipWhite(t, name.at))
        next   == SkipWhite(t, anchor.at)
        line   == [anchor |-> anchor.is, kind |-> CHOOSE k \in kinds : TRUE,
                   name |-> name.is, depth |-> depth]
    IN  IF kinds = {} \/ ~name.ok \/ ~anchor.ok THEN Failed
        ELSE IF Peek(t, next) = "{" THEN ParseBlock(t, next + 1, depth + 1, <<line>>)
        ELSE Got(next, <<line>>)

ParseBlock(t, p, depth, lines) ==
    LET q     == SkipWhite(t, p)
        child == ParseElement(t, q, depth)
    IN  IF Closes(t, q) THEN Got(q + 1, lines)
        ELSE IF Peek(t, q) = End \/ ~child.ok THEN Failed
        ELSE ParseBlock(t, child.at, depth, lines \o child.is)

RECURSIVE ParseFrom(_, _, _)
ParseFrom(t, p, lines) ==
    LET q    == SkipWhite(t, p)
        root == ParseElement(t, q, 0)
    IN  IF Peek(t, q) = End THEN lines
        ELSE IF ~root.ok THEN Unparsable
        ELSE ParseFrom(t, root.at, lines \o root.is)

Parse(t) == ParseFrom(t, 1, << >>)

----------------------------------------------------------------------------
(* What is printed is read back as it was, whatever the names: so TextSync   *)
(* may take a text for its lines.                                            *)
ReadsBack(s) == Parse(Render(PrintTree(s))) = PrintTree(s)

(* A text that lost its end, or one of its symbols, is refused or gives some *)
(* elements other names: it moves none, and makes none (the text has no      *)
(* delete, and every element must be named by its anchor).                   *)
Slips(t) == {SubSeq(t, 1, n) : n \in 0..(Len(t) - 1)} \cup {RemoveAt(t, n) : n \in DOMAIN t}

SlipsOnlyRename(s) ==
    \A t \in Slips(Render(PrintTree(s))) :
        LET lines == Parse(t)
        IN  \/ lines = Unparsable
            \/ HasErrors(s, lines)
            \/ \A n \in DOMAIN DiffOps(s, lines) : DiffOps(s, lines)[n].do = "rename"
=============================================================================
