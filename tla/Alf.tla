--------------------------------- MODULE Alf ---------------------------------
(***************************************************************************)
(* The parser of the subset of Alf that actions are written in (alf-lite), *)
(* and the grammar at the head of its source.                              *)
(*                                                                         *)
(* A program is a sequence of tokens.  The scanning of characters, the     *)
(* values of numbers and strings and the places errors name are left out;  *)
(* so is that no space may stand before a dot.                             *)
(***************************************************************************)
EXTENDS Naturals, Sequences

Operators ==
    <<{"||"}, {"&&"}, {"<", "<=", ">", ">=", "==", "!="}, {"+", "-"}, {"*", "/"}>>
Comparison == 3     \* its operators do not chain
Tightest   == 5

Number  == {"1", "1.5"}
Text    == {"'s'"}
Loop    == {"while", "for"}
Bulk    == {"Sequence", "Set", "OrderedSet", "Bag"}
Truth   == {"true", "false"}
Ident   == {"x", "y", "let", "if", "else", "send"} \cup Loop \cup Bulk \cup Truth

Literal(c)           == [is |-> "literal", of |-> c]
Variable(c)          == [is |-> "variable", of |-> c]
Property(c, f)       == [is |-> "property", of |-> c, feature |-> f]
Not(e)               == [is |-> "not", operand |-> e]
Binary(op, l, r)     == [is |-> op, left |-> l, right |-> r]
Let(c, e)            == [is |-> "let", of |-> c, value |-> e]
Assign(c, f, e)      == [is |-> "assign", of |-> c, feature |-> f, value |-> e]
If(e, then, else)    == [is |-> "if", value |-> e, then |-> then, else |-> else]
Invoke(c, args)      == [is |-> "invoke", of |-> c, args |-> args]
SendSignal(c, args)  == [is |-> "send", of |-> c, args |-> args]

----------------------------------------------------------------------------
(* The parser.  A failure names the construct the subset lacks, if any.      *)

Fails(construct) == [ok |-> FALSE, construct |-> construct]
Syntax           == Fails("none")
Got(at, is)      == [ok |-> TRUE, at |-> at, is |-> is]
Peek(t, p)       == IF p <= Len(t) THEN t[p] ELSE "end"

RECURSIVE ParseLevel(_, _, _), Chain(_, _, _), ParseUnary(_, _), ParsePrimary(_, _)

(* Fault: the right operand is read as loosely as the whole. *)
FaultLeansRight(k) == k

Right(k) == k + 1

(* parse_or, parse_and, parse_cmp, parse_add, parse_mul.                     *)
ParseLevel(t, p, k) ==
    IF k > Tightest THEN ParseUnary(t, p) ELSE Chain(t, ParseLevel(t, p, k + 1), k)

Chain(t, left, k) ==
    IF ~left.ok \/ Peek(t, left.at) \notin Operators[k] THEN left
    ELSE LET right == ParseLevel(t, left.at + 1, Right(k))
             both  == Got(right.at, Binary(t[left.at], left.is, right.is))
         IN  IF ~right.ok THEN right
             ELSE IF k = Comparison THEN both ELSE Chain(t, both, k)

ParseExpr(t, p) == ParseLevel(t, p, 1)

ParseUnary(t, p) ==
    LET operand == ParseUnary(t, p + 1)
    IN  IF Peek(t, p) # "!" THEN ParsePrimary(t, p)
        ELSE IF operand.ok THEN Got(operand.at, Not(operand.is)) ELSE operand

(* Keywords are names here; true and false are not.                          *)
ParsePrimary(t, p) ==
    LET c     == Peek(t, p)
        inner == ParseExpr(t, p + 1)
    IN  CASE c = "(" -> IF ~inner.ok THEN inner
                        ELSE IF Peek(t, inner.at) = ")" THEN Got(inner.at + 1, inner.is) ELSE Syntax
          [] c \in Number \cup Text \cup Truth -> Got(p + 1, Literal(c))
          [] c \in Bulk /\ Peek(t, p + 1) = "{" -> Fails("collections")
          [] c \in Ident \ Truth /\ ~(c \in Bulk /\ Peek(t, p + 1) = "{") ->
                IF Peek(t, p + 1) # "." THEN Got(p + 1, Variable(c))
                ELSE IF Peek(t, p + 2) \in Ident THEN Got(p + 3, Property(c, t[p + 2])) ELSE Syntax
          [] OTHER -> Syntax

(* The rest of what is read is a token that must be there.                   *)
Ended(t, r, token, is) ==
    IF ~r.ok THEN r ELSE IF Peek(t, r.at) = token THEN Got(r.at + 1, is) ELSE Syntax

(* Arguments, from after the bracket that opens them to after the one that   *)
(* closes them.                                                              *)
RECURSIVE MoreArgs(_, _, _)
MoreArgs(t, p, args) ==
    LET e == ParseExpr(t, p)
    IN  IF ~e.ok THEN e
        ELSE IF Peek(t, e.at) = "," THEN MoreArgs(t, e.at + 1, Append(args, e.is))
        ELSE Ended(t, e, ")", Append(args, e.is))
ParseArgs(t, p) == IF Peek(t, p) = ")" THEN Got(p + 1, << >>) ELSE MoreArgs(t, p, << >>)

RECURSIVE ParseStatement(_, _), MoreStatements(_, _, _)

MoreStatements(t, p, statements) ==
    LET s == ParseStatement(t, p)
    IN  IF Peek(t, p) = "}" THEN Got(p + 1, statements)
        ELSE IF ~s.ok THEN s
        ELSE MoreStatements(t, s.at, Append(statements, s.is))
ParseBlock(t, p) == IF Peek(t, p) = "{" THEN MoreStatements(t, p + 1, << >>) ELSE Syntax

ParseLet(t, p) ==
    LET e == ParseExpr(t, p + 2)
    IN  IF Peek(t, p) \in Ident /\ Peek(t, p + 1) = "=" THEN Ended(t, e, ";", Let(t[p], e.is)) ELSE Syntax

ParseIf(t, p) ==
    LET e    == ParseExpr(t, p + 1)
        then == ParseBlock(t, e.at + 1)
        else == ParseBlock(t, then.at + 1)
    IN  IF Peek(t, p) # "(" THEN Syntax
        ELSE IF ~e.ok THEN e
        ELSE IF Peek(t, e.at) # ")" THEN Syntax
        ELSE IF ~then.ok THEN then
        ELSE IF Peek(t, then.at) # "else" THEN Got(then.at, If(e.is, then.is, << >>))
        ELSE IF ~else.ok THEN else
        ELSE Got(else.at, If(e.is, then.is, else.is))

ParseSend(t, p) ==
    LET args == ParseArgs(t, p + 2)
    IN  IF Peek(t, p) \in Ident /\ Peek(t, p + 1) = "("
        THEN Ended(t, args, ";", SendSignal(t[p], args.is)) ELSE Syntax

ParseAssignOrInvoke(t, p, c) ==
    LET e    == ParseExpr(t, p + 3)
        args == ParseArgs(t, p + 1)
    IN  CASE Peek(t, p) = "." ->
                IF Peek(t, p + 1) \in Ident /\ Peek(t, p + 2) = "="
                THEN Ended(t, e, ";", Assign(c, t[p + 1], e.is)) ELSE Syntax
          [] Peek(t, p) = "(" -> Ended(t, args, ";", Invoke(c, args.is))
          [] OTHER            -> Syntax

ParseStatement(t, p) ==
    LET c == Peek(t, p)
    IN  CASE c \notin Ident -> Syntax
          [] c \in Loop     -> Fails("loops")
          [] c = "let"      -> ParseLet(t, p + 1)
          [] c = "if"       -> ParseIf(t, p + 1)
          [] c = "send"     -> ParseSend(t, p + 1)
          [] c \in Ident \ (Loop \cup {"let", "if", "send"}) -> ParseAssignOrInvoke(t, p + 1, c)

RECURSIVE ParseFrom(_, _, _)
ParseFrom(t, p, statements) ==
    LET s == ParseStatement(t, p)
    IN  IF p > Len(t) THEN Got(p, statements)
        ELSE IF ~s.ok THEN s
        ELSE ParseFrom(t, s.at, Append(statements, s.is))

Parse(t) == ParseFrom(t, 1, << >>)

----------------------------------------------------------------------------
(* The grammar: what a sequence of tokens as a whole may be.                 *)

Reserved == Loop \cup {"let", "if", "send"}

RECURSIVE ExprsOf(_, _), ArgsOf(_), StatementsOf(_), ProgramsOf(_)

PrimariesOf(t) ==
    IF Len(t) = 1 /\ t[1] \in Number \cup Text \cup Truth THEN {Literal(t[1])}
    ELSE IF Len(t) = 1 /\ t[1] \in Ident THEN {Variable(t[1])}
    ELSE IF Len(t) = 3 /\ t[1] \in Ident \ Truth /\ t[2] = "." /\ t[3] \in Ident
         THEN {Property(t[1], t[3])}
    ELSE IF Len(t) > 2 /\ t[1] = "(" /\ t[Len(t)] = ")"
         THEN ExprsOf(SubSeq(t, 2, Len(t) - 1), 1)
    ELSE {}

ExprsOf(t, k) ==
    IF t = << >> THEN {}
    ELSE IF k > Tightest
         THEN PrimariesOf(t)
              \cup (IF t[1] = "!" THEN {Not(e) : e \in ExprsOf(Tail(t), k)} ELSE {})
    ELSE ExprsOf(t, k + 1)
         \cup UNION {{Binary(t[n], l, r) :
                        l \in ExprsOf(SubSeq(t, 1, n - 1), IF k = Comparison THEN k + 1 ELSE k),
                        r \in ExprsOf(SubSeq(t, n + 1, Len(t)), k + 1)} :
                     n \in {n \in DOMAIN t : t[n] \in Operators[k]}}

ArgsOf(t) ==
    IF t = << >> THEN {<< >>}
    ELSE {<<e>> : e \in ExprsOf(t, 1)}
         \cup UNION {{Append(args, e) : args \in ArgsOf(SubSeq(t, 1, n - 1)) \ {<< >>},
                                       e \in ExprsOf(SubSeq(t, n + 1, Len(t)), 1)} :
                     n \in {n \in DOMAIN t : t[n] = ","}}

IfsOf(t) ==
    LET all     == Len(t)
        at(n)   == IF n \in 1..all THEN t[n] ELSE "none"
        part(a, b) == SubSeq(t, a, b)
    IN  UNION {UNION {
            {If(e, then, else) :
                e \in ExprsOf(part(3, n - 1), 1), then \in ProgramsOf(part(n + 2, m - 1)),
                else \in IF m = all THEN {<< >>} ELSE ProgramsOf(part(m + 3, all - 1))} :
            m \in {m \in (n + 2)..all :
                     /\ t[m] = "}"
                     /\ m = all \/ (at(m + 1) = "else" /\ at(m + 2) = "{" /\ at(all) = "}" /\ all > m + 2)}} :
        n \in {n \in 4..all : t[n] = ")" /\ at(n + 1) = "{"}}

StatementsOf(t) ==
    LET all == Len(t)
        starts(s) == all > Len(s) /\ \A n \in DOMAIN s : t[n] \in s[n]
        ends(s)   == all >= Len(s) /\ SubSeq(t, all - Len(s) + 1, all) = s
    IN  IF starts(<<{"let"}, Ident, {"="}>>) /\ ends(<<";">>)
        THEN {Let(t[2], e) : e \in ExprsOf(SubSeq(t, 4, all - 1), 1)}
        ELSE IF starts(<<{"if"}, {"("}>>) THEN IfsOf(t)
        ELSE IF starts(<<{"send"}, Ident, {"("}>>) /\ ends(<<")", ";">>)
        THEN {SendSignal(t[2], args) : args \in ArgsOf(SubSeq(t, 4, all - 2))}
        ELSE IF starts(<<Ident \ Reserved, {"."}, Ident, {"="}>>) /\ ends(<<";">>)
        THEN {Assign(t[1], t[3], e) : e \in ExprsOf(SubSeq(t, 5, all - 1), 1)}
        ELSE IF starts(<<Ident \ Reserved, {"("}>>) /\ ends(<<")", ";">>)
        THEN {Invoke(t[1], args) : args \in ArgsOf(SubSeq(t, 3, all - 2))}
        ELSE {}

ProgramsOf(t) ==
    IF t = << >> THEN {<< >>}
    ELSE UNION {{Append(before, s) : before \in ProgramsOf(SubSeq(t, 1, n - 1)),
                                     s \in StatementsOf(SubSeq(t, n, Len(t)))} :
                n \in {n \in DOMAIN t : StatementsOf(SubSeq(t, n, Len(t))) # {}}}

(* The parser takes what the grammar derives, as the grammar derives it, and *)
(* nothing else.                                                             *)
ReadsTheGrammar(t) ==
    LET r == Parse(t) IN ProgramsOf(t) = IF r.ok THEN {r.is} ELSE {}
=============================================================================
