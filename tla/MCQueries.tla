------------------------------ MODULE MCQueries ------------------------------
(* Small texts, programs and graphs, and among them the odd ones.  A         *)
(* behaviour asks one thing of the parts that compute, whichever they are.   *)
EXTENDS Queries, MCAnswers, MCDiffs

MCSpelling == <<<<"1">>, <<"1", "2">>, <<"a", "-", "2">>>>

(* Names of every sort, in forests of two; and a tree of three.              *)
Names ==
    {<< >>, <<"a">>, <<"port">>, <<"\"">>, <<"\\", "\"">>, <<"a", " ", "b", "\\">>, <<"*", "/", "{", "}", "newline">>}
Forest(kinds, names, links) ==
    [elements |-> [i \in DOMAIN names |-> Textual!Element(kinds[i], names[i])],
     edges |-> {Textual!Edge(l[1], l[2], "Contains") : l \in links}, bodies |-> << >>]
MCTexts ==
    {Forest(<<"Structure", "Port">>, <<m, n>>, links) :
        m, n \in Names, links \in {{}, {<<1, 2>>}, {<<2, 1>>}}}
    \cup {Forest(<<"Structure", "Port", "Requirement">>, <<<<"a">>, <<"b">>, <<"a", " ">>>>, links) :
             links \in {{<<1, 2>>, <<2, 3>>}, {<<3, 2>>, <<2, 1>>}, {<<1, 2>>, <<1, 3>>}, {<<2, 1>>}}}

(* Programs that parse, and every program an edit of one token away.         *)
Sound ==
    {<<"let", "x", "=", "x", "+", "1", "*", "y", ";">>,
     <<"let", "x", "=", "x", "*", "1", "+", "y", "-", "1", ";">>,
     <<"let", "if", "=", "!", "x", ".", "y", "&&", "x", "<=", "y", ";">>,
     <<"x", ".", "y", "=", "true", "||", "(", "x", "||", "y", ")", ";">>,
     <<"if", "(", "x", ")", "{", "x", "(", ")", ";", "}", "else", "{", "}">>,
     <<"if", "(", "x", ")", "{", "}", "send", "y", "(", "'s'", ",", "x", ")", ";">>}
Tokens == {"x", "let", "if", "else", "send", "while", "Set", "true", "1.5", "(", ")", "{", "}", ".", "=",
           ";", ",", "+", "*", "<", "&&", "!"}
MCPrograms ==
    Sound \cup UNION {
        {RemoveAt(t, n) : n \in DOMAIN t}
        \cup {ReplaceAt(t, n, c) : n \in DOMAIN t, c \in Tokens}
        \cup {InsertAt(t, n, c) : n \in 1..(Len(t) + 1), c \in Tokens} : t \in Sound}

(* Up to four edges among three elements, in any order, and one seed or two. *)
MCWalks ==
    LET edges == {"a", "b", "c"} \X {"a", "b", "c"}
        lists == UNION {{l \in [1..n -> edges] : IsInjective(l)} : n \in 0..4}
    IN  [seeds : {<<"a">>, <<"b", "a">>}, edges : lists]

----------------------------------------------------------------------------
MCInit == Init /\ AskInit /\ CompareInit

MCNext ==
    /\ query = Nothing /\ question = Unasked /\ pair = Unread
    /\ \/ Next /\ UNCHANGED <<question, pair>>
       \/ AskNext /\ UNCHANGED <<query, pair>>
       \/ Compare /\ UNCHANGED <<query, question>>

MCSpec == MCInit /\ [][MCNext]_<<query, question, pair>>
=============================================================================
