------------------------------ MODULE Traversal ------------------------------
(***************************************************************************)
(* The budgeted traversal of the traceability graph and its pages          *)
(* (traceability.rs).  Breadth first, one query for each element and       *)
(* direction, neighbours sorted by id and cut at the fan-out; every page   *)
(* runs the whole of it again and goes on after a cursor, which is an id.  *)
(* The graph may be edited between any two of these queries.               *)
(*                                                                         *)
(* Ids are numbers, for their order.  The kind of edge an element was      *)
(* found by is left out; that two edges may join the same elements is not. *)
(***************************************************************************)
EXTENDS Naturals, Sequences, FiniteSets, SequencesExt

CONSTANTS
    Id,         \* of elements; 0 is none
    Traced,     \* kinds of edge that are followed
    Graphs,     \* sets of edges there may be at first (a bound)
    Asks,       \* requests there may be (a bound)
    MaxDepth, MaxFanout, PageSize,
    MaxEdits    \* edits of the graph (a bound)

ASSUME IdAssumption == Id \subseteq Nat \ {0} /\ IsFiniteSet(Id) /\ IsFiniteSet(Traced)
ASSUME PageAssumption == PageSize \in Nat \ {0}
ASSUME AsksAssumption ==
    Asks \subseteq [root : Id, depth : Nat, fanout : Nat, direction : {"incoming", "outgoing", "both"}]

Edge == [kind : Traced, source : Id, target : Id]
ASSUME GraphsAssumption == Graphs \subseteq SUBSET Edge

VARIABLES
    elements, edges,
    ask,        \* the request whose pages the client is getting
    pc,
    visited,    \* id to hop distance
    frontier,   \* <<id, depth>>
    heard,      \* edges to each neighbour read of the head of frontier
    truncated,
    page,       \* ids of the page that are not hydrated yet
    more,       \* the page is not the last
    cursor,     \* 0: none
    results,    \* what the client was given, over all pages
    edits,
    steady,     \* history: no edit since this page's traversal began
    still,      \* history: nor since the first page was asked for
    always      \* history: visited by every page's traversal so far

graph == <<elements, edges>>
walk  == <<visited, frontier, heard, truncated>>
pages == <<page, more, cursor, results>>
vars  == <<graph, ask, pc, walk, pages, edits, steady, still, always>>

Nobody == [i \in Id |-> 0]

Init ==
    /\ elements = Id
    /\ edges \in Graphs
    /\ ask \in Asks
    /\ pc = "ask"
    /\ visited = << >> /\ frontier = << >> /\ heard = Nobody /\ truncated = FALSE
    /\ page = << >> /\ more = FALSE /\ cursor = 0 /\ results = << >>
    /\ edits = 0
    /\ steady = TRUE /\ still = TRUE /\ always = Id

(* validate_budget, and is the root there.                                   *)
Admitted == ask.depth <= MaxDepth /\ ask.fanout <= MaxFanout /\ ask.root \in elements

Begin ==
    /\ pc = "ask"
    /\ pc' = IF Admitted THEN "first" ELSE "refused"
    /\ visited' = << >> /\ frontier' = <<<<ask.root, 0>>>> /\ heard' = Nobody /\ truncated' = FALSE
    /\ steady' = TRUE
    /\ UNCHANGED <<graph, ask, pages, edits, still, always>>

Current == Head(frontier)[1]

(* Fault: one hop too many. *)
FaultOneMore == Head(frontier)[2] > ask.depth

Far == Head(frontier)[2] >= ask.depth

(* trace_neighbors: a row for every edge.                                    *)
RowsIn  == [i \in Id |-> Cardinality({e \in edges : e.source = i /\ e.target = Current})]
RowsOut == [i \in Id |-> Cardinality({e \in edges : e.target = i /\ e.source = Current})]

(* The directions are two queries, incoming first.                           *)
Incoming ==
    /\ pc = "first" /\ frontier # << >> /\ ~Far
    /\ heard' = IF ask.direction = "outgoing" THEN Nobody ELSE RowsIn
    /\ pc' = "second"
    /\ UNCHANGED <<graph, ask, visited, frontier, truncated, pages, edits, steady, still, always>>

Outgoing ==
    /\ pc = "second"
    /\ heard' = [i \in Id |-> heard[i] + (IF ask.direction = "incoming" THEN 0 ELSE RowsOut[i])]
    /\ pc' = "visit"
    /\ UNCHANGED <<graph, ask, visited, frontier, truncated, pages, edits, steady, still, always>>

Ordered(S) ==
    [n \in 1..Cardinality(S) |-> CHOOSE i \in S : Cardinality({j \in S : j < i}) = n - 1]

(* Sorted, an id as often as there are edges, and cut.                       *)
Neighbours ==
    LET ids == Ordered(Id)
    IN  FlattenSeq([k \in DOMAIN ids |-> [n \in 1..heard[ids[k]] |-> ids[k]]])

Visit ==
    LET all  == Neighbours
        kept == SubSeq(all, 1, IF Len(all) < ask.fanout THEN Len(all) ELSE ask.fanout)
        new  == ToSet(kept) \ ({ask.root} \cup DOMAIN visited)
        hops == Head(frontier)[2] + 1
        add  == Ordered(new)
    IN  /\ pc = "visit"
        /\ visited' = [i \in DOMAIN visited \cup new |-> IF i \in new THEN hops ELSE visited[i]]
        /\ frontier' = Tail(frontier) \o [k \in DOMAIN add |-> <<add[k], hops>>]
        /\ truncated' = (truncated \/ Len(all) > ask.fanout)
        /\ pc' = "first"
        /\ UNCHANGED <<graph, ask, heard, pages, edits, steady, still, always>>

(* An element at the full depth is not expanded.                             *)
Skip ==
    /\ pc = "first" /\ frontier # << >> /\ Far
    /\ frontier' = Tail(frontier)
    /\ UNCHANGED <<graph, ask, pc, visited, heard, truncated, pages, edits, steady, still, always>>

(* Fault: a cursor that is gone is the end. *)
FaultGoneIsEnd(ids) ==
    IF cursor \in ToSet(ids) THEN CHOOSE n \in DOMAIN ids : ids[n] = cursor
    ELSE IF cursor = 0 THEN 0 ELSE Len(ids)

(* How many ids the cursor passes over: none, if it is gone.                 *)
Start(ids) == IF cursor \in ToSet(ids) THEN CHOOSE n \in DOMAIN ids : ids[n] = cursor ELSE 0

Paginate ==
    LET ids  == Ordered(DOMAIN visited)
        rest == SubSeq(ids, Start(ids) + 1, Len(ids))
        this == SubSeq(rest, 1, IF Len(rest) < PageSize THEN Len(rest) ELSE PageSize)
    IN  /\ pc = "first" /\ frontier = << >>
        /\ page' = this
        /\ more' = (Len(rest) > PageSize)
        /\ cursor' = IF Len(rest) > PageSize THEN Last(this) ELSE cursor
        /\ pc' = "hydrate"
        /\ always' = always \cap DOMAIN visited
        /\ UNCHANGED <<graph, ask, walk, results, edits, steady, still>>

(* Fault: an element deleted since the traversal is waited for. *)
FaultAwaited ==
    /\ pc = "hydrate" /\ page # << >>
    /\ results' = IF Head(page) \in elements THEN Append(results, Head(page)) ELSE results
    /\ page' = IF Head(page) \in elements THEN Tail(page) ELSE page
    /\ UNCHANGED <<graph, ask, pc, walk, more, cursor, edits, steady, still, always>>

(* An element deleted since the traversal is left out.                       *)
Hydrate ==
    /\ pc = "hydrate" /\ page # << >>
    /\ results' = IF Head(page) \in elements THEN Append(results, Head(page)) ELSE results
    /\ page' = Tail(page)
    /\ UNCHANGED <<graph, ask, pc, walk, more, cursor, edits, steady, still, always>>

(* The client asks for the next page.                                        *)
Respond ==
    /\ pc = "hydrate" /\ page = << >>
    /\ pc' = IF more THEN "ask" ELSE "done"
    /\ UNCHANGED <<graph, ask, walk, pages, edits, steady, still, always>>

(* create_edge, delete_edge, delete_element.                                 *)
Edit ==
    /\ edits < MaxEdits /\ pc \notin {"done", "refused"}
    /\ edits' = edits + 1
    /\ steady' = FALSE /\ still' = FALSE
    /\ \/ \E e \in Edge : {e.source, e.target} \subseteq elements /\ edges' = edges \cup {e} /\ UNCHANGED elements
       \/ \E e \in edges : edges' = edges \ {e} /\ UNCHANGED elements
       \/ \E i \in elements :
            /\ elements' = elements \ {i}
            /\ edges' = {e \in edges : i \notin {e.source, e.target}}
    /\ UNCHANGED <<ask, pc, walk, pages, always>>

Next ==
    \/ Begin \/ Incoming \/ Outgoing \/ Visit \/ Skip \/ Paginate \/ Hydrate \/ Respond \/ Edit

Spec == Init /\ [][Next]_vars /\ WF_vars(Begin \/ Incoming \/ Outgoing \/ Visit \/ Skip \/ Paginate
                                         \/ Hydrate \/ Respond)

----------------------------------------------------------------------------
(* What the request asks for: elements within its depth of the root.         *)
Steps(i) ==
    (IF ask.direction = "incoming" THEN {} ELSE {e.target : e \in {e \in edges : e.source = i}})
    \cup (IF ask.direction = "outgoing" THEN {} ELSE {e.source : e \in {e \in edges : e.target = i}})

Ball ==
    LET within[n \in 0..ask.depth] ==
            IF n = 0 THEN {ask.root} ELSE LET w == within[n - 1] IN w \cup UNION {Steps(i) : i \in w}
    IN  within

(* A traversal that no edit met found what is within the depth and nothing   *)
(* else, each at its shortest distance; cut at the fan-out it says so, and   *)
(* found nothing that is not there (T-P1.3-01, T-P1.3-02: "none missed,      *)
(* none spurious", and an explicit notice).                                  *)
TraversalIsExact ==
    (pc = "hydrate" /\ steady) =>
        /\ DOMAIN visited \subseteq Ball[ask.depth] \ {ask.root}
        /\ \A i \in DOMAIN visited : visited[i] > 0 /\ i \in Ball[visited[i]]
        /\ ~truncated =>
              /\ DOMAIN visited = Ball[ask.depth] \ {ask.root}
              /\ \A i \in DOMAIN visited : i \notin Ball[visited[i] - 1]

(* "correct across pagination": what every page's traversal found, and is    *)
(* still there, is in some page, however the graph was edited between them;  *)
(* and in one only, in the order of ids, if it was not edited.               *)
PagesMissNothing ==
    pc = "done" =>
        /\ always \cap elements \subseteq ToSet(results)
        /\ still => results = Ordered(DOMAIN visited)

(* A client that follows the cursor comes to an end: a page goes over the    *)
(* same ids again only if the graph was edited.                              *)
PagesEnd == <>(pc \in {"done", "refused"})
=============================================================================
