------------------------------- MODULE Bodies -------------------------------
(***************************************************************************)
(* Element bodies: one row of JSON per element in Postgres                 *)
(* (store/postgres.rs), which nearly every endpoint changes by reading the *)
(* row, editing its copy, and writing the whole row back: messages of an   *)
(* interaction (interactions.rs), resolved choices (archspace.rs), edits   *)
(* in the inspector (main.rs).  The endpoints that create an element with  *)
(* a body or edges (interactions, fragments, information elements, frozen  *)
(* collections) make several calls too, and so does deleting one.  All end *)
(* with record_commit; what concurrency does to it is in Versioning.       *)
(*                                                                         *)
(* A body is what these endpoints tell apart: its messages, the option     *)
(* selected, the resolution state, and the rest that people write.         *)
(***************************************************************************)
EXTENDS Naturals, Sequences

CONSTANTS
    Req,           \* requests; what one creates has its name for an id
    Element,       \* elements there are at first
    Kind,          \* their kinds
    Near,          \* what a traversal from each of them finds
    Incompatible,  \* IncompatibleWith edges
    Linked,        \* Linked ChoiceConstraint edges
    Prerequisite,  \* source and target selection choice of a connection choice
    Unacceptable,  \* values a request is refused for: unknown options, a
                   \* cardinality or a blade loading that is out of bounds
    Mixes,         \* what the requests may be, together (a bound)
    Fails,         \* requests any of whose calls may fail (a bound)
    Nothing        \* absent: JSON null, no row

(* The calls of each handler that touch a store, in order.                   *)
Flow == [interaction |-> <<"check", "element", "body", "commit">>,
         message     |-> <<"check", "read", "body", "commit">>,
         fragment    |-> <<"check", "element", "body", "link", "commit">>,
         information |-> <<"element", "body", "commit">>,
         resolve     |-> <<"check", "read", "constraints", "body", "commit">>,
         connect     |-> <<"check", "read", "source", "target", "body", "commit">>,
         edit        |-> <<"view", "read", "body", "commit">>,
         drag        |-> <<"position">>,
         save        |-> <<"check", "query">>,
         freeze      |-> <<"recall", "traverse", "element", "link", "commit">>,
         delete      |-> <<"check", "remove", "erase", "commit">>]

(* The kind of the element that a handler is about.                          *)
Expects == [message |-> "Interaction", fragment |-> "Interaction",
            resolve |-> "SelectionChoice", connect |-> "ConnectionChoice"]

Call == [call : DOMAIN Flow, on : Element \cup Req, value : STRING \cup {Nothing}]

ASSUME KindAssumption == Kind \in [Element -> STRING] /\ Near \in [Element -> SUBSET Element]
ASSUME MixesAssumption == \A mix \in Mixes : DOMAIN mix = Req /\ \A r \in Req : mix[r] \in Call
ASSUME ConstraintsAssumption ==
    /\ Incompatible \subseteq Element \X Element /\ Linked \subseteq Element \X Element
    /\ \A k \in DOMAIN Prerequisite : Prerequisite[k].source \in Element
                                      /\ Prerequisite[k].target \in Element
Id == Element \cup Req
Message == [by : Req, order : Nat]
Body == [messages : Seq(Message), option : STRING \cup {Nothing},
         state : {"unresolved", "resolved"}, rest : STRING \cup {Nothing}]
Blank == [messages |-> << >>, option |-> Nothing, state |-> "unresolved", rest |-> Nothing]

ASSUME NothingAssumption == Nothing \notin Id \cup Body /\ Element \cap Req = {}

VARIABLES
    elements,
    edges,      \* Contains and Member edges
    row,        \* element_bodies, the body
    position,   \* element_bodies, the canvas position: was it dragged there
    queries,    \* dynamic_collections: the root of each query saved
    commits,    \* the commits recorded, in order
    do,         \* what each request does
    pc,         \* how far it is in its flow; Refused
    old, copy,  \* the body it read, and the one to write
    others,     \* options of other elements when it checked them
    members,    \* elements a traversal found
    todo,       \* those not linked yet
    writes,     \* history: who wrote each row, in order; a deletion is one
    base,       \* history: those when the copy was taken, none if it was made
    raced,      \* history: rows written from a copy older than the row
    missed      \* history: choices resolved although an option it was checked
                \* against changed

stores  == <<elements, edges, row, position, queries, commits>>
locals  == <<old, copy, others, members, todo>>
history == <<writes, base, raced, missed>>
vars    == <<stores, do, pc, locals, history>>

Refused == 0

Init ==
    /\ elements = Element
    /\ edges = {}
    /\ row = [e \in Id |-> IF e \in Element THEN Blank ELSE Nothing]
    /\ position = [e \in Id |-> FALSE]
    /\ queries = [r \in Req |-> Nothing]
    /\ commits = << >>
    /\ do \in Mixes
    /\ pc = [r \in Req |-> 1]
    /\ old = [r \in Req |-> Blank] /\ copy = old
    /\ others = [r \in Req |-> [e \in Id |-> Nothing]]
    /\ members = [r \in Req |-> {}] /\ todo = members
    /\ writes = [e \in Id |-> << >>]
    /\ base = [r \in Req |-> << >>]
    /\ raced = {} /\ missed = {}

On(r) == do[r].on
Does(r, calls) == do[r].call \in calls
Steps(r) == Flow[do[r].call]
At(r, step) == pc[r] \in DOMAIN Steps(r) /\ Steps(r)[pc[r]] = step
Done(r) == pc[r] = Len(Steps(r)) + 1

(* The step is taken, and the request goes on if ok.                         *)
Take(r, step, ok) ==
    /\ At(r, step)
    /\ pc' = [pc EXCEPT ![r] = IF ok THEN @ + 1 ELSE Refused]

Contents(e) == IF row[e] = Nothing THEN Blank ELSE row[e]
Options == [e \in Id |-> Contents(e).option]

----------------------------------------------------------------------------
(* Reads.                                                                    *)

(* get_element, element_kinds: is it there, and of the kind.                 *)
Check(r) ==
    /\ Take(r, "check", /\ On(r) \in elements
                        /\ do[r].call \in DOMAIN Expects => Kind[On(r)] = Expects[do[r].call])
    /\ UNCHANGED <<stores, do, locals, history>>

(* An element that a client may have on its screen: it is there, or was.     *)
Known(e) == e \in Element \cup elements \/ writes[e] # << >>

(* The inspector shows a body; what it sends back later is all of it.        *)
View(r) ==
    /\ Known(On(r))
    /\ Take(r, "view", TRUE)
    /\ copy' = [copy EXCEPT ![r] = [Contents(On(r)) EXCEPT !.rest = do[r].value]]
    /\ base' = [base EXCEPT ![r] = writes[On(r)]]
    /\ UNCHANGED <<stores, do, old, others, members, todo, writes, raced, missed>>

(* A message's order is the number of those before it.                       *)
Changed(r, b) ==
    CASE Does(r, {"message"}) -> [b EXCEPT !.messages = Append(@, [by |-> r, order |-> Len(@)])]
      [] Does(r, {"resolve"}) -> [b EXCEPT !.option = do[r].value, !.state = "resolved"]
      [] Does(r, {"connect"}) -> [b EXCEPT !.state = "resolved"]
      [] OTHER -> copy[r]

(* Fault: the messages so far are not in the copy. *)
FaultOnlyMine(r) ==
    /\ Take(r, "read", do[r].value \notin Unacceptable)
    /\ old' = [old EXCEPT ![r] = Contents(On(r))]
    /\ copy' = [copy EXCEPT ![r] = Changed(r, [Contents(On(r)) EXCEPT !.messages = << >>])]
    /\ base' = IF Does(r, {"edit"}) THEN base ELSE [base EXCEPT ![r] = writes[On(r)]]
    /\ UNCHANGED <<stores, do, others, members, todo, writes, raced, missed>>

Read(r) ==
    /\ Take(r, "read", do[r].value \notin Unacceptable)
    /\ old' = [old EXCEPT ![r] = Contents(On(r))]
    /\ copy' = [copy EXCEPT ![r] = Changed(r, Contents(On(r)))]
    /\ base' = IF Does(r, {"edit"}) THEN base ELSE [base EXCEPT ![r] = writes[On(r)]]
    /\ UNCHANGED <<stores, do, others, members, todo, writes, raced, missed>>

(* The other end of each edge of a kind.                                     *)
Opposite(pairs, e) == {p[1] : p \in {p \in pairs : p[2] = e}} \cup {p[2] : p \in {p \in pairs : p[1] = e}}

(* Fault: of the Linked edges, only those from this choice. *)
FaultSourceOnly(r) ==
    /\ Take(r, "constraints",
            /\ \A e \in Opposite(Incompatible, On(r)) : Options[e] = Nothing
            /\ \A p \in Linked : p[1] = On(r) => Options[p[2]] \in {Nothing, do[r].value})
    /\ others' = [others EXCEPT ![r] = Options]
    /\ UNCHANGED <<stores, do, old, copy, members, todo, history>>

(* check_constraints. *)
Constraints(r) ==
    /\ Take(r, "constraints",
            /\ \A e \in Opposite(Incompatible, On(r)) : Options[e] = Nothing
            /\ \A e \in Opposite(Linked, On(r)) : Options[e] \in {Nothing, do[r].value})
    /\ others' = [others EXCEPT ![r] = Options]
    /\ UNCHANGED <<stores, do, old, copy, members, todo, history>>

(* A connection choice is resolved after the selection choices it names.     *)
ReadPrerequisite(r, end) ==
    /\ Take(r, end, Contents(Prerequisite[On(r)][end]).state = "resolved")
    /\ UNCHANGED <<stores, do, locals, history>>

(* freeze_collection: the stored definition, and the traversal run again; a  *)
(* root that is gone has no neighbours.                                      *)
Recall(r) ==
    /\ Take(r, "recall", queries[On(r)] # Nothing)
    /\ UNCHANGED <<stores, do, locals, history>>

Traverse(r) ==
    LET root == queries[On(r)]
        found == IF root \in elements THEN Near[root] \cap elements ELSE {}
    IN  /\ Take(r, "traverse", TRUE)
        /\ members' = [members EXCEPT ![r] = found]
        /\ todo' = [todo EXCEPT ![r] = found]
        /\ UNCHANGED <<stores, do, old, copy, others, history>>

----------------------------------------------------------------------------
(* Writes.                                                                   *)

(* upsert_element, and what the new body and edges will be.                  *)
UpsertElement(r) ==
    /\ Take(r, "element", TRUE)
    /\ elements' = elements \cup {r}
    /\ copy' = [copy EXCEPT ![r] = [Blank EXCEPT !.rest = do[r].value]]
    /\ todo' = [todo EXCEPT ![r] = IF Does(r, {"fragment"}) THEN {On(r)} ELSE @]
    /\ UNCHANGED <<edges, row, position, queries, commits, do, old, others, members, history>>

Target(r) == IF Does(r, {"interaction", "fragment", "information"}) THEN r ELSE On(r)

(* upsert_body replaces the whole body, and leaves the position alone.       *)
UpsertBody(r) ==
    LET e == Target(r)
        stale == writes[e] # base[r]
        against == Opposite(Incompatible \cup Linked, e)
    IN  /\ Take(r, "body", TRUE)
        /\ row' = [row EXCEPT ![e] = copy[r]]
        /\ writes' = [writes EXCEPT ![e] = Append(@, r)]
        /\ raced' = IF stale THEN raced \cup {e} ELSE raced
        /\ missed' = IF Does(r, {"resolve"}) /\ \E o \in against : Options[o] # others[r][o]
                     THEN missed \cup {e} ELSE missed
        /\ UNCHANGED <<elements, edges, position, queries, commits, do, locals, base>>

Link(r, m) == IF Does(r, {"fragment"}) THEN <<"Contains", m, r>> ELSE <<"Member", r, m>>

(* Fault: a member that is gone ends the loop, not the request. *)
FaultBreak(r) ==
    /\ At(r, "link")
    /\ \E m \in todo[r] :
         LET there == {r, m} \subseteq elements IN
           /\ edges' = IF there THEN edges \cup {Link(r, m)} ELSE edges
           /\ todo' = [todo EXCEPT ![r] = IF there THEN @ \ {m} ELSE {}]
    /\ UNCHANGED <<elements, row, position, queries, commits, do, pc, old, copy, others, members,
                   history>>

(* create_edge: an error if an end is gone.  (The gap between its check and  *)
(* its MERGE, where the edge is dropped without one, is in Topology; here it *)
(* is the disjunct that finds no end and goes on.)  Members come in the      *)
(* order of a HashMap.                                                       *)
CreateEdge(r) ==
    /\ At(r, "link")
    /\ \E m \in todo[r] :
         LET there == {r, m} \subseteq elements IN
           /\ \/ pc' = [pc EXCEPT ![r] = IF there THEN @ ELSE Refused]
              \/ ~there /\ UNCHANGED pc
           /\ edges' = IF there THEN edges \cup {Link(r, m)} ELSE edges
           /\ todo' = [todo EXCEPT ![r] = @ \ {m}]
    /\ UNCHANGED <<elements, row, position, queries, commits, do, old, copy, others, members,
                   history>>

(* Fault: the old value for the new one. *)
FaultOldValue(r, e, k) == <<"set", e, k, old[r][k]>>

Set(r, e, k) == <<"set", e, k, copy[r][k]>>

(* The diff entries each handler hands to record_commit: of a resolved       *)
(* choice the state only, and of an edit what differs from the body read.    *)
Entries(r) ==
    CASE Does(r, {"interaction"}) -> {<<"created", r>>}
      [] Does(r, {"information"}) -> {<<"created", r>>, Set(r, r, "rest")}
      [] Does(r, {"fragment"}) -> {<<"created", r>>, Link(r, On(r))}
      [] Does(r, {"freeze"}) -> {<<"created", r>>} \cup {Link(r, m) : m \in members[r]}
      [] Does(r, {"message"}) -> {Set(r, On(r), "messages")}
      [] Does(r, {"resolve", "connect"}) -> {Set(r, On(r), "state")}
      [] Does(r, {"edit"}) -> {Set(r, On(r), k) : k \in {k \in DOMAIN Blank : copy[r][k] # old[r][k]}}
      [] Does(r, {"delete"}) -> {<<"deleted", On(r)>>}

(* Every edge has been made, when there are any to make.                     *)
RecordCommit(r) ==
    /\ \/ Take(r, "commit", TRUE)
       \/ At(r, "link") /\ todo[r] = {} /\ pc' = [pc EXCEPT ![r] = @ + 2]
    /\ commits' = Append(commits, [by |-> r, diff |-> Entries(r)])
    /\ UNCHANGED <<elements, edges, row, position, queries, do, locals, history>>

(* upsert_position: a row without a body if there was none.                  *)
UpsertPosition(r) ==
    /\ Known(On(r))
    /\ Take(r, "position", TRUE)
    /\ row' = [row EXCEPT ![On(r)] = Contents(On(r))]
    /\ position' = [position EXCEPT ![On(r)] = TRUE]
    /\ UNCHANGED <<elements, edges, queries, commits, do, locals, history>>

SaveQuery(r) ==
    /\ Take(r, "query", TRUE)
    /\ queries' = [queries EXCEPT ![r] = On(r)]
    /\ UNCHANGED <<elements, edges, row, position, commits, do, locals, history>>

(* delete_element, once its gate (see Topology) is passed.                   *)
Remove(r) ==
    /\ Take(r, "remove", TRUE)
    /\ elements' = elements \ {On(r)}
    /\ edges' = {x \in edges : On(r) \notin {x[2], x[3]}}
    /\ UNCHANGED <<row, position, queries, commits, do, locals, history>>

(* delete_body_and_position. *)
Erase(r) ==
    /\ Take(r, "erase", TRUE)
    /\ row' = [row EXCEPT ![On(r)] = Nothing]
    /\ position' = [position EXCEPT ![On(r)] = FALSE]
    /\ writes' = [writes EXCEPT ![On(r)] = Append(@, r)]
    /\ UNCHANGED <<elements, edges, queries, commits, do, locals, base, raced, missed>>

(* A call fails, the resolution of the actor before record_commit included.  *)
Fail(r) ==
    /\ r \in Fails
    /\ pc[r] \in 2..Len(Steps(r))
    /\ pc' = [pc EXCEPT ![r] = Refused]
    /\ UNCHANGED <<stores, do, locals, history>>

Step(r) ==
    \/ Check(r) \/ View(r) \/ Read(r) \/ Constraints(r)
    \/ ReadPrerequisite(r, "source") \/ ReadPrerequisite(r, "target")
    \/ Recall(r) \/ Traverse(r)
    \/ UpsertElement(r) \/ UpsertBody(r) \/ CreateEdge(r) \/ RecordCommit(r)
    \/ UpsertPosition(r) \/ SaveQuery(r) \/ Remove(r) \/ Erase(r) \/ Fail(r)

Next == \E r \in Req : Step(r)

Spec == Init /\ [][Next]_vars

----------------------------------------------------------------------------
(* A message that was acknowledged is in its interaction, and messages are   *)
(* numbered in the order they stand there, without gaps (FR-INTX-01), unless *)
(* a row was written from a copy older than itself.                          *)
MessagesKept ==
    \A e \in Element : row[e] # Nothing =>
        /\ \A n \in DOMAIN row[e].messages : row[e].messages[n].order = n - 1
        /\ \A r \in Req : (Does(r, {"message"}) /\ On(r) = e /\ Done(r) /\ e \notin raced) =>
              \/ \E n \in DOMAIN row[e].messages : row[e].messages[n].by = r
              \/ e \notin elements

(* Of two incompatible choices one has an option at most, and two linked     *)
(* ones have the same (FR-ARCH-04), unless an option was selected after the  *)
(* other's check had looked, or a row was written from an old copy.          *)
ChoicesAgreeUnlessMissed ==
    \A p \in Incompatible \cup Linked :
        (p[1] # p[2] /\ {p[1], p[2]} \cap (missed \cup raced) = {}) =>
            LET options == {Options[p[1]], Options[p[2]]} \ {Nothing} IN
              IF p \in Linked THEN \A x, y \in options : x = y
              ELSE Nothing \in {Options[p[1]], Options[p[2]]}

(* What replaying the commits on e gives for k, and who recorded them.       *)
Replayed(e, k) ==
    LET setters == {n \in DOMAIN commits : \E x \in commits[n].diff : x[1] = "set" /\ x[2] = e /\ x[3] = k}
        last == CHOOSE n \in setters : \A m \in setters : m <= n
    IN  IF setters = {} THEN Blank[k]
        ELSE (CHOOSE x \in commits[last].diff : x[1] = "set" /\ x[2] = e /\ x[3] = k)[4]

(* Each write of e was committed, and the commits came in their order.       *)
CommittedInOrder(e) ==
    LET commitsOf(i) == {n \in DOMAIN commits : commits[n].by = writes[e][i]} IN
      /\ \A i \in DOMAIN writes[e] : commitsOf(i) # {}
      /\ \A i, j \in DOMAIN writes[e] : i < j => \A n \in commitsOf(i), m \in commitsOf(j) : n < m

(* What no commit names: the option of a resolved choice, and what an        *)
(* interaction or a fragment is created with.                                *)
Unnamed(e) == {"option"} \cup (IF e \in Req /\ Does(e, {"interaction", "fragment"}) THEN {"rest"} ELSE {})

(* Replaying main's commits gives the body that is live, of every element,   *)
(* when the commits came in the order of the writes and no write was from an *)
(* old copy; but for the parts that no commit names.                         *)
BodiesAreReplayable ==
    \A e \in elements : (e \notin raced /\ CommittedInOrder(e)) =>
        \A k \in DOMAIN Blank \ Unnamed(e) : Replayed(e, k) = Contents(e)[k]

(* A collection that was frozen has every element its traversal found, in    *)
(* the graph and in its commit, but for those deleted since (FR-CORE-11).    *)
FrozenIsWhole ==
    \A r \in Req : (Does(r, {"freeze"}) /\ Done(r)) =>
        \A m \in members[r] :
          /\ {r, m} \subseteq elements => Link(r, m) \in edges
          /\ \E n \in DOMAIN commits : Link(r, m) \in commits[n].diff
=============================================================================
