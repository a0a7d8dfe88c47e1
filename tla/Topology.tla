------------------------------ MODULE Topology ------------------------------
(***************************************************************************)
(* The live model graph of one project (apps/api/src/store/neo4j.rs), and  *)
(* the endpoints that change it.  Each of them reads what its checks need, *)
(* checks, and writes; reads and write are separate Neo4j calls, and other *)
(* requests run in between.  The write itself is one transaction.          *)
(*                                                                         *)
(* Elements are their id and kind; names, bodies and the recording of the  *)
(* commit (see Versioning) are left out.  A node is merged by id AND kind  *)
(* and no uniqueness constraint backs it, so an id may have several kinds. *)
(* Three node kinds and three edge kinds stand for all: the edge kinds are *)
(* one whose hierarchy must be acyclic (Contains), one whose endpoints are *)
(* restricted and whose removal is guarded (Flow), and one restricted at   *)
(* its target, whose source depends on the target (Satisfy).               *)
(***************************************************************************)
EXTENDS Integers, Sequences

CONSTANTS
    Req,        \* HTTP requests
    Id,         \* element ids
    Fresh,      \* those the server mints (UUIDs)
    Temp,       \* temp ids a text edit gives the elements it creates
    Nobody,     \* no element: JSON null, a temp id not mapped yet
    Script,     \* the payloads each request may have (a bound)
    Seeds       \* the graphs to start from (a bound)

NodeKind == {"Action", "Requirement", "Structure"}
EdgeKind == {"Contains", "Flow", "Satisfy"}
Edge     == [kind : EdgeKind, source : Id, target : Id]

Client  == Id \ Fresh                   \* ids a client knows before it calls
Pair    == Client \X Client             \* parent and child
Element == [id : Client, kind : NodeKind]
TextOp  == [do : {"create"}, temp : Temp, kind : NodeKind, parent : Client \cup Temp \cup {Nobody}]
           \cup [do : {"reparent"}, id : Client, parent : Client \cup Temp \cup {Nobody}]
Payload ==
    [call : {"createEdge", "deleteEdge"}, edge : [kind : EdgeKind, source : Client, target : Client]]
    \cup [call : {"createElement"}, kind : NodeKind]
    \cup [call : {"deleteElement"}, id : Client, acknowledge : BOOLEAN]
    \cup [call : {"import"}, elements : SUBSET Element, items : Seq(Pair)]
    \cup [call : {"text"}, items : Seq(TextOp)]

ContainsIn(E) == {e \in E : e.kind = "Contains"}
FlowsIn(E)    == {e \in E : e.kind = "Flow"}
Contains(p, c) == [kind |-> "Contains", source |-> p, target |-> c]

(* No element is its own ancestor: every set of elements has one whose     *)
(* parents are all outside the set.                                        *)
Acyclic(E) ==
    \A S \in (SUBSET Id) \ {{}} :
        \E x \in S : \A e \in E : e.kind = "Contains" /\ e.target = x => e.source \notin S

(* c is p, or above p: every set that holds c and the children of its      *)
(* members holds p (would_create_containment_cycle, is_descendant).        *)
Above(E, c, p) ==
    \A S \in SUBSET Id :
        (c \in S /\ \A e \in E : e.kind = "Contains" /\ e.source \in S => e.target \in S) => p \in S

WouldCycle(E, p, c) == p = c \/ Above(E, c, p)

(* check_relationship_endpoints. *)
LegalEnds(kind, source, target) ==
    CASE kind = "Satisfy" -> target = "Requirement"
      [] kind = "Flow"    -> source = "Action" /\ target = "Action"
      [] OTHER            -> TRUE

ASSUME IdAssumption == Fresh \subseteq Id /\ Nobody \notin Id \cup Temp /\ Temp \cap Id = {}
(* The temp ids of one batch are distinct: sysml-textual's diff numbers them. *)
ASSUME ScriptAssumption ==
    /\ Script \in [Req -> SUBSET Payload]
    /\ \A r \in Req : \A o \in Script[r] :
          o.call = "text" => \A k, l \in DOMAIN o.items :
             o.items[k].do = "create" /\ o.items[l].do = "create" /\ o.items[k].temp = o.items[l].temp
                => k = l
ASSUME SeedsAssumption ==
    \A g \in Seeds :
        /\ g.kinds \in [Id -> SUBSET NodeKind]
        /\ g.edges \subseteq Edge
        /\ \A i \in Fresh : g.kinds[i] = {}
        /\ \A i \in Id : \A k, l \in g.kinds[i] : k = l
        /\ \A e \in g.edges : \E k \in g.kinds[e.source], l \in g.kinds[e.target] :
              LegalEnds(e.kind, k, l)
        /\ Acyclic(g.edges)

VARIABLES
    kinds,      \* the kinds of the nodes that have this id: none, one, or a conflict
    edges,
    minted,     \* UUIDs handed out
    op,         \* each request's payload
    pc,
    sawKinds,   \* the kinds it read
    sawEdges,   \* the edges it read
    work,       \* its working copy of the hierarchy while it checks a batch
    idMap,      \* the ids a text edit minted for its temp ids
    next,       \* the item of its batch to check next
    refused,    \* a text edit's op_errors are not empty
    missed      \* history: what some check missed, for its write to go wrong

graph  == <<kinds, edges, minted>>
locals == <<op, pc, sawKinds, sawEdges, work, idMap, next, refused>>
vars   == <<graph, locals, missed>>

Reasons == {"contains", "kind", "ends", "flow", "dependent", "batch"}
PC == {"start", "getTarget", "readContains", "write", "readDependents",
       "check", "done", "refused"}

Init ==
    /\ \E g \in Seeds : kinds = g.kinds /\ edges = g.edges
    /\ minted = {}
    /\ op \in {o \in [Req -> UNION {Script[r] : r \in Req}] : \A r \in Req : o[r] \in Script[r]}
    /\ pc = [r \in Req |-> "start"]
    /\ sawKinds = [r \in Req |-> [i \in Id |-> {}]]
    /\ sawEdges = [r \in Req |-> {}]
    /\ work = [r \in Req |-> {}]
    /\ idMap = [r \in Req |-> [t \in Temp |-> Nobody]]
    /\ next = [r \in Req |-> 1]
    /\ refused = [r \in Req |-> FALSE]
    /\ missed = {}

Goto(r, from, to) ==
    /\ pc[r] = from
    /\ pc' = [pc EXCEPT ![r] = to]

Exists(i) == kinds[i] # {}

(* get_element: one row; with a kind conflict it may be either node's. *)
SawElement(r, i, k) == sawKinds' = [sawKinds EXCEPT ![r][i] = {k}]

Cause(why, holds) == IF holds THEN {why} ELSE {}
Miss(causes) == missed' = missed \cup causes

(* The hierarchy gained an edge after r read it. *)
HierarchyGrew(r) == ~(ContainsIn(edges) \subseteq sawEdges[r])

----------------------------------------------------------------------------
(* POST elements: one MERGE, under a new UUID.                              *)

CreateElement(r) ==
    /\ op[r].call = "createElement"
    /\ Goto(r, "start", "done")
    /\ \E i \in Fresh \ minted :
          /\ minted' = minted \cup {i}
          /\ kinds' = [kinds EXCEPT ![i] = {op[r].kind}]
    /\ UNCHANGED <<edges, op, sawKinds, sawEdges, work, idMap, next, refused, missed>>

----------------------------------------------------------------------------
(* Neo4jStore::create_edge.                                                 *)

GetSource(r) ==
    /\ op[r].call = "createEdge"
    /\ LET i == op[r].edge.source IN
         IF Exists(i) THEN /\ Goto(r, "start", "getTarget")
                           /\ \E k \in kinds[i] : SawElement(r, i, k)
                      ELSE Goto(r, "start", "refused") /\ UNCHANGED sawKinds
    /\ UNCHANGED <<graph, op, sawEdges, work, idMap, next, refused, missed>>

(* Fault: the endpoints' kinds are not checked. *)
FaultAnyEnds(r) ==
    /\ op[r].call = "createEdge"
    /\ LET i == op[r].edge.target
            kind == op[r].edge.kind
       IN  IF Exists(i)
           THEN \E l \in kinds[i] :
                  /\ SawElement(r, i, l)
                  /\ Goto(r, "getTarget", IF kind = "Contains" THEN "readContains" ELSE "write")
           ELSE Goto(r, "getTarget", "refused") /\ UNCHANGED sawKinds
    /\ UNCHANGED <<graph, op, sawEdges, work, idMap, next, refused, missed>>

GetTarget(r) ==
    /\ op[r].call = "createEdge"
    /\ LET i == op[r].edge.target
            kind == op[r].edge.kind
       IN  IF Exists(i)
           THEN \E k \in sawKinds[r][op[r].edge.source], l \in kinds[i] :
                  /\ SawElement(r, i, l)
                  /\ Goto(r, "getTarget",
                          IF ~LegalEnds(kind, k, l) THEN "refused"
                          ELSE IF kind = "Contains" THEN "readContains" ELSE "write")
           ELSE Goto(r, "getTarget", "refused") /\ UNCHANGED sawKinds
    /\ UNCHANGED <<graph, op, sawEdges, work, idMap, next, refused, missed>>

ReadContains(r) ==
    /\ op[r].call = "createEdge"
    /\ Goto(r, "readContains",
            IF WouldCycle(edges, op[r].edge.source, op[r].edge.target) THEN "refused" ELSE "write")
    /\ sawEdges' = [sawEdges EXCEPT ![r] = ContainsIn(edges)]
    /\ UNCHANGED <<graph, op, sawKinds, work, idMap, next, refused, missed>>

(* MATCH both endpoints, MERGE the edge: nothing happens, and no error, if  *)
(* an endpoint is gone by now.                                              *)
CreateEdge(r) ==
    LET e == op[r].edge
        merged == Exists(e.source) /\ Exists(e.target)
    IN  /\ op[r].call = "createEdge"
        /\ Goto(r, "write", "done")
        /\ edges' = IF merged THEN edges \cup {e} ELSE edges
        /\ Miss(Cause("contains", merged /\ e.kind = "Contains" /\ HierarchyGrew(r))
                \cup Cause("ends", merged /\ \E i \in {e.source, e.target} : kinds[i] # sawKinds[r][i]))
        /\ UNCHANGED <<kinds, minted, op, sawKinds, sawEdges, work, idMap, next, refused>>

----------------------------------------------------------------------------
(* The two delete handlers for edges.  Only a Flow edge is guarded: it must *)
(* not be the last one of either of its endpoints.                          *)

Touches(e, i) == e.source = i \/ e.target = i

(* Fault: the guard looks at the source only. *)
FaultSourceOnly(r) ==
    LET e == op[r].edge IN
      /\ op[r].call = "deleteEdge"
      /\ e.kind = "Flow"
      /\ Goto(r, "start",
              IF \E f \in FlowsIn(edges) \ {e} : Touches(f, e.source) THEN "write" ELSE "refused")
      /\ sawEdges' = [sawEdges EXCEPT ![r] = FlowsIn(edges)]
      /\ UNCHANGED <<graph, op, sawKinds, work, idMap, next, refused, missed>>

ReadFlows(r) ==
    LET e == op[r].edge IN
      /\ op[r].call = "deleteEdge"
      /\ e.kind = "Flow"
      /\ Goto(r, "start",
              IF \A i \in {e.source, e.target} : \E f \in FlowsIn(edges) \ {e} : Touches(f, i)
              THEN "write" ELSE "refused")
      /\ sawEdges' = [sawEdges EXCEPT ![r] = FlowsIn(edges)]
      /\ UNCHANGED <<graph, op, sawKinds, work, idMap, next, refused, missed>>

DeleteEdge(r) ==
    LET e == op[r].edge IN
      /\ op[r].call = "deleteEdge"
      /\ Goto(r, IF e.kind = "Flow" THEN "write" ELSE "start", "done")
      /\ edges' = edges \ {e}
      /\ Miss(Cause("flow", e.kind = "Flow" /\ ~(sawEdges[r] \subseteq edges)))
      /\ UNCHANGED <<kinds, minted, op, sawKinds, sawEdges, work, idMap, next, refused>>

----------------------------------------------------------------------------
(* DELETE elements/:id: a 409 if elements depend on it, unless acknowledged. *)

Dependents(E, i) == {e \in E : e.kind = "Satisfy" /\ e.target = i}

GetElement(r) ==
    /\ op[r].call = "deleteElement"
    /\ Goto(r, "start", IF Exists(op[r].id) THEN "readDependents" ELSE "refused")
    /\ UNCHANGED <<graph, op, sawKinds, sawEdges, work, idMap, next, refused, missed>>

(* Fault: the gate asks for the element's own Satisfy edges. *)
FaultOutgoing(r) ==
    /\ Goto(r, "readDependents",
            IF (\E e \in edges : e.kind = "Satisfy" /\ e.source = op[r].id) /\ ~op[r].acknowledge
            THEN "refused" ELSE "write")
    /\ sawEdges' = [sawEdges EXCEPT ![r] = Dependents(edges, op[r].id)]
    /\ UNCHANGED <<graph, op, sawKinds, work, idMap, next, refused, missed>>

ReadDependents(r) ==
    /\ Goto(r, "readDependents",
            IF Dependents(edges, op[r].id) # {} /\ ~op[r].acknowledge THEN "refused" ELSE "write")
    /\ sawEdges' = [sawEdges EXCEPT ![r] = Dependents(edges, op[r].id)]
    /\ UNCHANGED <<graph, op, sawKinds, work, idMap, next, refused, missed>>

(* Fault: DELETE without DETACH. *)
FaultNoDetach(r) ==
    /\ op[r].call = "deleteElement"
    /\ Goto(r, "write", "done")
    /\ kinds' = [kinds EXCEPT ![op[r].id] = {}]
    /\ UNCHANGED <<edges, minted, op, sawKinds, sawEdges, work, idMap, next, refused, missed>>

DeleteElement(r) ==
    LET i == op[r].id IN
      /\ op[r].call = "deleteElement"
      /\ Goto(r, "write", "done")
      /\ kinds' = [kinds EXCEPT ![i] = {}]
      /\ edges' = {e \in edges : ~Touches(e, i)}
      /\ Miss(Cause("dependent", ~(Dependents(edges, i) \subseteq sawEdges[r])))
      /\ UNCHANGED <<minted, op, sawKinds, sawEdges, work, idMap, next, refused>>

----------------------------------------------------------------------------
(* import_elements_and_edges: the kinds, then the hierarchy, are checked     *)
(* against what was read; the hierarchy also against the batch itself.       *)

ReadKinds(r) ==
    /\ op[r].call = "import"
    /\ \/ /\ \A e \in op[r].elements : Exists(e.id) => e.kind \in kinds[e.id]
          /\ Goto(r, "start", "readContains")
       \/ /\ \E e \in op[r].elements : \E k \in kinds[e.id] : k # e.kind
          /\ Goto(r, "start", "refused")
    /\ sawKinds' = [sawKinds EXCEPT ![r] = kinds]
    /\ UNCHANGED <<graph, op, sawEdges, work, idMap, next, refused, missed>>

ReadHierarchy(r) ==
    /\ op[r].call \in {"import", "text"}
    /\ Goto(r, "readContains", "check")
    /\ sawEdges' = [sawEdges EXCEPT ![r] = ContainsIn(edges)]
    /\ work' = [work EXCEPT ![r] = ContainsIn(edges)]
    /\ UNCHANGED <<graph, op, sawKinds, idMap, next, refused, missed>>

(* Fault: each edge is checked against the hierarchy that was read only. *)
FaultBatchUnchecked(r) ==
    /\ op[r].call = "import"
    /\ next[r] <= Len(op[r].items)
    /\ LET p == op[r].items[next[r]][1]
           c == op[r].items[next[r]][2]
       IN  /\ Goto(r, "check", IF WouldCycle(sawEdges[r], p, c) THEN "refused" ELSE "check")
           /\ work' = [work EXCEPT ![r] = @ \cup {Contains(p, c)}]
    /\ next' = [next EXCEPT ![r] = @ + 1]
    /\ UNCHANGED <<graph, op, sawKinds, sawEdges, idMap, refused, missed>>

CheckPair(r) ==
    /\ op[r].call = "import"
    /\ next[r] <= Len(op[r].items)
    /\ LET p == op[r].items[next[r]][1]
           c == op[r].items[next[r]][2]
       IN  /\ Goto(r, "check", IF WouldCycle(work[r], p, c) THEN "refused" ELSE "check")
           /\ work' = [work EXCEPT ![r] = @ \cup {Contains(p, c)}]
    /\ next' = [next EXCEPT ![r] = @ + 1]
    /\ UNCHANGED <<graph, op, sawKinds, sawEdges, idMap, refused, missed>>

Batch(r) == {op[r].items[n] : n \in DOMAIN op[r].items}

(* One transaction: MERGE every element by id and kind, then every edge. *)
WriteImport(r) ==
    LET imported(i) == {e.kind : e \in {e \in op[r].elements : e.id = i}} IN
      /\ op[r].call = "import"
      /\ next[r] > Len(op[r].items)
      /\ Goto(r, "check", "done")
      /\ kinds' = [i \in Id |-> kinds[i] \cup imported(i)]
      /\ edges' = edges \cup {Contains(x[1], x[2]) :
                        x \in {x \in Batch(r) : kinds'[x[1]] # {} /\ kinds'[x[2]] # {}}}
      /\ Miss(Cause("contains", HierarchyGrew(r))
              \cup Cause("kind", \E e \in op[r].elements : ~(kinds[e.id] \subseteq sawKinds[r][e.id]))
              \cup Cause("batch", \E e, f \in op[r].elements : e.id = f.id /\ e.kind # f.kind))
      /\ UNCHANGED <<minted, op, sawKinds, sawEdges, work, idMap, next, refused>>

----------------------------------------------------------------------------
(* apply_graph_ops: every op is checked on a working copy of the hierarchy,  *)
(* errors are collected, and one transaction applies all ops or none.        *)
(* (Renames leave the graph alone and are left out.)                         *)

ReadElements(r) ==
    /\ op[r].call = "text"
    /\ Goto(r, "start", "readContains")
    /\ sawKinds' = [sawKinds EXCEPT ![r] = kinds]
    /\ UNCHANGED <<graph, op, sawEdges, work, idMap, next, refused, missed>>

Resolve(r, raw) ==
    IF raw \in Temp /\ idMap[r][raw] # Nobody THEN idMap[r][raw] ELSE raw

Known(r, i) == (i \in Id /\ sawKinds[r][i] # {}) \/ \E t \in Temp : idMap[r][t] = i

Under(p, i) == IF p = Nobody THEN {} ELSE {Contains(p, i)}

Reject(r) == refused' = [refused EXCEPT ![r] = TRUE] /\ UNCHANGED <<minted, work, idMap>>

CheckCreate(r, x) ==
    LET p == Resolve(r, x.parent) IN
      IF p # Nobody /\ ~Known(r, p) THEN Reject(r)
      ELSE /\ \E i \in Fresh \ minted :
                /\ minted' = minted \cup {i}
                /\ idMap' = [idMap EXCEPT ![r][x.temp] = i]
                /\ work' = [work EXCEPT ![r] = @ \cup Under(p, i)]
           /\ UNCHANGED refused

(* The parents parent_of may hold for i: it keeps one for each child, the    *)
(* batch's own last one if the batch has moved i already.                    *)
Indexed(r, i) ==
    LET moves == {n \in 1..(next[r] - 1) : op[r].items[n].do = "reparent" /\ op[r].items[n].id = i}
        last  == CHOOSE n \in moves : \A m \in moves : m <= n
    IN  IF moves = {} THEN {e.source : e \in {e \in sawEdges[r] : e.target = i}}
        ELSE {Resolve(r, op[r].items[last].parent)} \ {Nobody}

CheckReparent(r, x) ==
    LET p == Resolve(r, x.parent)
        old == Indexed(r, x.id)
    IN  IF \/ sawKinds[r][x.id] = {}
           \/ p # Nobody /\ (~Known(r, p) \/ WouldCycle(work[r], p, x.id))
        THEN Reject(r)
        ELSE /\ \E gone \in IF old = {} THEN {{}} ELSE {{Contains(q, x.id)} : q \in old} :
                  work' = [work EXCEPT ![r] = (@ \ gone) \cup Under(p, x.id)]
             /\ UNCHANGED <<minted, idMap, refused>>

CheckOp(r) ==
    /\ op[r].call = "text"
    /\ next[r] <= Len(op[r].items)
    /\ Goto(r, "check", "check")
    /\ LET x == op[r].items[next[r]] IN
         IF x.do = "create" THEN CheckCreate(r, x) ELSE CheckReparent(r, x)
    /\ next' = [next EXCEPT ![r] = @ + 1]
    /\ UNCHANGED <<kinds, edges, op, sawKinds, sawEdges, missed>>

RejectText(r) ==
    /\ op[r].call = "text"
    /\ next[r] > Len(op[r].items)
    /\ refused[r]
    /\ Goto(r, "check", "refused")
    /\ UNCHANGED <<graph, op, sawKinds, sawEdges, work, idMap, next, refused, missed>>

(* A reparent deletes every containment edge into the element, whichever     *)
(* parent the check knew of, then merges the new one if both ends exist.     *)
(* Of several moves of one element the last one stands.                      *)
WriteText(r) ==
    LET items == op[r].items
        subject(n) == IF items[n].do = "create" THEN idMap[r][items[n].temp] ELSE items[n].id
        moved == {x.id : x \in {x \in Batch(r) : x.do = "reparent"}}
        final == {n \in DOMAIN items : \A m \in DOMAIN items : subject(m) = subject(n) => m <= n}
        created(i) == {x.kind : x \in {x \in Batch(r) : x.do = "create" /\ idMap[r][x.temp] = i}}
    IN  /\ op[r].call = "text"
        /\ next[r] > Len(items)
        /\ ~refused[r]
        /\ Goto(r, "check", "done")
        /\ kinds' = [i \in Id |-> kinds[i] \cup created(i)]
        /\ edges' = {e \in edges : ~(e.kind = "Contains" /\ e.target \in moved)}
                    \cup {Contains(Resolve(r, items[n].parent), subject(n)) :
                            n \in {n \in final : LET p == Resolve(r, items[n].parent) IN
                                      p # Nobody /\ kinds'[p] # {} /\ kinds'[subject(n)] # {}}}
        /\ Miss(Cause("contains", HierarchyGrew(r)))
        /\ UNCHANGED <<minted, op, sawKinds, sawEdges, work, idMap, next, refused>>

----------------------------------------------------------------------------
EdgeStep(r) ==
    \/ GetSource(r) \/ GetTarget(r) \/ ReadContains(r) \/ CreateEdge(r)
    \/ ReadFlows(r) \/ DeleteEdge(r)

ElementStep(r) ==
    \/ CreateElement(r) \/ GetElement(r) \/ ReadDependents(r) \/ DeleteElement(r)

BatchStep(r) ==
    \/ ReadKinds(r) \/ ReadElements(r) \/ ReadHierarchy(r)
    \/ CheckPair(r) \/ WriteImport(r)
    \/ CheckOp(r) \/ RejectText(r) \/ WriteText(r)

Next == \E r \in Req : EdgeStep(r) \/ ElementStep(r) \/ BatchStep(r)

Spec == Init /\ [][Next]_vars

----------------------------------------------------------------------------
TypeOK ==
    /\ kinds \in [Id -> SUBSET NodeKind]
    /\ edges \subseteq Edge
    /\ minted \subseteq Fresh
    /\ \A r \in Req : op[r] \in Script[r]
    /\ pc \in [Req -> PC]
    /\ sawKinds \in [Req -> [Id -> SUBSET NodeKind]]
    /\ sawEdges \in [Req -> SUBSET Edge]
    /\ work \in [Req -> SUBSET Edge]
    /\ idMap \in [Req -> [Temp -> Fresh \cup {Nobody}]]
    /\ next \in [Req -> Nat \ {0}]
    /\ refused \in [Req -> BOOLEAN]
    /\ missed \subseteq Reasons

(* No edge outlives its endpoints or comes into being without them, though   *)
(* elements are deleted between a request's checks and its write             *)
(* (NFR-REL-01, neo4j.rs:313-314).                                           *)
NoDanglingEdge == \A e \in edges : Exists(e.source) /\ Exists(e.target)

(* The hierarchy is acyclic, for every mix of single edges, imports and text *)
(* edits, unless a containment edge appeared between the check of some       *)
(* request and its write (FR-CORE-05, NFR-REL-02).                           *)
AcyclicUnlessMissed == "contains" \in missed \/ Acyclic(edges)

(* An id has one kind, unless two imports raced for it, or one import gave   *)
(* it two kinds (check_kind_conflict is asked about the stored kinds only).  *)
OneKindUnlessMissed ==
    missed \cap {"kind", "batch"} # {} \/ \A i \in Id : \A k, l \in kinds[i] : k = l

(* Every edge's endpoints have kinds its own kind allows, unless an endpoint *)
(* was replaced by one of another kind between check and write, or has two.  *)
LegalUnlessMissed ==
    \/ missed \cap {"ends", "kind", "batch"} # {}
    \/ \A e \in edges : \A k \in kinds[e.source], l \in kinds[e.target] : LegalEnds(e.kind, k, l)

(* Deleting a Flow edge never takes the last one from an action that stays,  *)
(* unless another one was deleted between check and write (FR-CORE-13,       *)
(* main.rs:1161-1168).  Deleting an element may.                             *)
LastFlowKept ==
    [][\A e \in FlowsIn(edges) \ FlowsIn(edges') :
          \/ kinds' # kinds
          \/ "flow" \in missed'
          \/ \A i \in {e.source, e.target} : \E f \in FlowsIn(edges') : Touches(f, i)]_vars

(* An element others depend on is deleted only by a request that says it     *)
(* knows (acknowledge=true), unless the dependency came between check and    *)
(* write (T-P1.3-03, traceability.rs:339-342).                               *)
BreachAcknowledged ==
    [][\A i \in Id : (kinds'[i] = {} /\ Dependents(edges, i) # {}) =>
          \/ "dependent" \in missed'
          \/ \E r \in Req : /\ pc[r] = "write" /\ pc'[r] = "done"
                           /\ op[r].call = "deleteElement"
                           /\ op[r].id = i
                           /\ op[r].acknowledge]_vars

----------------------------------------------------------------------------
(* What the comments of the code claim, and the gap between a check and its  *)
(* write, or a batch's own contents, refute.                                 *)

(* create_edge "Rejects ... containment acyclicity (FR-CORE-05, NFR-REL-02)" *)
(* (neo4j.rs:313-316): the hierarchy never has a cycle.                      *)
AlwaysAcyclic == Acyclic(edges)
=============================================================================
