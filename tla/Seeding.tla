------------------------------- MODULE Seeding -------------------------------
(***************************************************************************)
(* What fills an empty database: the server, when it starts (main.rs,      *)
(* ensure_seeded), and a script that makes a large model                   *)
(* (bin/seed_turbofan_scale.rs).  Each asks first whether to, creates a    *)
(* project, and then makes its plan's calls one after the other, in no     *)
(* transaction; the server ends with the genesis commit.  A start that     *)
(* fails or is killed is followed by another one, as Order says.           *)
(*                                                                         *)
(* A project has the name of the start that created it for an id.          *)
(***************************************************************************)
EXTENDS Naturals, Sequences, FiniteSets

CONSTANTS
    Server, Script,  \* starts of either program
    Plan,            \* the calls each makes, once it has a project
    Order,           \* the starts in order: see Turn
    StopAt           \* the calls before which a start may stop (a bound)

Start == Server \cup Script

ASSUME StartAssumption == Server \cap Script = {}
ASSUME PlanAssumption ==
    DOMAIN Plan = Start /\ \A s \in Start : Len(Plan[s]) \in Nat /\ DOMAIN Plan[s] = 1..Len(Plan[s])

----------------------------------------------------------------------------
(* What a plan asks for.                                                     *)

KindsOf(made, id) == {x[1] : x \in {x \in made : x[2] = id}}

(* check_relationship_endpoints, for the kinds of edge plans have.           *)
LegalEnds(kind, a, b) ==
    CASE kind = "Satisfy" -> b = "Requirement"
      [] kind = "Bound" -> a = "Parameter"
      [] kind \in {"Uses", "Produces"} -> a = "Constraint" /\ b = "Parameter"
      [] kind = "Instantiates" -> b = "Model"
      [] OTHER -> TRUE

(* What Contains leads to from an element.                                   *)
Below(tied, a) ==
    LET child == {e \in tied : e[1] = "Contains"}
        down[n \in 0..Cardinality(child)] ==
            IF n = 0 THEN {a}
            ELSE LET d == down[n - 1] IN d \cup {e[3] : e \in {e \in child : e[2] \in d}}
    IN  down[Cardinality(child)]

(* Of an edge that a call asks for, given the elements and edges there are.  *)
Accepted(made, tied, c) ==
    /\ \E k \in KindsOf(made, c.source), l \in KindsOf(made, c.target) : LegalEnds(c.kind, k, l)
    /\ c.kind = "Contains" => c.source \notin Below(tied, c.target)

(* What the calls before the n-th make, if none is refused.                  *)
MadeBefore(plan, n) ==
    {<<plan[m].kind, plan[m].id>> : m \in {m \in 1..(n - 1) : plan[m].op = "element"}}
TiedBefore(plan, n) ==
    {<<plan[m].kind, plan[m].source, plan[m].target>> : m \in {m \in 1..(n - 1) : plan[m].op = "edge"}}

Single == {"element", "edge", "body", "merge", "push", "object"}
OfRows(plan) == {n \in DOMAIN plan : plan[n].op \in {"body", "merge", "push"}}

(* Names of elements outside the project.                                    *)
Outsiders == {"EcsExternalConnector"}

(* The server's plan: every edge is one that create_edge accepts after the   *)
(* calls before; a property names what is made, sooner or later, and a       *)
(* contract only ports that its element contains.                            *)
Sound(plan) ==
    LET n1 == Len(plan) + 1
    IN  /\ \A n \in DOMAIN plan : plan[n].op = "edge" =>
              Accepted(MadeBefore(plan, n), TiedBefore(plan, n), plan[n])
        /\ \A n \in OfRows(plan) : \A k \in DOMAIN plan[n].with : \A name \in plan[n].with[k] :
              /\ KindsOf(MadeBefore(plan, n1), name) # {} \/ name \in Outsiders
              /\ k = "interfacePortDefinitions" => <<"Contains", plan[n].id, name>> \in TiedBefore(plan, n1)

(* It makes its calls one by one, and the commit is told again of whatever   *)
(* property it was told of and a later call touches.                         *)
Touched(c, keys) == IF c.op = "body" THEN keys ELSE keys \cap DOMAIN c.with
Told(plan) ==
    /\ \A n \in DOMAIN plan : plan[n].op \in Single
    /\ \A n \in OfRows(plan) : plan[n].said \subseteq DOMAIN plan[n].with
    /\ \A m, n \in OfRows(plan) :
          m < n /\ plan[m].id = plan[n].id => Touched(plan[n], plan[m].said) \subseteq plan[n].said

ASSUME ServerAssumption == \A s \in Server : Sound(Plan[s]) /\ Told(Plan[s])

VARIABLES
    projects,  \* rows of projects
    branches,  \* those of them that have a main branch
    elements,  \* <<kind, id>>, by project
    edges,     \* <<kind, source, target>>, by project
    body,      \* element_bodies, by project: id to key to what the value names
    objects,   \* keys in the object store
    genesis,   \* the diff of main's first commit, of the projects that have one
    stage, next,  \* how far each start is
    diff       \* what it will commit

graph == <<elements, edges, body, objects>>
seedVars  == <<projects, branches, graph, genesis, stage, next, diff>>

SeedInit ==
    /\ projects = {} /\ branches = {}
    /\ elements = [s \in Start |-> {}]
    /\ edges = [s \in Start |-> {}]
    /\ body = [s \in Start |-> << >>]
    /\ objects = {}
    /\ genesis = << >>
    /\ stage = [s \in Start |-> "ask"]
    /\ next = [s \in Start |-> 1]
    /\ diff = [s \in Start |-> << >>]

Enter(s, step) == stage' = [stage EXCEPT ![s] = step]

(* A call fills the project of its own start, and commutes with every step   *)
(* of another: a start that is at its calls goes on, the first in Order if   *)
(* there are more (a bound on the interleavings, not on the outcomes).       *)
Turn(s) ==
    LET seeding == {n \in DOMAIN Order : stage[Order[n]] = "seed"}
    IN  seeding = {} \/ \E n \in seeding : Order[n] = s /\ \A m \in seeding : n <= m

(* count_projects, of any name.                                              *)
CountProjects(s) ==
    /\ s \in Server /\ stage[s] = "ask"
    /\ Enter(s, IF projects # {} THEN "ready" ELSE "create")
    /\ UNCHANGED <<projects, branches, graph, genesis, next, diff>>

(* list_projects: one of the script's name.                                  *)
ListProjects(s) ==
    /\ s \in Script /\ stage[s] = "ask"
    /\ Enter(s, IF projects \cap Script # {} THEN "ready" ELSE "create")
    /\ UNCHANGED <<projects, branches, graph, genesis, next, diff>>

(* create_project: two statements.                                           *)
InsertProjectRow(s) ==
    /\ stage[s] = "create"
    /\ projects' = projects \cup {s}
    /\ Enter(s, "branch")
    /\ UNCHANGED <<branches, graph, genesis, next, diff>>

InsertMainBranch(s) ==
    /\ stage[s] = "branch"
    /\ branches' = branches \cup {s}
    /\ Enter(s, "seed")
    /\ UNCHANGED <<projects, graph, genesis, next, diff>>

----------------------------------------------------------------------------
(* The calls of a plan.                                                      *)
Call(s) == Plan[s][next[s]]
Calls(s, op) == stage[s] = "seed" /\ next[s] \in DOMAIN Plan[s] /\ Call(s).op = op

Says(s, entries) ==
    /\ diff' = [diff EXCEPT ![s] = @ \o entries]
    /\ next' = [next EXCEPT ![s] = @ + 1]
    /\ UNCHANGED <<projects, branches, genesis>>

UpsertElement(s) ==
    /\ Calls(s, "element")
    /\ elements' = [elements EXCEPT ![s] = @ \cup {<<Call(s).kind, Call(s).id>>}]
    /\ Says(s, <<<<"created", Call(s).kind, Call(s).id>>>>)
    /\ UNCHANGED <<edges, body, objects, stage>>

(* create_edge, or an error that ends the start.                             *)
CreateEdge(s) ==
    /\ Calls(s, "edge")
    /\ LET c == Call(s) IN
         IF Accepted(elements[s], edges[s], c)
         THEN /\ edges' = [edges EXCEPT ![s] = @ \cup {<<c.kind, c.source, c.target>>}]
              /\ Says(s, <<<<"edge", c.kind, c.source, c.target>>>>)
              /\ UNCHANGED stage
         ELSE /\ Enter(s, "refused")
              /\ UNCHANGED <<projects, branches, edges, genesis, next, diff>>
    /\ UNCHANGED <<elements, body, objects>>

Row(s, id) == IF id \in DOMAIN body[s] THEN body[s][id] ELSE << >>
Put(s, id, row) ==
    body' = [body EXCEPT ![s] = [i \in DOMAIN @ \cup {id} |-> IF i = id THEN row ELSE @[i]]]

(* One entry for every key of a row that the commit is told of, together.    *)
Set(id, row, said) == IF said = {} THEN << >> ELSE <<<<"set", id, [k \in said |-> row[k]]>>>>

UpsertBody(s) ==
    /\ Calls(s, "body")
    /\ Put(s, Call(s).id, Call(s).with)
    /\ Says(s, Set(Call(s).id, Call(s).with, Call(s).said))
    /\ UNCHANGED <<elements, edges, objects, stage>>

MergeBody(s) ==
    LET c == Call(s)
        old == Row(s, c.id)
        row == [k \in DOMAIN old \cup DOMAIN c.with |-> IF k \in DOMAIN c.with THEN c.with[k] ELSE old[k]]
    IN  /\ Calls(s, "merge")
        /\ Put(s, c.id, row)
        /\ Says(s, Set(c.id, row, c.said))
        /\ UNCHANGED <<elements, edges, objects, stage>>

(* Fault: the rest of the row is not written back. *)
FaultReplace(s) ==
    LET c == Call(s)
        old == Row(s, c.id)
        row == [k \in DOMAIN c.with |-> IF k \notin DOMAIN old THEN {} ELSE old[k] \cup c.with[k]]
    IN  /\ Calls(s, "push")
        /\ Put(s, c.id, row)
        /\ Says(s, Set(c.id, row, c.said))
        /\ UNCHANGED <<elements, edges, objects, stage>>

(* An array that is not there is not pushed to.                              *)
PushBody(s) ==
    LET c == Call(s)
        old == Row(s, c.id)
        row == [k \in DOMAIN old \cup DOMAIN c.with |->
                  IF k \notin DOMAIN old THEN {} ELSE
                  IF k \in DOMAIN c.with THEN old[k] \cup c.with[k] ELSE old[k]]
    IN  /\ Calls(s, "push")
        /\ Put(s, c.id, row)
        /\ Says(s, Set(c.id, row, c.said))
        /\ UNCHANGED <<elements, edges, objects, stage>>

PutObject(s) ==
    /\ Calls(s, "object")
    /\ objects' = objects \cup {Call(s).key}
    /\ Says(s, << >>)
    /\ UNCHANGED <<elements, edges, body, stage>>

(* bulk_upsert_elements and bulk_create_edges: one chunk, no validation, and *)
(* a pair that does not match makes no edge.                                 *)
BulkUpsertElements(s) ==
    /\ Calls(s, "elements")
    /\ elements' = [elements EXCEPT ![s] = @ \cup {<<Call(s).kind, i>> : i \in Call(s).ids}]
    /\ Says(s, << >>)
    /\ UNCHANGED <<edges, body, objects, stage>>

BulkCreateEdges(s) ==
    LET c == Call(s)
        matched == {p \in c.pairs : {<<c.sourceKind, p[1]>>, <<c.targetKind, p[2]>>} \subseteq elements[s]}
    IN  /\ Calls(s, "bulk")
        /\ edges' = [edges EXCEPT ![s] = @ \cup {<<c.kind, p[1], p[2]>> : p \in matched}]
        /\ Says(s, << >>)
        /\ UNCHANGED <<elements, body, objects, stage>>

(* record_commit on a main that is empty; the script makes none.             *)
RecordCommit(s) ==
    /\ stage[s] = "seed" /\ next[s] = Len(Plan[s]) + 1
    /\ genesis' = IF s \in Server
                  THEN [t \in DOMAIN genesis \cup {s} |-> IF t = s THEN diff[s] ELSE genesis[t]]
                  ELSE genesis
    /\ Enter(s, "ready")
    /\ UNCHANGED <<projects, branches, graph, next, diff>>

(* Fault: the server comes up all the same. *)
FaultUp(s) ==
    /\ stage[s] \in {"ask", "create", "branch", "seed"}
    /\ stage[s] = "seed" => next[s] \in StopAt
    /\ Enter(s, "ready")
    /\ UNCHANGED <<projects, branches, graph, genesis, next, diff>>

(* Any call fails, or the process is killed.                                 *)
Stop(s) ==
    /\ stage[s] \in {"ask", "create", "branch", "seed"}
    /\ stage[s] = "seed" => next[s] \in StopAt
    /\ Enter(s, "stopped")
    /\ UNCHANGED <<projects, branches, graph, genesis, next, diff>>

Step(s) ==
    \/ CountProjects(s) \/ ListProjects(s) \/ InsertProjectRow(s) \/ InsertMainBranch(s)
    \/ UpsertElement(s) \/ CreateEdge(s) \/ UpsertBody(s) \/ MergeBody(s) \/ PushBody(s)
    \/ PutObject(s) \/ BulkUpsertElements(s) \/ BulkCreateEdges(s)
    \/ RecordCommit(s) \/ Stop(s)

SeedNext == \E s \in Start : Turn(s) /\ Step(s)

SeedSpec == SeedInit /\ [][SeedNext]_seedVars

----------------------------------------------------------------------------
(* No call of a plan is lost: the edges of the last one are there, from and  *)
(* to elements made before.  (create_edge would end the start; a bulk call   *)
(* says nothing.)                                                            *)
Asked(c) ==
    CASE c.op = "edge" -> {<<c.kind, c.source, c.target>>}
      [] c.op = "bulk" -> {<<c.kind, p[1], p[2]>> : p \in c.pairs}
      [] OTHER -> {}

(* Replaying the genesis commit gives the elements, the edges, and the value *)
(* of every property it names ("accurate diff of everything created",        *)
(* seed_turbofan_ref), whatever later calls of the plan did to the same row. *)
Created(d) == {<<d[n][2], d[n][3]>> : n \in {n \in DOMAIN d : d[n][1] = "created"}}
Joined(d)  == {<<d[n][2], d[n][3], d[n][4]>> : n \in {n \in DOMAIN d : d[n][1] = "edge"}}
Sets(d, id, k) == {n \in DOMAIN d : d[n][1] = "set" /\ d[n][2] = id /\ k \in DOMAIN d[n][3]}
Named(d) == UNION {{<<d[n][2], k>> : k \in DOMAIN d[n][3]} : n \in {n \in DOMAIN d : d[n][1] = "set"}}
LastSet(d, id, k) == d[CHOOSE n \in Sets(d, id, k) : \A m \in Sets(d, id, k) : m <= n][3][k]

GenesisReplays ==
    \A s \in DOMAIN genesis :
        /\ Created(genesis[s]) = elements[s]
        /\ Joined(genesis[s]) = edges[s]
        /\ \A x \in Named(genesis[s]) :
              x[2] \in DOMAIN Row(s, x[1]) /\ Row(s, x[1])[x[2]] = LastSet(genesis[s], x[1], x[2])

(* The reference model is there, whole and with its commit, once a server is *)
(* up, unless a start stopped with its project half made, another is still   *)
(* at it, or the script's project came first; and every element that a       *)
(* property of it names is in it, but for the connector outside the engine.  *)
Whole(s) ==
    /\ s \in projects \cap branches /\ s \in DOMAIN genesis
    /\ \A n \in DOMAIN Plan[s] : Asked(Plan[s][n]) \subseteq edges[s]
    /\ \A i \in DOMAIN body[s] : \A k \in DOMAIN body[s][i] :
          \A name \in body[s][i][k] : KindsOf(elements[s], name) # {} \/ name \in Outsiders
    /\ \A i \in {i \in DOMAIN body[s] : "interfacePortDefinitions" \in DOMAIN body[s][i]} :
          \A p \in body[s][i]["interfacePortDefinitions"] : <<"Contains", i, p>> \in edges[s]

ReferenceIsWhole ==
    (\E s \in Server : stage[s] = "ready") =>
        \/ \E s \in Server : Whole(s)
        \/ \E s \in projects : s \in Script \/ stage[s] \in {"stopped", "branch", "seed"}
=============================================================================
