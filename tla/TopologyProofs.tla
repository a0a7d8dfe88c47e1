--------------------------- MODULE TopologyProofs ---------------------------
(***************************************************************************)
(* What holds of Topology for every set of requests, ids, payloads and     *)
(* starting graphs: types, no dangling edge, the two gates of deletion; an *)
(* id has one kind, edges have ends of legal kinds and the hierarchy no    *)
(* cycle, unless a check was overtaken.                                    *)
(***************************************************************************)
EXTENDS Topology, TLAPS

-----------------------------------------------------------------------------
(* The invariant of the graph.  Taken are the ids in use: what a client may  *)
(* name, and what the server has handed out.                                 *)

Taken == Client \cup minted
EndsTaken(F) == \A e \in F : e.source \in Taken /\ e.target \in Taken

(* What a request read or computed names only ids that were in use, and      *)
(* stay so.                                                                  *)
RequestKnows(r) ==
    /\ \A i \in Id : sawKinds[r][i] # {} => i \in Taken
    /\ EndsTaken(sawEdges[r])
    /\ EndsTaken(work[r])
    /\ \A t \in Temp : idMap[r][t] \in minted \cup {Nobody}

(* The operations of a text edit that have passed have real parents, and the *)
(* elements they create have ids.                                            *)
Passed(r, x) ==
    /\ Resolve(r, x.parent) \in Taken \cup {Nobody}
    /\ x.do = "create" => idMap[r][x.temp] \in minted
TextKnows(r) ==
    op[r].call = "text" /\ ~refused[r] =>
        \A n \in DOMAIN op[r].items : n < next[r] => Passed(r, op[r].items[n])

IInv ==
    /\ TypeOK
    /\ NoDanglingEdge
    /\ \A i \in Id : Exists(i) => i \in Taken
    /\ \A r \in Req : RequestKnows(r) /\ TextKnows(r)

-----------------------------------------------------------------------------
(* What the payloads are made of.                                            *)

LEMMA PayloadShape ==
    ASSUME NEW o \in Payload
    PROVE  /\ o.call \in {"createEdge", "deleteEdge"} =>
                 o.edge \in [kind : EdgeKind, source : Client, target : Client]
           /\ o.call = "createElement" => o.kind \in NodeKind
           /\ o.call = "deleteElement" => o.id \in Client
           /\ o.call = "import" => o.elements \subseteq Element /\ o.items \in Seq(Pair)
           /\ o.call = "text" => o.items \in Seq(TextOp)
BY DEF Payload

LEMMA TextOpShape ==
    ASSUME NEW x \in TextOp
    PROVE  /\ x.do = "create" => x.temp \in Temp /\ x.kind \in NodeKind
           /\ x.do = "reparent" => x.id \in Client
           /\ x.do \in {"create", "reparent"}
           /\ x.parent \in Client \cup Temp \cup {Nobody}
BY DEF TextOp

LEMMA OpShape ==
    ASSUME TypeOK, NEW r \in Req
    PROVE  op[r] \in Payload
BY ScriptAssumption DEF TypeOK

LEMMA TakenIsId == ASSUME TypeOK PROVE Taken \subseteq Id
BY IdAssumption DEF TypeOK, Taken, Client

-----------------------------------------------------------------------------
(* The invariant of the graph holds initially, and each action preserves it. *)

LEMMA InitIInv == Init => IInv
<1> SUFFICES ASSUME Init PROVE IInv
  OBVIOUS
<1>1. PICK g \in Seeds : kinds = g.kinds /\ edges = g.edges
  BY DEF Init
<1>2. TypeOK
  BY <1>1, SeedsAssumption, ScriptAssumption DEF Init, TypeOK, PC
<1>3. NoDanglingEdge
  BY <1>1, SeedsAssumption DEF NoDanglingEdge, Exists
<1>4. \A i \in Id : Exists(i) => i \in Taken
  BY <1>1, SeedsAssumption DEF Exists, Taken, Client
<1>5. ASSUME NEW r \in Req PROVE RequestKnows(r) /\ TextKnows(r)
  <2>1. RequestKnows(r)
    BY DEF Init, RequestKnows, EndsTaken
  <2>2. TextKnows(r)
    <3> SUFFICES ASSUME op[r].call = "text", NEW n \in DOMAIN op[r].items, n < next[r] PROVE FALSE
      BY DEF TextKnows
    <3>1. op[r].items \in Seq(TextOp)
      BY <1>2, OpShape, PayloadShape
    <3>2. n \in 1..Len(op[r].items)
      BY <3>1
    <3> QED
      BY <3>2 DEF Init
  <2> QED
    BY <2>1, <2>2
<1> QED
  BY <1>2, <1>3, <1>4, <1>5 DEF IInv

(* Ids in use stay in use, so what a request knows it still knows after      *)
(* steps that leave its own variables alone.                                 *)
Locals(r) ==
    <<sawKinds[r], sawEdges[r], work[r], idMap[r], next[r], refused[r]>>

LEMMA KnowledgeStays ==
    ASSUME IInv, NEW r \in Req, minted \subseteq minted', op' = op, UNCHANGED Locals(r)
    PROVE  (RequestKnows(r) /\ TextKnows(r))'
<1>1. RequestKnows(r) /\ TextKnows(r)
  BY DEF IInv
<1>2. RequestKnows(r)'
  BY <1>1 DEF RequestKnows, Locals, Taken, EndsTaken
<1>3. TextKnows(r)'
  BY <1>1 DEF TextKnows, Passed, Resolve, Locals, Taken
<1> QED
  BY <1>2, <1>3

(* An action is one request's: only its own knowledge has to be shown anew.  *)
LEMMA RequestStep ==
    ASSUME IInv, NEW r \in Req, TypeOK', NoDanglingEdge', (\A i \in Id : Exists(i) => i \in Taken)',
           minted \subseteq minted', op' = op, \A q \in Req \ {r} : UNCHANGED Locals(q),
           RequestKnows(r)', TextKnows(r)'
    PROVE  IInv'
<1>1. ASSUME NEW q \in Req PROVE (RequestKnows(q) /\ TextKnows(q))'
  BY KnowledgeStays
<1> QED
  BY <1>1 DEF IInv

LEMMA GetSourceKeeps == ASSUME IInv, NEW r \in Req, GetSource(r) PROVE IInv'
<1> DEFINE i == op[r].edge.source
<1>0. TypeOK /\ NoDanglingEdge /\ RequestKnows(r) /\ TextKnows(r)
  BY DEF IInv
<1>1. /\ op[r].call = "createEdge"
      /\ UNCHANGED <<kinds, edges, minted, op, sawEdges, work, idMap, next, refused, missed>>
  BY DEF GetSource, graph
<1>2. i \in Id
  BY <1>0, <1>1, OpShape, PayloadShape DEF Client
<1>3. pc' \in [Req -> PC]
  BY <1>0 DEF GetSource, Goto, TypeOK, PC
<1>4. \/ sawKinds' = sawKinds
      \/ Exists(i) /\ \E k \in kinds[i] : sawKinds' = [sawKinds EXCEPT ![r][i] = {k}]
  BY DEF GetSource, SawElement
<1> HIDE DEF i
<1>5. /\ sawKinds' \in [Req -> [Id -> SUBSET NodeKind]]
      /\ \A q \in Req \ {r} : sawKinds'[q] = sawKinds[q]
      /\ \A j \in Id : sawKinds'[r][j] # {} => sawKinds[r][j] # {} \/ Exists(j)
  <2>1. CASE sawKinds' = sawKinds
    BY <1>0, <2>1 DEF TypeOK
  <2>2. CASE Exists(i) /\ \E k \in kinds[i] : sawKinds' = [sawKinds EXCEPT ![r][i] = {k}]
    <3>1. PICK k \in kinds[i] : sawKinds' = [sawKinds EXCEPT ![r][i] = {k}]
      BY <2>2
    <3>2. {k} \in SUBSET NodeKind
      BY <1>0, <1>2 DEF TypeOK
    <3>3. sawKinds' \in [Req -> [Id -> SUBSET NodeKind]]
      BY <1>0, <1>2, <3>1, <3>2 DEF TypeOK
    <3>4. \A j \in Id : j # i => sawKinds'[r][j] = sawKinds[r][j]
      BY <1>0, <1>2, <3>1 DEF TypeOK
    <3> QED
      BY <1>0, <2>2, <3>1, <3>3, <3>4 DEF TypeOK
  <2> QED
    BY <1>4, <2>1, <2>2
<1>6. TypeOK'
  BY <1>0, <1>1, <1>3, <1>5 DEF TypeOK
<1>7. NoDanglingEdge' /\ (\A j \in Id : Exists(j) => j \in Taken)'
  BY <1>0, <1>1 DEF IInv, NoDanglingEdge, Exists, Taken
<1>8. \A q \in Req \ {r} : UNCHANGED Locals(q)
  BY <1>1, <1>5 DEF Locals
<1>9. RequestKnows(r)'
  BY <1>0, <1>1, <1>5 DEF IInv, RequestKnows, EndsTaken, Taken, Exists
<1>10. TextKnows(r)'
  BY <1>0, <1>1 DEF TextKnows, Passed, Resolve, Taken
<1> QED
  BY <1>1, <1>6, <1>7, <1>8, <1>9, <1>10, RequestStep

LEMMA GetTargetKeeps == ASSUME IInv, NEW r \in Req, GetTarget(r) PROVE IInv'
<1> DEFINE i == op[r].edge.target
<1>0. TypeOK /\ NoDanglingEdge /\ RequestKnows(r) /\ TextKnows(r)
  BY DEF IInv
<1>1. /\ op[r].call = "createEdge"
      /\ UNCHANGED <<kinds, edges, minted, op, sawEdges, work, idMap, next, refused, missed>>
  BY DEF GetTarget, graph
<1>2. i \in Id
  BY <1>0, <1>1, OpShape, PayloadShape DEF Client
<1>3. pc' \in [Req -> PC]
  BY <1>0 DEF GetTarget, Goto, TypeOK, PC
<1>4. \/ sawKinds' = sawKinds
      \/ Exists(i) /\ \E k \in kinds[i] : sawKinds' = [sawKinds EXCEPT ![r][i] = {k}]
  BY DEF GetTarget, SawElement
<1> HIDE DEF i
<1>5. /\ sawKinds' \in [Req -> [Id -> SUBSET NodeKind]]
      /\ \A q \in Req \ {r} : sawKinds'[q] = sawKinds[q]
      /\ \A j \in Id : sawKinds'[r][j] # {} => sawKinds[r][j] # {} \/ Exists(j)
  <2>1. CASE sawKinds' = sawKinds
    BY <1>0, <2>1 DEF TypeOK
  <2>2. CASE Exists(i) /\ \E k \in kinds[i] : sawKinds' = [sawKinds EXCEPT ![r][i] = {k}]
    <3>1. PICK k \in kinds[i] : sawKinds' = [sawKinds EXCEPT ![r][i] = {k}]
      BY <2>2
    <3>2. {k} \in SUBSET NodeKind
      BY <1>0, <1>2 DEF TypeOK
    <3>3. sawKinds' \in [Req -> [Id -> SUBSET NodeKind]]
      BY <1>0, <1>2, <3>1, <3>2 DEF TypeOK
    <3>4. \A j \in Id : j # i => sawKinds'[r][j] = sawKinds[r][j]
      BY <1>0, <1>2, <3>1 DEF TypeOK
    <3> QED
      BY <1>0, <2>2, <3>1, <3>3, <3>4 DEF TypeOK
  <2> QED
    BY <1>4, <2>1, <2>2
<1>6. TypeOK'
  BY <1>0, <1>1, <1>3, <1>5 DEF TypeOK
<1>7. NoDanglingEdge' /\ (\A j \in Id : Exists(j) => j \in Taken)'
  BY <1>0, <1>1 DEF IInv, NoDanglingEdge, Exists, Taken
<1>8. \A q \in Req \ {r} : UNCHANGED Locals(q)
  BY <1>1, <1>5 DEF Locals
<1>9. RequestKnows(r)'
  BY <1>0, <1>1, <1>5 DEF IInv, RequestKnows, EndsTaken, Taken, Exists
<1>10. TextKnows(r)'
  BY <1>0, <1>1 DEF TextKnows, Passed, Resolve, Taken
<1> QED
  BY <1>1, <1>6, <1>7, <1>8, <1>9, <1>10, RequestStep

LEMMA ReadContainsKeeps == ASSUME IInv, NEW r \in Req, ReadContains(r) PROVE IInv'
<1> USE DEF ReadContains, Goto
<1>0. TypeOK /\ NoDanglingEdge /\ RequestKnows(r) /\ TextKnows(r) /\ op' = op
  BY DEF IInv
<1>1. TypeOK'
  BY <1>0 DEF TypeOK, PC, graph, ContainsIn, NoDanglingEdge, Edge
<1>2. NoDanglingEdge' /\ (\A i \in Id : Exists(i) => i \in Taken)' /\ minted \subseteq minted'
  BY DEF IInv, NoDanglingEdge, Exists, Taken, graph
<1>3. \A q \in Req \ {r} : UNCHANGED Locals(q)
  BY <1>0 DEF Locals, TypeOK
<1>4. RequestKnows(r)'
  BY <1>0 DEF IInv, TypeOK, RequestKnows, EndsTaken, Taken, Exists, graph, ContainsIn,
     NoDanglingEdge, Edge
<1>5. TextKnows(r)'
  BY <1>0 DEF TypeOK, TextKnows, Taken, graph, Passed, Resolve, ContainsIn, NoDanglingEdge, Edge
<1> QED
  BY <1>0, <1>1, <1>2, <1>3, <1>4, <1>5, RequestStep

LEMMA ReadFlowsKeeps == ASSUME IInv, NEW r \in Req, ReadFlows(r) PROVE IInv'
<1> USE DEF ReadFlows, Goto
<1>0. TypeOK /\ NoDanglingEdge /\ RequestKnows(r) /\ TextKnows(r) /\ op' = op
  BY DEF IInv
<1>1. TypeOK'
  BY <1>0 DEF TypeOK, PC, graph, FlowsIn, NoDanglingEdge, Edge
<1>2. NoDanglingEdge' /\ (\A i \in Id : Exists(i) => i \in Taken)' /\ minted \subseteq minted'
  BY DEF IInv, NoDanglingEdge, Exists, Taken, graph
<1>3. \A q \in Req \ {r} : UNCHANGED Locals(q)
  BY <1>0 DEF Locals, TypeOK
<1>4. RequestKnows(r)'
  BY <1>0 DEF IInv, TypeOK, RequestKnows, EndsTaken, Taken, Exists, graph, FlowsIn,
     NoDanglingEdge, Edge
<1>5. TextKnows(r)'
  BY <1>0 DEF TypeOK, TextKnows, Taken, graph, Passed, Resolve, FlowsIn, NoDanglingEdge, Edge
<1> QED
  BY <1>0, <1>1, <1>2, <1>3, <1>4, <1>5, RequestStep

LEMMA GetElementKeeps == ASSUME IInv, NEW r \in Req, GetElement(r) PROVE IInv'
<1> USE DEF GetElement, Goto
<1>0. TypeOK /\ NoDanglingEdge /\ RequestKnows(r) /\ TextKnows(r) /\ op' = op
  BY DEF IInv
<1>1. TypeOK'
  BY <1>0 DEF TypeOK, PC, graph
<1>2. NoDanglingEdge' /\ (\A i \in Id : Exists(i) => i \in Taken)' /\ minted \subseteq minted'
  BY DEF IInv, NoDanglingEdge, Exists, Taken, graph
<1>3. \A q \in Req \ {r} : UNCHANGED Locals(q)
  BY <1>0 DEF Locals, TypeOK
<1>4. RequestKnows(r)'
  BY <1>0 DEF IInv, TypeOK, RequestKnows, EndsTaken, Taken, Exists, graph
<1>5. TextKnows(r)'
  BY <1>0 DEF TypeOK, TextKnows, Taken, graph, Passed, Resolve
<1> QED
  BY <1>0, <1>1, <1>2, <1>3, <1>4, <1>5, RequestStep

LEMMA ReadDependentsKeeps == ASSUME IInv, NEW r \in Req, ReadDependents(r) PROVE IInv'
<1> USE DEF ReadDependents, Goto
<1>0. TypeOK /\ NoDanglingEdge /\ RequestKnows(r) /\ TextKnows(r) /\ op' = op
  BY DEF IInv
<1>1. TypeOK'
  BY <1>0 DEF TypeOK, PC, graph, Dependents, NoDanglingEdge, Edge
<1>2. NoDanglingEdge' /\ (\A i \in Id : Exists(i) => i \in Taken)' /\ minted \subseteq minted'
  BY DEF IInv, NoDanglingEdge, Exists, Taken, graph
<1>3. \A q \in Req \ {r} : UNCHANGED Locals(q)
  BY <1>0 DEF Locals, TypeOK
<1>4. RequestKnows(r)'
  BY <1>0 DEF IInv, TypeOK, RequestKnows, EndsTaken, Taken, Exists, graph, Dependents,
     NoDanglingEdge, Edge
<1>5. TextKnows(r)'
  BY <1>0 DEF TypeOK, TextKnows, Taken, graph, Passed, Resolve, Dependents, NoDanglingEdge, Edge
<1> QED
  BY <1>0, <1>1, <1>2, <1>3, <1>4, <1>5, RequestStep

LEMMA ReadKindsKeeps == ASSUME IInv, NEW r \in Req, ReadKinds(r) PROVE IInv'
<1> USE DEF ReadKinds, Goto
<1>0. TypeOK /\ NoDanglingEdge /\ RequestKnows(r) /\ TextKnows(r) /\ op' = op
  BY DEF IInv
<1>1. TypeOK'
  BY <1>0 DEF TypeOK, PC, graph
<1>2. NoDanglingEdge' /\ (\A i \in Id : Exists(i) => i \in Taken)' /\ minted \subseteq minted'
  BY DEF IInv, NoDanglingEdge, Exists, Taken, graph
<1>3. \A q \in Req \ {r} : UNCHANGED Locals(q)
  BY <1>0 DEF Locals, TypeOK
<1>4. RequestKnows(r)'
  BY <1>0 DEF IInv, TypeOK, RequestKnows, EndsTaken, Taken, Exists, graph
<1>5. TextKnows(r)'
  BY <1>0 DEF TypeOK, TextKnows, Taken, graph, Passed, Resolve
<1> QED
  BY <1>0, <1>1, <1>2, <1>3, <1>4, <1>5, RequestStep

LEMMA ReadElementsKeeps == ASSUME IInv, NEW r \in Req, ReadElements(r) PROVE IInv'
<1> USE DEF ReadElements, Goto
<1>0. TypeOK /\ NoDanglingEdge /\ RequestKnows(r) /\ TextKnows(r) /\ op' = op
  BY DEF IInv
<1>1. TypeOK'
  BY <1>0 DEF TypeOK, PC, graph
<1>2. NoDanglingEdge' /\ (\A i \in Id : Exists(i) => i \in Taken)' /\ minted \subseteq minted'
  BY DEF IInv, NoDanglingEdge, Exists, Taken, graph
<1>3. \A q \in Req \ {r} : UNCHANGED Locals(q)
  BY <1>0 DEF Locals, TypeOK
<1>4. RequestKnows(r)'
  BY <1>0 DEF IInv, TypeOK, RequestKnows, EndsTaken, Taken, Exists, graph
<1>5. TextKnows(r)'
  BY <1>0 DEF TypeOK, TextKnows, Taken, graph, Passed, Resolve
<1> QED
  BY <1>0, <1>1, <1>2, <1>3, <1>4, <1>5, RequestStep

LEMMA RejectTextKeeps == ASSUME IInv, NEW r \in Req, RejectText(r) PROVE IInv'
<1> USE DEF RejectText, Goto
<1>0. TypeOK /\ NoDanglingEdge /\ RequestKnows(r) /\ TextKnows(r) /\ op' = op
  BY DEF IInv
<1>1. TypeOK'
  BY <1>0 DEF TypeOK, PC, graph
<1>2. NoDanglingEdge' /\ (\A i \in Id : Exists(i) => i \in Taken)' /\ minted \subseteq minted'
  BY DEF IInv, NoDanglingEdge, Exists, Taken, graph
<1>3. \A q \in Req \ {r} : UNCHANGED Locals(q)
  BY <1>0 DEF Locals, TypeOK
<1>4. RequestKnows(r)'
  BY <1>0 DEF IInv, TypeOK, RequestKnows, EndsTaken, Taken, Exists, graph
<1>5. TextKnows(r)'
  BY <1>0 DEF TypeOK, TextKnows, Taken, graph, Passed, Resolve
<1> QED
  BY <1>0, <1>1, <1>2, <1>3, <1>4, <1>5, RequestStep

LEMMA ReadHierarchyKeeps == ASSUME IInv, NEW r \in Req, ReadHierarchy(r) PROVE IInv'
<1> USE DEF ReadHierarchy, Goto
<1>0. TypeOK /\ NoDanglingEdge /\ RequestKnows(r) /\ TextKnows(r) /\ op' = op
  BY DEF IInv
<1>1. TypeOK'
  BY <1>0 DEF TypeOK, PC, graph, ContainsIn, NoDanglingEdge, Edge
<1>2. NoDanglingEdge' /\ (\A i \in Id : Exists(i) => i \in Taken)' /\ minted \subseteq minted'
  BY DEF IInv, NoDanglingEdge, Exists, Taken, graph
<1>3. \A q \in Req \ {r} : UNCHANGED Locals(q)
  BY <1>0 DEF Locals, TypeOK
<1>4. RequestKnows(r)'
  BY <1>0 DEF IInv, TypeOK, RequestKnows, EndsTaken, Taken, Exists, graph, ContainsIn,
     NoDanglingEdge, Edge
<1>5. TextKnows(r)'
  BY <1>0 DEF TypeOK, TextKnows, Taken, graph, Passed, Resolve, ContainsIn, NoDanglingEdge, Edge
<1> QED
  BY <1>0, <1>1, <1>2, <1>3, <1>4, <1>5, RequestStep

LEMMA CreateElementKeeps == ASSUME IInv, NEW r \in Req, CreateElement(r) PROVE IInv'
<1>0. TypeOK /\ NoDanglingEdge /\ RequestKnows(r) /\ TextKnows(r)
  BY DEF IInv
<1>1. op[r].kind \in NodeKind
  BY <1>0, OpShape, PayloadShape DEF CreateElement
<1>2. PICK i \in Fresh \ minted :
        minted' = minted \cup {i} /\ kinds' = [kinds EXCEPT ![i] = {op[r].kind}]
  BY DEF CreateElement
<1>3. UNCHANGED <<edges, op, sawKinds, sawEdges, work, idMap, next, refused, missed>>
  BY DEF CreateElement
<1>4. kinds' \in [Id -> SUBSET NodeKind] /\ i \in Id
  BY <1>0, <1>1, <1>2, IdAssumption DEF TypeOK
<1>5. \A j \in Id : j # i => kinds'[j] = kinds[j]
  BY <1>0, <1>2, <1>4 DEF TypeOK
<1>6. kinds'[i] # {}
  BY <1>0, <1>2, <1>4 DEF TypeOK
<1>7. pc' \in [Req -> PC]
  BY <1>0 DEF TypeOK, CreateElement, Goto, PC
<1>8. TypeOK'
  BY <1>0, <1>2, <1>3, <1>4, <1>7 DEF TypeOK
<1>9. NoDanglingEdge'
  BY <1>0, <1>3, <1>5, <1>6 DEF NoDanglingEdge, Exists, TypeOK, Edge
<1>10. (\A j \in Id : Exists(j) => j \in Taken)'
  BY <1>2, <1>5 DEF IInv, Exists, Taken
<1> QED
  BY <1>0, <1>2, <1>3, <1>8, <1>9, <1>10, KnowledgeStays DEF IInv, Locals

LEMMA CreateEdgeKeeps == ASSUME IInv, NEW r \in Req, CreateEdge(r) PROVE IInv'
<1> DEFINE e == op[r].edge
<1>0. TypeOK /\ NoDanglingEdge
  BY DEF IInv
<1>1. e \in Edge
  BY <1>0, OpShape, PayloadShape DEF CreateEdge, Edge, Client
<1>2. edges' = edges \/ (Exists(e.source) /\ Exists(e.target) /\ edges' = edges \cup {e})
  BY DEF CreateEdge
<1>3. missed' \subseteq Reasons
  BY <1>0 DEF CreateEdge, Miss, Cause, Reasons, TypeOK
<1>4. UNCHANGED <<kinds, minted, op, sawKinds, sawEdges, work, idMap, next, refused>>
  BY DEF CreateEdge
<1>5. pc' \in [Req -> PC]
  BY <1>0 DEF TypeOK, CreateEdge, Goto, PC
<1> HIDE DEF e
<1>6. TypeOK'
  BY <1>0, <1>1, <1>2, <1>3, <1>4, <1>5 DEF TypeOK
<1>7. NoDanglingEdge' /\ (\A j \in Id : Exists(j) => j \in Taken)'
  BY <1>0, <1>2, <1>4 DEF IInv, NoDanglingEdge, Exists, Taken
<1> QED
  BY <1>4, <1>6, <1>7, KnowledgeStays DEF IInv, Locals

LEMMA DeleteEdgeKeeps == ASSUME IInv, NEW r \in Req, DeleteEdge(r) PROVE IInv'
<1>0. TypeOK /\ NoDanglingEdge
  BY DEF IInv
<1>1. edges' \subseteq edges
  BY DEF DeleteEdge
<1>2. missed' \subseteq Reasons
  BY <1>0 DEF DeleteEdge, Miss, Cause, Reasons, TypeOK
<1>3. UNCHANGED <<kinds, minted, op, sawKinds, sawEdges, work, idMap, next, refused>>
  BY DEF DeleteEdge
<1>4. pc' \in [Req -> PC]
  BY <1>0 DEF TypeOK, DeleteEdge, Goto, PC
<1>5. TypeOK'
  BY <1>0, <1>1, <1>2, <1>3, <1>4 DEF TypeOK
<1>6. NoDanglingEdge' /\ (\A j \in Id : Exists(j) => j \in Taken)'
  BY <1>0, <1>1, <1>3 DEF IInv, NoDanglingEdge, Exists, Taken
<1> QED
  BY <1>3, <1>5, <1>6, KnowledgeStays DEF IInv, Locals

LEMMA DeleteElementKeeps == ASSUME IInv, NEW r \in Req, DeleteElement(r) PROVE IInv'
<1> DEFINE i == op[r].id
<1>0. TypeOK /\ NoDanglingEdge
  BY DEF IInv
<1>1. i \in Id
  BY <1>0, OpShape, PayloadShape DEF DeleteElement, Client
<1>2. kinds' = [kinds EXCEPT ![i] = {}] /\ edges' = {e \in edges : ~Touches(e, i)}
  BY DEF DeleteElement
<1>3. UNCHANGED <<minted, op, sawKinds, sawEdges, work, idMap, next, refused>>
  BY DEF DeleteElement
<1>4. pc' \in [Req -> PC] /\ missed' \subseteq Reasons
  BY <1>0 DEF TypeOK, DeleteElement, Goto, PC, Miss, Cause, Reasons
<1> HIDE DEF i
<1>5. TypeOK'
  BY <1>0, <1>1, <1>2, <1>3, <1>4 DEF TypeOK
<1>6. NoDanglingEdge'
  BY <1>0, <1>2, <1>1 DEF NoDanglingEdge, Exists, Touches, TypeOK, Edge
<1>7. (\A j \in Id : Exists(j) => j \in Taken)'
  BY <1>0, <1>1, <1>2, <1>3 DEF IInv, Exists, Taken, TypeOK
<1> QED
  BY <1>3, <1>5, <1>6, <1>7, KnowledgeStays DEF IInv, Locals

(* The two ends of a pair, and of any containment edge. *)
LEMMA PairShape ==
    ASSUME NEW p, NEW c
    PROVE  /\ Contains(p, c).kind = "Contains"
           /\ Contains(p, c).source = p
           /\ Contains(p, c).target = c
           /\ p \in Id /\ c \in Id => Contains(p, c) \in Edge
BY DEF Contains, Edge, EdgeKind

LEMMA CheckPairKeeps == ASSUME IInv, NEW r \in Req, CheckPair(r) PROVE IInv'
<1> DEFINE p == op[r].items[next[r]][1]
           c == op[r].items[next[r]][2]
<1>0. TypeOK /\ RequestKnows(r)
  BY DEF IInv
<1>1. p \in Client /\ c \in Client
  <2>1. op[r].items \in Seq(Pair) /\ next[r] \in Nat \ {0} /\ next[r] <= Len(op[r].items)
    BY <1>0, OpShape, PayloadShape DEF CheckPair, TypeOK
  <2> QED
    BY <2>1 DEF Pair
<1>2. /\ op[r].call = "import"
      /\ work' = [work EXCEPT ![r] = @ \cup {Contains(p, c)}]
      /\ next' = [next EXCEPT ![r] = @ + 1]
      /\ UNCHANGED <<kinds, edges, minted, op, sawKinds, sawEdges, idMap, refused, missed>>
  BY DEF CheckPair, graph
<1>3. pc' \in [Req -> PC]
  BY <1>0 DEF TypeOK, CheckPair, Goto, PC
<1> HIDE DEF p, c
<1>4. TypeOK'
  <2>1. Contains(p, c) \in Edge
    BY <1>1, PairShape DEF Client
  <2>2. work' \in [Req -> SUBSET Edge]
    BY <1>0, <1>2, <2>1 DEF TypeOK
  <2>3. next' \in [Req -> Nat \ {0}]
    BY <1>0, <1>2 DEF TypeOK
  <2> QED
    BY <1>0, <1>2, <1>3, <2>2, <2>3 DEF TypeOK
<1>5. NoDanglingEdge' /\ (\A j \in Id : Exists(j) => j \in Taken)'
  BY <1>0, <1>2 DEF IInv, NoDanglingEdge, Exists, Taken
<1>6. \A q \in Req \ {r} : UNCHANGED Locals(q)
  BY <1>0, <1>2 DEF Locals, TypeOK
<1>7. RequestKnows(r)'
  BY <1>0, <1>1, <1>2, PairShape DEF RequestKnows, EndsTaken, Taken, TypeOK
<1>8. TextKnows(r)'
  BY <1>2 DEF TextKnows
<1> QED
  BY <1>2, <1>4, <1>5, <1>6, <1>7, <1>8, RequestStep

LEMMA WriteImportKeeps == ASSUME IInv, NEW r \in Req, WriteImport(r) PROVE IInv'
<1> DEFINE imported(i) == {e.kind : e \in {e \in op[r].elements : e.id = i}}
<1>0. TypeOK /\ NoDanglingEdge
  BY DEF IInv
<1>1. op[r].elements \subseteq Element /\ op[r].items \in Seq(Pair)
  BY <1>0, OpShape, PayloadShape DEF WriteImport
<1>2. /\ kinds' = [i \in Id |-> kinds[i] \cup imported(i)]
      /\ edges' = edges \cup {Contains(x[1], x[2]) :
                        x \in {x \in Batch(r) : kinds'[x[1]] # {} /\ kinds'[x[2]] # {}}}
      /\ UNCHANGED <<minted, op, sawKinds, sawEdges, work, idMap, next, refused>>
  BY DEF WriteImport
<1>3. pc' \in [Req -> PC] /\ missed' \subseteq Reasons
  BY <1>0 DEF TypeOK, WriteImport, Goto, PC, Miss, Cause, Reasons
<1>4. \A i \in Id : imported(i) \subseteq NodeKind /\ (imported(i) # {} => i \in Client)
  BY <1>1 DEF Element
<1> HIDE DEF imported
<1>5. kinds' \in [Id -> SUBSET NodeKind] /\ \A i \in Id : kinds'[i] = kinds[i] \cup imported(i)
  BY <1>0, <1>2, <1>4 DEF TypeOK
<1>6. \A x \in Batch(r) : x[1] \in Client /\ x[2] \in Client
  BY <1>1 DEF Batch, Pair
<1>7. edges' \subseteq Edge /\ NoDanglingEdge'
  <2> SUFFICES ASSUME NEW e \in edges' PROVE e \in Edge /\ kinds'[e.source] # {} /\ kinds'[e.target] # {}
    BY DEF NoDanglingEdge, Exists
  <2>1. CASE e \in edges
    BY <1>0, <1>5, <2>1 DEF NoDanglingEdge, Exists, TypeOK, Edge
  <2>2. CASE e \notin edges
    <3>1. PICK x \in Batch(r) : e = Contains(x[1], x[2]) /\ kinds'[x[1]] # {} /\ kinds'[x[2]] # {}
      BY <1>2, <2>2
    <3> QED
      BY <1>6, <3>1, PairShape DEF Client
  <2> QED
    BY <2>1, <2>2
<1>8. TypeOK'
  BY <1>0, <1>2, <1>3, <1>5, <1>7 DEF TypeOK
<1>9. (\A j \in Id : Exists(j) => j \in Taken)'
  BY <1>2, <1>4, <1>5 DEF IInv, Exists, Taken
<1> QED
  BY <1>2, <1>7, <1>8, <1>9, KnowledgeStays DEF IInv, Locals

-----------------------------------------------------------------------------
(* One operation of a text edit is rejected, or creates, or moves.           *)

Item(r)   == op[r].items[next[r]]
Parent(r) == Resolve(r, Item(r).parent)

Creates(r) ==
    /\ Item(r).do = "create"
    /\ \E i \in Fresh \ minted :
          /\ minted' = minted \cup {i}
          /\ idMap' = [idMap EXCEPT ![r][Item(r).temp] = i]
          /\ work' = [work EXCEPT ![r] = @ \cup Under(Parent(r), i)]
    /\ UNCHANGED refused

Moves(r) ==
    /\ Item(r).do = "reparent"
    /\ Parent(r) # Nobody => ~WouldCycle(work[r], Parent(r), Item(r).id)
    /\ \E gone :
          /\ \A e \in gone : e.target = Item(r).id
          /\ work' = [work EXCEPT ![r] = (@ \ gone) \cup Under(Parent(r), Item(r).id)]
    /\ UNCHANGED <<minted, idMap, refused>>

LEMMA KnownIsTaken ==
    ASSUME TypeOK, NEW r \in Req, RequestKnows(r), NEW p, p # Nobody, Known(r, p)
    PROVE  p \in Taken
BY DEF RequestKnows, Known, Taken

LEMMA CheckOpCases ==
    ASSUME IInv, NEW r \in Req, CheckOp(r)
    PROVE  /\ op[r].items \in Seq(TextOp)
           /\ next[r] \in DOMAIN op[r].items
           /\ Item(r) \in TextOp
           /\ \/ Reject(r)
              \/ Parent(r) \in Taken \cup {Nobody} /\ (Creates(r) \/ Moves(r))
<1>0. TypeOK /\ RequestKnows(r)
  BY DEF IInv
<1>1. op[r].items \in Seq(TextOp)
  BY <1>0, OpShape, PayloadShape DEF CheckOp
<1>2. next[r] \in 1..Len(op[r].items)
  BY <1>0 DEF CheckOp, TypeOK
<1>3. Item(r) \in TextOp
  BY <1>1, <1>2 DEF Item
<1>4. CASE Item(r).do = "create"
  <2>1. CheckCreate(r, Item(r))
    BY <1>4 DEF CheckOp, Item
  <2>2. CASE Parent(r) # Nobody /\ ~Known(r, Parent(r))
    BY <1>1, <1>2, <1>3, <2>1, <2>2 DEF CheckCreate, Parent
  <2>3. CASE ~(Parent(r) # Nobody /\ ~Known(r, Parent(r)))
    <3>1. Creates(r)
      BY <1>4, <2>1, <2>3 DEF CheckCreate, Parent, Creates
    <3> QED
      BY <1>0, <1>1, <1>2, <1>3, <2>3, <3>1, KnownIsTaken
  <2> QED
    BY <2>2, <2>3
<1>5. CASE Item(r).do # "create"
  <2>0. Item(r).do = "reparent"
    BY <1>3, <1>5, TextOpShape
  <2>1. CheckReparent(r, Item(r))
    BY <1>5 DEF CheckOp, Item
  <2> DEFINE bad == \/ sawKinds[r][Item(r).id] = {}
                    \/ Parent(r) # Nobody /\ (~Known(r, Parent(r)) \/ WouldCycle(work[r], Parent(r), Item(r).id))
             old == Indexed(r, Item(r).id)
  <2>2. CASE bad
    BY <1>1, <1>2, <1>3, <2>1, <2>2 DEF CheckReparent, Parent
  <2>3. CASE ~bad
    <3>1. /\ \E gone \in IF old = {} THEN {{}} ELSE {{Contains(q, Item(r).id)} : q \in old} :
               work' = [work EXCEPT ![r] = (@ \ gone) \cup Under(Parent(r), Item(r).id)]
          /\ UNCHANGED <<minted, idMap, refused>>
      BY <2>1, <2>3 DEF CheckReparent, Parent
    <3> HIDE DEF old
    <3>2. PICK gone \in IF old = {} THEN {{}} ELSE {{Contains(q, Item(r).id)} : q \in old} :
               work' = [work EXCEPT ![r] = (@ \ gone) \cup Under(Parent(r), Item(r).id)]
      BY <3>1
    <3>3. \A e \in gone : e.target = Item(r).id
      BY <3>2, PairShape
    <3>4. Moves(r)
      BY <2>0, <2>3, <3>1, <3>2, <3>3 DEF Moves
    <3> QED
      BY <1>0, <1>1, <1>2, <1>3, <2>3, <3>4, KnownIsTaken
  <2> QED
    BY <2>2, <2>3
<1> QED
  BY <1>1, <1>2, <1>3, <1>4, <1>5

LEMMA CheckOpKeeps == ASSUME IInv, NEW r \in Req, CheckOp(r) PROVE IInv'
<1> DEFINE x == Item(r)
           p == Parent(r)
<1>0. TypeOK /\ NoDanglingEdge /\ RequestKnows(r) /\ TextKnows(r)
  BY DEF IInv
<1>1. /\ op[r].call = "text"
      /\ next' = [next EXCEPT ![r] = @ + 1]
      /\ UNCHANGED <<kinds, edges, op, sawKinds, sawEdges, missed>>
  BY DEF CheckOp
<1>2. pc' \in [Req -> PC] /\ next' \in [Req -> Nat \ {0}]
  BY <1>0, <1>1 DEF TypeOK, CheckOp, Goto, PC
<1>3. /\ op[r].items \in Seq(TextOp)
      /\ next[r] \in DOMAIN op[r].items
      /\ x \in TextOp
      /\ x = op[r].items[next[r]]
  BY CheckOpCases DEF Item
<1> HIDE DEF x, p
<1>4. CASE Reject(r)
  <2>1. /\ UNCHANGED <<minted, work, idMap>>
        /\ refused' = [refused EXCEPT ![r] = TRUE]
    BY <1>4 DEF Reject
  <2>2. TypeOK'
    BY <1>0, <1>1, <1>2, <2>1 DEF TypeOK
  <2>3. NoDanglingEdge' /\ (\A j \in Id : Exists(j) => j \in Taken)'
    BY <1>0, <1>1, <2>1 DEF IInv, NoDanglingEdge, Exists, Taken
  <2>4. \A q \in Req \ {r} : UNCHANGED Locals(q)
    BY <1>0, <1>1, <2>1 DEF Locals, TypeOK
  <2>5. RequestKnows(r)'
    BY <1>0, <1>1, <2>1 DEF RequestKnows, EndsTaken, Taken
  <2>6. TextKnows(r)'
    BY <1>0, <2>1 DEF TextKnows, TypeOK
  <2> QED
    BY <1>1, <2>1, <2>2, <2>3, <2>4, <2>5, <2>6, RequestStep
<1>5. CASE p \in Taken \cup {Nobody} /\ Creates(r)
  <2>1. PICK i \in Fresh \ minted :
           /\ minted' = minted \cup {i}
           /\ idMap' = [idMap EXCEPT ![r][x.temp] = i]
           /\ work' = [work EXCEPT ![r] = @ \cup Under(p, i)]
    BY <1>5 DEF Creates, x, p
  <2>2. x.do = "create" /\ x.temp \in Temp /\ refused' = refused
    BY <1>3, <1>5, TextOpShape DEF Creates, x
  <2>3. i \in Id /\ i # Nobody
    BY IdAssumption
  <2>4. Under(p, i) \subseteq Edge /\ \A e \in Under(p, i) : e.source \in Taken' /\ e.target \in Taken'
    BY <1>0, <1>5, <2>1, <2>3, PairShape, TakenIsId DEF Under, Taken
  <2>5. /\ idMap' \in [Req -> [Temp -> Fresh \cup {Nobody}]]
        /\ idMap'[r][x.temp] = i
        /\ \A t \in Temp : t # x.temp => idMap'[r][t] = idMap[r][t]
    BY <1>0, <2>1, <2>2 DEF TypeOK
  <2>6. work' \in [Req -> SUBSET Edge] /\ work'[r] = work[r] \cup Under(p, i)
    BY <1>0, <2>1, <2>4 DEF TypeOK
  <2>7. TypeOK'
    BY <1>0, <1>1, <1>2, <2>1, <2>2, <2>5, <2>6 DEF TypeOK
  <2>8. NoDanglingEdge' /\ (\A j \in Id : Exists(j) => j \in Taken)'
    BY <1>0, <1>1, <2>1 DEF IInv, NoDanglingEdge, Exists, Taken
  <2>9. \A q \in Req \ {r} : UNCHANGED Locals(q)
    BY <1>0, <1>1, <2>1, <2>2 DEF Locals, TypeOK
  <2>10. RequestKnows(r)'
    <3>1. EndsTaken(work[r])'
      BY <1>0, <2>1, <2>4, <2>6 DEF RequestKnows, EndsTaken, Taken
    <3>2. \A t \in Temp : idMap'[r][t] \in minted' \cup {Nobody}
      BY <1>0, <2>1, <2>5 DEF RequestKnows
    <3> QED
      BY <1>0, <1>1, <2>1, <3>1, <3>2 DEF RequestKnows, EndsTaken, Taken
  <2>11. \A raw : Resolve(r, raw) \in Taken \cup {Nobody} => Resolve(r, raw)' \in Taken' \cup {Nobody}
    BY <1>0, <2>1, <2>2, <2>5, <2>3 DEF Resolve, Taken
  <2>12. TextKnows(r)'
    <3> SUFFICES ASSUME ~refused[r], NEW n \in DOMAIN op[r].items, n < next'[r]
                 PROVE  Passed(r, op[r].items[n])'
      BY <1>1, <2>2 DEF TextKnows
    <3>1. CASE n < next[r]
      <4>1. Passed(r, op[r].items[n])
        BY <1>0, <1>1, <3>1 DEF TextKnows
      <4>2. op[r].items[n].do = "create" => op[r].items[n].temp \in Temp
        BY <1>3, TextOpShape
      <4>3. op[r].items[n].do = "create" => idMap'[r][op[r].items[n].temp] \in minted'
        BY <4>1, <4>2, <2>1, <2>5 DEF Passed
      <4>4. Resolve(r, op[r].items[n].parent)' \in Taken' \cup {Nobody}
        BY <1>1, <4>1, <2>11 DEF Passed, Resolve
      <4> QED
        BY <1>1, <4>3, <4>4 DEF Passed
    <3>2. CASE n = next[r]
      <4>1. Resolve(r, x.parent) \in Taken \cup {Nobody}
        BY <1>5 DEF Parent, x, p
      <4>2. Resolve(r, op[r].items[n].parent)' \in Taken' \cup {Nobody}
        BY <1>1, <1>3, <3>2, <4>1, <2>11 DEF Resolve
      <4> QED
        BY <1>1, <1>3, <2>1, <2>5, <3>2, <4>2 DEF Passed
    <3> QED
      BY <1>0, <1>1, <1>3, <3>1, <3>2 DEF TypeOK
  <2> QED
    BY <1>1, <2>1, <2>7, <2>8, <2>9, <2>10, <2>12, RequestStep
<1>6. CASE p \in Taken \cup {Nobody} /\ Moves(r)
  <2>1. PICK gone : work' = [work EXCEPT ![r] = (@ \ gone) \cup Under(p, x.id)]
    BY <1>6 DEF Moves, x, p
  <2>2. x.do = "reparent" /\ x.id \in Client /\ UNCHANGED <<minted, idMap, refused>>
    BY <1>3, <1>6, TextOpShape DEF Moves, x
  <2>3. Under(p, x.id) \subseteq Edge /\ \A e \in Under(p, x.id) : e.source \in Taken /\ e.target \in Taken
    BY <1>0, <1>6, <2>2, PairShape, TakenIsId DEF Under, Taken, Client
  <2>4. work' \in [Req -> SUBSET Edge] /\ work'[r] \subseteq work[r] \cup Under(p, x.id)
    BY <1>0, <2>1, <2>3 DEF TypeOK
  <2>5. TypeOK'
    BY <1>0, <1>1, <1>2, <2>2, <2>4 DEF TypeOK
  <2>6. NoDanglingEdge' /\ (\A j \in Id : Exists(j) => j \in Taken)'
    BY <1>0, <1>1, <2>2 DEF IInv, NoDanglingEdge, Exists, Taken
  <2>7. \A q \in Req \ {r} : UNCHANGED Locals(q)
    BY <1>0, <1>1, <2>1, <2>2 DEF Locals, TypeOK
  <2>8. RequestKnows(r)'
    BY <1>0, <1>1, <2>2, <2>3, <2>4 DEF RequestKnows, EndsTaken, Taken
  <2>9. TextKnows(r)'
    <3> SUFFICES ASSUME ~refused[r], NEW n \in DOMAIN op[r].items, n < next'[r]
                 PROVE  Passed(r, op[r].items[n])
      BY <1>1, <2>2 DEF TextKnows, Passed, Resolve, Taken
    <3>1. CASE n < next[r]
      BY <1>0, <1>1, <3>1 DEF TextKnows
    <3>2. CASE n = next[r]
      BY <1>3, <1>6, <2>2, <3>2 DEF Passed, Parent, x, p
    <3> QED
      BY <1>0, <1>1, <1>3, <3>1, <3>2 DEF TypeOK
  <2> QED
    BY <1>1, <2>2, <2>5, <2>6, <2>7, <2>8, <2>9, RequestStep
<1> QED
  BY <1>4, <1>5, <1>6, CheckOpCases DEF p

(* The element an operation of a text edit is about. *)
Subject(r, n) ==
    LET x == op[r].items[n] IN IF x.do = "create" THEN idMap[r][x.temp] ELSE x.id

LEMMA SubjectIsTaken ==
    ASSUME TypeOK, NEW r \in Req, op[r].call = "text", NEW n \in DOMAIN op[r].items,
           Passed(r, op[r].items[n])
    PROVE  Subject(r, n) \in Taken
<1>1. op[r].items[n] \in TextOp
  BY OpShape, PayloadShape
<1>2. op[r].items[n].do = "create" \/ op[r].items[n].id \in Client
  BY <1>1, TextOpShape
<1> QED
  BY <1>2 DEF Subject, Passed, Taken

LEMMA WriteTextKeeps == ASSUME IInv, NEW r \in Req, WriteText(r) PROVE IInv'
<1> DEFINE items == op[r].items
           moved == {x.id : x \in {x \in Batch(r) : x.do = "reparent"}}
           final == {n \in DOMAIN items : \A m \in DOMAIN items : Subject(r, m) = Subject(r, n) => m <= n}
           created(i) == {x.kind : x \in {x \in Batch(r) : x.do = "create" /\ idMap[r][x.temp] = i}}
           placed == {n \in final : LET p == Resolve(r, items[n].parent) IN
                         p # Nobody /\ kinds'[p] # {} /\ kinds'[Subject(r, n)] # {}}
<1>0. TypeOK /\ NoDanglingEdge /\ TextKnows(r)
  BY DEF IInv
<1>1. /\ op[r].call = "text" /\ next[r] > Len(items) /\ ~refused[r]
      /\ UNCHANGED <<minted, op, sawKinds, sawEdges, work, idMap, next, refused>>
      /\ kinds' = [i \in Id |-> kinds[i] \cup created(i)]
  BY DEF WriteText
<1>2. edges' = {e \in edges : ~(e.kind = "Contains" /\ e.target \in moved)}
               \cup {Contains(Resolve(r, items[n].parent), Subject(r, n)) : n \in placed}
  BY DEF WriteText, Subject
<1>3. pc' \in [Req -> PC] /\ missed' \subseteq Reasons
  BY <1>0 DEF TypeOK, WriteText, Goto, PC, Miss, Cause, Reasons
<1>4. items \in Seq(TextOp)
  BY <1>0, <1>1, OpShape, PayloadShape
<1>5. \A n \in DOMAIN items : Passed(r, items[n])
  <2> SUFFICES ASSUME NEW n \in DOMAIN items PROVE n < next[r]
    BY <1>0, <1>1 DEF TextKnows
  <2>1. n \in 1..Len(items) /\ next[r] \in Nat /\ Len(items) \in Nat
    BY <1>0, <1>4 DEF TypeOK
  <2> QED
    BY <1>1, <2>1
<1>6. \A i \in Id : created(i) \subseteq NodeKind /\ (created(i) # {} => i \in minted)
  <2>1. \A x \in Batch(r) : x \in TextOp /\ Passed(r, x)
    BY <1>4, <1>5 DEF Batch
  <2> QED
    BY <2>1, TextOpShape DEF Passed
<1> HIDE DEF created, moved
<1>7. kinds' \in [Id -> SUBSET NodeKind] /\ \A i \in Id : kinds'[i] = kinds[i] \cup created(i)
  BY <1>0, <1>1, <1>6 DEF TypeOK
<1>8. edges' \subseteq Edge /\ NoDanglingEdge'
  <2> SUFFICES ASSUME NEW e \in edges' PROVE e \in Edge /\ kinds'[e.source] # {} /\ kinds'[e.target] # {}
    BY DEF NoDanglingEdge, Exists
  <2>1. CASE e \in edges
    BY <1>0, <1>7, <2>1 DEF NoDanglingEdge, Exists, TypeOK, Edge
  <2>2. CASE e \notin edges
    <3>1. PICK n \in placed : e = Contains(Resolve(r, items[n].parent), Subject(r, n))
      BY <1>2, <2>2
    <3>2. Resolve(r, items[n].parent) \in Id /\ Subject(r, n) \in Id
      BY <1>0, <1>1, <1>5, <3>1, SubjectIsTaken, TakenIsId DEF Passed
    <3> QED
      BY <3>1, <3>2, PairShape
  <2> QED
    BY <2>1, <2>2
<1>9. TypeOK'
  BY <1>0, <1>1, <1>3, <1>7, <1>8 DEF TypeOK
<1>10. (\A j \in Id : Exists(j) => j \in Taken)'
  BY <1>1, <1>6, <1>7 DEF IInv, Exists, Taken
<1> QED
  BY <1>1, <1>8, <1>9, <1>10, KnowledgeStays DEF IInv, Locals

LEMMA StutterKeeps == ASSUME IInv, UNCHANGED vars PROVE IInv'
<1>1. UNCHANGED <<kinds, edges, minted, op, pc, sawKinds, sawEdges, work, idMap, next, refused, missed>>
  BY DEF vars, graph, locals
<1>2. TypeOK'
  BY <1>1 DEF IInv, TypeOK
<1>3. NoDanglingEdge' /\ (\A j \in Id : Exists(j) => j \in Taken)'
  BY <1>1 DEF IInv, NoDanglingEdge, Exists, Taken
<1> QED
  BY <1>1, <1>2, <1>3, KnowledgeStays DEF IInv, Locals

LEMMA NextIInv == IInv /\ [Next]_vars => IInv'
BY StutterKeeps, CreateElementKeeps, GetSourceKeeps, GetTargetKeeps, ReadContainsKeeps,
   CreateEdgeKeeps, ReadFlowsKeeps, DeleteEdgeKeeps, GetElementKeeps, ReadDependentsKeeps,
   DeleteElementKeeps, ReadKindsKeeps, ReadHierarchyKeeps, CheckPairKeeps, WriteImportKeeps,
   ReadElementsKeeps, CheckOpKeeps, RejectTextKeeps, WriteTextKeeps DEF Next, EdgeStep,
   ElementStep, BatchStep

LEMMA Invariance == Spec => []IInv
BY InitIInv, NextIInv, PTL DEF Spec

(* Every request finds, at every call, values of the shapes it expects.      *)
THEOREM TypeCorrect == Spec => []TypeOK
BY Invariance, PTL DEF IInv

(* However creations, deletions, imports and text edits interleave, no edge  *)
(* in the store has a missing endpoint (NFR-REL-01, neo4j.rs:313-314).       *)
THEOREM EdgesHaveEnds == Spec => []NoDanglingEdge
BY Invariance, PTL DEF IInv

-----------------------------------------------------------------------------
(* The gates of the deletions.                                               *)

(* An action of r leaves the other requests alone. *)
LEMMA OthersUnchanged ==
    ASSUME IInv, NEW r \in Req, EdgeStep(r) \/ ElementStep(r) \/ BatchStep(r)
    PROVE  /\ op' = op
           /\ missed \subseteq missed'
           /\ \A q \in Req \ {r} : UNCHANGED <<pc[q], Locals(q)>>
<1> USE DEF Goto, Locals, TypeOK, graph
<1>0. TypeOK
  BY DEF IInv
<1>1. CASE GetSource(r)
  BY <1>0, <1>1 DEF GetSource, SawElement
<1>2. CASE GetTarget(r)
  BY <1>0, <1>2 DEF GetTarget, SawElement
<1>3. CASE ReadContains(r)
  BY <1>0, <1>3 DEF ReadContains
<1>4. CASE CreateEdge(r)
  BY <1>0, <1>4 DEF CreateEdge, Miss
<1>5. CASE ReadFlows(r)
  BY <1>0, <1>5 DEF ReadFlows
<1>6. CASE DeleteEdge(r)
  BY <1>0, <1>6 DEF DeleteEdge, Miss
<1>7. CASE CreateElement(r)
  BY <1>0, <1>7 DEF CreateElement
<1>8. CASE GetElement(r)
  BY <1>0, <1>8 DEF GetElement
<1>9. CASE ReadDependents(r)
  BY <1>0, <1>9 DEF ReadDependents
<1>10. CASE DeleteElement(r)
  BY <1>0, <1>10 DEF DeleteElement, Miss
<1>11. CASE ReadKinds(r)
  BY <1>0, <1>11 DEF ReadKinds
<1>12. CASE ReadElements(r)
  BY <1>0, <1>12 DEF ReadElements
<1>13. CASE ReadHierarchy(r)
  BY <1>0, <1>13 DEF ReadHierarchy
<1>14. CASE CheckPair(r)
  BY <1>0, <1>14 DEF CheckPair
<1>15. CASE WriteImport(r)
  BY <1>0, <1>15 DEF WriteImport, Miss
<1>16. CASE CheckOp(r)
  <2>1. /\ missed' = missed /\ op' = op
        /\ \A q \in Req \ {r} : UNCHANGED <<pc[q], sawKinds[q], sawEdges[q], next[q]>>
    BY <1>0, <1>16 DEF CheckOp
  <2>2. CASE Reject(r)
    BY <1>0, <2>1, <2>2 DEF Reject
  <2>3. CASE Creates(r)
    BY <1>0, <2>1, <2>3 DEF Creates
  <2>4. CASE Moves(r)
    BY <1>0, <2>1, <2>4 DEF Moves
  <2> QED
    BY <1>16, <2>2, <2>3, <2>4, CheckOpCases
<1>17. CASE RejectText(r)
  BY <1>0, <1>17 DEF RejectText
<1>18. CASE WriteText(r)
  BY <1>0, <1>18 DEF WriteText, Miss
<1> QED
  BY <1>1, <1>2, <1>3, <1>4, <1>5, <1>6, <1>7, <1>8, <1>9, <1>10, <1>11, <1>12,
     <1>13, <1>14, <1>15, <1>16, <1>17, <1>18 DEF EdgeStep, ElementStep, BatchStep

(* What a request that is about to delete found when it read the graph. *)
GateKnows(r) ==
    /\ pc[r] = "readDependents" => op[r].call = "deleteElement"
    /\ pc[r] = "write" /\ op[r].call = "deleteEdge" =>
          /\ op[r].edge.kind = "Flow"
          /\ \A i \in {op[r].edge.source, op[r].edge.target} :
                \E f \in sawEdges[r] : f # op[r].edge /\ f.kind = "Flow" /\ Touches(f, i)
    /\ pc[r] = "write" /\ op[r].call = "deleteElement" => op[r].acknowledge \/ sawEdges[r] = {}

LEMMA GateStep ==
    ASSUME IInv, NEW r \in Req, GateKnows(r), EdgeStep(r) \/ ElementStep(r) \/ BatchStep(r)
    PROVE  GateKnows(r)'
<1> USE DEF Goto, TypeOK, graph
<1>0. TypeOK /\ op' = op
  BY OthersUnchanged DEF IInv
<1>1. CASE GetSource(r)
  BY <1>0, <1>1 DEF GetSource, GateKnows
<1>2. CASE GetTarget(r)
  BY <1>0, <1>2 DEF GetTarget, GateKnows
<1>3. CASE ReadContains(r)
  BY <1>0, <1>3 DEF ReadContains, GateKnows
<1>4. CASE CreateEdge(r)
  BY <1>0, <1>4 DEF CreateEdge, GateKnows
<1>5. CASE ReadFlows(r)
  BY <1>0, <1>5 DEF ReadFlows, GateKnows, FlowsIn
<1>6. CASE DeleteEdge(r)
  BY <1>0, <1>6 DEF DeleteEdge, GateKnows
<1>7. CASE CreateElement(r)
  BY <1>0, <1>7 DEF CreateElement, GateKnows
<1>8. CASE GetElement(r)
  BY <1>0, <1>8 DEF GetElement, GateKnows
<1>9. CASE ReadDependents(r)
  BY <1>0, <1>9 DEF ReadDependents, GateKnows, Dependents
<1>10. CASE DeleteElement(r)
  BY <1>0, <1>10 DEF DeleteElement, GateKnows
<1>11. CASE ReadKinds(r)
  BY <1>0, <1>11 DEF ReadKinds, GateKnows
<1>12. CASE ReadElements(r)
  BY <1>0, <1>12 DEF ReadElements, GateKnows
<1>13. CASE ReadHierarchy(r)
  BY <1>0, <1>13 DEF ReadHierarchy, GateKnows
<1>14. CASE CheckPair(r)
  BY <1>0, <1>14 DEF CheckPair, GateKnows
<1>15. CASE WriteImport(r)
  BY <1>0, <1>15 DEF WriteImport, GateKnows
<1>16. CASE CheckOp(r)
  BY <1>0, <1>16 DEF CheckOp, GateKnows
<1>17. CASE RejectText(r)
  BY <1>0, <1>17 DEF RejectText, GateKnows
<1>18. CASE WriteText(r)
  BY <1>0, <1>18 DEF WriteText, GateKnows
<1> QED
  BY <1>1, <1>2, <1>3, <1>4, <1>5, <1>6, <1>7, <1>8, <1>9, <1>10, <1>11, <1>12,
     <1>13, <1>14, <1>15, <1>16, <1>17, <1>18 DEF EdgeStep, ElementStep, BatchStep

GInv == IInv /\ \A r \in Req : GateKnows(r)

LEMMA GateInvariance == Spec => []GInv
<1>1. Init => GInv
  BY InitIInv DEF Init, GInv, GateKnows
<1>2. ASSUME GInv, [Next]_vars PROVE GInv'
  <2>1. IInv'
    BY <1>2, NextIInv DEF GInv
  <2>2. CASE UNCHANGED vars
    BY <1>2, <2>1, <2>2 DEF GInv, GateKnows, vars, locals
  <2>3. ASSUME NEW r \in Req, EdgeStep(r) \/ ElementStep(r) \/ BatchStep(r)
        PROVE  \A q \in Req : GateKnows(q)'
    <3>1. GateKnows(r)'
      BY <1>2, <2>3, GateStep DEF GInv
    <3>2. ASSUME NEW q \in Req \ {r} PROVE GateKnows(q)'
      <4>1. GateKnows(q) /\ op' = op /\ UNCHANGED <<pc[q], sawEdges[q]>>
        BY <1>2, <2>3, OthersUnchanged DEF GInv, Locals
      <4> QED
        BY <4>1 DEF GateKnows
    <3> QED
      BY <3>1, <3>2
  <2> QED
    BY <1>2, <2>1, <2>2, <2>3 DEF GInv, Next
<1> QED
  BY <1>1, <1>2, PTL DEF Spec

(* A Flow edge leaves the graph with one of its elements, or by a deletion   *)
(* that knew of another one at each end; so the last one of an action that   *)
(* stays is lost only to a second deletion in between (FR-CORE-13).          *)
THEOREM LastFlowIsKept == Spec => LastFlowKept
<1> DEFINE Kept == \A e \in FlowsIn(edges) \ FlowsIn(edges') :
                      \/ kinds' # kinds
                      \/ "flow" \in missed'
                      \/ \A i \in {e.source, e.target} : \E f \in FlowsIn(edges') : Touches(f, i)
<1>1. ASSUME GInv, [Next]_vars PROVE [Kept]_vars
  <2> SUFFICES ASSUME NEW r \in Req, EdgeStep(r) \/ ElementStep(r) \/ BatchStep(r),
                      NEW e \in FlowsIn(edges) \ FlowsIn(edges'), kinds' = kinds
               PROVE  \/ "flow" \in missed'
                      \/ \A i \in {e.source, e.target} : \E f \in FlowsIn(edges') : Touches(f, i)
    BY <1>1 DEF Next
  <2>0. TypeOK /\ NoDanglingEdge /\ e \in edges /\ e \notin edges' /\ e.kind = "Flow"
    BY <1>1 DEF GInv, IInv, FlowsIn
  <2>1. CASE DeleteEdge(r)
    <3>1. e = op[r].edge /\ pc[r] = "write" /\ edges' = edges \ {e}
      BY <2>0, <2>1 DEF DeleteEdge, Goto
    <3>2. \A i \in {e.source, e.target} : \E f \in sawEdges[r] : f # e /\ f.kind = "Flow" /\ Touches(f, i)
      BY <1>1, <2>1, <3>1 DEF GInv, GateKnows, DeleteEdge
    <3>3. "flow" \in missed' \/ sawEdges[r] \subseteq edges
      BY <2>0, <2>1, <3>1 DEF DeleteEdge, Miss, Cause
    <3> QED
      BY <3>1, <3>2, <3>3 DEF FlowsIn
  <2>2. CASE DeleteElement(r)
    <3>1. op[r].id \in Id /\ kinds' = [kinds EXCEPT ![op[r].id] = {}] /\ Touches(e, op[r].id)
      BY <2>0, <2>2, OpShape, PayloadShape DEF DeleteElement, Client
    <3>2. kinds[op[r].id] # {}
      BY <2>0, <3>1 DEF NoDanglingEdge, Exists, Touches
    <3> QED
      BY <2>0, <3>1, <3>2 DEF TypeOK
  <2>3. CASE ~DeleteEdge(r) /\ ~DeleteElement(r)
    <3>1. e \in edges'
      BY <2>0, <2>3 DEF EdgeStep, ElementStep, BatchStep, GetSource, GetTarget, ReadContains,
         CreateEdge, ReadFlows, CreateElement, GetElement, ReadDependents, ReadKinds,
         ReadElements, ReadHierarchy, CheckPair, WriteImport, CheckOp, RejectText, WriteText,
         graph
    <3> QED
      BY <2>0, <3>1
  <2> QED
    BY <2>1, <2>2, <2>3
<1>2. GInv /\ [Next]_vars => [Kept]_vars
  BY <1>1
<1> QED
  BY <1>2, GateInvariance, PTL DEF Spec, LastFlowKept

(* An element that something satisfies is deleted by a request that          *)
(* acknowledged it, or that did not see the dependency yet (T-P1.3-03).      *)
THEOREM BreachIsAcknowledged == Spec => BreachAcknowledged
<1> DEFINE Gate == \A i \in Id : (kinds'[i] = {} /\ Dependents(edges, i) # {}) =>
                      \/ "dependent" \in missed'
                      \/ \E r \in Req : /\ pc[r] = "write" /\ pc'[r] = "done"
                                       /\ op[r].call = "deleteElement"
                                       /\ op[r].id = i
                                       /\ op[r].acknowledge
<1>1. ASSUME GInv, [Next]_vars PROVE [Gate]_vars
  <2> SUFFICES ASSUME NEW r \in Req, EdgeStep(r) \/ ElementStep(r) \/ BatchStep(r),
                      NEW i \in Id, kinds'[i] = {}, Dependents(edges, i) # {}
               PROVE  \/ "dependent" \in missed'
                      \/ /\ pc[r] = "write" /\ pc'[r] = "done"
                         /\ op[r].call = "deleteElement"
                         /\ op[r].id = i
                         /\ op[r].acknowledge
    BY <1>1 DEF Next
  <2>0. TypeOK /\ kinds[i] # {}
    BY <1>1 DEF GInv, IInv, NoDanglingEdge, Exists, Dependents
  <2>1. CASE DeleteElement(r)
    <3>1. op[r].id = i
      BY <2>0, <2>1, OpShape, PayloadShape DEF DeleteElement, Client, TypeOK
    <3>2. op[r].acknowledge \/ sawEdges[r] = {}
      BY <1>1, <2>1 DEF GInv, GateKnows, DeleteElement, Goto
    <3>3. "dependent" \in missed' \/ Dependents(edges, i) \subseteq sawEdges[r]
      BY <2>1, <3>1 DEF DeleteElement, Miss, Cause
    <3>4. pc[r] = "write" /\ pc'[r] = "done" /\ op[r].call = "deleteElement"
      BY <2>0, <2>1 DEF DeleteElement, Goto, TypeOK
    <3> QED
      BY <3>1, <3>2, <3>3, <3>4
  <2>2. CASE CreateElement(r)
    <3>1. PICK j \in Fresh : kinds' = [kinds EXCEPT ![j] = {op[r].kind}]
      BY <2>2 DEF CreateElement
    <3>2. kinds'[i] = kinds[i] \/ kinds'[i] = {op[r].kind}
      BY <2>0, <3>1, IdAssumption DEF TypeOK
    <3> QED
      BY <2>0, <3>2
  <2>3. CASE ~DeleteElement(r) /\ ~CreateElement(r)
    <3>1. kinds'[i] = kinds[i] \/ kinds[i] \subseteq kinds'[i]
      BY <2>0, <2>3 DEF EdgeStep, ElementStep, BatchStep, GetSource, GetTarget, ReadContains,
         CreateEdge, ReadFlows, DeleteEdge, GetElement, ReadDependents, ReadKinds, ReadElements,
         ReadHierarchy, CheckPair, WriteImport, CheckOp, RejectText, WriteText, graph
    <3> QED
      BY <2>0, <3>1
  <2> QED
    BY <2>1, <2>2, <2>3
<1>2. GInv /\ [Next]_vars => [Gate]_vars
  BY <1>1
<1> QED
  BY <1>2, GateInvariance, PTL DEF Spec, BreachAcknowledged
-----------------------------------------------------------------------------
(* Kinds: an id has one, and the ends of an edge legal ones, unless a check   *)
(* was overtaken.                                                            *)

(* The ids text edits mint are their own, and no element has one of them     *)
(* before the edit is written.                                               *)
IdsAreUnique ==
    \A r, q \in Req : \A t, u \in Temp :
        idMap[r][t] = idMap[q][u] /\ idMap[r][t] # Nobody => r = q /\ t = u
Unborn(r) ==
    pc[r] # "done" => \A t \in Temp : idMap[r][t] # Nobody => ~Exists(idMap[r][t])

(* What an edge's request read of its ends, and an import of its elements.   *)
EndsKnown(r) ==
    op[r].call = "createEdge" =>
        /\ pc[r] = "getTarget" => \E k \in NodeKind : sawKinds[r][op[r].edge.source] = {k}
        /\ pc[r] = "readContains" => op[r].edge.kind = "Contains"
        /\ pc[r] = "write" =>
              \A k \in sawKinds[r][op[r].edge.source], l \in sawKinds[r][op[r].edge.target] :
                  LegalEnds(op[r].edge.kind, k, l)
KindsKnown(r) ==
    op[r].call = "import" /\ pc[r] \in {"readContains", "check"} =>
        \A e \in op[r].elements : sawKinds[r][e.id] \subseteq {e.kind}

Conflict == missed \cap {"kind", "batch"} # {}

KInv ==
    /\ IdsAreUnique
    /\ \A r \in Req : Unborn(r) /\ EndsKnown(r)
    /\ OneKindUnlessMissed
    /\ Conflict \/ \A r \in Req : KindsKnown(r)
    /\ LegalUnlessMissed

(* An import gives an id its kind, or one it had.  (No conflict so far.)     *)
LEMMA ImportKinds ==
    ASSUME IInv, NEW r \in Req, WriteImport(r), KindsKnown(r), ~Conflict',
           NEW i \in Id, kinds'[i] # kinds[i]
    PROVE  i \in Client /\ kinds[i] = {} /\ \A k, l \in kinds'[i] : k = l
<1> DEFINE imported == {e.kind : e \in {e \in op[r].elements : e.id = i}}
<1>0. TypeOK /\ op[r].call = "import" /\ pc[r] = "check"
  BY DEF IInv, WriteImport, Goto
<1>1. op[r].elements \subseteq Element
  BY <1>0, OpShape, PayloadShape
<1>2. kinds'[i] = kinds[i] \cup imported
  BY DEF WriteImport
<1>3. PICK e \in op[r].elements : e.id = i
  BY <1>2
<1>4. /\ \A f \in op[r].elements : f.id = i => f.kind = e.kind
      /\ kinds[i] \subseteq sawKinds[r][i]
  BY <1>3 DEF WriteImport, Miss, Cause, Conflict
<1>5. kinds[i] \subseteq {e.kind} /\ imported = {e.kind}
  BY <1>0, <1>3, <1>4 DEF KindsKnown
<1>6. i \in Client
  BY <1>1, <1>3 DEF Element
<1> QED
  BY <1>2, <1>5, <1>6

(* A text edit gives the ids it minted one kind each. *)
LEMMA TextKinds ==
    ASSUME IInv, NEW r \in Req, WriteText(r), IdsAreUnique, Unborn(r),
           NEW i \in Id, kinds'[i] # kinds[i]
    PROVE  /\ \E t \in Temp : idMap[r][t] = i
           /\ kinds[i] = {}
           /\ \A k, l \in kinds'[i] : k = l
<1> DEFINE created == {x.kind : x \in {x \in Batch(r) : x.do = "create" /\ idMap[r][x.temp] = i}}
<1>0. TypeOK /\ op[r].call = "text" /\ pc[r] = "check" /\ op[r] \in Script[r]
  BY DEF IInv, WriteText, Goto, TypeOK
<1>1. op[r].items \in Seq(TextOp)
  BY <1>0, OpShape, PayloadShape
<1>2. kinds'[i] = kinds[i] \cup created
  BY DEF WriteText
<1>3. i # Nobody
  BY IdAssumption
<1>4. \A x \in Batch(r) : x.do = "create" => x.temp \in Temp
  BY <1>1, TextOpShape DEF Batch
<1>5. PICK x \in Batch(r) : x.do = "create" /\ idMap[r][x.temp] = i
  BY <1>2
<1>6. kinds[i] = {}
  BY <1>0, <1>3, <1>4, <1>5 DEF Unborn, Exists
<1>7. ASSUME NEW y \in Batch(r), y.do = "create", idMap[r][y.temp] = i PROVE y = x
  <2>1. y.temp = x.temp
    BY <1>3, <1>4, <1>5, <1>7 DEF IdsAreUnique
  <2> QED
    BY <1>0, <1>5, <1>7, <2>1, ScriptAssumption DEF Batch
<1> QED
  BY <1>2, <1>4, <1>5, <1>6, <1>7

(* So an element keeps its kind for as long as it exists. *)
LEMMA KindsStay ==
    ASSUME IInv, NEW r \in Req, EdgeStep(r) \/ ElementStep(r) \/ BatchStep(r),
           IdsAreUnique, Unborn(r), KindsKnown(r), ~Conflict', NEW i \in Id
    PROVE  \/ kinds'[i] = kinds[i]
           \/ kinds'[i] = {}
           \/ kinds[i] = {} /\ \A k, l \in kinds'[i] : k = l
<1>0. TypeOK
  BY DEF IInv
<1>1. CASE CreateElement(r)
  <2>1. PICK j \in Fresh \ minted : kinds' = [kinds EXCEPT ![j] = {op[r].kind}]
    BY <1>1 DEF CreateElement
  <2>2. kinds[j] = {} /\ j \in Id
    BY <2>1, IdAssumption DEF IInv, Exists, Taken, Client
  <2>3. kinds'[i] = kinds[i] \/ (i = j /\ kinds'[i] = {op[r].kind})
    BY <1>0, <2>1, <2>2 DEF TypeOK
  <2> QED
    BY <2>2, <2>3
<1>2. CASE DeleteElement(r)
  BY <1>0, <1>2 DEF DeleteElement, TypeOK
<1>3. CASE WriteImport(r)
  BY <1>3, ImportKinds
<1>4. CASE WriteText(r)
  BY <1>4, TextKinds
<1>5. CASE ~CreateElement(r) /\ ~DeleteElement(r) /\ ~WriteImport(r) /\ ~WriteText(r)
  BY <1>5 DEF EdgeStep, ElementStep, BatchStep, GetSource, GetTarget, ReadContains, CreateEdge,
     ReadFlows, DeleteEdge, GetElement, ReadDependents, ReadKinds, ReadElements, ReadHierarchy,
     CheckPair, CheckOp, RejectText, graph
<1> QED
  BY <1>1, <1>2, <1>3, <1>4, <1>5

(* Only a text edit's own operations give it ids, and only its own write     *)
(* gives them elements.                                                      *)
LEMMA IdsStep ==
    ASSUME IInv, NEW r \in Req, EdgeStep(r) \/ ElementStep(r) \/ BatchStep(r),
           IdsAreUnique, \A q \in Req : Unborn(q)
    PROVE  (IdsAreUnique /\ \A q \in Req : Unborn(q))'
<1>0. TypeOK /\ \A q \in Req : RequestKnows(q)
  BY DEF IInv
<1>1. /\ \A q \in Req : pc'[q] # "done" => pc[q] # "done"
      /\ \A q \in Req \ {r} : idMap'[q] = idMap[q]
  <2>1. pc[r] # "done"
    BY DEF EdgeStep, ElementStep, BatchStep, Goto, GetSource, GetTarget, ReadContains, CreateEdge,
       ReadFlows, DeleteEdge, CreateElement, GetElement, ReadDependents, DeleteElement, ReadKinds,
       ReadElements, ReadHierarchy, CheckPair, WriteImport, CheckOp, RejectText, WriteText, graph
  <2> QED
    BY <2>1, OthersUnchanged DEF Locals
<1>2. \A q \in Req : \A t \in Temp : idMap[q][t] # Nobody => idMap[q][t] \in minted /\ idMap[q][t] \in Fresh
  BY <1>0 DEF RequestKnows, TypeOK
<1>3. CASE CreateElement(r)
  <2>1. PICK j \in Fresh \ minted : kinds' = [kinds EXCEPT ![j] = {op[r].kind}]
    BY <1>3 DEF CreateElement
  <2>2. \A k \in Id : k # j => kinds'[k] = kinds[k]
    BY <1>0, <2>1 DEF TypeOK
  <2>3. \A k \in minted : kinds'[k] = kinds[k]
    BY <1>0, <2>1, <2>2, IdAssumption DEF TypeOK
  <2>4. idMap' = idMap
    BY <1>3 DEF CreateElement
  <2> QED
    BY <1>1, <1>2, <2>3, <2>4 DEF IdsAreUnique, Unborn, Exists
<1>4. CASE DeleteElement(r)
  <2>1. \A k \in Id : kinds'[k] = kinds[k] \/ kinds'[k] = {}
    BY <1>0, <1>4 DEF DeleteElement, TypeOK
  <2>2. idMap' = idMap
    BY <1>4 DEF DeleteElement
  <2>3. \A q \in Req : \A t \in Temp : idMap[q][t] # Nobody => idMap[q][t] \in Id
    BY <1>2, IdAssumption
  <2> QED
    BY <1>1, <2>1, <2>2, <2>3 DEF IdsAreUnique, Unborn, Exists
<1>5. CASE WriteImport(r)
  <2>1. op[r].elements \subseteq Element
    BY <1>0, <1>5, OpShape, PayloadShape DEF WriteImport
  <2>2. \A k \in Fresh : kinds'[k] = kinds[k]
    <3> SUFFICES ASSUME NEW k \in Fresh PROVE kinds'[k] = kinds[k]
      OBVIOUS
    <3>1. \A e \in op[r].elements : e.id # k
      BY <2>1 DEF Element, Client
    <3>2. k \in Id
      BY IdAssumption
    <3> QED
      BY <1>5, <3>1, <3>2 DEF WriteImport
  <2>3. idMap' = idMap
    BY <1>5 DEF WriteImport
  <2> QED
    BY <1>1, <1>2, <2>2, <2>3 DEF IdsAreUnique, Unborn, Exists
<1>6. CASE WriteText(r)
  <2>1. idMap' = idMap /\ pc'[r] = "done"
    BY <1>0, <1>6 DEF WriteText, Goto, TypeOK
  <2>2. ASSUME NEW q \in Req \ {r}, NEW t \in Temp, idMap[q][t] # Nobody
        PROVE  kinds'[idMap[q][t]] = kinds[idMap[q][t]]
    <3>1. idMap[q][t] \in Id
      BY <1>2, <2>2, IdAssumption
    <3>2. ~ \E u \in Temp : idMap[r][u] = idMap[q][t]
      BY <2>2 DEF IdsAreUnique
    <3> QED
      BY <1>6, <3>1, <3>2, TextKinds
  <2> QED
    BY <1>1, <2>1, <2>2 DEF IdsAreUnique, Unborn, Exists
<1>7. CASE CheckOp(r)
  <2>1. kinds' = kinds /\ op' = op
    BY <1>7 DEF CheckOp
  <2>2. CASE Creates(r)
    <3>1. PICK i \in Fresh \ minted : idMap' = [idMap EXCEPT ![r][Item(r).temp] = i]
      BY <2>2 DEF Creates
    <3>2. Item(r).temp \in Temp
      BY <1>7, <2>2, CheckOpCases, TextOpShape DEF Creates
    <3>3. /\ idMap'[r][Item(r).temp] = i
          /\ \A t \in Temp : t # Item(r).temp => idMap'[r][t] = idMap[r][t]
      BY <1>0, <3>1, <3>2 DEF TypeOK
    <3>4. kinds[i] = {} /\ i # Nobody
      BY IdAssumption DEF IInv, Exists, Taken, Client
    <3>5. \A q \in Req : \A t \in Temp : idMap[q][t] # i
      BY <1>2, <3>4
    <3>6. IdsAreUnique'
      <4> SUFFICES ASSUME NEW p \in Req, NEW q \in Req, NEW t \in Temp, NEW u \in Temp,
                          idMap'[p][t] = idMap'[q][u], idMap'[p][t] # Nobody
                   PROVE  p = q /\ t = u
        BY DEF IdsAreUnique
      <4>1. \A a \in Req : \A b \in Temp :
               \/ a = r /\ b = Item(r).temp /\ idMap'[a][b] = i
               \/ ~(a = r /\ b = Item(r).temp) /\ idMap'[a][b] = idMap[a][b]
        BY <1>1, <3>3
      <4> QED
        BY <3>5, <4>1 DEF IdsAreUnique
    <3>7. \A q \in Req : Unborn(q)'
      BY <1>1, <2>1, <3>3, <3>4 DEF Unborn, Exists
    <3> QED
      BY <3>6, <3>7
  <2>3. CASE Reject(r) \/ Moves(r)
    BY <1>1, <2>1, <2>3 DEF IdsAreUnique, Unborn, Exists, Reject, Moves
  <2> QED
    BY <1>7, <2>2, <2>3, CheckOpCases
<1>8. CASE ~CreateElement(r) /\ ~DeleteElement(r) /\ ~WriteImport(r) /\ ~WriteText(r) /\ ~CheckOp(r)
  <2>1. kinds' = kinds /\ idMap' = idMap
    BY <1>8 DEF EdgeStep, ElementStep, BatchStep, GetSource, GetTarget, ReadContains, CreateEdge,
       ReadFlows, DeleteEdge, GetElement, ReadDependents, ReadKinds, ReadElements, ReadHierarchy,
       CheckPair, RejectText, graph
  <2> QED
    BY <1>1, <2>1 DEF IdsAreUnique, Unborn, Exists
<1> QED
  BY <1>3, <1>4, <1>5, <1>6, <1>7, <1>8

LEMMA EndsStep ==
    ASSUME IInv, NEW r \in Req, EdgeStep(r) \/ ElementStep(r) \/ BatchStep(r), GateKnows(r), EndsKnown(r)
    PROVE  EndsKnown(r)'
<1>0. TypeOK /\ op' = op
  BY OthersUnchanged DEF IInv
<1> SUFFICES ASSUME op[r].call = "createEdge" PROVE EndsKnown(r)'
  BY <1>0 DEF EndsKnown
<1> DEFINE s == op[r].edge.source
           t == op[r].edge.target
<1>1. s \in Id /\ t \in Id
  BY <1>0, OpShape, PayloadShape DEF Client
<1>2. CASE GetSource(r)
  <2>1. pc'[r] \in {"getTarget", "refused"}
    BY <1>0, <1>2 DEF GetSource, Goto, TypeOK
  <2>2. ASSUME pc'[r] = "getTarget" PROVE \E k \in NodeKind : sawKinds'[r][s] = {k}
    <3>1. PICK k \in kinds[s] : sawKinds' = [sawKinds EXCEPT ![r][s] = {k}]
      BY <1>0, <1>2, <2>2 DEF GetSource, Goto, TypeOK, SawElement
    <3> QED
      BY <1>0, <1>1, <3>1 DEF TypeOK
  <2> QED
    BY <1>0, <2>1, <2>2 DEF EndsKnown
<1>3. CASE GetTarget(r)
  <2>1. /\ pc[r] = "getTarget"
        /\ pc'[r] \in {"write", "readContains", "refused"}
        /\ pc'[r] = "readContains" => op[r].edge.kind = "Contains"
    BY <1>0, <1>3 DEF GetTarget, Goto, TypeOK
  <2>2. PICK old \in NodeKind : sawKinds[r][s] = {old}
    BY <2>1 DEF EndsKnown
  <2>3. ASSUME pc'[r] = "write"
        PROVE  \A k \in sawKinds'[r][s], l \in sawKinds'[r][t] : LegalEnds(op[r].edge.kind, k, l)
    <3>1. PICK l \in kinds[t] :
             sawKinds' = [sawKinds EXCEPT ![r][t] = {l}] /\ LegalEnds(op[r].edge.kind, old, l)
      BY <1>0, <1>3, <2>2, <2>3 DEF GetTarget, Goto, TypeOK, SawElement
    <3>2. sawKinds'[r][t] = {l} /\ (s # t => sawKinds'[r][s] = {old})
      BY <1>0, <1>1, <2>2, <3>1 DEF TypeOK
    <3>3. LegalEnds(op[r].edge.kind, l, l)
      BY <3>1 DEF LegalEnds
    <3> QED
      BY <3>1, <3>2, <3>3
  <2> QED
    BY <1>0, <2>1, <2>3 DEF EndsKnown
<1>4. CASE ReadContains(r)
  <2>1. op[r].edge.kind = "Contains"
    BY <1>4 DEF ReadContains, Goto, EndsKnown
  <2> QED
    BY <1>0, <1>4, <2>1 DEF EndsKnown, LegalEnds, ReadContains, Goto, TypeOK
<1>5. CASE ~GetSource(r) /\ ~GetTarget(r) /\ ~ReadContains(r)
  <2>1. pc'[r] \notin {"getTarget", "readContains", "write"}
    BY <1>0, <1>5 DEF Goto, TypeOK, GateKnows, EdgeStep, ElementStep, BatchStep, CreateEdge,
       ReadFlows, DeleteEdge, CreateElement, GetElement, ReadDependents, DeleteElement, ReadKinds,
       ReadElements, ReadHierarchy, CheckPair, WriteImport, CheckOp, RejectText, WriteText
  <2> QED
    BY <1>0, <2>1 DEF EndsKnown
<1> QED
  BY <1>2, <1>3, <1>4, <1>5

LEMMA KindsKnownStep ==
    ASSUME IInv, NEW r \in Req, EdgeStep(r) \/ ElementStep(r) \/ BatchStep(r), KindsKnown(r),
           \A i \in Id : \A k, l \in kinds[i] : k = l
    PROVE  KindsKnown(r)'
<1>0. TypeOK /\ op' = op
  BY OthersUnchanged DEF IInv
<1> SUFFICES ASSUME op[r].call = "import" PROVE KindsKnown(r)'
  BY <1>0 DEF KindsKnown
<1>1. op[r].elements \subseteq Element
  BY <1>0, OpShape, PayloadShape
<1>2. CASE ReadKinds(r)
  <2>1. sawKinds'[r] = kinds
    BY <1>0, <1>2 DEF ReadKinds, TypeOK
  <2>2. pc'[r] # "refused" => \A e \in op[r].elements : Exists(e.id) => e.kind \in kinds[e.id]
    BY <1>0, <1>2 DEF ReadKinds, Goto, TypeOK
  <2>3. \A e \in op[r].elements : e.id \in Id
    BY <1>1 DEF Element, Client
  <2> QED
    BY <1>0, <2>1, <2>2, <2>3 DEF KindsKnown, Exists
<1>3. CASE ReadHierarchy(r)
  BY <1>0, <1>3 DEF ReadHierarchy, Goto, KindsKnown
<1>4. CASE CheckPair(r)
  BY <1>0, <1>4 DEF CheckPair, Goto, KindsKnown
<1>5. CASE ~ReadKinds(r) /\ ~ReadHierarchy(r) /\ ~CheckPair(r)
  <2>1. pc'[r] \notin {"readContains", "check"}
    BY <1>0, <1>5 DEF Goto, TypeOK, EdgeStep, ElementStep, BatchStep, GetSource, GetTarget,
       ReadContains, CreateEdge, ReadFlows, DeleteEdge, CreateElement, GetElement, ReadDependents,
       DeleteElement, ReadElements, WriteImport, CheckOp, RejectText, WriteText
  <2> QED
    BY <1>0, <2>1 DEF KindsKnown
<1> QED
  BY <1>2, <1>3, <1>4, <1>5

(* What an action adds to the edges has legal ends. *)
LEMMA NewEdgesLegal ==
    ASSUME IInv, NEW r \in Req, EdgeStep(r) \/ ElementStep(r) \/ BatchStep(r), EndsKnown(r),
           "ends" \notin missed', NEW e \in edges' \ edges,
           NEW k \in kinds'[e.source], NEW l \in kinds'[e.target]
    PROVE  LegalEnds(e.kind, k, l)
<1>1. CASE CreateEdge(r)
  <2>1. e = op[r].edge /\ kinds' = kinds /\ op[r].call = "createEdge" /\ pc[r] = "write"
    BY <1>1 DEF CreateEdge, Goto
  <2>2. kinds[e.source] = sawKinds[r][e.source] /\ kinds[e.target] = sawKinds[r][e.target]
    BY <1>1, <2>1 DEF CreateEdge, Miss, Cause
  <2> QED
    BY <2>1, <2>2 DEF EndsKnown
<1>2. CASE WriteImport(r) \/ WriteText(r)
  <2>1. ASSUME WriteImport(r) PROVE e.kind = "Contains"
    BY <2>1, PairShape DEF WriteImport
  <2>2. ASSUME WriteText(r) PROVE e.kind = "Contains"
    <3> DEFINE items == op[r].items
               moved == {x.id : x \in {x \in Batch(r) : x.do = "reparent"}}
               final == {n \in DOMAIN items : \A m \in DOMAIN items : Subject(r, m) = Subject(r, n) => m <= n}
               placed == {n \in final : LET p == Resolve(r, items[n].parent) IN
                             p # Nobody /\ kinds'[p] # {} /\ kinds'[Subject(r, n)] # {}}
    <3>1. edges' = {f \in edges : ~(f.kind = "Contains" /\ f.target \in moved)}
                   \cup {Contains(Resolve(r, items[n].parent), Subject(r, n)) : n \in placed}
      BY <2>2 DEF WriteText, Subject
    <3> HIDE DEF moved, placed
    <3> QED
      BY <3>1, PairShape
  <2>3. e.kind = "Contains"
    BY <1>2, <2>1, <2>2
  <2> QED
    BY <2>3 DEF LegalEnds
<1>3. CASE ~CreateEdge(r) /\ ~WriteImport(r) /\ ~WriteText(r)
  <2>1. edges' \subseteq edges
    BY <1>3 DEF EdgeStep, ElementStep, BatchStep, GetSource, GetTarget, ReadContains, ReadFlows,
       DeleteEdge, CreateElement, GetElement, ReadDependents, DeleteElement, ReadKinds,
       ReadElements, ReadHierarchy, CheckPair, CheckOp, RejectText, graph
  <2> QED
    BY <2>1
<1> QED
  BY <1>1, <1>2, <1>3

LEMMA InitKInv == Init => KInv
<1> SUFFICES ASSUME Init PROVE KInv
  OBVIOUS
<1>1. PICK g \in Seeds : kinds = g.kinds /\ edges = g.edges
  BY DEF Init
<1>2. \A i \in Id : \A k, l \in kinds[i] : k = l
  BY <1>1, SeedsAssumption
<1>3. \A e \in edges : e.source \in Id /\ e.target \in Id
  BY <1>1, SeedsAssumption DEF Edge
<1>4. \A e \in edges : \A k \in kinds[e.source], l \in kinds[e.target] : LegalEnds(e.kind, k, l)
  <2> SUFFICES ASSUME NEW e \in edges, NEW k \in kinds[e.source], NEW l \in kinds[e.target]
               PROVE  LegalEnds(e.kind, k, l)
    OBVIOUS
  <2>1. PICK m \in kinds[e.source], n \in kinds[e.target] : LegalEnds(e.kind, m, n)
    BY <1>1, SeedsAssumption
  <2>2. m = k /\ n = l
    BY <1>2, <1>3
  <2> QED
    BY <2>1, <2>2
<1>5. IdsAreUnique /\ \A r \in Req : Unborn(r) /\ EndsKnown(r) /\ KindsKnown(r)
  BY DEF Init, IdsAreUnique, Unborn, EndsKnown, KindsKnown
<1> QED
  BY <1>2, <1>4, <1>5 DEF KInv, OneKindUnlessMissed, LegalUnlessMissed

LEMMA NextKInv == GInv /\ KInv /\ [Next]_vars => KInv'
<1> SUFFICES ASSUME GInv, KInv, [Next]_vars PROVE KInv'
  OBVIOUS
<1>0. IInv /\ IInv'
  BY NextIInv DEF GInv
<1>1. CASE UNCHANGED vars
  <2>1. UNCHANGED <<kinds, edges, minted, op, pc, sawKinds, sawEdges, work, idMap, next, refused, missed>>
    BY <1>1 DEF vars, graph, locals
  <2> QED
    BY <2>1 DEF KInv, IdsAreUnique, Unborn, EndsKnown, KindsKnown, OneKindUnlessMissed,
       LegalUnlessMissed, Conflict, Exists
<1>2. ASSUME NEW r \in Req, EdgeStep(r) \/ ElementStep(r) \/ BatchStep(r) PROVE KInv'
  <2>1. /\ op' = op /\ missed \subseteq missed'
        /\ \A q \in Req \ {r} : UNCHANGED <<pc[q], sawKinds[q]>>
    BY <1>0, <1>2, OthersUnchanged DEF Locals
  <2>2. (IdsAreUnique /\ \A q \in Req : Unborn(q))'
    BY <1>0, <1>2, IdsStep DEF KInv
  <2>3. \A q \in Req : EndsKnown(q)'
    <3>1. EndsKnown(r)'
      BY <1>0, <1>2, EndsStep DEF KInv, GInv
    <3>2. ASSUME NEW q \in Req \ {r} PROVE EndsKnown(q)'
      <4>1. EndsKnown(q) /\ op' = op /\ UNCHANGED <<pc[q], sawKinds[q]>>
        BY <2>1 DEF KInv
      <4> QED
        BY <4>1 DEF EndsKnown
    <3> QED
      BY <3>1, <3>2
  <2>4. ASSUME ~Conflict' PROVE \A q \in Req : KindsKnown(q)'
    <3>1. (\A i \in Id : \A k, l \in kinds[i] : k = l) /\ \A q \in Req : KindsKnown(q)
      BY <2>1, <2>4 DEF KInv, Conflict, OneKindUnlessMissed
    <3>2. KindsKnown(r)'
      BY <1>0, <1>2, <3>1, KindsKnownStep
    <3>3. ASSUME NEW q \in Req \ {r} PROVE KindsKnown(q)'
      <4>1. KindsKnown(q) /\ op' = op /\ UNCHANGED <<pc[q], sawKinds[q]>>
        BY <2>1, <3>1
      <4> QED
        BY <4>1 DEF KindsKnown
    <3> QED
      BY <3>2, <3>3
  <2>5. ASSUME ~Conflict', NEW i \in Id
        PROVE  \/ kinds'[i] = kinds[i]
               \/ kinds'[i] = {}
               \/ kinds[i] = {} /\ \A k, l \in kinds'[i] : k = l
    <3>1. KindsKnown(r) /\ IdsAreUnique /\ Unborn(r)
      BY <2>1, <2>5 DEF KInv, Conflict
    <3> QED
      BY <1>0, <1>2, <2>5, <3>1, KindsStay
  <2>6. ASSUME ~Conflict' PROVE \A i \in Id : \A k, l \in kinds'[i] : k = l
    <3>1. \A i \in Id : \A k, l \in kinds[i] : k = l
      BY <2>1, <2>6 DEF KInv, Conflict, OneKindUnlessMissed
    <3> QED
      BY <2>5, <2>6, <3>1
  <2>7. ASSUME ~Conflict', "ends" \notin missed', NEW e \in edges',
               NEW k \in kinds'[e.source], NEW l \in kinds'[e.target]
        PROVE  LegalEnds(e.kind, k, l)
    <3>1. CASE e \notin edges
      BY <1>0, <1>2, <2>7, <3>1, NewEdgesLegal DEF KInv
    <3>2. CASE e \in edges
      <4>1. e.source \in Id /\ e.target \in Id /\ kinds[e.source] # {} /\ kinds[e.target] # {}
        BY <1>0, <3>2 DEF IInv, TypeOK, Edge, NoDanglingEdge, Exists
      <4>2. kinds'[e.source] = kinds[e.source] /\ kinds'[e.target] = kinds[e.target]
        BY <2>5, <2>7, <4>1
      <4>3. \A a \in kinds[e.source], b \in kinds[e.target] : LegalEnds(e.kind, a, b)
        BY <2>1, <2>7, <3>2 DEF KInv, Conflict, LegalUnlessMissed
      <4> QED
        BY <4>2, <4>3
    <3> QED
      BY <3>1, <3>2
  <2>8. OneKindUnlessMissed'
    BY <2>6 DEF OneKindUnlessMissed, Conflict
  <2>9. LegalUnlessMissed'
    BY <2>7 DEF LegalUnlessMissed, Conflict
  <2> QED
    BY <2>2, <2>3, <2>4, <2>8, <2>9 DEF KInv
<1> QED
  BY <1>1, <1>2 DEF Next

LEMMA KindInvariance == Spec => []KInv
BY GateInvariance, InitKInv, NextKInv, PTL DEF Spec

(* An id has one kind, for every mix of requests: text edits and creations   *)
(* never touch each other's ids, and an import gives an id a second kind     *)
(* only by itself or after another one came between its check and its write. *)
THEOREM IdsHaveOneKind == Spec => []OneKindUnlessMissed
BY KindInvariance, PTL DEF KInv

(* An edge's ends are of kinds its own kind allows, and stay so while they   *)
(* exist, except where a check of its ends or of a kind was overtaken.       *)
THEOREM EndsAreLegal == Spec => []LegalUnlessMissed
BY KindInvariance, PTL DEF KInv

-----------------------------------------------------------------------------
(* Why the hierarchy stays acyclic, for every graph and every interleaving.  *)
(* First the containment check: it refuses an edge exactly when the edge     *)
(* would close a cycle.  Acyclicity is stated without paths (every set of    *)
(* elements has one with no parent in the set), so no induction is needed,   *)
(* and Id may be infinite.  Then what a request knows between its check and  *)
(* its write.                                                                *)

(* Fewer edges, fewer cycles: what deletions rely on ("removing an edge      *)
(* can't create a cycle", neo4j.rs:386-387).                                 *)
LEMMA FewerEdges ==
    ASSUME NEW E, NEW F, ContainsIn(F) \subseteq ContainsIn(E), Acyclic(E)
    PROVE  Acyclic(F)
BY DEF ContainsIn, Acyclic

(* A hierarchy that only lost edges since it was checked passes the check.   *)
LEMMA StaleCheckStands ==
    ASSUME NEW E, NEW F, ContainsIn(F) \subseteq ContainsIn(E), NEW p, NEW c, ~WouldCycle(E, p, c)
    PROVE  ~WouldCycle(F, p, c)
BY DEF ContainsIn, WouldCycle, Above

(* An edge that passes would_create_containment_cycle keeps the hierarchy    *)
(* acyclic: the elements below the child, without the parent, are closed     *)
(* under containment, so no cycle leaves them and the new edge enters none.  *)
LEMMA CheckIsSound ==
    ASSUME NEW E, NEW p \in Id, NEW c \in Id, Acyclic(E), ~WouldCycle(E, p, c)
    PROVE  Acyclic(E \cup {Contains(p, c)})
<1> DEFINE new == Contains(p, c)
<1>0. new.kind = "Contains" /\ new.source = p /\ new.target = c
  BY DEF Contains
<1>1. PICK B \in SUBSET Id :
        /\ c \in B
        /\ \A e \in E : e.kind = "Contains" /\ e.source \in B => e.target \in B
        /\ p \notin B
  BY DEF WouldCycle, Above
<1> SUFFICES ASSUME NEW S \in SUBSET Id, S # {},
                    \A x \in S : \E e \in E \cup {new} :
                        e.kind = "Contains" /\ e.target = x /\ e.source \in S
             PROVE  FALSE
  BY DEF Acyclic
<1> HIDE DEF new
<1>2. CASE S \subseteq B
  <2>1. \A x \in S : \E e \in E : e.kind = "Contains" /\ e.target = x /\ e.source \in S
    BY <1>0, <1>1, <1>2
  <2> QED
    BY <2>1 DEF Acyclic
<1>3. CASE ~(S \subseteq B)
  <2>1. ASSUME NEW x \in S \ B
        PROVE  \E e \in E : e.kind = "Contains" /\ e.target = x /\ e.source \in S \ B
    <3>1. PICK e \in E \cup {new} : e.kind = "Contains" /\ e.target = x /\ e.source \in S
      OBVIOUS
    <3>2. e \in E
      BY <1>0, <1>1, <3>1
    <3> QED
      BY <1>1, <3>1, <3>2
  <2>2. S \ B \in (SUBSET Id) \ {{}}
    BY <1>3
  <2>3. ~ \A x \in S \ B : \E e \in E : e.kind = "Contains" /\ e.target = x /\ e.source \in S \ B
    <3>1. PICK x \in S \ B : \A e \in E : e.kind = "Contains" /\ e.target = x => e.source \notin S \ B
      BY <2>2 DEF Acyclic
    <3> QED
      BY <3>1
  <2> QED
    BY <2>1, <2>3
<1> QED
  BY <1>2, <1>3

(* An edge it refuses would close a cycle: the elements both below the child *)
(* and above the parent each have a parent among them.                       *)
LEMMA RefusalIsJustified ==
    ASSUME NEW E, E \subseteq Edge, NEW p \in Id, NEW c \in Id, WouldCycle(E, p, c)
    PROVE  ~Acyclic(E \cup {Contains(p, c)})
<1> DEFINE new == Contains(p, c)
           Closed(S) == \A e \in E : e.kind = "Contains" /\ e.source \in S => e.target \in S
           Opened(S) == \A e \in E : e.kind = "Contains" /\ e.target \in S => e.source \in S
           below == {x \in Id : \A S \in SUBSET Id : c \in S /\ Closed(S) => x \in S}
           above == {x \in Id : \A S \in SUBSET Id : p \in S /\ Opened(S) => x \in S}
           cycle == below \cap above
<1>0. new.kind = "Contains" /\ new.source = p /\ new.target = c
  BY DEF Contains
<1>1. \A e \in E : e.source \in Id /\ e.target \in Id
  BY DEF Edge
<1>2. CASE p = c
  <2> SUFFICES ASSUME Acyclic(E \cup {new}) PROVE FALSE
    OBVIOUS
  <2>1. {p} \in (SUBSET Id) \ {{}}
    OBVIOUS
  <2>2. \E x \in {p} : \A e \in E \cup {new} : e.kind = "Contains" /\ e.target = x => e.source \notin {p}
    BY <2>1 DEF Acyclic
  <2> QED
    BY <1>0, <1>2, <2>2
<1>3. CASE Above(E, c, p)
  <2>1. p \in below /\ p \in above /\ c \in below
    BY <1>3 DEF Above
  <2>2. Closed(below) /\ Opened(above)
    BY <1>1
  <2>3. ASSUME NEW x \in below, x # c
        PROVE  \E e \in E : e.kind = "Contains" /\ e.target = x /\ e.source \in below
    <3> SUFFICES ASSUME ~ \E e \in E : e.kind = "Contains" /\ e.target = x /\ e.source \in below
                 PROVE  FALSE
      OBVIOUS
    <3>1. Closed(below \ {x}) /\ c \in below \ {x}
      BY <2>1, <2>2, <2>3
    <3>2. below \ {x} \in SUBSET Id
      OBVIOUS
    <3>3. x \in below \ {x}
      BY <3>1, <3>2, <2>3
    <3> QED
      BY <3>3
  <2>4. ASSUME NEW x \in cycle
        PROVE  \E e \in E \cup {new} : e.kind = "Contains" /\ e.target = x /\ e.source \in cycle
    <3>1. CASE x = c
      BY <1>0, <2>1, <3>1
    <3>2. CASE x # c
      <4>1. PICK e \in E : e.kind = "Contains" /\ e.target = x /\ e.source \in below
        BY <2>3, <3>2
      <4>2. e.source \in above
        BY <2>2, <4>1
      <4> QED
        BY <4>1, <4>2
    <3> QED
      BY <3>1, <3>2
  <2>5. cycle \in (SUBSET Id) \ {{}}
    BY <2>1
  <2> HIDE DEF cycle, new
  <2>6. ASSUME Acyclic(E \cup {new}) PROVE FALSE
    <3>1. PICK x \in cycle :
            \A e \in E \cup {new} : e.kind = "Contains" /\ e.target = x => e.source \notin cycle
      BY <2>5, <2>6 DEF Acyclic
    <3> QED
      BY <2>4, <3>1
  <2> QED
    BY <2>6 DEF new
<1> QED
  BY <1>2, <1>3 DEF WouldCycle

(* On an acyclic hierarchy, would_create_containment_cycle (lib.rs:566) and  *)
(* is_descendant (neo4j.rs:904) answer exactly whether the edge would close  *)
(* a cycle.                                                                  *)
THEOREM CheckIsExact ==
    ASSUME NEW E, E \subseteq Edge, NEW p \in Id, NEW c \in Id, Acyclic(E)
    PROVE  WouldCycle(E, p, c) <=> ~Acyclic(E \cup {Contains(p, c)})
BY CheckIsSound, RefusalIsJustified

-----------------------------------------------------------------------------
(* What a text edit's working hierarchy holds once an operation is checked:  *)
(* the edges read, except into elements it moved, and the last parent it     *)
(* gave each element.                                                        *)
Mapped(r) ==
    \A t \in Temp : idMap[r][t] # Nobody =>
        \E n \in DOMAIN op[r].items :
            n < next[r] /\ op[r].items[n].do = "create" /\ op[r].items[n].temp = t
KeepsRead(r) ==
    \A e \in sawEdges[r] :
        \/ e \in work[r]
        \/ \E n \in DOMAIN op[r].items :
              n < next[r] /\ op[r].items[n].do = "reparent" /\ op[r].items[n].id = e.target
KeepsMoves(r) ==
    \A n \in DOMAIN op[r].items :
        LET p == Resolve(r, op[r].items[n].parent) IN
          \/ n >= next[r]
          \/ p = Nobody
          \/ Contains(p, Subject(r, n)) \in work[r]
          \/ \E m \in DOMAIN op[r].items : n < m /\ m < next[r] /\ Subject(r, m) = Subject(r, n)

(* What the checks a request has made so far say of the hierarchy it read.   *)
CheckKnows(r) ==
    /\ op[r].call = "createEdge" /\ op[r].edge.kind = "Contains" /\ pc[r] = "write" =>
          ~WouldCycle(sawEdges[r], op[r].edge.source, op[r].edge.target)
    /\ op[r].call = "import" /\ pc[r] = "check" =>
          /\ Acyclic(work[r])
          /\ sawEdges[r] \subseteq work[r]
          /\ \A n \in DOMAIN op[r].items :
                n < next[r] => Contains(op[r].items[n][1], op[r].items[n][2]) \in work[r]
    /\ op[r].call = "text" => Mapped(r)
    /\ op[r].call = "text" /\ pc[r] = "check" /\ ~refused[r] =>
          Acyclic(work[r]) /\ KeepsRead(r) /\ KeepsMoves(r)
    /\ op[r].call \in {"import", "text"} /\ pc[r] \in {"start", "readContains"} => next[r] = 1

CInv ==
    /\ AcyclicUnlessMissed
    /\ "contains" \in missed \/ \A r \in Req : CheckKnows(r)

-----------------------------------------------------------------------------
(* The hierarchy stays acyclic.  First, what one checked operation of a text *)
(* edit does to what the request knows.                                      *)

(* The ids a text edit has given, and the parents it has found, stay. *)
LEMMA CreatesExtends ==
    ASSUME IInv, NEW r \in Req, CheckOp(r), Creates(r), Mapped(r),
           Parent(r) \in Taken \cup {Nobody}, UNCHANGED op
    PROVE  \E i \in Fresh \ minted :
              /\ work' = [work EXCEPT ![r] = @ \cup Under(Parent(r), i)]
              /\ idMap'[r][Item(r).temp] = i
              /\ \A t \in Temp : idMap[r][t] # Nobody => idMap'[r][t] = idMap[r][t]
              /\ \A t \in Temp : t # Item(r).temp => idMap'[r][t] = idMap[r][t]
              /\ \A raw : Resolve(r, raw) \in Taken \cup {Nobody} => Resolve(r, raw)' = Resolve(r, raw)
<1>0. TypeOK
  BY DEF IInv
<1>1. PICK i \in Fresh \ minted :
        /\ idMap' = [idMap EXCEPT ![r][Item(r).temp] = i]
        /\ work' = [work EXCEPT ![r] = @ \cup Under(Parent(r), i)]
  BY DEF Creates
<1>2. /\ Item(r).do = "create" /\ Item(r).temp \in Temp
      /\ next[r] \in DOMAIN op[r].items /\ Item(r) = op[r].items[next[r]]
  BY CheckOpCases, TextOpShape DEF Creates, Item
<1>3. idMap[r][Item(r).temp] = Nobody
  <2> SUFFICES ASSUME idMap[r][Item(r).temp] # Nobody PROVE FALSE
    OBVIOUS
  <2>1. PICK n \in DOMAIN op[r].items :
          n < next[r] /\ op[r].items[n].do = "create" /\ op[r].items[n].temp = Item(r).temp
    BY <1>2 DEF Mapped
  <2>2. op[r] \in Script[r] /\ op[r].call = "text"
    BY <1>0 DEF TypeOK, CheckOp
  <2>3. n = next[r]
    BY <1>2, <2>1, <2>2, ScriptAssumption
  <2> QED
    BY <1>0, <2>1, <2>3 DEF TypeOK
<1>4. /\ idMap'[r][Item(r).temp] = i
      /\ \A t \in Temp : t # Item(r).temp => idMap'[r][t] = idMap[r][t]
  BY <1>0, <1>1, <1>2 DEF TypeOK
<1>5. \A raw : Resolve(r, raw) \in Taken \cup {Nobody} => Resolve(r, raw)' = Resolve(r, raw)
  <2> SUFFICES ASSUME NEW raw, Resolve(r, raw) \in Taken \cup {Nobody}
               PROVE  Resolve(r, raw)' = Resolve(r, raw)
    OBVIOUS
  <2>1. CASE raw \in Temp
    <3>1. raw \notin Taken \cup {Nobody}
      BY <1>0, <2>1, TakenIsId, IdAssumption
    <3>2. idMap[r][raw] # Nobody
      BY <2>1, <3>1 DEF Resolve
    <3> QED
      BY <1>3, <1>4, <2>1, <3>2 DEF Resolve
  <2>2. CASE raw \notin Temp
    BY <2>2 DEF Resolve
  <2> QED
    BY <2>1, <2>2
<1> QED
  BY <1>1, <1>3, <1>4, <1>5

(* A new element has nothing below it. *)
LEMMA NewIsLeaf ==
    ASSUME TypeOK, NEW r \in Req, RequestKnows(r), NEW p \in Taken, NEW i \in Fresh \ minted
    PROVE  ~WouldCycle(work[r], p, i)
<1>1. i \notin Taken /\ i \in Id
  BY IdAssumption DEF Taken, Client
<1>2. \A e \in work[r] : e.source # i
  BY <1>1 DEF RequestKnows, EndsTaken
<1>3. ~Above(work[r], i, p)
  <2>1. {i} \in SUBSET Id /\ i \in {i} /\ p \notin {i}
    BY <1>1
  <2> QED
    BY <1>2, <2>1 DEF Above
<1> QED
  BY <1>1, <1>3 DEF WouldCycle

LEMMA CreatesKnows ==
    ASSUME IInv, NEW r \in Req, CheckOp(r), Creates(r), CheckKnows(r),
           Parent(r) \in Taken \cup {Nobody}
    PROVE  CheckKnows(r)'
<1> DEFINE items == op[r].items
           p == Parent(r)
<1>0. TypeOK /\ RequestKnows(r) /\ TextKnows(r)
  BY DEF IInv
<1>1. /\ op[r].call = "text" /\ pc[r] = "check" /\ pc'[r] = "check"
      /\ next'[r] = next[r] + 1 /\ next[r] \in Nat
      /\ UNCHANGED <<op, sawEdges, refused>>
  BY <1>0 DEF CheckOp, Creates, Goto, TypeOK
<1>2. Mapped(r)
  BY <1>1 DEF CheckKnows
<1>3. PICK i \in Fresh \ minted :
              /\ work' = [work EXCEPT ![r] = @ \cup Under(p, i)]
              /\ idMap'[r][Item(r).temp] = i
              /\ \A t \in Temp : idMap[r][t] # Nobody => idMap'[r][t] = idMap[r][t]
              /\ \A t \in Temp : t # Item(r).temp => idMap'[r][t] = idMap[r][t]
              /\ \A raw : Resolve(r, raw) \in Taken \cup {Nobody} => Resolve(r, raw)' = Resolve(r, raw)
  BY <1>1, <1>2, CreatesExtends
<1>4. /\ items \in Seq(TextOp) /\ next[r] \in DOMAIN items
      /\ items[next[r]] = Item(r) /\ Item(r).do = "create" /\ Item(r).temp \in Temp
  BY CheckOpCases, TextOpShape DEF Item, Creates
<1>5. DOMAIN items \subseteq Nat
  BY <1>4
<1>6. work'[r] = work[r] \cup Under(p, i)
  BY <1>0, <1>3 DEF TypeOK
<1> HIDE DEF items, p
<1>7. Mapped(r)'
  <2> SUFFICES ASSUME NEW t \in Temp, idMap'[r][t] # Nobody
               PROVE  \E n \in DOMAIN items : n < next'[r] /\ items[n].do = "create" /\ items[n].temp = t
    BY <1>1 DEF Mapped, items
  <2>1. CASE t = Item(r).temp
    BY <1>1, <1>4, <2>1
  <2>2. CASE t # Item(r).temp
    <3>1. PICK n \in DOMAIN items : n < next[r] /\ items[n].do = "create" /\ items[n].temp = t
      BY <1>2, <1>3, <2>2 DEF Mapped, items
    <3> QED
      BY <1>1, <1>5, <3>1
  <2> QED
    BY <2>1, <2>2
<1>8. ASSUME ~refused[r] PROVE (Acyclic(work[r]) /\ KeepsRead(r) /\ KeepsMoves(r))'
  <2>0. Acyclic(work[r]) /\ KeepsRead(r) /\ KeepsMoves(r)
    BY <1>1, <1>8 DEF CheckKnows
  <2>1. Acyclic(work[r])'
    <3>1. CASE p = Nobody
      BY <1>6, <2>0, <3>1 DEF Under
    <3>2. CASE p # Nobody
      <4>1. p \in Taken /\ p \in Id /\ i \in Id
        BY <1>0, <3>2, TakenIsId, IdAssumption DEF p
      <4>2. Acyclic(work[r] \cup {Contains(p, i)})
        BY <1>0, <2>0, <4>1, NewIsLeaf, CheckIsSound
      <4> QED
        BY <1>6, <3>2, <4>2 DEF Under
    <3> QED
      BY <3>1, <3>2
  <2>2. KeepsRead(r)'
    <3> SUFFICES ASSUME NEW e \in sawEdges[r], e \notin work'[r]
                 PROVE  \E n \in DOMAIN items : n < next'[r] /\ items[n].do = "reparent" /\ items[n].id = e.target
      BY <1>1 DEF KeepsRead, items
    <3>1. PICK n \in DOMAIN items : n < next[r] /\ items[n].do = "reparent" /\ items[n].id = e.target
      BY <1>6, <2>0 DEF KeepsRead, items
    <3> QED
      BY <1>1, <1>5, <3>1
  <2>3. \A n \in DOMAIN items : n < next[r] =>
           /\ Subject(r, n)' = Subject(r, n)
           /\ Resolve(r, items[n].parent)' = Resolve(r, items[n].parent)
    <3> SUFFICES ASSUME NEW n \in DOMAIN items, n < next[r]
                 PROVE  /\ Subject(r, n)' = Subject(r, n)
                        /\ Resolve(r, items[n].parent)' = Resolve(r, items[n].parent)
      OBVIOUS
    <3>1. Passed(r, items[n]) /\ items[n] \in TextOp
      BY <1>0, <1>1, <1>4, <1>8 DEF TextKnows, items
    <3>2. Resolve(r, items[n].parent)' = Resolve(r, items[n].parent)
      BY <1>1, <1>3, <3>1 DEF Passed, items, Resolve
    <3>3. CASE items[n].do = "create"
      <4>1. items[n].temp \in Temp /\ idMap[r][items[n].temp] # Nobody
        BY <1>0, <3>1, <3>3, TextOpShape, IdAssumption DEF Passed, TypeOK
      <4> QED
        BY <1>1, <1>3, <3>2, <3>3, <4>1 DEF Subject, items
    <3>4. CASE items[n].do # "create"
      BY <1>1, <3>2, <3>4 DEF Subject, items
    <3> QED
      BY <3>3, <3>4
  <2>4. ASSUME NEW n \in DOMAIN items, n = next[r] PROVE Subject(r, n)' = i
    BY <1>1, <1>3, <1>4, <2>4 DEF Subject, items
  <2>5. ASSUME NEW n \in DOMAIN items, n = next[r] PROVE Resolve(r, items[n].parent)' = p
    <3>1. Resolve(r, items[n].parent) = p
      BY <1>4, <2>5 DEF Parent, p
    <3> QED
      BY <1>1, <1>3, <3>1 DEF p, items, Resolve
  <2>6. KeepsMoves(r)'
    <3> SUFFICES ASSUME NEW n \in DOMAIN items, n < next'[r],
                        Resolve(r, items[n].parent)' # Nobody,
                        Contains(Resolve(r, items[n].parent)', Subject(r, n)') \notin work'[r]
                 PROVE  \E m \in DOMAIN items : n < m /\ m < next'[r] /\ Subject(r, m)' = Subject(r, n)'
      BY <1>1, <1>5 DEF KeepsMoves, items, Contains
    <3>1. CASE n = next[r]
      BY <1>6, <2>4, <2>5, <3>1 DEF Under
    <3>2. CASE n < next[r]
      <4>1. PICK m \in DOMAIN items : n < m /\ m < next[r] /\ Subject(r, m) = Subject(r, n)
        BY <1>5, <1>1, <1>6, <2>0, <2>3, <3>2 DEF KeepsMoves, items
      <4> QED
        BY <1>1, <1>5, <2>3, <3>2, <4>1
    <3> QED
      BY <1>1, <1>5, <3>1, <3>2
  <2> QED
    BY <2>1, <2>2, <2>6
<1> QED
  BY <1>1, <1>7, <1>8 DEF CheckKnows

LEMMA MovesKnows ==
    ASSUME IInv, NEW r \in Req, CheckOp(r), Moves(r), CheckKnows(r),
           Parent(r) \in Taken \cup {Nobody}
    PROVE  CheckKnows(r)'
<1> DEFINE items == op[r].items
           p == Parent(r)
           id == Item(r).id
<1>0. TypeOK
  BY DEF IInv
<1>1. /\ op[r].call = "text" /\ pc[r] = "check" /\ pc'[r] = "check"
      /\ next'[r] = next[r] + 1 /\ next[r] \in Nat
      /\ UNCHANGED <<op, sawEdges, refused, idMap>>
  BY <1>0 DEF CheckOp, Moves, Goto, TypeOK
<1>2. PICK gone :
         /\ \A e \in gone : e.target = id
         /\ work' = [work EXCEPT ![r] = (@ \ gone) \cup Under(p, id)]
  BY DEF Moves
<1>3. /\ items \in Seq(TextOp) /\ next[r] \in DOMAIN items
      /\ items[next[r]] = Item(r) /\ Item(r).do = "reparent" /\ id \in Client
      /\ p # Nobody => ~WouldCycle(work[r], p, id)
  BY CheckOpCases, TextOpShape DEF Item, Moves
<1>4. DOMAIN items \subseteq Nat
  BY <1>3
<1>5. work'[r] = (work[r] \ gone) \cup Under(p, id)
  BY <1>0, <1>2 DEF TypeOK
<1>6. Subject(r, next[r]) = id /\ Resolve(r, items[next[r]].parent) = p
  BY <1>3 DEF Subject, Parent
<1> HIDE DEF items, p, id
<1>7. Mapped(r)'
  <2> SUFFICES ASSUME NEW t \in Temp, idMap[r][t] # Nobody
               PROVE  \E n \in DOMAIN items : n < next'[r] /\ items[n].do = "create" /\ items[n].temp = t
    BY <1>1 DEF Mapped, items
  <2>1. PICK n \in DOMAIN items : n < next[r] /\ items[n].do = "create" /\ items[n].temp = t
    BY <1>1 DEF CheckKnows, Mapped, items
  <2> QED
    BY <1>1, <1>4, <2>1
<1>8. ASSUME ~refused[r] PROVE (Acyclic(work[r]) /\ KeepsRead(r) /\ KeepsMoves(r))'
  <2>0. Acyclic(work[r]) /\ KeepsRead(r) /\ KeepsMoves(r)
    BY <1>1, <1>8 DEF CheckKnows
  <2>1. Acyclic(work[r])'
    <3>1. ContainsIn(work[r] \ gone) \subseteq ContainsIn(work[r])
      BY DEF ContainsIn
    <3>2. Acyclic(work[r] \ gone)
      BY <2>0, <3>1, FewerEdges
    <3>3. CASE p = Nobody
      BY <1>5, <3>2, <3>3 DEF Under
    <3>4. CASE p # Nobody
      <4>1. p \in Id /\ id \in Id
        BY <1>0, <1>3, <3>4, TakenIsId DEF p, Client
      <4>2. ~WouldCycle(work[r] \ gone, p, id)
        BY <1>3, <3>1, <3>4, StaleCheckStands
      <4>3. Acyclic((work[r] \ gone) \cup {Contains(p, id)})
        BY <3>2, <4>1, <4>2, CheckIsSound
      <4> QED
        BY <1>5, <3>4, <4>3 DEF Under
    <3> QED
      BY <3>3, <3>4
  <2>2. KeepsRead(r)'
    <3> SUFFICES ASSUME NEW e \in sawEdges[r], e \notin work'[r]
                 PROVE  \E n \in DOMAIN items : n < next'[r] /\ items[n].do = "reparent" /\ items[n].id = e.target
      BY <1>1 DEF KeepsRead, items
    <3>1. CASE e \in work[r]
      BY <1>1, <1>2, <1>3, <1>5, <3>1 DEF id
    <3>2. CASE e \notin work[r]
      <4>1. PICK n \in DOMAIN items : n < next[r] /\ items[n].do = "reparent" /\ items[n].id = e.target
        BY <2>0, <3>2 DEF KeepsRead, items
      <4> QED
        BY <1>1, <1>4, <4>1
    <3> QED
      BY <3>1, <3>2
  <2>3. \A n : /\ Subject(r, n)' = Subject(r, n)
              /\ Resolve(r, items[n].parent)' = Resolve(r, items[n].parent)
    BY <1>1 DEF Subject, Resolve, items
  <2>4. KeepsMoves(r)'
    <3> SUFFICES ASSUME NEW n \in DOMAIN items, n < next'[r],
                        Resolve(r, items[n].parent) # Nobody,
                        Contains(Resolve(r, items[n].parent), Subject(r, n)) \notin work'[r]
                 PROVE  \E m \in DOMAIN items : n < m /\ m < next'[r] /\ Subject(r, m) = Subject(r, n)
      BY <1>1, <1>4, <2>3 DEF KeepsMoves, items, Contains
    <3>1. CASE n = next[r]
      BY <1>5, <1>6, <3>1 DEF Under
    <3>2. CASE n < next[r]
      <4>1. CASE Contains(Resolve(r, items[n].parent), Subject(r, n)) \in gone
        <5>1. Subject(r, n) = id
          BY <1>2, <4>1, PairShape
        <5> QED
          BY <1>1, <1>3, <1>6, <3>2, <5>1
      <4>2. CASE Contains(Resolve(r, items[n].parent), Subject(r, n)) \notin gone
        <5>1. PICK m \in DOMAIN items : n < m /\ m < next[r] /\ Subject(r, m) = Subject(r, n)
          BY <1>1, <1>4, <1>5, <2>0, <3>2, <4>2 DEF KeepsMoves, items
        <5> QED
          BY <1>1, <1>4, <5>1
      <4> QED
        BY <4>1, <4>2
    <3> QED
      BY <1>1, <1>4, <3>1, <3>2
  <2> QED
    BY <2>1, <2>2, <2>4
<1> QED
  BY <1>1, <1>7, <1>8 DEF CheckKnows

(* Every action of a request leaves it with what it is about to rely on. *)
LEMMA CheckStep ==
    ASSUME IInv, NEW r \in Req, Acyclic(edges), GateKnows(r), CheckKnows(r),
           EdgeStep(r) \/ ElementStep(r) \/ BatchStep(r)
    PROVE  CheckKnows(r)'
<1> USE DEF Goto, TypeOK, graph
<1>0. TypeOK /\ op' = op
  BY OthersUnchanged DEF IInv
<1>1. CASE GetSource(r)
  BY <1>0, <1>1 DEF GetSource, CheckKnows, Mapped
<1>2. CASE GetTarget(r)
  BY <1>0, <1>2 DEF GetTarget, CheckKnows, Mapped
<1>3. CASE ReadContains(r)
  <2>1. ContainsIn(ContainsIn(edges)) \subseteq ContainsIn(edges)
    BY DEF ContainsIn
  <2>2. op[r].call = "createEdge" /\ sawEdges'[r] = ContainsIn(edges)
    BY <1>0, <1>3 DEF ReadContains
  <2>3. pc'[r] = "write" => ~WouldCycle(edges, op[r].edge.source, op[r].edge.target)
    BY <1>0, <1>3 DEF ReadContains
  <2>4. pc'[r] = "write" => ~WouldCycle(ContainsIn(edges), op[r].edge.source, op[r].edge.target)
    BY <2>1, <2>3, StaleCheckStands
  <2> QED
    BY <1>0, <2>2, <2>4 DEF CheckKnows
<1>4. CASE CreateEdge(r)
  BY <1>0, <1>4 DEF CreateEdge, CheckKnows, Mapped
<1>5. CASE ReadFlows(r)
  BY <1>0, <1>5 DEF ReadFlows, CheckKnows, Mapped
<1>6. CASE DeleteEdge(r)
  BY <1>0, <1>6 DEF DeleteEdge, CheckKnows, Mapped
<1>7. CASE CreateElement(r)
  BY <1>0, <1>7 DEF CreateElement, CheckKnows, Mapped
<1>8. CASE GetElement(r)
  BY <1>0, <1>8 DEF GetElement, CheckKnows, Mapped
<1>9. CASE ReadDependents(r)
  <2>1. op[r].call = "deleteElement"
    BY <1>9 DEF ReadDependents, GateKnows
  <2> QED
    BY <1>0, <2>1 DEF CheckKnows
<1>10. CASE DeleteElement(r)
  BY <1>0, <1>10 DEF DeleteElement, CheckKnows, Mapped
<1>11. CASE ReadKinds(r)
  BY <1>0, <1>11 DEF ReadKinds, CheckKnows, Mapped
<1>12. CASE ReadElements(r)
  BY <1>0, <1>12 DEF ReadElements, CheckKnows, Mapped
<1>13. CASE ReadHierarchy(r)
  <2>1. /\ op[r].call \in {"import", "text"} /\ pc[r] = "readContains" /\ pc'[r] = "check"
        /\ sawEdges'[r] = ContainsIn(edges) /\ work'[r] = ContainsIn(edges)
        /\ UNCHANGED <<idMap, next, refused>>
    BY <1>0, <1>13 DEF ReadHierarchy
  <2>2. next[r] = 1
    BY <2>1 DEF CheckKnows
  <2>3. Acyclic(ContainsIn(edges))
    <3>1. ContainsIn(ContainsIn(edges)) \subseteq ContainsIn(edges)
      BY DEF ContainsIn
    <3> QED
      BY <3>1, FewerEdges
  <2>4. ASSUME NEW n \in DOMAIN op[r].items PROVE ~(n < next[r]) /\ n >= next[r]
    <3>1. op[r].items \in Seq(Pair) \/ op[r].items \in Seq(TextOp)
      BY <1>0, <2>1, OpShape, PayloadShape
    <3>2. n \in 1..Len(op[r].items)
      BY <3>1
    <3> QED
      BY <2>2, <3>2
  <2>5. KeepsRead(r)' /\ KeepsMoves(r)' /\ (op[r].call = "text" => Mapped(r)')
    BY <1>0, <2>1, <2>4 DEF KeepsRead, KeepsMoves, CheckKnows, Mapped
  <2> QED
    BY <1>0, <2>1, <2>3, <2>4, <2>5 DEF CheckKnows
<1>14. CASE CheckPair(r)
  <2> DEFINE p == op[r].items[next[r]][1]
             c == op[r].items[next[r]][2]
  <2>1. /\ op[r].call = "import" /\ pc[r] = "check" /\ next'[r] = next[r] + 1 /\ next[r] \in Nat \ {0}
        /\ work'[r] = work[r] \cup {Contains(p, c)} /\ sawEdges' = sawEdges
        /\ pc'[r] = "check" => ~WouldCycle(work[r], p, c)
        /\ pc'[r] \in {"check", "refused"}
    BY <1>0, <1>14 DEF CheckPair
  <2>2. op[r].items \in Seq(Pair) /\ next[r] \in DOMAIN op[r].items
    BY <1>0, <1>14, <2>1, OpShape, PayloadShape DEF CheckPair
  <2>3. p \in Id /\ c \in Id
    BY <2>2 DEF Pair, Client
  <2>4. /\ Acyclic(work[r])
        /\ sawEdges[r] \subseteq work[r]
        /\ \A n \in DOMAIN op[r].items :
              n < next[r] => Contains(op[r].items[n][1], op[r].items[n][2]) \in work[r]
    BY <2>1 DEF CheckKnows
  <2>5. pc'[r] = "check" => Acyclic(work'[r])
    BY <2>1, <2>3, <2>4, CheckIsSound
  <2>6. \A n \in DOMAIN op[r].items :
           n < next'[r] => Contains(op[r].items[n][1], op[r].items[n][2]) \in work'[r]
    <3> SUFFICES ASSUME NEW n \in DOMAIN op[r].items, n < next'[r]
                 PROVE  Contains(op[r].items[n][1], op[r].items[n][2]) \in work'[r]
      OBVIOUS
    <3>1. n < next[r] \/ n = next[r]
      BY <2>1, <2>2
    <3> QED
      BY <2>1, <2>4, <3>1
  <2> HIDE DEF p, c
  <2> QED
    BY <1>0, <2>1, <2>4, <2>5, <2>6 DEF CheckKnows
<1>15. CASE WriteImport(r)
  BY <1>0, <1>15 DEF WriteImport, CheckKnows, Mapped
<1>16. CASE CheckOp(r)
  <2>1. CASE Reject(r)
    <3>1. /\ op[r].call = "text" /\ pc'[r] = "check" /\ refused'[r]
          /\ next'[r] = next[r] + 1 /\ next[r] \in Nat /\ idMap' = idMap
      BY <1>0, <1>16, <2>1 DEF CheckOp, Reject
    <3>2. op[r].items \in Seq(TextOp)
      BY <1>16, CheckOpCases
    <3>3. Mapped(r)'
      <4> SUFFICES ASSUME NEW t \in Temp, idMap[r][t] # Nobody
                   PROVE  \E n \in DOMAIN op[r].items :
                             n < next'[r] /\ op[r].items[n].do = "create" /\ op[r].items[n].temp = t
        BY <1>0, <3>1 DEF Mapped
      <4>1. PICK n \in DOMAIN op[r].items :
               n < next[r] /\ op[r].items[n].do = "create" /\ op[r].items[n].temp = t
        BY <3>1 DEF CheckKnows, Mapped
      <4> QED
        BY <3>1, <3>2, <4>1
    <3> QED
      BY <1>0, <3>1, <3>3 DEF CheckKnows
  <2> QED
    BY <1>16, <2>1, CheckOpCases, CreatesKnows, MovesKnows
<1>17. CASE RejectText(r)
  BY <1>0, <1>17 DEF RejectText, CheckKnows, Mapped
<1>18. CASE WriteText(r)
  <2>1. op[r].call = "text" /\ pc'[r] = "done" /\ UNCHANGED <<idMap, next>>
    BY <1>0, <1>18 DEF WriteText
  <2> QED
    BY <1>0, <2>1 DEF CheckKnows, Mapped
<1> QED
  BY <1>1, <1>2, <1>3, <1>4, <1>5, <1>6, <1>7, <1>8, <1>9, <1>10, <1>11, <1>12,
     <1>13, <1>14, <1>15, <1>16, <1>17, <1>18 DEF EdgeStep, ElementStep, BatchStep

(* A text edit leaves a hierarchy it has checked: an edge that stays was     *)
(* read and not moved, an edge it writes is the last it gave that element.   *)
LEMMA TextIsChecked ==
    ASSUME IInv, NEW r \in Req, WriteText(r), CheckKnows(r), ~HierarchyGrew(r)
    PROVE  ContainsIn(edges') \subseteq work[r]
<1> DEFINE items == op[r].items
           moved == {x.id : x \in {x \in Batch(r) : x.do = "reparent"}}
           final == {n \in DOMAIN items : \A m \in DOMAIN items : Subject(r, m) = Subject(r, n) => m <= n}
           placed == {n \in final : LET p == Resolve(r, items[n].parent) IN
                         p # Nobody /\ kinds'[p] # {} /\ kinds'[Subject(r, n)] # {}}
<1>0. TypeOK
  BY DEF IInv
<1>1. /\ op[r].call = "text" /\ pc[r] = "check" /\ next[r] > Len(items) /\ ~refused[r]
      /\ edges' = {e \in edges : ~(e.kind = "Contains" /\ e.target \in moved)}
                  \cup {Contains(Resolve(r, items[n].parent), Subject(r, n)) : n \in placed}
  BY DEF WriteText, Subject, Goto
<1>2. KeepsRead(r) /\ KeepsMoves(r)
  BY <1>1 DEF CheckKnows
<1>3. items \in Seq(TextOp)
  BY <1>0, <1>1, OpShape, PayloadShape
<1>4. \A n \in DOMAIN items : n \in Nat /\ n < next[r] /\ ~(n >= next[r])
  <2> SUFFICES ASSUME NEW n \in DOMAIN items PROVE n \in Nat /\ n < next[r] /\ ~(n >= next[r])
    OBVIOUS
  <2>1. n \in 1..Len(items) /\ next[r] \in Nat /\ Len(items) \in Nat
    BY <1>0, <1>3 DEF TypeOK
  <2> QED
    BY <1>1, <2>1
<1> SUFFICES ASSUME NEW e \in edges', e.kind = "Contains" PROVE e \in work[r]
  BY DEF ContainsIn
<1>5. CASE e \in edges /\ e.target \notin moved
  <2>1. e \in sawEdges[r]
    BY <1>5 DEF HierarchyGrew, ContainsIn
  <2> QED
    BY <1>2, <1>5, <2>1 DEF KeepsRead, Batch
<1>6. CASE ~(e \in edges /\ e.target \notin moved)
  <2> HIDE DEF moved
  <2>1. PICK n \in placed : e = Contains(Resolve(r, items[n].parent), Subject(r, n))
    BY <1>1, <1>6
  <2>2. n \in DOMAIN items /\ Resolve(r, items[n].parent) # Nobody
    BY <2>1
  <2>3. ~ \E m \in DOMAIN items : n < m /\ m < next[r] /\ Subject(r, m) = Subject(r, n)
    BY <1>4, <2>1
  <2> QED
    BY <1>2, <1>4, <2>1, <2>2, <2>3 DEF KeepsMoves
<1> QED
  BY <1>5, <1>6

LEMMA AcyclicStep ==
    ASSUME IInv, NEW r \in Req, Acyclic(edges), CheckKnows(r), "contains" \notin missed',
           EdgeStep(r) \/ ElementStep(r) \/ BatchStep(r)
    PROVE  Acyclic(edges')
<1>0. TypeOK
  BY DEF IInv
<1>1. CASE CreateEdge(r)
  <2> DEFINE e == op[r].edge
  <2>1. /\ op[r].call = "createEdge" /\ pc[r] = "write"
        /\ edges' = edges \/ edges' = edges \cup {e}
        /\ edges' # edges /\ e.kind = "Contains" => ~HierarchyGrew(r)
    BY <1>1 DEF CreateEdge, Goto, Miss, Cause
  <2>2. e \in [kind : EdgeKind, source : Client, target : Client]
    BY <1>0, <2>1, OpShape, PayloadShape
  <2>3. CASE edges' = edges
    BY <2>3
  <2>4. CASE edges' = edges \cup {e} /\ e.kind # "Contains"
    <3>1. ContainsIn(edges') \subseteq ContainsIn(edges)
      BY <2>4 DEF ContainsIn
    <3> QED
      BY <3>1, FewerEdges
  <2>5. CASE edges' # edges /\ edges' = edges \cup {e} /\ e.kind = "Contains"
    <3>1. ~WouldCycle(sawEdges[r], e.source, e.target)
      BY <2>1, <2>5 DEF CheckKnows
    <3>2. ContainsIn(edges) \subseteq ContainsIn(sawEdges[r])
      BY <2>1, <2>5 DEF HierarchyGrew, ContainsIn
    <3>3. ~WouldCycle(edges, e.source, e.target)
      BY <3>1, <3>2, StaleCheckStands
    <3>4. e = Contains(e.source, e.target)
      BY <2>2, <2>5 DEF Contains
    <3>5. e.source \in Id /\ e.target \in Id
      BY <2>2 DEF Client
    <3> HIDE DEF e
    <3>6. Acyclic(edges \cup {Contains(e.source, e.target)})
      BY <3>3, <3>5, CheckIsSound
    <3> QED
      BY <2>5, <3>4, <3>6
  <2> QED
    BY <2>1, <2>3, <2>4, <2>5
<1>2. CASE WriteImport(r)
  <2>1. op[r].call = "import" /\ pc[r] = "check" /\ next[r] > Len(op[r].items) /\ ~HierarchyGrew(r)
    BY <1>2 DEF WriteImport, Goto, Miss, Cause
  <2>2. op[r].items \in Seq(Pair)
    BY <1>0, <2>1, OpShape, PayloadShape
  <2>3. \A x \in Batch(r) : Contains(x[1], x[2]) \in work[r]
    <3> SUFFICES ASSUME NEW n \in DOMAIN op[r].items
                 PROVE  Contains(op[r].items[n][1], op[r].items[n][2]) \in work[r]
      BY DEF Batch
    <3>1. n \in 1..Len(op[r].items) /\ next[r] \in Nat /\ Len(op[r].items) \in Nat
      BY <1>0, <2>2 DEF TypeOK
    <3>2. n < next[r]
      BY <2>1, <3>1
    <3> QED
      BY <2>1, <3>2 DEF CheckKnows
  <2>4. Acyclic(work[r]) /\ ContainsIn(edges) \subseteq work[r]
    BY <2>1 DEF CheckKnows, HierarchyGrew
  <2>5. edges' \subseteq edges \cup {Contains(x[1], x[2]) : x \in Batch(r)}
    BY <1>2 DEF WriteImport
  <2>6. ContainsIn(edges') \subseteq ContainsIn(work[r])
    BY <2>3, <2>4, <2>5 DEF ContainsIn
  <2> QED
    BY <2>4, <2>6, FewerEdges
<1>3. CASE WriteText(r)
  <2>1. ~HierarchyGrew(r) /\ op[r].call = "text" /\ pc[r] = "check" /\ ~refused[r]
    BY <1>3 DEF WriteText, Goto, Miss, Cause
  <2>2. ContainsIn(edges') \subseteq work[r]
    BY <1>3, <2>1, TextIsChecked
  <2>3. ContainsIn(edges') \subseteq ContainsIn(work[r])
    BY <2>2 DEF ContainsIn
  <2>4. Acyclic(work[r])
    BY <2>1 DEF CheckKnows
  <2> QED
    BY <2>3, <2>4, FewerEdges
<1>4. CASE ~CreateEdge(r) /\ ~WriteImport(r) /\ ~WriteText(r)
  <2>1. edges' \subseteq edges
    BY <1>4 DEF EdgeStep, ElementStep, BatchStep, GetSource, GetTarget, ReadContains, DeleteEdge,
       ReadFlows, CreateElement, GetElement, ReadDependents, DeleteElement, ReadKinds,
       ReadElements, ReadHierarchy, CheckPair, CheckOp, RejectText, graph
  <2>2. ContainsIn(edges') \subseteq ContainsIn(edges)
    BY <2>1 DEF ContainsIn
  <2> QED
    BY <2>2, FewerEdges
<1> QED
  BY <1>1, <1>2, <1>3, <1>4

LEMMA InitCInv == Init => CInv
<1> SUFFICES ASSUME Init PROVE CInv
  OBVIOUS
<1>1. Acyclic(edges)
  BY SeedsAssumption DEF Init
<1>2. ASSUME NEW r \in Req PROVE CheckKnows(r)
  BY DEF Init, CheckKnows, Mapped
<1> QED
  BY <1>1, <1>2 DEF CInv, AcyclicUnlessMissed

LEMMA NextCInv == GInv /\ CInv /\ [Next]_vars => CInv'
<1> SUFFICES ASSUME GInv, CInv, [Next]_vars PROVE CInv'
  OBVIOUS
<1>1. CASE UNCHANGED vars
  <2>1. UNCHANGED <<kinds, edges, minted, op, pc, sawKinds, sawEdges, work, idMap, next, refused, missed>>
    BY <1>1 DEF vars, graph, locals
  <2>2. \A r \in Req : CheckKnows(r) => CheckKnows(r)'
    BY <2>1 DEF CheckKnows, Mapped, KeepsRead, KeepsMoves, Subject, Resolve
  <2> QED
    BY <2>1, <2>2 DEF CInv, AcyclicUnlessMissed
<1>2. ASSUME NEW r \in Req, EdgeStep(r) \/ ElementStep(r) \/ BatchStep(r), "contains" \notin missed'
      PROVE  Acyclic(edges') /\ \A q \in Req : CheckKnows(q)'
  <2>1. /\ op' = op /\ "contains" \notin missed
        /\ \A q \in Req \ {r} : UNCHANGED <<pc[q], sawEdges[q], work[q], idMap[q], next[q], refused[q]>>
    BY <1>2, OthersUnchanged DEF Locals, GInv
  <2>2. Acyclic(edges) /\ \A q \in Req : CheckKnows(q)
    BY <2>1 DEF CInv, AcyclicUnlessMissed
  <2>3. ASSUME NEW q \in Req \ {r} PROVE CheckKnows(q)'
    <3>1. CheckKnows(q) /\ op' = op /\ UNCHANGED <<pc[q], sawEdges[q], work[q], idMap[q], next[q], refused[q]>>
      BY <2>1, <2>2
    <3> QED
      BY <3>1 DEF CheckKnows, Mapped, KeepsRead, KeepsMoves, Subject, Resolve
  <2>4. CheckKnows(r)'
    BY <1>2, <2>2, CheckStep DEF GInv
  <2> QED
    BY <1>2, <2>2, <2>3, <2>4, AcyclicStep DEF GInv
<1> QED
  BY <1>1, <1>2 DEF CInv, AcyclicUnlessMissed, Next

(* Single edges, imports and text edits together keep the hierarchy acyclic, *)
(* as long as no containment edge appears between the check of a request     *)
(* and its write (FR-CORE-05, NFR-REL-02).                                   *)
THEOREM HierarchyIsAcyclic == Spec => []AcyclicUnlessMissed
<1>1. CInv => AcyclicUnlessMissed
  BY DEF CInv
<1> QED
  BY <1>1, GateInvariance, InitCInv, NextCInv, PTL DEF Spec
=============================================================================
