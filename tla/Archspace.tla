------------------------------ MODULE Archspace ------------------------------
(***************************************************************************)
(* Design spaces of architectures (apps/api/src/archspace.rs): a           *)
(* subsystem's content is encoded and defined in the sidecar, which keeps  *)
(* it in memory under a handle; the definition is also a row in Postgres   *)
(* and an entry of the process's cache, so that a handle outlives a        *)
(* restart of the sidecar.  Instances of a design space are decoded,       *)
(* evaluated, proposed, and materialized when accepted.                    *)
(*                                                                         *)
(* Every call of the sidecar and of a store is an action.  A definition is *)
(* the subsystem it encodes and the version of that subsystem's content;   *)
(* version 0 has nothing to encode.  What encoding keeps is in DesignSpace.*)
(***************************************************************************)
EXTENDS Naturals, Sequences

CONSTANTS
    Req,         \* requests
    May,         \* the endpoints each request may call (a bound)
    Subsystem,
    Initially,   \* the version of each subsystem's content at first (a bound)
    MaxVersion,  \* up to which version each content is edited (a bound)
    MaxHandles,  \* how many handles the sidecar hands out (a bound)
    MaxRestarts, \* how often the sidecar and the API restart (a bound)
    Fails,       \* requests any of whose calls may fail (a bound)
    Nothing      \* SQL NULL, no row, not in memory

(* What each endpoint does with a live handle, in order; generate_instances  *)
(* for two instances.                                                        *)
DecodeOne == <<"decode", "definition">>
Evaluate  == <<"evaluate">>
Generate  == <<"definition", "decode", "evaluate", "decode", "evaluate">>
Optimize  == <<"optimize">>
Propose   == <<"decode", "definition", "evaluate">>

Script == [decode |-> DecodeOne, evaluate |-> Evaluate, generate |-> Generate,
           optimize |-> Optimize, propose |-> Propose]

Uses  == DOMAIN Script
Calls == Uses \cup {"define", "accept", "reject"}

ASSUME MayAssumption == May \in [Req -> SUBSET Calls]
ASSUME BoundsAssumption ==
    /\ Initially \in [Subsystem -> Nat] /\ MaxVersion \in [Subsystem -> Nat]
    /\ \A s \in Subsystem : Initially[s] <= MaxVersion[s]
    /\ MaxHandles \in Nat /\ MaxRestarts \in Nat
ASSUME FailsAssumption == Fails \subseteq Req

Handle     == 0..MaxHandles        \* 0 is a handle that no sidecar handed out
Definition == UNION {{s} \X (1..MaxVersion[s]) : s \in Subsystem}

Maybe(S) == S \cup {Nothing}

(* A row of proposals: what it was made of is kept for the properties.       *)
Row == [handle : Handle, subsystem : Maybe(Subsystem \cup Req), of : SUBSET Maybe(Definition),
        status : {"pending", "accepted", "rejected"}]

ASSUME NothingAssumption ==
    Nothing \notin Handle \cup Definition \cup Subsystem \cup Req \cup Row

VARIABLES
    deleted,   \* subsystems and materialized elements that were deleted
    version,   \* of each subsystem's content
    sidecar,   \* the design spaces the sidecar has in memory
    rows,      \* archspace_design_spaces
    cache,     \* archspace_definitions, a map of the process
    minted,    \* how many handles the sidecar has handed out
    given,     \* handles that clients have been told
    proposal,  \* of each propose request: its handle, subsystem, and status
    made,      \* Structure elements materialized, by the request that did it
    linked,    \* those that a Contains edge puts under a subsystem
    recorded,  \* those with a body and a commit
    call, pc,
    target,    \* the subsystem a request names, or the proposal it decides
    sent,      \* the handle a client sent
    handle,    \* the handle used instead
    found,     \* the definition it encoded, recovered, or read for its answer
    got,       \* the definitions whose graphs the sidecar decoded for it
    todo,      \* the rest of its script
    restarts

space    == <<sidecar, rows, cache, minted, given>>
world    == <<deleted, version>>
results  == <<proposal, made, linked, recorded>>
locals   == <<target, sent, handle, found, got, todo>>
vars     == <<world, space, results, call, pc, locals, restarts>>

Elements == (Subsystem \cup made) \ deleted

PC == {"idle", "space", "stats", "persist", "probe", "read", "redefine", "keep", "serve",
       "branch", "file", "element", "link", "merge", "record", "setStatus", "done", "refused",
       "failed"}
Over == {"done", "refused", "failed"}

Init ==
    /\ deleted = {}
    /\ version = Initially
    /\ sidecar = [h \in Handle |-> Nothing]
    /\ rows = sidecar /\ cache = sidecar
    /\ minted = 0
    /\ given = {}
    /\ proposal = [r \in Req |-> Nothing]
    /\ made = {} /\ linked = {} /\ recorded = {}
    /\ call \in {f \in [Req -> Calls] : \A r \in Req : f[r] \in May[r]}
    /\ pc = [r \in Req |-> "idle"]
    /\ target = [r \in Req |-> Nothing]
    /\ sent = target /\ handle = target /\ found = target
    /\ got = [r \in Req |-> {}]
    /\ todo = [r \in Req |-> << >>]
    /\ restarts = 0

Goto(r, from, to) ==
    /\ pc[r] = from
    /\ pc' = [pc EXCEPT ![r] = to]

----------------------------------------------------------------------------
(* define.                                                                   *)

(* fetch_subsystem_content; nothing to encode is a bad request.              *)
Fetch(r, s) ==
    /\ call[r] = "define"
    /\ Goto(r, "idle", IF version[s] = 0 THEN "refused" ELSE "space")
    /\ target' = [target EXCEPT ![r] = s]
    /\ found' = [found EXCEPT ![r] = <<s, version[s]>>]
    /\ UNCHANGED <<world, space, results, call, sent, handle, got, todo, restarts>>

(* DefineDesignSpace: a new handle (a UUID) for found[r].                    *)
Mint(r) ==
    /\ minted < MaxHandles
    /\ minted' = minted + 1
    /\ sidecar' = [sidecar EXCEPT ![minted'] = found[r]]
    /\ handle' = [handle EXCEPT ![r] = minted']
    /\ UNCHANGED <<world, rows, cache, given, results, call, target, sent, found, got, todo,
                   restarts>>

Define(r) == Goto(r, "space", "stats") /\ Mint(r)

Stats(r) ==
    /\ Goto(r, "stats", IF sidecar[handle[r]] = Nothing THEN "failed" ELSE "persist")
    /\ UNCHANGED <<world, space, results, call, locals, restarts>>

(* persist_archspace_definition, and the cache in the same breath.           *)
Keep(r) ==
    /\ rows' = [rows EXCEPT ![handle[r]] = found[r]]
    /\ cache' = [cache EXCEPT ![handle[r]] = found[r]]
    /\ UNCHANGED <<world, sidecar, minted, results, call, locals, restarts>>

(* Fault: the cache alone. *)
FaultOnlyCached(r) ==
    /\ Goto(r, "persist", "done")
    /\ cache' = [cache EXCEPT ![handle[r]] = found[r]]
    /\ given' = given \cup {handle[r]}
    /\ UNCHANGED <<world, sidecar, rows, minted, results, call, locals, restarts>>

Persist(r) ==
    /\ Goto(r, "persist", "done")
    /\ Keep(r)
    /\ given' = given \cup {handle[r]}

----------------------------------------------------------------------------
(* ensure_live_handle, and then the endpoint's script.                       *)

Ask(r, h, s) ==
    /\ call[r] \in Uses
    /\ s # Nothing <=> call[r] = "propose"
    /\ Goto(r, "idle", IF s \in Elements \cup {Nothing} THEN "probe" ELSE "refused")
    /\ h \in given \cup {0}
    /\ sent' = [sent EXCEPT ![r] = h]
    /\ handle' = [handle EXCEPT ![r] = h]
    /\ target' = [target EXCEPT ![r] = s]
    /\ todo' = [todo EXCEPT ![r] = Script[call[r]]]
    /\ UNCHANGED <<world, space, results, call, found, got, restarts>>

Probe(r) ==
    /\ Goto(r, "probe", IF sidecar[handle[r]] = Nothing THEN "read" ELSE "serve")
    /\ UNCHANGED <<world, space, results, call, locals, restarts>>

(* Fault: the subsystem's present content. *)
FaultEncodeAgain(r) ==
    /\ Goto(r, "read", IF rows[handle[r]] = Nothing THEN "failed" ELSE "redefine")
    /\ found' = [found EXCEPT ![r] =
                    IF rows[handle[r]] = Nothing THEN Nothing
                    ELSE <<rows[handle[r]][1], version[rows[handle[r]][1]]>>]
    /\ UNCHANGED <<world, space, results, call, target, sent, handle, got, todo, restarts>>

(* get_archspace_definition; with no row the sidecar's error is the answer.  *)
ReadRow(r) ==
    /\ Goto(r, "read", IF rows[handle[r]] = Nothing THEN "failed" ELSE "redefine")
    /\ found' = [found EXCEPT ![r] = rows[handle[r]]]
    /\ UNCHANGED <<world, space, results, call, target, sent, handle, got, todo, restarts>>

Redefine(r) == Goto(r, "redefine", "keep") /\ Mint(r)

KeepFresh(r) ==
    /\ Goto(r, "keep", "serve")
    /\ Keep(r)
    /\ UNCHANGED given

(* The next call of the script has used d; after the last one the client is  *)
(* answered, and told the handle to use.                                     *)
Used(r, d) ==
    LET last == Len(todo[r]) = 1
        answered == last /\ call[r] # "propose"
    IN  /\ Goto(r, "serve", IF answered THEN "done" ELSE IF last THEN "branch" ELSE "serve")
        /\ got' = [got EXCEPT ![r] = @ \cup {d}]
        /\ todo' = [todo EXCEPT ![r] = Tail(@)]
        /\ given' = IF answered THEN given \cup {handle[r]} ELSE given

(* decode_instance, evaluate_viability, run_optimization: of the graph the   *)
(* sidecar has; after another restart it has none.                           *)
AskSidecar(r) ==
    /\ pc[r] = "serve" /\ Head(todo[r]) # "definition"
    /\ IF sidecar[handle[r]] = Nothing
         THEN Goto(r, "serve", "failed") /\ UNCHANGED <<got, todo, given>>
         ELSE Used(r, sidecar[handle[r]])
    /\ UNCHANGED <<world, sidecar, rows, cache, minted, results, call, target, sent, handle,
                   found, restarts>>

(* definition_for_handle.                                                    *)
ReadDefinition(r) ==
    /\ pc[r] = "serve" /\ Head(todo[r]) = "definition"
    /\ Used(r, IF cache[handle[r]] # Nothing THEN cache[handle[r]] ELSE rows[handle[r]])
    /\ UNCHANGED <<world, sidecar, rows, cache, minted, results, call, target, sent, handle,
                   found, restarts>>

----------------------------------------------------------------------------
(* propose, its last two calls; accept_proposal and reject_proposal.         *)

CreateBranch(r) ==
    /\ Goto(r, "branch", "file")
    /\ UNCHANGED <<world, space, results, call, locals, restarts>>

File(r) ==
    /\ Goto(r, "file", "done")
    /\ proposal' = [proposal EXCEPT ![r] = [handle |-> handle[r], subsystem |-> target[r],
                                            of |-> got[r], status |-> "pending"]]
    /\ given' = given \cup {handle[r]}
    /\ UNCHANGED <<world, sidecar, rows, cache, minted, made, linked, recorded, call, locals,
                   restarts>>

GetProposal(r, p) ==
    /\ call[r] \in {"accept", "reject"}
    /\ proposal[p] # Nothing
    /\ Goto(r, "idle", IF proposal[p].status # "pending" THEN "refused"
                       ELSE IF call[r] = "accept" THEN "element" ELSE "setStatus")
    /\ target' = [target EXCEPT ![r] = p]
    /\ UNCHANGED <<world, space, results, call, sent, handle, found, got, todo, restarts>>

(* materialize_proposal: the element, its Contains edge, then its body and   *)
(* the commit (two calls).                                                   *)
UpsertElement(r) ==
    /\ Goto(r, "element", "link")
    /\ made' = made \cup {r}
    /\ UNCHANGED <<world, space, proposal, linked, recorded, call, locals, restarts>>

(* The edge goes from the subsystem that the proposal names, which nothing   *)
(* compares with the one that its handle was defined for.                    *)
Ends(r) == {proposal[target[r]].subsystem, r}

(* Fault: the caller drops the error. *)
FaultCarryOn(r) ==
    /\ Goto(r, "link", IF Ends(r) \subseteq Elements THEN "merge" ELSE "setStatus")
    /\ UNCHANGED <<world, space, results, call, locals, restarts>>

(* create_edge reads its ends, and then merges the edge: on an end that is   *)
(* gone by then the MERGE matches nothing, which is no error.                *)
CheckLink(r) ==
    /\ Goto(r, "link", IF Ends(r) \subseteq Elements THEN "merge" ELSE "failed")
    /\ UNCHANGED <<world, space, results, call, locals, restarts>>

Link(r) ==
    /\ Goto(r, "merge", "record")
    /\ linked' = linked \cup {q \in {r} : Ends(r) \subseteq Elements}
    /\ UNCHANGED <<world, space, proposal, made, recorded, call, locals, restarts>>

Record(r) ==
    /\ Goto(r, "record", "setStatus")
    /\ recorded' = recorded \cup {r}
    /\ UNCHANGED <<world, space, proposal, made, linked, call, locals, restarts>>

SetStatus(r) ==
    /\ Goto(r, "setStatus", "done")
    /\ proposal' = [proposal EXCEPT ![target[r]].status =
                        IF call[r] = "accept" THEN "accepted" ELSE "rejected"]
    /\ UNCHANGED <<world, space, made, linked, recorded, call, locals, restarts>>

----------------------------------------------------------------------------
(* Others edit subsystems, and delete these and what was materialized; calls *)
(* fail; the sidecar and the API restart, one losing its design spaces, the  *)
(* other its cache and requests.                                             *)

Edit(s) ==
    /\ version[s] < MaxVersion[s]
    /\ version' = [version EXCEPT ![s] = @ + 1]
    /\ UNCHANGED <<deleted, space, results, call, pc, locals, restarts>>

(* Its edges go too. *)
Delete(e) ==
    /\ e \in Elements
    /\ deleted' = deleted \cup {e}
    /\ linked' = {r \in linked : e \notin Ends(r)}
    /\ UNCHANGED <<version, space, proposal, made, recorded, call, pc, locals, restarts>>

Active(r) == pc[r] \notin Over \cup {"idle"}

Fail(r) ==
    /\ r \in Fails /\ Active(r)
    /\ pc' = [pc EXCEPT ![r] = "failed"]
    /\ UNCHANGED <<world, space, results, call, locals, restarts>>

Restart ==
    /\ restarts < MaxRestarts
    /\ restarts' = restarts + 1
    /\ UNCHANGED <<world, rows, minted, given, results, call, locals>>

RestartSidecar ==
    /\ Restart
    /\ sidecar' = [h \in Handle |-> Nothing]
    /\ UNCHANGED <<cache, pc>>

RestartApi ==
    /\ Restart
    /\ cache' = [h \in Handle |-> Nothing]
    /\ pc' = [r \in Req |-> IF Active(r) THEN "failed" ELSE pc[r]]
    /\ UNCHANGED sidecar

Step(r) ==
    \/ \E s \in Subsystem : Fetch(r, s)
    \/ Define(r) \/ Stats(r) \/ Persist(r)
    \/ \E h \in Handle, s \in Subsystem \cup {Nothing} : Ask(r, h, s)
    \/ Probe(r) \/ ReadRow(r) \/ Redefine(r) \/ KeepFresh(r)
    \/ AskSidecar(r) \/ ReadDefinition(r)
    \/ CreateBranch(r) \/ File(r)
    \/ \E p \in Req : GetProposal(r, p)
    \/ UpsertElement(r) \/ CheckLink(r) \/ Link(r) \/ Record(r) \/ SetStatus(r) \/ Fail(r)

Next ==
    \/ \E r \in Req : Step(r)
    \/ \E s \in Subsystem : Edit(s)
    \/ \E e \in Elements : Delete(e)
    \/ RestartSidecar \/ RestartApi

Spec == Init /\ [][Next]_vars

----------------------------------------------------------------------------
(* A handle that a client has, or that a proposal names as its provenance,   *)
(* has a row; what the sidecar and the cache have under it is what the row   *)
(* says; and a proposal's instance was decoded from that definition.         *)
HandlesAreDurable ==
    /\ \A h \in given : rows[h] # Nothing
    /\ \A h \in Handle : rows[h] # Nothing =>
           sidecar[h] \in {Nothing, rows[h]} /\ cache[h] \in {Nothing, rows[h]}
    /\ \A r \in Req : proposal[r] # Nothing => proposal[r].of = {rows[proposal[r].handle]}

(* What a client can observe of handles is what Handles promises, whatever   *)
(* is edited, fails or restarts meanwhile.                                   *)
Observed == INSTANCE Handles WITH
    None <- Nothing,
    meaning <- [h \in Handle |-> IF h \in given THEN rows[h] ELSE Nothing],
    asked <- [r \in Req |-> IF sent[r] \in given THEN sent[r] ELSE Nothing],
    answer <- [r \in Req |-> IF call[r] \in Uses /\ pc[r] = "done" THEN got[r] ELSE {}]

HandlesSurvive == Observed!Spec

(* An accepted proposal was materialized as a whole by one request: there is *)
(* an element, with a body, in a commit, and it is under the subsystem that  *)
(* the proposal names, unless one of the two was deleted, before the edge    *)
(* was merged or after.  (The subsystem named is the one of propose's path,  *)
(* not always the one the design space was defined for.)                     *)
Placed(r) == r \in linked \/ deleted \cap Ends(r) # {}

AcceptedIsMaterialized ==
    \A p \in Req : proposal[p] # Nothing /\ proposal[p].status = "accepted" =>
        \E r \in made \cap recorded : target[r] = p /\ Placed(r)
=============================================================================
