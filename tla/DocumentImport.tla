--------------------------- MODULE DocumentImport ---------------------------
(***************************************************************************)
(* Importing requirements from a document (apps/api/src/document_import.rs *)
(* and the import jobs of store/postgres.rs): an upload inserts a job and  *)
(* spawns a task that moves it through its stages; a job that awaits       *)
(* review is turned into proposals, and accepting one (mode_b.rs) creates  *)
(* a requirement for each draft.                                           *)
(*                                                                         *)
(* Every store call and every call of the language model is an action.     *)
(* A call that fails may have had its effect, if it is the answer that was *)
(* lost; a crash stops everything that runs in the process, and nothing is *)
(* resumed.  A proposal is named by the request that made it, a            *)
(* requirement by the request that created it and its place in the batch.  *)
(***************************************************************************)
EXTENDS Naturals, FiniteSets

CONSTANTS
    Job,        \* import jobs
    Req,        \* requests
    May,        \* the endpoints each request may call (a bound)
    MaxFound,   \* the most statements a document is segmented into (a bound)
    MaxFaults,  \* how many store and model calls may fail (a bound)
    MaxCrashes, \* how often the process stops (a bound)
    Nothing     \* SQL NULL, or no row

Calls == {"propose", "accept", "reject"}

Settled == {"AwaitingReview", "Failed"}
Status  == {"Extracting", "Segmenting", "Drafting", "Validating"} \cup Settled
Row     == [job : Job, drafts : Nat, status : {"pending", "accepted", "rejected"}]

ASSUME MayAssumption == May \in [Req -> SUBSET Calls]
ASSUME BoundsAssumption == MaxFound \in Nat /\ MaxFaults \in Nat /\ MaxCrashes \in Nat
ASSUME NothingAssumption == Nothing \notin Nat \cup Req \cup Job \cup Status \cup Row

VARIABLES
    status,      \* document_import_jobs.status
    suggestions, \* jobs whose suggestions are stored
    candidates,  \* how many drafts are stored
    task,        \* where the job's pipeline is
    found,       \* how many statements segment found
    drafted,     \* how many of them have been drafted
    blank,       \* jobs with a draft whose shallText is empty
    proposal,    \* rows of proposals, by the request that made them
    elements,    \* requirements created
    bodies,      \* those that have a body
    recorded,    \* those that a commit names
    call, pc,    \* the endpoint each request calls, and where it is
    subject,     \* the job it proposes, or the proposal it decides
    batch,       \* how many drafts it read
    next,        \* the draft it creates next
    faults, crashes,
    lost,        \* history: jobs whose task died, or failed and could not write it
    raced,       \* history: proposals decided on by two requests at once
    decided      \* history: requests that wrote their verdict to a proposal

jobs     == <<status, suggestions, candidates>>
pipeline == <<task, found, drafted, blank, lost>>
live     == <<elements, bodies, recorded>>
requests == <<call, subject, batch, next>>
bounds   == <<faults, crashes>>
vars     == <<jobs, pipeline, proposal, live, requests, pc, bounds, raced, decided>>

(* The status each stage writes, and where the pipeline goes from there.     *)
Writes == [noText       |-> "Failed",     segmenting |-> "Segmenting",
           noCandidates |-> "Failed",     drafting   |-> "Drafting",
           validating   |-> "Validating", review     |-> "AwaitingReview",
           catch        |-> "Failed"]

After == [noText       |-> "ended",    segmenting |-> "suggest",
          noCandidates |-> "ended",    drafting   |-> "draft",
          validating   |-> "validate", review     |-> "ended",
          catch        |-> "ended"]

Stages == DOMAIN Writes \cup {"none", "spawn", "extract", "suggest", "draft",
                              "validate", "store", "ended"}
Running(j) == task[j] \notin {"none", "spawn", "ended"}

PC == {"idle", "branch", "file", "element", "body", "commit", "setStatus",
       "done", "refused", "failed"}
Active(r) == pc[r] \notin {"idle", "done", "refused", "failed"}

Init ==
    /\ status = [j \in Job |-> Nothing]
    /\ suggestions = {}
    /\ candidates = [j \in Job |-> Nothing]
    /\ task = [j \in Job |-> "none"]
    /\ found = [j \in Job |-> 0]
    /\ drafted = [j \in Job |-> 0]
    /\ blank = {}
    /\ proposal = [r \in Req |-> Nothing]
    /\ elements = {}
    /\ bodies = {}
    /\ recorded = {}
    /\ call \in {f \in [Req -> Calls] : \A r \in Req : f[r] \in May[r]}
    /\ pc = [r \in Req |-> "idle"]
    /\ subject = [r \in Req |-> Nothing]
    /\ batch = [r \in Req |-> 0]
    /\ next = [r \in Req |-> 1]
    /\ faults = 0
    /\ crashes = 0
    /\ lost = {}
    /\ raced = {}
    /\ decided = {}

----------------------------------------------------------------------------
(* create_import_job, and the task it spawns.                                *)

Stage(j, from, to) ==
    /\ task[j] = from
    /\ task' = [task EXCEPT ![j] = to]

InsertJob(j) ==
    /\ Stage(j, "none", "spawn")
    /\ status[j] = Nothing
    /\ status' = [status EXCEPT ![j] = "Extracting"]
    /\ UNCHANGED <<suggestions, candidates, found, drafted, blank, lost, proposal, live,
                   requests, pc, bounds, raced, decided>>

Spawn(j) ==
    /\ Stage(j, "spawn", "extract")
    /\ UNCHANGED <<jobs, found, drafted, blank, lost, proposal, live, requests, pc, bounds, raced, decided>>

(* The text layer, else what OCR reads; extraction may fail.                 *)
Extract(j) ==
    /\ \E to \in {"segmenting", "noText", "catch"} : Stage(j, "extract", to)
    /\ UNCHANGED <<jobs, found, drafted, blank, lost, proposal, live, requests, pc, bounds, raced, decided>>

UpdateStatus(j) ==
    /\ task[j] \in DOMAIN Writes
    /\ status' = [status EXCEPT ![j] = Writes[task[j]]]
    /\ task' = [task EXCEPT ![j] = After[task[j]]]
    /\ UNCHANGED <<suggestions, candidates, found, drafted, blank, lost, proposal, live,
                   requests, pc, bounds, raced, decided>>

SetSuggestions(j, n) ==
    /\ Stage(j, "suggest", IF n = 0 THEN "noCandidates" ELSE "drafting")
    /\ suggestions' = suggestions \cup {j}
    /\ found' = [found EXCEPT ![j] = n]
    /\ UNCHANGED <<status, candidates, drafted, blank, lost, proposal, live, requests, pc,
                   bounds, raced, decided>>

(* One statement goes through the model.  parse_draft falls back on the      *)
(* statement itself if there is no shallText, but not if it is empty.        *)
Draft(j, empty) ==
    /\ Stage(j, "draft", IF drafted[j] + 1 < found[j] THEN "draft" ELSE "validating")
    /\ drafted' = [drafted EXCEPT ![j] = @ + 1]
    /\ blank' = IF empty THEN blank \cup {j} ELSE blank
    /\ UNCHANGED <<jobs, found, lost, proposal, live, requests, pc, bounds, raced, decided>>

Validate(j) ==
    /\ Stage(j, "validate", IF j \in blank THEN "catch" ELSE "store")
    /\ UNCHANGED <<jobs, found, drafted, blank, lost, proposal, live, requests, pc, bounds, raced, decided>>

SetCandidates(j) ==
    /\ Stage(j, "store", "review")
    /\ candidates' = [candidates EXCEPT ![j] = drafted[j]]
    /\ UNCHANGED <<status, suggestions, found, drafted, blank, lost, proposal, live,
                   requests, pc, bounds, raced, decided>>

(* The status is as it was, or it is what the call wrote. *)
MayHaveWritten(j) ==
    \/ UNCHANGED status
    \/ task[j] \in DOMAIN Writes /\ status' = [status EXCEPT ![j] = Writes[task[j]]]

(* Fault: run_pipeline drops the error. *)
FaultSwallow(j) ==
    /\ faults < MaxFaults
    /\ Running(j) /\ task[j] \notin {"extract", "validate"}
    /\ MayHaveWritten(j)
    /\ task' = [task EXCEPT ![j] = "ended"]
    /\ lost' = IF task[j] = "catch" /\ status'[j] \notin Settled THEN lost \cup {j} ELSE lost
    /\ faults' = faults + 1
    /\ UNCHANGED <<suggestions, candidates, found, drafted, blank, proposal, live, requests, pc,
                   crashes, raced, decided>>

(* A call reports an error: run_pipeline catches it, and tries once to write *)
(* it.  A status may have been written all the same; if the other calls had  *)
(* their effect, it is as if the call after them had failed.                 *)
PipelineError(j) ==
    /\ faults < MaxFaults
    /\ Running(j) /\ task[j] \notin {"extract", "validate"}
    /\ MayHaveWritten(j)
    /\ task' = [task EXCEPT ![j] = IF @ = "catch" THEN "ended" ELSE "catch"]
    /\ lost' = IF task[j] = "catch" /\ status'[j] \notin Settled THEN lost \cup {j} ELSE lost
    /\ faults' = faults + 1
    /\ UNCHANGED <<suggestions, candidates, found, drafted, blank, proposal, live, requests, pc,
                   crashes, raced, decided>>

(* The task is gone: the library that reads the document panics, or the      *)
(* client hangs up before the handler spawned it.                            *)
Die(j) ==
    /\ task[j] \in {"spawn", "extract"}
    /\ task' = [task EXCEPT ![j] = "ended"]
    /\ lost' = lost \cup {j}
    /\ UNCHANGED <<jobs, found, drafted, blank, proposal, live, requests, pc, bounds, raced, decided>>

----------------------------------------------------------------------------
(* create_import_proposal: a job awaits review for ever, so it may be called *)
(* again and again.  (The branch it creates is not modelled.)                *)

Goto(r, from, to) ==
    /\ pc[r] = from
    /\ pc' = [pc EXCEPT ![r] = to]

GetJob(r, j) ==
    LET ready == status[j] = "AwaitingReview" /\ candidates[j] # Nothing IN
      /\ call[r] = "propose"
      /\ Goto(r, "idle", IF ready THEN "branch" ELSE "refused")
      /\ subject' = [subject EXCEPT ![r] = j]
      /\ batch' = [batch EXCEPT ![r] = IF ready THEN candidates[j] ELSE 0]
      /\ UNCHANGED <<jobs, pipeline, proposal, live, call, next, bounds, raced, decided>>

CreateBranch(r) ==
    /\ Goto(r, "branch", "file")
    /\ UNCHANGED <<jobs, pipeline, proposal, live, requests, bounds, raced, decided>>

File(r) ==
    /\ proposal' = [proposal EXCEPT ![r] =
                      [job |-> subject[r], drafts |-> batch[r], status |-> "pending"]]
    /\ UNCHANGED <<raced, decided>>

CreateProposal(r) ==
    /\ Goto(r, "file", "done")
    /\ File(r)
    /\ UNCHANGED <<jobs, pipeline, live, requests, bounds>>

----------------------------------------------------------------------------
(* accept_proposal, with materialize_proposal; reject_proposal.              *)

(* Fault: any status will do. *)
FaultAnyStatus(r, p) ==
    /\ call[r] \in {"accept", "reject"}
    /\ proposal[p] # Nothing
    /\ Goto(r, "idle", IF call[r] = "reject" THEN "setStatus"
                       ELSE IF proposal[p].drafts > 0 THEN "element" ELSE "commit")
    /\ subject' = [subject EXCEPT ![r] = p]
    /\ batch' = [batch EXCEPT ![r] = proposal[p].drafts]
    /\ UNCHANGED <<jobs, pipeline, proposal, live, call, next, bounds, raced, decided>>

GetProposal(r, p) ==
    /\ call[r] \in {"accept", "reject"}
    /\ proposal[p] # Nothing
    /\ Goto(r, "idle", IF proposal[p].status # "pending" THEN "refused"
                       ELSE IF call[r] = "reject" THEN "setStatus"
                       ELSE IF proposal[p].drafts > 0 THEN "element" ELSE "commit")
    /\ subject' = [subject EXCEPT ![r] = p]
    /\ batch' = [batch EXCEPT ![r] = proposal[p].drafts]
    /\ UNCHANGED <<jobs, pipeline, proposal, live, call, next, bounds, raced, decided>>

UpsertElement(r) ==
    /\ Goto(r, "element", "body")
    /\ elements' = elements \cup {<<r, next[r]>>}
    /\ UNCHANGED <<jobs, pipeline, proposal, bodies, recorded, requests, bounds, raced, decided>>

(* Fault: the last draft is left out. *)
FaultOneShort(r) ==
    /\ Goto(r, "body", IF next[r] + 1 < batch[r] THEN "element" ELSE "commit")
    /\ bodies' = bodies \cup {<<r, next[r]>>}
    /\ next' = [next EXCEPT ![r] = @ + 1]
    /\ UNCHANGED <<jobs, pipeline, proposal, elements, recorded, call, subject, batch, bounds, raced, decided>>

UpsertBody(r) ==
    /\ Goto(r, "body", IF next[r] < batch[r] THEN "element" ELSE "commit")
    /\ bodies' = bodies \cup {<<r, next[r]>>}
    /\ next' = [next EXCEPT ![r] = @ + 1]
    /\ UNCHANGED <<jobs, pipeline, proposal, elements, recorded, call, subject, batch, bounds, raced, decided>>

RecordCommit(r) ==
    /\ Goto(r, "commit", "setStatus")
    /\ recorded' = recorded \cup {e \in elements : e[1] = r}
    /\ UNCHANGED <<jobs, pipeline, proposal, elements, bodies, requests, bounds, raced, decided>>

Deciding(r, p) == call[r] \in {"accept", "reject"} /\ subject[r] = p /\ Active(r)

Decide(r) ==
    LET p == subject[r] IN
      /\ proposal' = [proposal EXCEPT ![p].status =
                        IF call[r] = "accept" THEN "accepted" ELSE "rejected"]
      /\ raced' = IF \E q \in Req \ {r} : Deciding(q, p) THEN raced \cup {p} ELSE raced
      /\ decided' = decided \cup {r}

SetStatus(r) ==
    /\ Goto(r, "setStatus", "done")
    /\ Decide(r)
    /\ UNCHANGED <<jobs, pipeline, live, requests, bounds>>

(* A call reports an error and the request ends: a proposal may have been    *)
(* filed, or decided, all the same.  If another call had its effect, it is   *)
(* as if the one after it had failed.                                        *)
RequestError(r) ==
    /\ faults < MaxFaults
    /\ Active(r)
    /\ pc' = [pc EXCEPT ![r] = "failed"]
    /\ faults' = faults + 1
    /\ \/ UNCHANGED <<proposal, raced, decided>>
       \/ pc[r] = "file" /\ File(r)
       \/ pc[r] = "setStatus" /\ Decide(r)
    /\ UNCHANGED <<jobs, pipeline, live, requests, crashes>>

----------------------------------------------------------------------------
Crash ==
    LET gone == {j \in Job : Running(j) \/ task[j] = "spawn"} IN
      /\ crashes < MaxCrashes
      /\ crashes' = crashes + 1
      /\ task' = [j \in Job |-> IF j \in gone THEN "ended" ELSE task[j]]
      /\ lost' = lost \cup gone
      /\ pc' = [r \in Req |-> IF Active(r) THEN "failed" ELSE pc[r]]
      /\ UNCHANGED <<jobs, found, drafted, blank, proposal, live, requests, faults, raced, decided>>

(* What a task does while nothing fails. *)
Pipeline(j) ==
    \/ Spawn(j) \/ Extract(j) \/ UpdateStatus(j)
    \/ \E n \in 0..MaxFound : SetSuggestions(j, n)
    \/ \E empty \in BOOLEAN : Draft(j, empty)
    \/ Validate(j) \/ SetCandidates(j)

Request(r) ==
    \/ \E j \in Job : GetJob(r, j)
    \/ CreateBranch(r) \/ CreateProposal(r)
    \/ \E p \in Req : GetProposal(r, p)
    \/ UpsertElement(r) \/ UpsertBody(r) \/ RecordCommit(r) \/ SetStatus(r)

Next ==
    \/ \E j \in Job : InsertJob(j) \/ Pipeline(j) \/ PipelineError(j) \/ Die(j)
    \/ \E r \in Req : Request(r) \/ RequestError(r)
    \/ Crash

(* The runtime schedules every task it holds, every store call returns, and  *)
(* the calls of the model have a timeout.                                    *)
Spec == Init /\ [][Next]_vars /\ \A j \in Job : WF_vars(Pipeline(j))

----------------------------------------------------------------------------
TypeOK ==
    /\ status \in [Job -> Status \cup {Nothing}]
    /\ suggestions \subseteq Job
    /\ candidates \in [Job -> Nat \cup {Nothing}]
    /\ task \in [Job -> Stages]
    /\ found \in [Job -> Nat]
    /\ \A j \in Job : drafted[j] \in 0..found[j]
    /\ proposal \in [Req -> Row \cup {Nothing}]
    /\ recorded \subseteq elements
    /\ bodies \subseteq elements
    /\ pc \in [Req -> PC]
    /\ subject \in [Req -> {Nothing} \cup Job \cup Req]
    /\ lost \subseteq Job
    /\ decided \subseteq Req

(* The pipeline of j has passed every stage: there is a draft of every       *)
(* statement, one at least, none of them empty, and suggestions.             *)
Passed(j) ==
    /\ candidates[j] = found[j]
    /\ found[j] > 0
    /\ j \notin blank
    /\ j \in suggestions

(* What a reviewer gets is whole: a job that awaits review has passed every  *)
(* stage (FR-CORE-18: "not an empty successful import").                     *)
ReviewIsComplete == \A j \in Job : status[j] = "AwaitingReview" => Passed(j)

(* Only a job that has passed every stage gets into a proposal, and its      *)
(* drafts are all in it (FR-CORE-16).  It awaits review still; or it reads   *)
(* Failed by now, if the answer to its last write was lost and the error     *)
(* handler ran after a client had seen it awaiting review.                   *)
ProposedIsReviewed ==
    \A r \in Req : proposal[r] # Nothing =>
        LET j == proposal[r].job IN
          Passed(j) /\ proposal[r].drafts = found[j] /\ status[j] \in Settled

(* Failed is final, and AwaitingReview too, but for the error handler: when  *)
(* the answer to that write was lost, it turns it into Failed.               *)
SettledIsFinal ==
    [][\A j \in Job : status[j] \in Settled /\ status'[j] # status[j] =>
          status[j] = "AwaitingReview" /\ status'[j] = "Failed" /\ task[j] = "catch"]_vars

(* A job settles, whatever call of its pipeline fails, unless its task died  *)
(* or the write of its failure failed too (run_pipeline).                    *)
SettlesUnlessLost ==
    \A j \in Job : status[j] = "Extracting" ~> (status[j] \in Settled \/ j \in lost)

Batch(r, n) == {<<r, k>> : k \in 1..n}
Accepts(r, p) == call[r] = "accept" /\ subject[r] = p

(* An accepted proposal is on main as a whole: one of its reviewers created  *)
(* every draft, with its body, and recorded it.                              *)
AcceptedIsComplete ==
    \A p \in Req : (proposal[p] # Nothing /\ proposal[p].status = "accepted") =>
        \E r \in Req :
          Accepts(r, p) /\ Batch(r, proposal[p].drafts) \subseteq bodies \cap recorded

(* A proposal's requirements are created once, and none if it is rejected:   *)
(* unless two reviewers decided at once, or an accept is between its writes  *)
(* and the status, where a failure leaves it for good and the next accept    *)
(* creates everything again.  (A job proposed twice is imported twice.)      *)
ImportedOnce ==
    \A p \in Req : proposal[p] # Nothing =>
        LET writers == {r \in Req : Accepts(r, p) /\ \E e \in elements : e[1] = r} IN
          \/ p \in raced
          \/ \E r \in writers : r \notin decided
          \/ /\ Cardinality(writers) <= 1
             /\ proposal[p].status = "rejected" => writers = {}
=============================================================================
