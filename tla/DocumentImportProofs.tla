------------------------ MODULE DocumentImportProofs ------------------------
(***************************************************************************)
(* What holds of DocumentImport for every number of jobs, requests, drafts *)
(* and failures.  The inductive invariant says what a stage of the         *)
(* pipeline knows of its job, that only a running task changes a job, and  *)
(* what a request that makes or accepts a proposal still holds of it; the  *)
(* last one adds what the deciders of a proposal say of its status.        *)
(***************************************************************************)
EXTENDS DocumentImport, FiniteSetTheorems, TLAPS

(* Stages that come after the segmentation found something. *)
Drafted == {"validating", "validate", "store", "review"}

StageKnows(j) ==
    /\ task[j] = "none" => status[j] = Nothing
    /\ task[j] \notin {"none", "ended", "catch"} => status[j] \in Status \ Settled
    /\ task[j] = "catch" => status[j] \in Status
    /\ task[j] \in {"none", "spawn", "extract", "noText", "segmenting", "suggest"}
          => found[j] = 0 /\ drafted[j] = 0
    /\ task[j] \in {"drafting", "draft"} \cup Drafted => found[j] > 0 /\ j \in suggestions
    /\ task[j] \in {"drafting", "noCandidates"} => drafted[j] = 0
    /\ task[j] = "draft" => drafted[j] < found[j]
    /\ task[j] \in Drafted => drafted[j] = found[j]
    /\ task[j] \in {"store", "review"} => j \notin blank
    /\ task[j] = "review" => candidates[j] = found[j]

(* What a request holds of its job or proposal. *)
RequestKnows(r) ==
    /\ pc[r] \in {"branch", "file"} =>
          /\ subject[r] \in Job
          /\ status[subject[r]] \in Settled
          /\ Passed(subject[r])
          /\ batch[r] = found[subject[r]]
    /\ pc[r] \in {"element", "body", "commit", "setStatus"} =>
          /\ subject[r] \in Req
          /\ proposal[subject[r]] # Nothing
    /\ proposal[r] # Nothing => pc[r] \in {"done", "failed"}

Types ==
    /\ TypeOK
    /\ drafted \in [Job -> Nat]
    /\ batch \in [Req -> Nat]
    /\ next \in [Req -> Nat]
    /\ call \in [Req -> Calls]
    /\ faults \in Nat
    /\ pc \in [Req -> PC]
    /\ \A r \in Req : pc[r] = "body" => <<r, next[r]>> \in elements

IInv ==
    /\ Types
    /\ \A j \in Job : StageKnows(j)
    /\ \A r \in Req : RequestKnows(r)
    /\ ReviewIsComplete
    /\ ProposedIsReviewed

-----------------------------------------------------------------------------
(* The invariant holds initially, and each action preserves it.              *)

LEMMA InitIInv == Init => IInv
<1> SUFFICES ASSUME Init PROVE IInv
  OBVIOUS
<1>1. Types
  BY NothingAssumption DEF Init, Types, TypeOK, Row, Status, Stages, PC, Calls
<1>2. \A j \in Job : StageKnows(j)
  BY DEF Init, StageKnows, Drafted
<1>3. \A r \in Req : RequestKnows(r)
  BY DEF Init, RequestKnows
<1>4. ReviewIsComplete /\ ProposedIsReviewed
  BY NothingAssumption DEF Init, ReviewIsComplete, ProposedIsReviewed, Status, Settled
<1> QED
  BY <1>1, <1>2, <1>3, <1>4 DEF IInv

(* A step of one job leaves the other jobs and every request alone, and what *)
(* a job that has settled was settled with.                                  *)
OfJob(i) ==
    <<status[i], candidates[i], task[i], found[i], drafted[i], i \in suggestions, i \in blank>>

Settlement(i) == <<candidates[i], found[i], i \in suggestions, i \in blank>>

LEMMA JobStep ==
    ASSUME IInv, NEW j \in Job,
           status[j] \in Settled => status'[j] \in Settled /\ Settlement(j)' = Settlement(j),
           UNCHANGED <<proposal, requests, pc>>,
           \A i \in Job \ {j} : OfJob(i)' = OfJob(i),
           Types', StageKnows(j)',
           status'[j] = "AwaitingReview" => Passed(j)'
    PROVE  IInv'
<1> USE DEF IInv
<1>1. \A i \in Job : StageKnows(i)'
  BY DEF OfJob, StageKnows
<1>2. \A i \in Job : status[i] \in Settled /\ Passed(i) => status'[i] \in Settled /\ Passed(i)' /\ found'[i] = found[i]
  BY DEF OfJob, Settlement, Passed
<1>3. \A q \in Req : RequestKnows(q)'
  BY <1>2 DEF RequestKnows, requests
<1>4. ReviewIsComplete'
  <2>1. \A i \in Job \ {j} : status'[i] = status[i] /\ (Passed(i) => Passed(i)')
    BY DEF OfJob, Passed
  <2> QED
    BY <2>1 DEF ReviewIsComplete
<1>5. ProposedIsReviewed'
  BY <1>2 DEF ProposedIsReviewed, Types, TypeOK, Row
<1> QED
  BY <1>1, <1>3, <1>4, <1>5

LEMMA InsertJobIInv == \A j \in Job : IInv /\ InsertJob(j) => IInv'
<1> SUFFICES ASSUME NEW j \in Job, IInv, InsertJob(j) PROVE IInv'
  OBVIOUS
<1> USE DEF IInv
<1>1. Types'
  BY NothingAssumption, BoundsAssumption
     DEF InsertJob, Stage, live, requests, bounds, Types, TypeOK, StageKnows, Status, Settled,
         Stages, Writes
<1>2. status[j] \notin Settled /\ StageKnows(j)'
  BY NothingAssumption, BoundsAssumption
     DEF InsertJob, Stage, live, requests, bounds, Types, TypeOK, StageKnows, Drafted, Status,
         Settled, Stages, Writes
<1>3. UNCHANGED <<proposal, requests, pc>> /\ \A i \in Job \ {j} : OfJob(i)' = OfJob(i)
  BY DEF InsertJob, Stage, live, requests, bounds, Types, TypeOK, OfJob
<1>4. status'[j] = "AwaitingReview" => Passed(j)'
  BY DEF Passed, InsertJob, Stage, live, requests, bounds, Types, TypeOK, StageKnows, Drafted, Status,
      Settled
<1> QED
  BY <1>1, <1>2, <1>3, <1>4, JobStep

LEMMA SpawnIInv == \A j \in Job : IInv /\ Spawn(j) => IInv'
<1> SUFFICES ASSUME NEW j \in Job, IInv, Spawn(j) PROVE IInv'
  OBVIOUS
<1> USE DEF IInv
<1>1. Types'
  BY NothingAssumption, BoundsAssumption
     DEF Spawn, Stage, jobs, live, requests, bounds, Types, TypeOK, StageKnows, Status, Settled,
         Stages, Writes
<1>2. status[j] \notin Settled /\ StageKnows(j)'
  BY NothingAssumption, BoundsAssumption
     DEF Spawn, Stage, jobs, live, requests, bounds, Types, TypeOK, StageKnows, Drafted, Status,
         Settled, Stages, Writes
<1>3. UNCHANGED <<proposal, requests, pc>> /\ \A i \in Job \ {j} : OfJob(i)' = OfJob(i)
  BY DEF Spawn, Stage, jobs, live, requests, bounds, Types, TypeOK, OfJob
<1>4. status'[j] = "AwaitingReview" => Passed(j)'
  BY DEF Passed, Spawn, Stage, jobs, live, requests, bounds, Types, TypeOK, StageKnows, Drafted, Status,
      Settled
<1> QED
  BY <1>1, <1>2, <1>3, <1>4, JobStep

LEMMA ExtractIInv == \A j \in Job : IInv /\ Extract(j) => IInv'
<1> SUFFICES ASSUME NEW j \in Job, IInv, Extract(j) PROVE IInv'
  OBVIOUS
<1> USE DEF IInv
<1>1. Types'
  BY NothingAssumption, BoundsAssumption
     DEF Extract, Stage, jobs, live, requests, bounds, Types, TypeOK, StageKnows, Status,
         Settled, Stages, Writes
<1>2. status[j] \notin Settled /\ StageKnows(j)'
  BY NothingAssumption, BoundsAssumption
     DEF Extract, Stage, jobs, live, requests, bounds, Types, TypeOK, StageKnows, Drafted,
         Status, Settled, Stages, Writes
<1>3. UNCHANGED <<proposal, requests, pc>> /\ \A i \in Job \ {j} : OfJob(i)' = OfJob(i)
  BY DEF Extract, Stage, jobs, live, requests, bounds, Types, TypeOK, OfJob
<1>4. status'[j] = "AwaitingReview" => Passed(j)'
  BY DEF Passed, Extract, Stage, jobs, live, requests, bounds, Types, TypeOK, StageKnows, Drafted, Status,
      Settled
<1> QED
  BY <1>1, <1>2, <1>3, <1>4, JobStep

LEMMA UpdateStatusIInv == \A j \in Job : IInv /\ UpdateStatus(j) => IInv'
<1> SUFFICES ASSUME NEW j \in Job, IInv, UpdateStatus(j) PROVE IInv'
  OBVIOUS
<1> USE DEF IInv
<1>1. Types'
  BY NothingAssumption, BoundsAssumption
     DEF UpdateStatus, Writes, After, live, requests, bounds, Types, TypeOK, StageKnows, Status,
         Settled, Stages
<1>2. /\ status[j] \notin Settled \/ (task[j] = "catch" /\ status'[j] = "Failed")
      /\ Settlement(j)' = Settlement(j)
      /\ StageKnows(j)'
  BY NothingAssumption, BoundsAssumption
     DEF UpdateStatus, Writes, After, live, requests, bounds, Types, TypeOK, StageKnows,
         Drafted, Status, Settled, Stages, Settlement
<1>3. UNCHANGED <<proposal, requests, pc>> /\ \A i \in Job \ {j} : OfJob(i)' = OfJob(i)
  BY DEF UpdateStatus, Writes, After, live, requests, bounds, Types, TypeOK, OfJob
<1>4. status'[j] = "AwaitingReview" => Passed(j)'
  BY DEF Passed, UpdateStatus, Writes, After, live, requests, bounds, Types, TypeOK, StageKnows, Drafted,
      Status, Settled
<1> QED
  BY <1>1, <1>2, <1>3, <1>4, JobStep DEF Settled

LEMMA SetSuggestionsIInv == \A j \in Job, n \in 0..MaxFound : IInv /\ SetSuggestions(j, n) => IInv'
<1> SUFFICES ASSUME NEW j \in Job, NEW n \in 0..MaxFound, IInv, SetSuggestions(j, n) PROVE IInv'
  OBVIOUS
<1> USE DEF IInv
<1>1. Types'
  BY NothingAssumption, BoundsAssumption
     DEF SetSuggestions, Stage, live, requests, bounds, Types, TypeOK, StageKnows, Status,
         Settled, Stages, Writes
<1>2. status[j] \notin Settled /\ StageKnows(j)'
  BY NothingAssumption, BoundsAssumption
     DEF SetSuggestions, Stage, live, requests, bounds, Types, TypeOK, StageKnows, Drafted,
         Status, Settled, Stages, Writes
<1>3. UNCHANGED <<proposal, requests, pc>> /\ \A i \in Job \ {j} : OfJob(i)' = OfJob(i)
  BY DEF SetSuggestions, Stage, live, requests, bounds, Types, TypeOK, OfJob
<1>4. status'[j] = "AwaitingReview" => Passed(j)'
  BY DEF Passed, SetSuggestions, Stage, live, requests, bounds, Types, TypeOK, StageKnows, Drafted, Status,
      Settled
<1> QED
  BY <1>1, <1>2, <1>3, <1>4, JobStep

LEMMA DraftIInv == \A j \in Job, empty \in BOOLEAN : IInv /\ Draft(j, empty) => IInv'
<1> SUFFICES ASSUME NEW j \in Job, NEW empty \in BOOLEAN, IInv, Draft(j, empty) PROVE IInv'
  OBVIOUS
<1> USE DEF IInv
<1>1. Types'
  BY NothingAssumption, BoundsAssumption
     DEF Draft, Stage, jobs, live, requests, bounds, Types, TypeOK, StageKnows, Status, Settled,
         Stages, Writes
<1>2. status[j] \notin Settled /\ StageKnows(j)'
  <2>1. drafted[j] < found[j] /\ drafted[j] \in Nat /\ found[j] \in Nat /\ j \in suggestions
    BY DEF Draft, Stage, Types, TypeOK, StageKnows
  <2>2. drafted'[j] = drafted[j] + 1 /\ found'[j] = found[j] /\ j \in suggestions'
    BY <2>1 DEF Draft, jobs, Types
  <2>3. status[j] \in Status \ Settled /\ status'[j] = status[j]
    BY DEF Draft, Stage, jobs, StageKnows
  <2>4. CASE drafted[j] + 1 < found[j]
    BY <2>1, <2>2, <2>3, <2>4 DEF Draft, Stage, TypeOK, Types, StageKnows, Drafted, Settled
  <2>5. CASE ~(drafted[j] + 1 < found[j])
    <3>1. task'[j] = "validating"
      BY <2>5 DEF Draft, Stage, Types, TypeOK
    <3>2. drafted'[j] = found'[j] /\ found'[j] > 0
      BY <2>1, <2>2, <2>5
    <3> QED
      BY <2>2, <2>3, <3>1, <3>2 DEF StageKnows, Drafted, Settled
  <2> QED
    BY <2>4, <2>5
<1>3. UNCHANGED <<proposal, requests, pc>> /\ \A i \in Job \ {j} : OfJob(i)' = OfJob(i)
  BY DEF Draft, Stage, jobs, live, requests, bounds, Types, TypeOK, OfJob
<1>4. status'[j] = "AwaitingReview" => Passed(j)'
  BY DEF Passed, Draft, Stage, jobs, live, requests, bounds, Types, TypeOK, StageKnows, Drafted, Status,
      Settled
<1> QED
  BY <1>1, <1>2, <1>3, <1>4, JobStep

LEMMA ValidateIInv == \A j \in Job : IInv /\ Validate(j) => IInv'
<1> SUFFICES ASSUME NEW j \in Job, IInv, Validate(j) PROVE IInv'
  OBVIOUS
<1> USE DEF IInv
<1>1. Types'
  BY NothingAssumption, BoundsAssumption
     DEF Validate, Stage, jobs, live, requests, bounds, Types, TypeOK, StageKnows, Status,
         Settled, Stages, Writes
<1>2. status[j] \notin Settled /\ StageKnows(j)'
  BY NothingAssumption, BoundsAssumption
     DEF Validate, Stage, jobs, live, requests, bounds, Types, TypeOK, StageKnows, Drafted,
         Status, Settled, Stages, Writes
<1>3. UNCHANGED <<proposal, requests, pc>> /\ \A i \in Job \ {j} : OfJob(i)' = OfJob(i)
  BY DEF Validate, Stage, jobs, live, requests, bounds, Types, TypeOK, OfJob
<1>4. status'[j] = "AwaitingReview" => Passed(j)'
  BY DEF Passed, Validate, Stage, jobs, live, requests, bounds, Types, TypeOK, StageKnows, Drafted, Status,
      Settled
<1> QED
  BY <1>1, <1>2, <1>3, <1>4, JobStep

LEMMA SetCandidatesIInv == \A j \in Job : IInv /\ SetCandidates(j) => IInv'
<1> SUFFICES ASSUME NEW j \in Job, IInv, SetCandidates(j) PROVE IInv'
  OBVIOUS
<1> USE DEF IInv
<1>1. Types'
  BY NothingAssumption, BoundsAssumption
     DEF SetCandidates, Stage, live, requests, bounds, Types, TypeOK, StageKnows, Status,
         Settled, Stages, Writes
<1>2. status[j] \notin Settled /\ StageKnows(j)'
  BY NothingAssumption, BoundsAssumption
     DEF SetCandidates, Stage, live, requests, bounds, Types, TypeOK, StageKnows, Drafted,
         Status, Settled, Stages, Writes
<1>3. UNCHANGED <<proposal, requests, pc>> /\ \A i \in Job \ {j} : OfJob(i)' = OfJob(i)
  BY DEF SetCandidates, Stage, live, requests, bounds, Types, TypeOK, OfJob
<1>4. status'[j] = "AwaitingReview" => Passed(j)'
  BY DEF Passed, SetCandidates, Stage, live, requests, bounds, Types, TypeOK, StageKnows, Drafted, Status,
      Settled
<1> QED
  BY <1>1, <1>2, <1>3, <1>4, JobStep

LEMMA PipelineErrorIInv == \A j \in Job : IInv /\ PipelineError(j) => IInv'
<1> SUFFICES ASSUME NEW j \in Job, IInv, PipelineError(j) PROVE IInv'
  OBVIOUS
<1> USE DEF IInv
<1>0. PICK s \in Status \cup {Nothing} :
         /\ status' = [status EXCEPT ![j] = s]
         /\ s = status[j] \/ (task[j] \in DOMAIN Writes /\ s = Writes[task[j]])
  BY DEF PipelineError, MayHaveWritten, Writes, Status, Settled, Types, TypeOK
<1>1. Types'
  BY <1>0, NothingAssumption, BoundsAssumption
     DEF PipelineError, Running, live, requests, Types, TypeOK, StageKnows, Status,
         Settled, Stages, Writes
<1>2. task[j] \notin {"none", "ended"} /\ task'[j] \in {"catch", "ended"} /\ Settlement(j)' = Settlement(j)
  BY DEF PipelineError, Running, Types, TypeOK, Settlement
<1>3. UNCHANGED <<proposal, requests, pc>> /\ \A i \in Job \ {j} : OfJob(i)' = OfJob(i)
  BY <1>0 DEF PipelineError, Running, live, requests, Types, TypeOK, OfJob
<1>4. s \in Status /\ status'[j] = s
  BY <1>0, <1>2, NothingAssumption DEF Types, TypeOK, StageKnows, Writes, Status, Settled
<1>5. StageKnows(j)'
  BY <1>2, <1>4 DEF StageKnows, Drafted
<1>6. status[j] \in Settled => s \in Settled
  BY <1>0, <1>2 DEF StageKnows, Writes, Settled
<1>7. s = "AwaitingReview" => Passed(j)
  BY <1>0, <1>2 DEF StageKnows, Writes, Drafted, Passed, ReviewIsComplete
<1>8. status'[j] = "AwaitingReview" => Passed(j)'
  BY <1>2, <1>4, <1>7 DEF Passed, Settlement
<1> QED
  BY <1>1, <1>2, <1>3, <1>4, <1>5, <1>6, <1>8, JobStep

LEMMA DieIInv == \A j \in Job : IInv /\ Die(j) => IInv'
<1> SUFFICES ASSUME NEW j \in Job, IInv, Die(j) PROVE IInv'
  OBVIOUS
<1> USE DEF IInv
<1>1. Types'
  BY NothingAssumption, BoundsAssumption
     DEF Die, jobs, live, requests, bounds, Types, TypeOK, StageKnows, Status, Settled, Stages,
         Writes
<1>2. status[j] \notin Settled /\ StageKnows(j)'
  BY NothingAssumption, BoundsAssumption
     DEF Die, jobs, live, requests, bounds, Types, TypeOK, StageKnows, Drafted, Status, Settled,
         Stages, Writes
<1>3. UNCHANGED <<proposal, requests, pc>> /\ \A i \in Job \ {j} : OfJob(i)' = OfJob(i)
  BY DEF Die, jobs, live, requests, bounds, Types, TypeOK, OfJob
<1>4. status'[j] = "AwaitingReview" => Passed(j)'
  BY DEF Passed, Die, jobs, live, requests, bounds, Types, TypeOK, StageKnows, Drafted, Status, Settled
<1> QED
  BY <1>1, <1>2, <1>3, <1>4, JobStep

LEMMA GetJobIInv == \A r \in Req, j \in Job : IInv /\ GetJob(r, j) => IInv'
BY NothingAssumption
   DEF GetJob, Goto, jobs, pipeline, live, bounds, IInv, Types, TypeOK, StageKnows,
       RequestKnows, Passed, Settled, ReviewIsComplete, ProposedIsReviewed, Row, Status, PC, Calls

LEMMA CreateBranchIInv == \A r \in Req : IInv /\ CreateBranch(r) => IInv'
BY NothingAssumption
   DEF CreateBranch, Goto, jobs, pipeline, live, requests, bounds, IInv, Types, TypeOK,
       StageKnows, RequestKnows, Passed, Settled, ReviewIsComplete, ProposedIsReviewed, Row, Status, PC, Calls

LEMMA FileIInv ==
    ASSUME IInv, NEW r \in Req, pc[r] = "file", File(r), NEW to \in {"done", "failed"},
           pc' = [pc EXCEPT ![r] = to], faults' \in Nat, UNCHANGED <<jobs, pipeline, live, requests>>
    PROVE  IInv'
BY NothingAssumption
   DEF File, jobs, pipeline, live, requests, IInv, Types, TypeOK,
       StageKnows, RequestKnows, Passed, Settled, ReviewIsComplete, ProposedIsReviewed, Row, Status, PC, Calls

LEMMA CreateProposalIInv == \A r \in Req : IInv /\ CreateProposal(r) => IInv'
BY FileIInv DEF CreateProposal, Goto, bounds, IInv, Types

LEMMA GetProposalIInv == \A r \in Req, p \in Req : IInv /\ GetProposal(r, p) => IInv'
BY NothingAssumption
   DEF GetProposal, Goto, jobs, pipeline, live, bounds, IInv, Types, TypeOK, StageKnows,
       RequestKnows, Passed, Settled, ReviewIsComplete, ProposedIsReviewed, Row, Status, PC, Calls

LEMMA UpsertElementIInv == \A r \in Req : IInv /\ UpsertElement(r) => IInv'
BY NothingAssumption
   DEF UpsertElement, Goto, jobs, pipeline, requests, bounds, IInv, Types, TypeOK, StageKnows,
       RequestKnows, Passed, Settled, ReviewIsComplete, ProposedIsReviewed, Row, Status, PC, Calls

LEMMA UpsertBodyIInv == \A r \in Req : IInv /\ UpsertBody(r) => IInv'
BY NothingAssumption
   DEF UpsertBody, Goto, jobs, pipeline, bounds, IInv, Types, TypeOK, StageKnows, RequestKnows, Passed, Settled,
       ReviewIsComplete, ProposedIsReviewed, Row, Status, PC, Calls

LEMMA RecordCommitIInv == \A r \in Req : IInv /\ RecordCommit(r) => IInv'
BY NothingAssumption
   DEF RecordCommit, Goto, jobs, pipeline, requests, bounds, IInv, Types, TypeOK, StageKnows,
       RequestKnows, Passed, Settled, ReviewIsComplete, ProposedIsReviewed, Row, Status, PC, Calls

LEMMA DecideIInv ==
    ASSUME IInv, NEW r \in Req, pc[r] = "setStatus", Decide(r), NEW to \in {"done", "failed"},
           pc' = [pc EXCEPT ![r] = to], faults' \in Nat, UNCHANGED <<jobs, pipeline, live, requests>>
    PROVE  IInv'
<1> USE DEF IInv
<1> DEFINE p == subject[r]
<1>1. p \in Req /\ proposal[p] \in Row /\ proposal[p] # Nothing
  BY DEF RequestKnows, Types, TypeOK
<1>2. /\ proposal'[p] \in Row
      /\ proposal'[p].job = proposal[p].job
      /\ proposal'[p].drafts = proposal[p].drafts
  BY <1>1 DEF Decide, Types, TypeOK, Row
<1>3. /\ \A q \in Req \ {p} : proposal'[q] = proposal[q]
      /\ proposal' \in [Req -> Row \cup {Nothing}]
  BY <1>1, <1>2 DEF Decide, Types, TypeOK
<1>4. proposal'[p] # Nothing
  BY <1>2, NothingAssumption
<1> HIDE DEF p
<1>5. /\ pc' = [pc EXCEPT ![r] = to] /\ pc[r] = "setStatus" /\ decided' \subseteq Req
      /\ UNCHANGED <<jobs, pipeline, live, requests>>
  BY DEF Decide, Types, TypeOK
<1>6. Types'
  BY <1>3, <1>5 DEF Types, TypeOK, jobs, pipeline, live, requests, PC
<1>7. \A i \in Job : StageKnows(i)'
  BY <1>5 DEF StageKnows, jobs, pipeline
<1>8. \A q \in Req : RequestKnows(q)'
  <2> SUFFICES ASSUME NEW q \in Req PROVE RequestKnows(q)'
    OBVIOUS
  <2>1. \A x \in Req : proposal'[x] # Nothing <=> proposal[x] # Nothing
    BY <1>1, <1>3, <1>4
  <2> QED
    BY <1>5, <2>1 DEF RequestKnows, Passed, Types, jobs, pipeline, requests
<1>9. ReviewIsComplete' /\ ProposedIsReviewed'
  BY <1>1, <1>2, <1>3, <1>5 DEF Passed, ReviewIsComplete, ProposedIsReviewed, jobs, pipeline
<1> QED
  BY <1>6, <1>7, <1>8, <1>9

LEMMA SetStatusIInv == \A r \in Req : IInv /\ SetStatus(r) => IInv'
BY DecideIInv DEF SetStatus, Goto, bounds, IInv, Types

LEMMA RequestErrorIInv == \A r \in Req : IInv /\ RequestError(r) => IInv'
<1> SUFFICES ASSUME NEW r \in Req, IInv, RequestError(r) PROVE IInv'
  OBVIOUS
<1>1. pc' = [pc EXCEPT ![r] = "failed"] /\ faults' \in Nat /\ UNCHANGED <<jobs, pipeline, live, requests>>
  BY DEF RequestError, IInv, Types
<1>2. CASE UNCHANGED <<proposal, raced, decided>>
  BY <1>1, <1>2, NothingAssumption
     DEF jobs, pipeline, live, requests, IInv, Types, TypeOK, StageKnows, RequestError, Active,
         RequestKnows, Passed, ReviewIsComplete, ProposedIsReviewed, Row, Status, PC, Calls
<1>3. CASE pc[r] = "file" /\ File(r)
  BY <1>1, <1>3, FileIInv
<1>4. CASE pc[r] = "setStatus" /\ Decide(r)
  BY <1>1, <1>4, DecideIInv
<1> QED
  BY <1>2, <1>3, <1>4 DEF RequestError

LEMMA CrashIInv == IInv /\ Crash => IInv'
<1> SUFFICES ASSUME IInv, Crash PROVE IInv'
  OBVIOUS
<1> USE DEF IInv
<1>1. /\ task' \in [Job -> Stages] /\ \A j \in Job : task'[j] \in {task[j], "ended"}
      /\ pc' \in [Req -> PC] /\ \A r \in Req : pc'[r] \in {pc[r], "failed"}
      /\ \A r \in Req : pc[r] = "done" => pc'[r] = "done"
      /\ UNCHANGED <<jobs, found, drafted, blank, proposal, live, requests, faults, decided>>
      /\ lost' \subseteq Job
  BY DEF Crash, Active, Types, TypeOK, Stages, PC
<1>2. Types'
  BY <1>1 DEF Types, TypeOK, jobs, live, requests
<1>3. \A j \in Job : StageKnows(j)'
  BY <1>1 DEF StageKnows, jobs, Drafted
<1>4. \A r \in Req : RequestKnows(r)'
  BY <1>1 DEF RequestKnows, Passed, jobs, requests
<1>5. ReviewIsComplete' /\ ProposedIsReviewed'
  BY <1>1 DEF Passed, ReviewIsComplete, ProposedIsReviewed, jobs
<1> QED
  BY <1>2, <1>3, <1>4, <1>5

-----------------------------------------------------------------------------

LEMMA StutterIInv == IInv /\ UNCHANGED vars => IInv'
BY DEF vars, jobs, pipeline, live, requests, bounds, IInv, Types, TypeOK, StageKnows, RequestKnows,
       Passed, ReviewIsComplete, ProposedIsReviewed

LEMMA StepIInv == IInv /\ [Next]_vars => IInv'
<1> SUFFICES ASSUME IInv, [Next]_vars PROVE IInv'
  OBVIOUS
<1>1. ASSUME NEW j \in Job, InsertJob(j) \/ Pipeline(j) \/ PipelineError(j) \/ Die(j)
      PROVE  IInv'
  BY <1>1, InsertJobIInv, SpawnIInv, ExtractIInv, UpdateStatusIInv, SetSuggestionsIInv,
     DraftIInv, ValidateIInv, SetCandidatesIInv, PipelineErrorIInv, DieIInv DEF Pipeline
<1>2. ASSUME NEW r \in Req, Request(r) \/ RequestError(r) PROVE IInv'
  BY <1>2, GetJobIInv, CreateBranchIInv, CreateProposalIInv, GetProposalIInv, UpsertElementIInv,
     UpsertBodyIInv, RecordCommitIInv, SetStatusIInv, RequestErrorIInv DEF Request
<1>3. CASE Crash
  BY <1>3, CrashIInv
<1>4. CASE UNCHANGED vars
  BY <1>4, StutterIInv
<1> QED
  BY <1>1, <1>2, <1>3, <1>4 DEF Next

LEMMA Invariance == Spec => []IInv
BY InitIInv, StepIInv, PTL DEF Spec

(* Every variable keeps its type, for any number of jobs and requests. *)
THEOREM TypeCorrect == Spec => []TypeOK
<1>1. IInv => TypeOK
  BY DEF IInv, Types
<1> QED
  BY <1>1, Invariance, PTL

(* A job that awaits review has a draft of every statement, and none empty   *)
(* (run_pipeline_inner), for documents of any length.                        *)
THEOREM ReviewedIsWhole == Spec => []ReviewIsComplete
<1>1. IInv => ReviewIsComplete
  BY DEF IInv
<1> QED
  BY <1>1, Invariance, PTL

(* What is proposed has passed every stage, and its job has settled: as      *)
(* awaiting review, or as failed over that (create_import_proposal).         *)
THEOREM ProposalsAreReviewed == Spec => []ProposedIsReviewed
<1>1. IInv => ProposedIsReviewed
  BY DEF IInv
<1> QED
  BY <1>1, Invariance, PTL

(* A settled job has no task left that could write its status, but for an    *)
(* error handler that writes Failed (run_pipeline).                          *)
THEOREM SettledStays == Spec => SettledIsFinal
<1> DEFINE Stays == \A j \in Job : status[j] \in Settled /\ status'[j] # status[j] =>
                        status[j] = "AwaitingReview" /\ status'[j] = "Failed" /\ task[j] = "catch"
<1>1. IInv /\ [Next]_vars => [Stays]_vars
  <2> SUFFICES ASSUME IInv, Next PROVE Stays
    OBVIOUS
  <2> USE DEF IInv
  <2>0. ASSUME UNCHANGED status PROVE Stays
    BY <2>0
  <2>1. ASSUME NEW i \in Job, InsertJob(i) PROVE Stays
    BY <2>1, NothingAssumption DEF InsertJob, Types, TypeOK, Status
  <2>2. ASSUME NEW i \in Job, task[i] \in DOMAIN Writes, status' = [status EXCEPT ![i] = Writes[task[i]]]
        PROVE  Stays
    <3>1. status[i] \notin Settled \/ (task[i] = "catch" /\ Writes[task[i]] = "Failed")
      BY <2>2 DEF Writes, StageKnows
    <3> QED
      BY <2>2, <3>1 DEF Types, TypeOK, Settled
  <2>3. ASSUME NEW i \in Job, Pipeline(i) PROVE Stays
    BY <2>0, <2>2, <2>3 DEF Pipeline, Spawn, Extract, UpdateStatus, SetSuggestions, Draft, Validate, SetCandidates, jobs
  <2>4. ASSUME NEW i \in Job, PipelineError(i) \/ Die(i) PROVE Stays
    BY <2>0, <2>2, <2>4 DEF PipelineError, MayHaveWritten, Die, jobs
  <2>5. ASSUME NEW r \in Req, Request(r) \/ RequestError(r) PROVE Stays
    BY <2>0, <2>5 DEF Request, RequestError, GetJob, CreateBranch, CreateProposal, GetProposal,
                UpsertElement, UpsertBody, RecordCommit, SetStatus, jobs
  <2>6. CASE Crash
    BY <2>0, <2>6 DEF Crash, jobs
  <2> QED
    BY <2>1, <2>3, <2>4, <2>5, <2>6 DEF Next
<1> QED
  BY <1>1, Invariance, PTL DEF Spec, SettledIsFinal
-----------------------------------------------------------------------------
(* Acceptance: how far a request has come with its batch, in addition.       *)

BatchKnows(r) ==
    /\ pc[r] = "idle" => next[r] = 1 /\ subject[r] = Nothing
    /\ pc[r] \in {"element", "body", "commit", "setStatus"} =>
          batch[r] = proposal[subject[r]].drafts
    /\ pc[r] \in {"element", "body"} =>
          next[r] \in 1..batch[r] /\ Batch(r, next[r] - 1) \subseteq bodies
    /\ pc[r] = "commit" => Batch(r, batch[r]) \subseteq bodies
    /\ pc[r] = "setStatus" /\ call[r] = "accept" =>
          Batch(r, batch[r]) \subseteq bodies \cap recorded

AInv ==
    /\ IInv
    /\ \A r \in Req : BatchKnows(r)
    /\ AcceptedIsComplete

(* One more body, one more draft of the batch done. *)
LEMMA BatchGrows ==
    ASSUME NEW r, NEW n \in Nat \ {0}
    PROVE  Batch(r, n) = Batch(r, n - 1) \cup {<<r, n>>}
<1>1. 1..n = (1..(n - 1)) \cup {n}
  OBVIOUS
<1> QED
  BY <1>1 DEF Batch

LEMMA NoBatch == \A r : Batch(r, 0) = {}
BY DEF Batch

LEMMA InitAInv == Init => AInv
BY InitIInv, NothingAssumption DEF Init, AInv, BatchKnows, AcceptedIsComplete

(* The pipeline does not touch what acceptance depends on. *)
LEMMA PipelineAInv ==
    AInv /\ IInv' /\ UNCHANGED <<proposal, live, requests, pc>> => AInv'
BY DEF AInv, BatchKnows, AcceptedIsComplete, Accepts, Batch, live, requests

(* Requests that end, or go on to file a proposal, claim nothing. *)
LEMMA EndAInv ==
    ASSUME AInv, IInv', UNCHANGED <<proposal, live, requests>>,
           \A r \in Req : pc'[r] \in {pc[r], "failed", "file"}
    PROVE  AInv'
BY DEF AInv, BatchKnows, AcceptedIsComplete, Accepts, Batch, live, requests

(* A request that begins was no proposal's acceptance before. *)
LEMMA BeginAInv ==
    ASSUME AInv, IInv', NEW r \in Req, pc[r] = "idle",
           UNCHANGED <<proposal, live, call, next>>,
           \A q \in Req \ {r} : pc'[q] = pc[q] /\ subject'[q] = subject[q] /\ batch'[q] = batch[q],
           BatchKnows(r)'
    PROVE  AInv'
<1>1. \A q \in Req : BatchKnows(q)'
  BY DEF AInv, BatchKnows, Batch, live
<1>2. AcceptedIsComplete'
  BY NothingAssumption DEF AInv, BatchKnows, AcceptedIsComplete, Accepts, Batch, live
<1> QED
  BY <1>1, <1>2 DEF AInv

LEMMA GetJobAInv == \A r \in Req, j \in Job : AInv /\ IInv' /\ GetJob(r, j) => AInv'
<1> SUFFICES ASSUME NEW r \in Req, NEW j \in Job, AInv, IInv', GetJob(r, j) PROVE AInv'
  OBVIOUS
<1>1. BatchKnows(r)'
  BY DEF GetJob, Goto, BatchKnows, AInv, IInv, Types
<1> QED
  BY <1>1, BeginAInv DEF GetJob, Goto, AInv, IInv, Types, TypeOK

LEMMA GetProposalAInv == \A r, p \in Req : AInv /\ IInv' /\ GetProposal(r, p) => AInv'
<1> SUFFICES ASSUME NEW r \in Req, NEW p \in Req, AInv, IInv', GetProposal(r, p) PROVE AInv'
  OBVIOUS
<1>1. /\ pc[r] = "idle" /\ next[r] = 1 /\ next'[r] = 1
      /\ subject'[r] = p /\ batch'[r] = proposal[p].drafts /\ proposal' = proposal
      /\ proposal[p].drafts \in Nat
      /\ call' = call
  BY DEF GetProposal, Goto, AInv, BatchKnows, IInv, Types, TypeOK, Row
<1>2. /\ pc'[r] \in {"refused", "setStatus", "element", "commit"}
      /\ pc'[r] = "setStatus" => call[r] = "reject"
      /\ pc'[r] = "element" => proposal[p].drafts > 0
      /\ pc'[r] = "commit" => ~(proposal[p].drafts > 0)
  BY DEF GetProposal, Goto, AInv, IInv, Types
<1>3. pc'[r] = "commit" => batch'[r] = 0
  BY <1>1, <1>2
<1>4. BatchKnows(r)'
  BY <1>1, <1>2, <1>3, NoBatch DEF BatchKnows
<1> QED
  BY <1>1, <1>4, BeginAInv DEF GetProposal, Goto, AInv, IInv, Types, TypeOK

(* The row is new: no request has it as its subject yet. *)
LEMMA FileAInv ==
    ASSUME AInv, IInv', NEW r \in Req, pc[r] = "file", File(r), NEW to \in {"done", "failed"},
           pc' = [pc EXCEPT ![r] = to], UNCHANGED <<live, requests>>
    PROVE  AInv'
<1>1. proposal[r] = Nothing
  BY DEF AInv, IInv, RequestKnows
<1>2. /\ \A q \in Req \ {r} : proposal'[q] = proposal[q] /\ pc'[q] = pc[q]
      /\ proposal'[r].status = "pending" /\ pc'[r] \in {"done", "failed"}
      /\ UNCHANGED <<live, requests>>
  BY DEF File, AInv, IInv, Types, TypeOK
<1>3. \A q \in Req : BatchKnows(q)'
  BY <1>1, <1>2 DEF AInv, IInv, RequestKnows, BatchKnows, Batch, live, requests
<1>4. AcceptedIsComplete'
  BY <1>2 DEF AInv, AcceptedIsComplete, Accepts, Batch, live, requests
<1> QED
  BY <1>3, <1>4 DEF AInv

LEMMA UpsertElementAInv == \A r \in Req : AInv /\ IInv' /\ UpsertElement(r) => AInv'
<1> SUFFICES ASSUME NEW r \in Req, AInv, IInv', UpsertElement(r) PROVE AInv'
  OBVIOUS
<1>1. \A q \in Req : BatchKnows(q)'
  BY DEF UpsertElement, Goto, AInv, IInv, Types, BatchKnows, Batch, requests
<1>2. AcceptedIsComplete'
  BY DEF UpsertElement, AInv, AcceptedIsComplete, Accepts, Batch, requests
<1> QED
  BY <1>1, <1>2 DEF AInv

LEMMA UpsertBodyAInv == \A r \in Req : AInv /\ IInv' /\ UpsertBody(r) => AInv'
<1> SUFFICES ASSUME NEW r \in Req, AInv, IInv', UpsertBody(r) PROVE AInv'
  OBVIOUS
<1>1. /\ pc[r] = "body" /\ bodies' = bodies \cup {<<r, next[r]>>}
      /\ next[r] \in 1..batch[r] /\ batch[r] \in Nat /\ next[r] \in Nat
      /\ next'[r] = next[r] + 1
      /\ pc'[r] = IF next[r] < batch[r] THEN "element" ELSE "commit"
      /\ \A q \in Req \ {r} : next'[q] = next[q] /\ pc'[q] = pc[q]
      /\ UNCHANGED <<proposal, elements, recorded, call, subject, batch>>
  BY DEF UpsertBody, Goto, AInv, IInv, Types, BatchKnows
<1>2. Batch(r, next[r]) \subseteq bodies'
  BY <1>1, BatchGrows DEF AInv, BatchKnows
<1>3. BatchKnows(r)'
  <2>1. CASE next[r] < batch[r]
    <3>1. next'[r] \in 1..batch[r] /\ next'[r] - 1 = next[r]
      BY <1>1, <2>1
    <3> QED
      BY <1>1, <1>2, <2>1, <3>1 DEF AInv, BatchKnows, Batch
  <2>2. CASE ~(next[r] < batch[r])
    <3>1. next[r] = batch[r]
      BY <1>1, <2>2
    <3> QED
      BY <1>1, <1>2, <2>2, <3>1 DEF AInv, BatchKnows, Batch
  <2> QED
    BY <2>1, <2>2
<1>4. \A q \in Req \ {r} : BatchKnows(q)'
  BY <1>1 DEF AInv, BatchKnows, Batch
<1>5. AcceptedIsComplete'
  BY <1>1 DEF AInv, AcceptedIsComplete, Accepts, Batch
<1> QED
  BY <1>3, <1>4, <1>5 DEF AInv

LEMMA RecordCommitAInv == \A r \in Req : AInv /\ IInv' /\ RecordCommit(r) => AInv'
<1> SUFFICES ASSUME NEW r \in Req, AInv, IInv', RecordCommit(r) PROVE AInv'
  OBVIOUS
<1>1. /\ pc[r] = "commit" /\ pc' = [pc EXCEPT ![r] = "setStatus"]
      /\ recorded' = recorded \cup {e \in elements : e[1] = r}
      /\ UNCHANGED <<proposal, elements, bodies, call, subject, batch, next>>
  BY DEF RecordCommit, Goto, requests
<1>2. Batch(r, batch[r]) \subseteq bodies /\ bodies \subseteq elements
  BY <1>1 DEF AInv, IInv, Types, TypeOK, BatchKnows
<1>3. Batch(r, batch[r]) \subseteq recorded'
  BY <1>1, <1>2 DEF Batch
<1>4. \A q \in Req : BatchKnows(q)'
  BY <1>1, <1>2, <1>3 DEF AInv, IInv, Types, BatchKnows, Batch
<1>5. AcceptedIsComplete'
  BY <1>1 DEF AInv, AcceptedIsComplete, Accepts, Batch
<1> QED
  BY <1>4, <1>5 DEF AInv

LEMMA DecideAInv ==
    ASSUME AInv, IInv', NEW r \in Req, pc[r] = "setStatus", Decide(r), NEW to \in {"done", "failed"},
           pc' = [pc EXCEPT ![r] = to], UNCHANGED <<live, requests>>
    PROVE  AInv'
<1>1. PICK p \in Req : p = subject[r] /\ proposal[p] \in Row
  BY DEF AInv, IInv, RequestKnows, Types, TypeOK
<1>2. /\ pc[r] = "setStatus" /\ pc' = [pc EXCEPT ![r] = to]
      /\ \A q \in Req \ {p} : proposal'[q] = proposal[q]
      /\ proposal'[p].drafts = proposal[p].drafts
      /\ proposal'[p].status = IF call[r] = "accept" THEN "accepted" ELSE "rejected"
      /\ UNCHANGED <<live, requests>>
  BY <1>1 DEF Decide, AInv, IInv, Types, TypeOK, Row
<1>3. \A q \in Req : proposal'[q].drafts = proposal[q].drafts
  BY <1>2
<1>4. \A q \in Req : BatchKnows(q)'
  BY <1>2, <1>3 DEF AInv, IInv, Types, RequestKnows, BatchKnows, Batch, live, requests
<1>5. AcceptedIsComplete'
  <2>1. call[r] = "accept" => Batch(r, proposal[p].drafts) \subseteq bodies \cap recorded
    BY <1>1, <1>2 DEF AInv, BatchKnows
  <2>2. ASSUME NEW q \in Req \ {p}, proposal'[q] # Nothing, proposal'[q].status = "accepted"
        PROVE  \E x \in Req :
                 Accepts(x, q)' /\ Batch(x, proposal'[q].drafts) \subseteq bodies' \cap recorded'
    BY <1>2, <2>2 DEF AInv, AcceptedIsComplete, Accepts, live, requests
  <2>3. ASSUME proposal'[p].status = "accepted"
        PROVE  Accepts(r, p)' /\ Batch(r, proposal'[p].drafts) \subseteq bodies' \cap recorded'
    BY <1>1, <1>2, <2>1, <2>3 DEF Accepts, live, requests
  <2> QED
    BY <2>2, <2>3 DEF AcceptedIsComplete, Batch
<1> QED
  BY <1>4, <1>5 DEF AInv

LEMMA StepAInv == AInv /\ [Next]_vars => AInv'
<1> SUFFICES ASSUME AInv, [Next]_vars PROVE AInv'
  OBVIOUS
<1>0. IInv'
  BY StepIInv DEF AInv
<1>1. ASSUME NEW j \in Job, InsertJob(j) \/ Pipeline(j) \/ PipelineError(j) \/ Die(j)
      PROVE  AInv'
  <2>1. UNCHANGED <<proposal, live, requests, pc>>
    BY <1>1 DEF Pipeline, InsertJob, Spawn, Extract, UpdateStatus, SetSuggestions, Draft, Validate,
                SetCandidates, PipelineError, Die
  <2> QED
    BY <1>0, <2>1, PipelineAInv
<1>2. ASSUME NEW r \in Req, RequestError(r) PROVE AInv'
  <2>1. pc' = [pc EXCEPT ![r] = "failed"] /\ UNCHANGED <<live, requests>>
    BY <1>2 DEF RequestError
  <2>2. CASE UNCHANGED proposal
    BY <1>0, <2>1, <2>2, EndAInv DEF AInv, IInv, Types
  <2>3. CASE pc[r] = "file" /\ File(r)
    BY <1>0, <2>1, <2>3, FileAInv
  <2>4. CASE pc[r] = "setStatus" /\ Decide(r)
    BY <1>0, <2>1, <2>4, DecideAInv
  <2> QED
    BY <1>2, <2>2, <2>3, <2>4 DEF RequestError
<1>3. ASSUME NEW r \in Req, Request(r) PROVE AInv'
  <2>1. CASE CreateBranch(r)
    BY <1>0, <2>1, EndAInv DEF CreateBranch, Goto, AInv, IInv, Types
  <2>2. CASE CreateProposal(r)
    BY <1>0, <2>2, FileAInv DEF CreateProposal, Goto
  <2>3. CASE SetStatus(r)
    BY <1>0, <2>3, DecideAInv DEF SetStatus, Goto
  <2> QED
    BY <1>0, <1>3, <2>1, <2>2, <2>3, GetJobAInv, GetProposalAInv, UpsertElementAInv,
       UpsertBodyAInv, RecordCommitAInv DEF Request
<1>4. CASE Crash
  <2>1. /\ UNCHANGED <<proposal, live, requests>>
        /\ \A q \in Req : pc'[q] \in {pc[q], "failed", "file"}
    BY <1>4 DEF Crash
  <2> QED
    BY <1>0, <2>1, EndAInv
<1>5. CASE UNCHANGED vars
  BY <1>0, <1>5, PipelineAInv DEF vars
<1> QED
  BY <1>1, <1>2, <1>3, <1>4, <1>5 DEF Next

(* Accepting a proposal has created all of its requirements, with their      *)
(* bodies and in a commit, whatever races or fails (materialize_proposal,    *)
(* accept_proposal).                                                         *)
THEOREM AcceptanceIsComplete == Spec => []AcceptedIsComplete
<1>1. Spec => []AInv
  BY InitAInv, StepAInv, PTL DEF Spec
<1>2. AInv => AcceptedIsComplete
  BY DEF AInv
<1> QED
  BY <1>1, <1>2, PTL

-----------------------------------------------------------------------------
(* Decisions: what the requests on a proposal say of its status, as long as  *)
(* no two of them decided at once.                                           *)

Reviews(r, p) == call[r] \in {"accept", "reject"} /\ subject[r] = p
Decided(r, p) == Reviews(r, p) /\ r \in decided
Verdict(r) == IF call[r] = "accept" THEN "accepted" ELSE "rejected"

CallKnows(r) ==
    /\ pc[r] \in {"branch", "file"} => call[r] = "propose"
    /\ pc[r] \in {"element", "body", "commit", "setStatus"} => call[r] \in {"accept", "reject"}
    /\ \A p \in Req : Reviews(r, p) /\ pc[r] # "idle" => proposal[p] # Nothing
    /\ r \in decided => pc[r] \in {"done", "failed"}

RaceFree(p) ==
    proposal[p] # Nothing /\ p \notin raced =>
        /\ \A r \in Req : Deciding(r, p) => proposal[p].status = "pending"
        /\ \A r \in Req : Decided(r, p) => proposal[p].status = Verdict(r)
        /\ \A q, r \in Req : Decided(q, p) /\ Decided(r, p) => q = r

DInv ==
    /\ IInv
    /\ \A r \in Req : CallKnows(r)
    /\ \A p \in Req : RaceFree(p)

LEMMA InitDInv == Init => DInv
BY InitIInv, NothingAssumption DEF Init, DInv, CallKnows, RaceFree

(* A request that goes on or fails decides nothing yet. *)
LEMMA GoOnDInv ==
    ASSUME DInv, IInv', UNCHANGED <<proposal, call, subject, raced, decided>>,
           \A r \in Req :
             \/ pc'[r] = pc[r]
             \/ pc[r] = "branch" /\ pc'[r] = "file"
             \/ Active(r) /\ pc'[r] = "failed"
             \/ /\ pc[r] \in {"element", "body", "commit"}
                /\ pc'[r] \in {"element", "body", "commit", "setStatus"}
    PROVE  DInv'
<1>1. \A r \in Req : CallKnows(r)'
  BY DEF DInv, CallKnows, Reviews, Active
<1>2. \A r, p \in Req : Deciding(r, p)' => Deciding(r, p)
  BY DEF Deciding, Active
<1>3. \A r, p \in Req : (Decided(r, p)' => Decided(r, p)) /\ Verdict(r)' = Verdict(r)
  BY DEF Decided, Reviews, Verdict
<1>4. \A p \in Req : RaceFree(p)'
  BY <1>2, <1>3 DEF DInv, RaceFree
<1> QED
  BY <1>1, <1>4 DEF DInv

LEMMA GetJobDInv == \A r \in Req, j \in Job : DInv /\ IInv' /\ GetJob(r, j) => DInv'
<1> SUFFICES ASSUME NEW r \in Req, NEW j \in Job, DInv, IInv', GetJob(r, j) PROVE DInv'
  OBVIOUS
<1>1. /\ call[r] = "propose" /\ UNCHANGED <<proposal, call, raced, decided>>
      /\ pc'[r] \in {"branch", "refused"} /\ r \notin decided
      /\ \A q \in Req \ {r} : pc'[q] = pc[q] /\ subject'[q] = subject[q]
  BY DEF GetJob, Goto, DInv, CallKnows, IInv, Types, TypeOK
<1>2. \A q \in Req : CallKnows(q)'
  BY <1>1 DEF DInv, CallKnows, Reviews
<1>3. \A q, p \in Req : /\ Deciding(q, p)' => Deciding(q, p)
                        /\ Decided(q, p)' => Decided(q, p)
                        /\ Verdict(q)' = Verdict(q)
  BY <1>1 DEF Deciding, Decided, Reviews, Active, Verdict
<1>4. \A p \in Req : RaceFree(p)'
  BY <1>1, <1>3 DEF DInv, RaceFree
<1> QED
  BY <1>2, <1>4 DEF DInv

(* Only a pending proposal is reviewed. *)
LEMMA GetProposalDInv == \A r, p \in Req : DInv /\ IInv' /\ GetProposal(r, p) => DInv'
<1> SUFFICES ASSUME NEW r \in Req, NEW p \in Req, DInv, IInv', GetProposal(r, p) PROVE DInv'
  OBVIOUS
<1>1. /\ proposal[p] # Nothing /\ UNCHANGED <<proposal, call, raced, decided>> /\ r \notin decided
      /\ call[r] \in {"accept", "reject"} /\ subject'[r] = p
      /\ \A q \in Req \ {r} : pc'[q] = pc[q] /\ subject'[q] = subject[q]
      /\ pc'[r] \in {"refused", "setStatus", "element", "commit"}
      /\ pc'[r] # "refused" => proposal[p].status = "pending"
  BY DEF GetProposal, Goto, DInv, CallKnows, IInv, Types, TypeOK
<1>2. \A q \in Req : CallKnows(q)'
  BY <1>1 DEF DInv, CallKnows, Reviews
<1>3. \A q, o \in Req : /\ Deciding(q, o)' => Deciding(q, o) \/ proposal[o].status = "pending"
                        /\ Decided(q, o)' => Decided(q, o)
                        /\ Verdict(q)' = Verdict(q)
  BY <1>1 DEF Deciding, Decided, Reviews, Active, Verdict
<1>4. \A o \in Req : RaceFree(o)'
  BY <1>1, <1>3 DEF DInv, RaceFree
<1> QED
  BY <1>2, <1>4 DEF DInv

LEMMA FileDInv ==
    ASSUME DInv, IInv', NEW r \in Req, pc[r] = "file", File(r), NEW to \in {"done", "failed"},
           pc' = [pc EXCEPT ![r] = to], UNCHANGED requests
    PROVE  DInv'
<1>1. /\ proposal[r] = Nothing /\ call[r] = "propose" /\ UNCHANGED <<call, subject, raced, decided>>
      /\ \A q \in Req \ {r} : proposal'[q] = proposal[q] /\ pc'[q] = pc[q]
      /\ proposal'[r] = [job |-> subject[r], drafts |-> batch[r], status |-> "pending"]
      /\ pc'[r] \in {"done", "failed"} /\ pc[r] = "file"
  <2>1. pc[r] = "file" /\ proposal[r] = Nothing
    BY DEF DInv, IInv, RequestKnows
  <2>2. call[r] = "propose"
    BY <2>1 DEF DInv, CallKnows
  <2> QED
    BY <2>1, <2>2 DEF File, DInv, IInv, Types, TypeOK, requests
<1>2. proposal'[r] # Nothing
  <2>1. proposal'[r] \in Row
    BY <1>1 DEF DInv, IInv, RequestKnows, Types, TypeOK, Row
  <2> QED
    BY <2>1, NothingAssumption
<1>3. \A q \in Req : CallKnows(q)'
  BY <1>1, <1>2 DEF DInv, CallKnows, Reviews
<1>4. \A q, p \in Req : /\ Deciding(q, p)' => Deciding(q, p)
                        /\ Decided(q, p)' => Decided(q, p)
                        /\ Verdict(q)' = Verdict(q)
  BY <1>1 DEF Deciding, Decided, Reviews, Active, Verdict
<1>5. \A q \in Req : ~Deciding(q, r) /\ ~Decided(q, r)
  BY <1>1 DEF DInv, CallKnows, Reviews, Deciding, Decided, Active
<1>6. \A p \in Req : RaceFree(p)'
  BY <1>1, <1>4, <1>5 DEF DInv, RaceFree
<1> QED
  BY <1>3, <1>6 DEF DInv

(* Whoever sets the status found it pending: nobody had decided before, and  *)
(* if somebody is deciding still the two have raced.                         *)
LEMMA DecideDInv ==
    ASSUME DInv, IInv', NEW r \in Req, pc[r] = "setStatus", Decide(r), NEW to \in {"done", "failed"},
           pc' = [pc EXCEPT ![r] = to], UNCHANGED requests
    PROVE  DInv'
<1>1. PICK p \in Req : p = subject[r] /\ proposal[p] \in Row /\ proposal[p] # Nothing
  BY DEF DInv, IInv, RequestKnows, Types, TypeOK
<1>2. /\ pc[r] = "setStatus" /\ pc'[r] \in {"done", "failed"} /\ UNCHANGED <<call, subject>>
      /\ decided' = decided \cup {r}
      /\ \A q \in Req \ {r} : pc'[q] = pc[q]
      /\ \A o \in Req \ {p} : proposal'[o] = proposal[o]
      /\ proposal'[p] \in Row /\ proposal'[p].status = Verdict(r)
      /\ raced' = IF \E q \in Req \ {r} : Deciding(q, p) THEN raced \cup {p} ELSE raced
  BY <1>1 DEF Decide, DInv, IInv, Types, TypeOK, Row, Verdict, requests
<1>3. \A q \in Req : CallKnows(q)'
  BY <1>1, <1>2, NothingAssumption DEF DInv, CallKnows, Reviews
<1>4. \A q, o \in Req :
         /\ Deciding(q, o)' => Deciding(q, o) /\ q # r
         /\ Decided(q, o)' => Decided(q, o) \/ (q = r /\ o = p)
         /\ Verdict(q)' = Verdict(q)
  BY <1>1, <1>2 DEF Deciding, Decided, Reviews, Active, Verdict
<1>5. ASSUME NEW o \in Req \ {p} PROVE RaceFree(o)'
  BY <1>2, <1>4, <1>5 DEF DInv, RaceFree
<1>6. RaceFree(p)'
  <2> SUFFICES ASSUME p \notin raced'
               PROVE  /\ \A q \in Req : ~Deciding(q, p)'
                      /\ \A q \in Req : Decided(q, p)' => q = r
    BY <1>2, <1>4 DEF RaceFree
  <2>1. p \notin raced /\ \A q \in Req \ {r} : ~Deciding(q, p)
    BY <1>2
  <2>2. \A q \in Req : ~Deciding(q, p)'
    BY <1>4, <2>1
  <2>3. Deciding(r, p)
    BY <1>1, <1>2 DEF DInv, CallKnows, Deciding, Active
  <2>4. proposal[p].status = "pending"
    BY <1>1, <2>1, <2>3 DEF DInv, RaceFree
  <2>5. \A q \in Req : ~Decided(q, p)
    BY <1>1, <2>1, <2>4 DEF DInv, RaceFree, Verdict
  <2> QED
    BY <1>4, <2>2, <2>5
<1> QED
  BY <1>3, <1>5, <1>6 DEF DInv

LEMMA StepDInv == DInv /\ [Next]_vars => DInv'
<1> SUFFICES ASSUME DInv, [Next]_vars PROVE DInv'
  OBVIOUS
<1>0. IInv'
  BY StepIInv DEF DInv
<1>1. ASSUME NEW j \in Job, InsertJob(j) \/ Pipeline(j) \/ PipelineError(j) \/ Die(j)
      PROVE  DInv'
  <2>1. UNCHANGED <<proposal, call, subject, raced, decided, pc>>
    BY <1>1 DEF Pipeline, InsertJob, Spawn, Extract, UpdateStatus, SetSuggestions, Draft, Validate,
                SetCandidates, PipelineError, Die, requests
  <2> QED
    BY <1>0, <2>1, GoOnDInv
<1>2. ASSUME NEW r \in Req, RequestError(r) PROVE DInv'
  <2>1. pc' = [pc EXCEPT ![r] = "failed"] /\ Active(r) /\ UNCHANGED requests
    BY <1>2 DEF RequestError
  <2>2. CASE UNCHANGED <<proposal, raced, decided>>
    BY <1>0, <2>1, <2>2, GoOnDInv DEF DInv, IInv, Types, requests
  <2>3. CASE pc[r] = "file" /\ File(r)
    BY <1>0, <2>1, <2>3, FileDInv
  <2>4. CASE pc[r] = "setStatus" /\ Decide(r)
    BY <1>0, <2>1, <2>4, DecideDInv
  <2> QED
    BY <1>2, <2>2, <2>3, <2>4 DEF RequestError
<1>3. ASSUME NEW r \in Req, Request(r) PROVE DInv'
  <2>1. CASE CreateBranch(r)
    BY <1>0, <2>1, GoOnDInv DEF CreateBranch, Goto, DInv, IInv, Types, requests
  <2>2. CASE UpsertElement(r) \/ UpsertBody(r) \/ RecordCommit(r)
    <3>1. /\ pc[r] \in {"element", "body", "commit"}
          /\ pc'[r] \in {"element", "body", "commit", "setStatus"}
          /\ \A q \in Req \ {r} : pc'[q] = pc[q]
          /\ UNCHANGED <<proposal, call, subject, raced, decided>>
      BY <2>2 DEF UpsertElement, UpsertBody, RecordCommit, Goto, DInv, IInv, Types, requests
    <3> QED
      BY <1>0, <3>1, GoOnDInv
  <2>3. CASE CreateProposal(r)
    BY <1>0, <2>3, FileDInv DEF CreateProposal, Goto
  <2>4. CASE SetStatus(r)
    BY <1>0, <2>4, DecideDInv DEF SetStatus, Goto
  <2> QED
    BY <1>0, <1>3, <2>1, <2>2, <2>3, <2>4, GetJobDInv, GetProposalDInv DEF Request
<1>4. CASE Crash
  BY <1>0, <1>4, GoOnDInv DEF Crash, requests
<1>5. CASE UNCHANGED vars
  BY <1>0, <1>5, GoOnDInv DEF vars, requests
<1> QED
  BY <1>1, <1>2, <1>3, <1>4, <1>5 DEF Next

(* Requirements are imported once, and none of a rejected proposal, unless   *)
(* two reviewers raced or an acceptance has not written its verdict: a       *)
(* status that is no longer pending refuses every later reviewer             *)
(* (accept_proposal, reject_proposal).                                       *)
THEOREM RequirementsAreImportedOnce == Spec => []ImportedOnce
<1>1. Spec => []DInv
  BY InitDInv, StepDInv, PTL DEF Spec
<1>2. DInv => ImportedOnce
  <2> SUFFICES ASSUME DInv, NEW p \in Req, proposal[p] # Nothing, p \notin raced,
                      NEW W, W = {r \in Req : Accepts(r, p) /\ \E e \in elements : e[1] = r},
                      \A r \in W : r \in decided
               PROVE  Cardinality(W) <= 1 /\ (proposal[p].status = "rejected" => W = {})
    BY DEF ImportedOnce
  <2>1. \A r \in W : r \in Req /\ call[r] = "accept" /\ Decided(r, p)
    BY DEF Accepts, Decided, Reviews
  <2>2. proposal[p].status = "rejected" => W = {}
    BY <2>1 DEF DInv, RaceFree, Verdict
  <2>3. \A q, r \in W : q = r
    BY <2>1 DEF DInv, RaceFree
  <2>4. CASE W = {}
    BY <2>2, <2>4, FS_EmptySet
  <2>5. CASE W # {}
    <3>1. PICK r \in W : W = {r}
      BY <2>3, <2>5
    <3>2. Cardinality(W) = 1
      BY <3>1, FS_Singleton
    <3> QED
      BY <2>2, <3>2
  <2> QED
    BY <2>4, <2>5
<1> QED
  BY <1>1, <1>2, PTL
=============================================================================
