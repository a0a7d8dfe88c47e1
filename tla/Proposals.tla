------------------------------ MODULE Proposals ------------------------------
(***************************************************************************)
(* Mode B candidates on their way to main (apps/api/src/mode_b.rs,         *)
(* autonomy.rs): merged at once if the autonomy level allows it, or filed  *)
(* as proposals that people accept or reject, while other people edit the  *)
(* subsystems, add hazards, delete elements and change the level.          *)
(*                                                                         *)
(* Every store call is an action, with three exceptions: the reads of      *)
(* hazard_override are one, set_origin and the Satisfy edges of a          *)
(* subsystem are one, and so is recording a commit (see Versioning).  A    *)
(* candidate is named by the request that proposed it, a proposal by its   *)
(* candidate and subsystem.                                                *)
(***************************************************************************)
EXTENDS Integers, Sequences

CONSTANTS
    Req,        \* requests
    May,        \* the endpoints each request may call (a bound)
    Subsystems, \* VARIED_SUBSYSTEMS, in order
    Level,      \* the settings set_autonomy_level may be given (a bound)
    Deviation,  \* how far each candidate's mass is over its constraint, in
                \* percent; Nothing if no constraint is given
    Checks,     \* proposers that send expectedMainHeadCommitId
    Fails,      \* requests that may fail at any call (a bound)
    Nothing     \* JSON null, SQL NULL

Items(q) == {q[n] : n \in DOMAIN q}

Calls == {"propose", "accept", "reject", "edit", "hazard", "delete", "level"}
Setting == [level : {"L0", "L1", "L2", "L3", "L4"}, threshold : Int \cup {Nothing}]

ASSUME MayAssumption == May \in [Req -> SUBSET Calls]
ASSUME SubsystemsAssumption ==
    /\ Subsystems \in Seq(Items(Subsystems)) /\ Subsystems # << >>
    /\ \A m, n \in DOMAIN Subsystems : Subsystems[m] = Subsystems[n] => m = n
ASSUME LevelAssumption == Level \subseteq Setting
ASSUME DeviationAssumption == Deviation \in [Req -> Int \cup {Nothing}]
ASSUME SubsetsAssumption == Checks \subseteq Req /\ Fails \subseteq Req
ASSUME NothingAssumption == Nothing \notin Req \cup Int \cup {"pending", "accepted", "rejected"}

Sub      == Items(Subsystems)
Default  == [level |-> "L0", threshold |-> Nothing]     \* no row in autonomy_config
Proposal == Req \X Sub

VARIABLES
    elements,   \* subsystems the project has
    hazards,    \* subsystems that cause an unmitigated or severe hazard
    config,     \* the project's row of autonomy_config
    audit,      \* the autonomy changes in audit_log
    head,       \* main's head: how many commits main has
    body,       \* properties of each subsystem: Mode B's contract, and the rest
    marked,     \* subsystems whose origin is AiSuggested
    status,     \* of each row of proposals; Nothing if there is no row
    call,       \* the endpoint each request calls
    pc,
    subject,    \* the proposal a reviewer, or the subsystem an editor, acts on
    expected,   \* the head the caller computed its candidate against
    base,       \* the head, and the setting, that propose read
    setting,
    todo,       \* subsystems still to be assessed, written or filed
    merge, review,  \* what propose decided for them
    copy,       \* the body read for an update
    wrote,      \* subsystems apply_candidate_to_main has written
    raced       \* history: proposals decided on by two reviewers at once

data   == <<elements, hazards, config, audit, head, body, marked, status>>
locals == <<call, subject, expected, base, setting, todo, merge, review, copy, wrote>>
vars   == <<data, pc, locals, raced>>

Empty == [contract |-> Nothing, rest |-> Nothing]
Body  == [contract : Req \cup {Nothing}, rest : Req \cup {Nothing}]

PC == {"idle", "start", "readMain", "assess", "apply", "writeBody", "mark", "commit",
       "branch", "file", "setStatus", "write", "writeAudit", "done", "refused", "failed"}

Init ==
    /\ elements = Sub
    /\ hazards = {}
    /\ config = Default
    /\ audit = << >>
    /\ head = 0
    /\ body = [s \in Sub |-> Empty]
    /\ marked = {}
    /\ status = [p \in Proposal |-> Nothing]
    /\ call \in {f \in [Req -> Calls] : \A r \in Req : f[r] \in May[r]}
    /\ pc = [r \in Req |-> "idle"]
    /\ subject = [r \in Req |-> Nothing]
    /\ expected = [r \in Req |-> Nothing]
    /\ base = [r \in Req |-> 0]
    /\ setting = [r \in Req |-> Default]
    /\ todo = [r \in Req |-> << >>]
    /\ merge = [r \in Req |-> << >>]
    /\ review = [r \in Req |-> << >>]
    /\ copy = [r \in Req |-> Empty]
    /\ wrote = [r \in Req |-> {}]
    /\ raced = {}

Goto(r, from, to) ==
    /\ pc[r] = from
    /\ pc' = [pc EXCEPT ![r] = to]

----------------------------------------------------------------------------
(* A caller reads main's head, and computes a candidate with optimize.       *)

Optimize(r) ==
    /\ call[r] = "propose"
    /\ Goto(r, "idle", "start")
    /\ expected' = [expected EXCEPT ![r] = IF r \in Checks THEN head ELSE Nothing]
    /\ UNCHANGED <<data, call, subject, base, setting, todo, merge, review, copy, wrote, raced>>

(* resolve_level. *)
ReadLevel(r) ==
    /\ call[r] = "propose"
    /\ Goto(r, "start", "readMain")
    /\ setting' = [setting EXCEPT ![r] = config]
    /\ UNCHANGED <<data, call, subject, expected, base, todo, merge, review, copy, wrote, raced>>

ReadMain(r) ==
    /\ Goto(r, "readMain", "assess")
    /\ base' = [base EXCEPT ![r] = head]
    /\ todo' = [todo EXCEPT ![r] = Subsystems]
    /\ UNCHANGED <<data, call, subject, expected, setting, merge, review, copy, wrote, raced>>

(* autonomy::decide: may the candidate be merged without a review?           *)

Stale(r) == expected[r] # Nothing /\ expected[r] # base[r]

WithinThreshold(r) ==
    /\ Deviation[r] # Nothing
    /\ setting[r].threshold # Nothing
    /\ Deviation[r] <= setting[r].threshold

MayMerge(r) ==
    /\ ~Stale(r)
    /\ \/ setting[r].level = "L4"
       \/ setting[r].level = "L3" /\ WithinThreshold(r)

(* For each subsystem the project has; hazard_override goes before decide.   *)
Assess(r) ==
    LET s == Head(todo[r])
        left == Tail(todo[r])
        ok == s \notin hazards /\ MayMerge(r)
    IN  /\ pc[r] = "assess"
        /\ merge' = [merge EXCEPT ![r] = IF s \in elements /\ ok THEN Append(@, s) ELSE @]
        /\ review' = [review EXCEPT ![r] = IF s \in elements /\ ~ok THEN Append(@, s) ELSE @]
        /\ Goto(r, "assess", IF left # << >> THEN "assess"
                            ELSE IF merge'[r] # << >> THEN "apply" ELSE "branch")
        /\ todo' = [todo EXCEPT ![r] = IF left # << >> THEN left ELSE merge'[r]]
        /\ UNCHANGED <<data, call, subject, expected, base, setting, copy, wrote, raced>>

----------------------------------------------------------------------------
(* apply_candidate_to_main, for propose, and for accept_proposal with the    *)
(* proposal's one subsystem.  Subsystems that are gone are skipped, and      *)
(* record_commit does nothing if all of them were.                           *)

Candidate(r) == IF call[r] = "propose" THEN r ELSE subject[r][1]

ApplyNext(r) ==
    /\ todo[r] # << >>
    /\ LET s == Head(todo[r]) IN
         IF s \in elements
         THEN /\ Goto(r, "apply", "writeBody")
              /\ copy' = [copy EXCEPT ![r] = body[s]]
              /\ UNCHANGED todo
         ELSE /\ Goto(r, "apply", "apply")
              /\ todo' = [todo EXCEPT ![r] = Tail(@)]
              /\ UNCHANGED copy
    /\ UNCHANGED <<data, call, subject, expected, base, setting, merge, review, wrote, raced>>

(* Fault: the row is replaced, not merged. *)
FaultReplaceBody(r) ==
    /\ Goto(r, "writeBody", "mark")
    /\ body' = [body EXCEPT ![Head(todo[r])] = [contract |-> Candidate(r), rest |-> Nothing]]
    /\ UNCHANGED <<elements, hazards, config, audit, head, marked, status,
                   locals, raced>>

(* upsert_subsystem_contract merges into the row it read. *)
WriteContract(r) ==
    /\ Goto(r, "writeBody", "mark")
    /\ body' = [body EXCEPT ![Head(todo[r])] = [copy[r] EXCEPT !.contract = Candidate(r)]]
    /\ UNCHANGED <<elements, hazards, config, audit, head, marked, status,
                   locals, raced>>

(* set_origin matches nothing if the subsystem was deleted meanwhile, and    *)
(* create_edge then fails the request: the contract stays, an orphan row.    *)
MarkOrigin(r) ==
    LET s == Head(todo[r])
        there == s \in elements
    IN  /\ Goto(r, "mark", IF there THEN "apply" ELSE "failed")
        /\ marked' = IF there THEN marked \cup {s} ELSE marked
        /\ wrote' = IF there THEN [wrote EXCEPT ![r] = @ \cup {s}] ELSE wrote
        /\ todo' = IF there THEN [todo EXCEPT ![r] = Tail(@)] ELSE todo
        /\ UNCHANGED <<elements, hazards, config, audit, head, body, status,
                       call, subject, expected, base, setting, merge, review, copy, raced>>

Applied(r) ==
    /\ todo[r] = << >>
    /\ Goto(r, "apply", IF wrote[r] # {} THEN "commit"
                        ELSE IF call[r] = "propose" THEN "branch" ELSE "setStatus")
    /\ UNCHANGED <<data, locals, raced>>

RecordCommit(r) ==
    /\ Goto(r, "commit", CASE call[r] = "propose" -> "branch"
                           [] call[r] = "accept"  -> "setStatus"
                           [] OTHER               -> "done")
    /\ head' = head + 1
    /\ UNCHANGED <<elements, hazards, config, audit, body, marked, status, locals, raced>>

----------------------------------------------------------------------------
(* What may not be merged is filed, one row for each subsystem, on a branch  *)
(* that starts at the head propose read (the branch is not modelled).        *)

(* Fault: what was merged is filed as well. *)
FaultFileAll(r) ==
    /\ Goto(r, "branch", IF review[r] # << >> THEN "file" ELSE "done")
    /\ todo' = [todo EXCEPT ![r] = merge[r] \o review[r]]
    /\ UNCHANGED <<data, call, subject, expected, base, setting, merge, review, copy, wrote, raced>>

CreateBranch(r) ==
    /\ Goto(r, "branch", IF review[r] # << >> THEN "file" ELSE "done")
    /\ todo' = [todo EXCEPT ![r] = review[r]]
    /\ UNCHANGED <<data, call, subject, expected, base, setting, merge, review, copy, wrote, raced>>

CreateProposal(r) ==
    /\ Goto(r, "file", IF Tail(todo[r]) # << >> THEN "file" ELSE "done")
    /\ status' = [status EXCEPT ![<<r, Head(todo[r])>>] = "pending"]
    /\ todo' = [todo EXCEPT ![r] = Tail(@)]
    /\ UNCHANGED <<elements, hazards, config, audit, head, body, marked,
                   call, subject, expected, base, setting, merge, review, copy, wrote, raced>>

----------------------------------------------------------------------------
(* accept_proposal and reject_proposal: the status is read first and written *)
(* last, without a condition on what it is by then.                          *)

(* Fault: any status will do. *)
FaultAnyStatus(r, p) ==
    /\ call[r] \in {"accept", "reject"}
    /\ status[p] # Nothing
    /\ Goto(r, "idle", IF call[r] = "accept" THEN "apply" ELSE "setStatus")
    /\ subject' = [subject EXCEPT ![r] = p]
    /\ todo' = [todo EXCEPT ![r] = <<p[2]>>]
    /\ UNCHANGED <<data, call, expected, base, setting, merge, review, copy, wrote, raced>>

GetProposal(r, p) ==
    /\ call[r] \in {"accept", "reject"}
    /\ status[p] # Nothing
    /\ Goto(r, "idle", IF status[p] # "pending" THEN "refused"
                       ELSE IF call[r] = "accept" THEN "apply" ELSE "setStatus")
    /\ subject' = [subject EXCEPT ![r] = p]
    /\ todo' = [todo EXCEPT ![r] = <<p[2]>>]
    /\ UNCHANGED <<data, call, expected, base, setting, merge, review, copy, wrote, raced>>

Deciding(r, p) ==
    /\ call[r] \in {"accept", "reject"}
    /\ subject[r] = p
    /\ pc[r] \notin {"idle", "done", "refused", "failed"}

SetStatus(r) ==
    LET p == subject[r] IN
      /\ Goto(r, "setStatus", "done")
      /\ status' = [status EXCEPT ![p] = IF call[r] = "accept" THEN "accepted" ELSE "rejected"]
      /\ raced' = IF \E q \in Req \ {r} : Deciding(q, p) THEN raced \cup {p} ELSE raced
      /\ UNCHANGED <<elements, hazards, config, audit, head, body, marked, locals>>

----------------------------------------------------------------------------
(* set_autonomy_level: the old level it audits is the one it read first.     *)

ReadConfig(r) ==
    /\ call[r] = "level"
    /\ Goto(r, "idle", "write")
    /\ setting' = [setting EXCEPT ![r] = config]
    /\ UNCHANGED <<data, call, subject, expected, base, todo, merge, review, copy, wrote, raced>>

WriteConfig(r, new) ==
    /\ call[r] = "level"
    /\ Goto(r, "write", "writeAudit")
    /\ config' = new
    /\ subject' = [subject EXCEPT ![r] = new]
    /\ UNCHANGED <<elements, hazards, audit, head, body, marked, status,
                   call, expected, base, setting, todo, merge, review, copy, wrote, raced>>

WriteAudit(r) ==
    /\ Goto(r, "writeAudit", "done")
    /\ audit' = Append(audit, [old |-> setting[r].level, new |-> subject[r].level])
    /\ UNCHANGED <<elements, hazards, config, head, body, marked, status, locals, raced>>

----------------------------------------------------------------------------
(* Other people at work: an edit replaces the body with what its client made *)
(* of the body it had read; a hazard is added; an element is deleted.  Each  *)
(* records a commit after its write.                                         *)

ReadBody(r, s) ==
    /\ call[r] = "edit"
    /\ Goto(r, "idle", "write")
    /\ subject' = [subject EXCEPT ![r] = s]
    /\ copy' = [copy EXCEPT ![r] = body[s]]
    /\ UNCHANGED <<data, call, expected, base, setting, todo, merge, review, wrote, raced>>

WriteBody(r) ==
    /\ call[r] = "edit"
    /\ Goto(r, "write", "commit")
    /\ body' = [body EXCEPT ![subject[r]] = [copy[r] EXCEPT !.rest = r]]
    /\ UNCHANGED <<elements, hazards, config, audit, head, marked, status, locals, raced>>

AddHazard(r, s) ==
    /\ call[r] = "hazard"
    /\ Goto(r, "idle", "commit")
    /\ hazards' = hazards \cup {s}
    /\ UNCHANGED <<elements, config, audit, head, body, marked, status, locals, raced>>

DeleteElement(r, s) ==
    /\ call[r] = "delete"
    /\ s \in elements
    /\ Goto(r, "idle", "commit")
    /\ elements' = elements \ {s}
    /\ hazards' = hazards \ {s}
    /\ body' = [body EXCEPT ![s] = Empty]
    /\ marked' = marked \ {s}
    /\ UNCHANGED <<config, audit, head, status, locals, raced>>

(* A call fails, or the process stops: nothing is undone, nothing retried.   *)
Fail(r) ==
    /\ r \in Fails
    /\ pc[r] \notin {"idle", "done", "refused", "failed"}
    /\ pc' = [pc EXCEPT ![r] = "failed"]
    /\ UNCHANGED <<data, locals, raced>>

----------------------------------------------------------------------------
ProposeStep(r) ==
    \/ Optimize(r) \/ ReadLevel(r) \/ ReadMain(r) \/ Assess(r)
    \/ CreateBranch(r) \/ CreateProposal(r)

ApplyStep(r) ==
    \/ ApplyNext(r) \/ WriteContract(r) \/ MarkOrigin(r) \/ Applied(r) \/ RecordCommit(r)

ReviewStep(r) == SetStatus(r) \/ \E p \in Proposal : GetProposal(r, p)

LevelStep(r) == ReadConfig(r) \/ WriteAudit(r) \/ \E new \in Level : WriteConfig(r, new)

EditStep(r) ==
    \/ WriteBody(r)
    \/ \E s \in Sub : ReadBody(r, s) \/ AddHazard(r, s) \/ DeleteElement(r, s)

Next ==
    \E r \in Req :
       \/ ProposeStep(r) \/ ApplyStep(r) \/ ReviewStep(r) \/ LevelStep(r) \/ EditStep(r)
       \/ Fail(r)

Spec == Init /\ [][Next]_vars

----------------------------------------------------------------------------
TypeOK ==
    /\ elements \subseteq Sub /\ hazards \subseteq Sub /\ marked \subseteq elements
    /\ config \in Setting
    /\ head \in Nat
    /\ body \in [Sub -> Body]
    /\ status \in [Proposal -> {Nothing, "pending", "accepted", "rejected"}]
    /\ call \in [Req -> Calls] /\ pc \in [Req -> PC]
    /\ DOMAIN subject = Req
    /\ expected \in [Req -> Nat \cup {Nothing}] /\ base \in [Req -> Nat]
    /\ setting \in [Req -> Setting]
    /\ {todo, merge, review} \subseteq [Req -> Seq(Sub)]
    /\ copy \in [Req -> Body]
    /\ wrote \in [Req -> SUBSET Sub]
    /\ raced \subseteq Proposal

(* A propose that answered 200 disposed of each subsystem exactly once:      *)
(* merged, or filed for review; and of every subsystem that is still there   *)
(* (T-P2.2-01: "each element individually accept/reject-able").              *)
EverySubsystemDisposed ==
    \A r \in Req : (call[r] = "propose" /\ pc[r] = "done") =>
        \A s \in Sub :
          LET filed == status[<<r, s>>] # Nothing IN
            /\ ~(filed /\ s \in wrote[r])
            /\ s \in elements => filed \/ s \in wrote[r]

Accepts(r, p) == call[r] = "accept" /\ subject[r] = p

(* A proposal is written to main at most once, and never if it is rejected,  *)
(* unless two reviewers decided at once, or an accept is still between its   *)
(* write and the status (where a failure leaves it for good).                *)
DecidedOnce ==
    \A p \in Proposal :
        LET writers == {r \in Req : Accepts(r, p) /\ p[2] \in wrote[r]} IN
          \/ p \in raced
          \/ \E r \in writers : pc[r] # "done"
          \/ /\ status[p] = "rejected" => writers = {}
             /\ \A q, r \in writers : q = r

(* Whatever merges write, what people put into a body stays there, unless a  *)
(* writer still works on a copy that lacks it, or has written such a copy    *)
(* (the merge is not atomic: "merged, not wholesale-replaced", mode_b.rs).   *)
OthersPropertiesKept ==
    [][\A s \in Sub : body'[s].rest # body[s].rest =>
          \/ s \notin elements'
          \/ \E r \in Req :
                \/ call[r] = "edit" /\ body'[s].rest = r
                \/ pc[r] = "writeBody" /\ copy[r].rest # body[s].rest]_vars
=============================================================================
