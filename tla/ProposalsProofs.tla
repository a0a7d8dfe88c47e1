-------------------------- MODULE ProposalsProofs --------------------------
(***************************************************************************)
(* What holds of Proposals for any requests, subsystems, levels and        *)
(* deviations: types; that a propose which answers has disposed of every   *)
(* subsystem; that a proposal is decided once unless two reviewers overlap;*)
(* and that merges keep what other people wrote, unless they are late.     *)
(***************************************************************************)
EXTENDS Proposals, SequenceTheorems, TLAPS

(* Which endpoints reach each call, and what a request has by then.          *)
Knows(r) ==
    /\ pc[r] = "idle" => wrote[r] = {} /\ merge[r] = << >> /\ review[r] = << >>
    /\ pc[r] \in {"start", "readMain"} =>
          call[r] = "propose" /\ wrote[r] = {} /\ merge[r] = << >> /\ review[r] = << >>
    /\ pc[r] \in {"assess", "branch", "file"} => call[r] = "propose"
    /\ pc[r] \in {"apply", "writeBody", "mark"} => call[r] \in {"propose", "accept"}
    /\ pc[r] = "setStatus" => call[r] \in {"accept", "reject"}
    /\ pc[r] = "writeAudit" => call[r] = "level"
    /\ pc[r] = "commit" => call[r] \in {"propose", "accept", "edit", "hazard", "delete"}
    /\ pc[r] \in {"assess", "writeBody", "mark", "file"} => todo[r] # << >>
    /\ call[r] \in {"accept", "reject"} /\ pc[r] # "idle" =>
          subject[r] \in Proposal /\ status[subject[r]] # Nothing
    /\ call[r] = "edit" /\ pc[r] # "idle" => subject[r] \in Sub

IInv == TypeOK /\ \A r \in Req : Knows(r)

(* How far a propose has disposed of the subsystems.                         *)
Filed(r) == {s \in Sub : status[<<r, s>>] # Nothing}
Distinct(q) == \A m, n \in DOMAIN q : q[m] = q[n] => m = n

Disposes(r) ==
    call[r] = "propose" =>
        /\ Items(merge[r]) \cap Items(review[r]) = {}
        /\ wrote[r] \subseteq Items(merge[r])
        /\ Filed(r) \subseteq Items(review[r]) /\ Distinct(review[r])
        /\ pc[r] \in {"assess", "apply", "writeBody", "mark", "commit", "branch"} => Filed(r) = {}
        /\ pc[r] = "assess" =>
              /\ Distinct(todo[r])
              /\ Items(todo[r]) \cap (Items(merge[r]) \cup Items(review[r])) = {}
              /\ elements \subseteq Items(todo[r]) \cup Items(merge[r]) \cup Items(review[r])
              /\ wrote[r] = {}
        /\ pc[r] \in {"apply", "writeBody", "mark"} =>
              /\ Items(todo[r]) \subseteq Items(merge[r])
              /\ elements \subseteq wrote[r] \cup Items(todo[r]) \cup Items(review[r])
        /\ pc[r] \in {"commit", "branch"} => elements \subseteq wrote[r] \cup Items(review[r])
        /\ pc[r] = "file" =>
              /\ Distinct(todo[r]) /\ Items(todo[r]) \cap Filed(r) = {}
              /\ Items(todo[r]) \subseteq Items(review[r])
              /\ elements \subseteq wrote[r] \cup Filed(r) \cup Items(todo[r])
        /\ pc[r] = "done" => elements \subseteq wrote[r] \cup Filed(r)

DInv == IInv /\ \A r \in Req : Disposes(r)

(* A reviewer at work finds the proposal pending, and the first that is done *)
(* settles it, unless another was at work then.                              *)
Reviews(r, p) == call[r] \in {"accept", "reject"} /\ subject[r] = p
Verdict(r) == IF call[r] = "accept" THEN "accepted" ELSE "rejected"

Reviewed(p) ==
    p \notin raced =>
        /\ \A r \in Req : Deciding(r, p) => status[p] = "pending"
        /\ \A r \in Req : Reviews(r, p) /\ pc[r] = "done" => status[p] = Verdict(r)
        /\ \A q, r \in Req :
              Reviews(q, p) /\ pc[q] = "done" /\ Reviews(r, p) /\ pc[r] = "done" => q = r

Reviewing(r) == call[r] \in {"accept", "reject"} => (pc[r] \in {"idle", "refused"} => wrote[r] = {})

RInv ==
    /\ DInv
    /\ \A r \in Req : Reviewing(r)
    /\ \A p \in Proposal : Reviewed(p)

(* All that one request may do.                                              *)
Step(r) ==
    \/ Optimize(r)
    \/ ReadLevel(r)
    \/ ReadMain(r)
    \/ Assess(r)
    \/ ApplyNext(r)
    \/ WriteContract(r)
    \/ MarkOrigin(r)
    \/ Applied(r)
    \/ RecordCommit(r)
    \/ CreateBranch(r)
    \/ CreateProposal(r)
    \/ \E p \in Proposal : GetProposal(r, p)
    \/ SetStatus(r)
    \/ ReadConfig(r)
    \/ \E new \in Level : WriteConfig(r, new)
    \/ WriteAudit(r)
    \/ \E s \in Sub : ReadBody(r, s)
    \/ WriteBody(r)
    \/ \E s \in Sub : AddHazard(r, s)
    \/ \E s \in Sub : DeleteElement(r, s)
    \/ Fail(r)

LEMMA NextIsStep == Next => \E r \in Req : Step(r)
BY DEF Next, Step, ProposeStep, ApplyStep, ReviewStep, LevelStep, EditStep

-----------------------------------------------------------------------------
(* Queues of subsystems.                                                     *)

LEMMA ItemsOfEmpty == Items(<< >>) = {} /\ Distinct(<< >>)
BY DEF Items, Distinct

LEMMA ItemsAreMembers ==
    ASSUME NEW S, NEW q \in Seq(S)
    PROVE  Items(q) \subseteq S
BY DEF Items

LEMMA ItemsOfTail ==
    ASSUME NEW S, NEW q \in Seq(S), q # << >>
    PROVE  /\ Head(q) \in S /\ Tail(q) \in Seq(S)
           /\ Items(q) = {Head(q)} \cup Items(Tail(q))
           /\ Distinct(q) => Distinct(Tail(q)) /\ Head(q) \notin Items(Tail(q))
<1>1. /\ Len(q) \in Nat /\ Len(q) > 0 /\ DOMAIN q = 1..Len(q)
      /\ Head(q) = q[1] /\ Tail(q) \in Seq(S) /\ Len(Tail(q)) = Len(q) - 1
      /\ \A n \in 1..(Len(q) - 1) : Tail(q)[n] = q[n + 1]
  BY HeadTailProperties, EmptySeq, LenProperties
<1>2. DOMAIN Tail(q) = 1..(Len(q) - 1)
  BY <1>1, LenProperties
<1>3. Items(q) \subseteq {Head(q)} \cup Items(Tail(q))
  <2> SUFFICES ASSUME NEW n \in 1..Len(q), q[n] # Head(q) PROVE q[n] \in Items(Tail(q))
    BY <1>1 DEF Items
  <2>1. n - 1 \in 1..(Len(q) - 1) /\ Tail(q)[n - 1] = q[n]
    BY <1>1
  <2> QED
    BY <1>2, <2>1 DEF Items
<1>4. Items(Tail(q)) \subseteq Items(q)
  <2> SUFFICES ASSUME NEW n \in 1..(Len(q) - 1) PROVE Tail(q)[n] \in Items(q)
    BY <1>2 DEF Items
  <2> QED
    BY <1>1 DEF Items
<1>5. Head(q) \in Items(q) /\ Head(q) \in S
  BY <1>1 DEF Items
<1>6. ASSUME Distinct(q) PROVE Distinct(Tail(q)) /\ Head(q) \notin Items(Tail(q))
  <2>1. \A m, n \in 1..Len(q) : q[m] = q[n] => m = n
    BY <1>1, <1>6 DEF Distinct
  <2>2. \A m, n \in 1..(Len(q) - 1) : Tail(q)[m] = Tail(q)[n] => m = n
    <3> SUFFICES ASSUME NEW m \in 1..(Len(q) - 1),
                        NEW n \in 1..(Len(q) - 1), Tail(q)[m] = Tail(q)[n]
                 PROVE  m = n
      OBVIOUS
    <3>1. m + 1 \in 1..Len(q) /\ n + 1 \in 1..Len(q) /\ q[m + 1] = q[n + 1]
      BY <1>1
    <3> QED
      BY <2>1, <3>1
  <2>3. \A n \in 1..(Len(q) - 1) : Tail(q)[n] # Head(q)
    <3> SUFFICES ASSUME NEW n \in 1..(Len(q) - 1), Tail(q)[n] = Head(q) PROVE FALSE
      OBVIOUS
    <3>1. n + 1 \in 1..Len(q) /\ 1 \in 1..Len(q) /\ q[n + 1] = q[1]
      BY <1>1
    <3> QED
      BY <2>1, <3>1
  <2> QED
    BY <1>2, <2>2, <2>3 DEF Distinct, Items
<1> QED
  BY <1>1, <1>3, <1>4, <1>5, <1>6

LEMMA ItemsOfAppend ==
    ASSUME NEW S, NEW q \in Seq(S), NEW x \in S
    PROVE  /\ Append(q, x) \in Seq(S) /\ Items(Append(q, x)) = Items(q) \cup {x}
           /\ Distinct(q) /\ x \notin Items(q) => Distinct(Append(q, x))
<1>1. /\ Append(q, x) \in Seq(S) /\ Len(Append(q, x)) = Len(q) + 1 /\ Len(q) \in Nat
      /\ \A n \in 1..Len(q) : Append(q, x)[n] = q[n]
      /\ Append(q, x)[Len(q) + 1] = x
  BY AppendProperties, LenProperties
<1>2. DOMAIN q = 1..Len(q) /\ DOMAIN Append(q, x) = 1..(Len(q) + 1)
  BY <1>1, LenProperties
<1>3. Items(Append(q, x)) \subseteq Items(q) \cup {x}
  <2> SUFFICES ASSUME NEW n \in 1..(Len(q) + 1), Append(q, x)[n] # x
               PROVE  Append(q, x)[n] \in Items(q)
    BY <1>2 DEF Items
  <2>1. n \in 1..Len(q)
    BY <1>1
  <2> QED
    BY <1>1, <1>2, <2>1 DEF Items
<1>4. Items(q) \cup {x} \subseteq Items(Append(q, x))
  <2>1. x \in Items(Append(q, x))
    BY <1>1, <1>2 DEF Items
  <2>2. \A n \in 1..Len(q) : n \in 1..(Len(q) + 1) /\ q[n] = Append(q, x)[n]
    BY <1>1
  <2> QED
    BY <1>2, <2>1, <2>2 DEF Items
<1>5. ASSUME Distinct(q), x \notin Items(q) PROVE Distinct(Append(q, x))
  <2>1. \A n \in 1..Len(q) : q[n] # x
    BY <1>2, <1>5 DEF Items
  <2>2. \A m, n \in 1..Len(q) : q[m] = q[n] => m = n
    BY <1>2, <1>5 DEF Distinct
  <2>3. \A n \in 1..(Len(q) + 1) : n \in 1..Len(q) \/ n = Len(q) + 1
    BY <1>1
  <2> QED
    BY <1>1, <1>2, <2>1, <2>2, <2>3 DEF Distinct
<1> QED
  BY <1>1, <1>3, <1>4, <1>5

LEMMA SubsystemsAreDistinct ==
    Subsystems \in Seq(Sub) /\ Subsystems # << >> /\ Distinct(Subsystems) /\ Items(Subsystems) = Sub
BY SubsystemsAssumption DEF Sub, Distinct

-----------------------------------------------------------------------------
(* What a step of r leaves to the others.                                    *)
Local(q) == <<call[q], pc[q], subject[q], todo[q], merge[q], review[q], copy[q], wrote[q]>>

Frame(r) ==
    /\ call' = call
    /\ \A q \in Req \ {r} : Local(q)' = Local(q)
    /\ elements' \subseteq elements
    /\ \A p \in Proposal : status[p] # Nothing => status'[p] # Nothing
    /\ \A p \in Proposal : p[1] # r /\ status[p] = Nothing => status'[p] = Nothing

LEMMA StepFrame ==
    ASSUME IInv, NEW r \in Req, Step(r)
    PROVE  Frame(r)
<1>0. TypeOK /\ Knows(r)
  BY DEF IInv
<1>1. CASE Optimize(r)
  BY <1>0, <1>1 DEF TypeOK, Optimize, Goto, data, Frame, Local
<1>2. CASE ReadLevel(r)
  BY <1>0, <1>2 DEF TypeOK, ReadLevel, Goto, data, Frame, Local
<1>3. CASE ReadMain(r)
  BY <1>0, <1>3 DEF TypeOK, ReadMain, Goto, data, Frame, Local
<1>4. CASE Assess(r)
  BY <1>0, <1>4 DEF TypeOK, Assess, Goto, data, Frame, Local
<1>5. CASE ApplyNext(r)
  BY <1>0, <1>5 DEF TypeOK, ApplyNext, Goto, data, Frame, Local
<1>6. CASE WriteContract(r)
  BY <1>0, <1>6 DEF TypeOK, WriteContract, Goto, locals, Frame, Local
<1>7. CASE MarkOrigin(r)
  BY <1>0, <1>7 DEF TypeOK, MarkOrigin, Goto, Frame, Local
<1>8. CASE Applied(r)
  BY <1>0, <1>8 DEF TypeOK, Applied, Goto, data, locals, Frame, Local
<1>9. CASE RecordCommit(r)
  BY <1>0, <1>9 DEF TypeOK, RecordCommit, Goto, locals, Frame, Local
<1>10. CASE CreateBranch(r)
  BY <1>0, <1>10 DEF TypeOK, CreateBranch, Goto, data, Frame, Local
<1>11. CASE CreateProposal(r)
  <2>1. <<r, Head(todo[r])>> \in Proposal /\ "pending" # Nothing
    BY <1>0, <1>11, ItemsOfTail, NothingAssumption DEF TypeOK, Knows, CreateProposal, Goto, Proposal
  <2>2. \A p \in Proposal : status'[p] = IF p = <<r, Head(todo[r])>> THEN "pending" ELSE status[p]
    BY <1>0, <1>11, <2>1 DEF TypeOK, CreateProposal
  <2>3. call' = call /\ elements' = elements /\ \A q \in Req \ {r} : Local(q)' = Local(q)
    BY <1>0, <1>11 DEF TypeOK, CreateProposal, Goto, Local
  <2> QED
    BY <2>1, <2>2, <2>3 DEF Frame, Proposal
<1>12. CASE \E p \in Proposal : GetProposal(r, p)
  BY <1>0, <1>12 DEF TypeOK, GetProposal, Goto, data, Frame, Local
<1>13. CASE SetStatus(r)
  <2>1. subject[r] \in Proposal /\ status[subject[r]] # Nothing
    BY <1>0, <1>13 DEF Knows, SetStatus, Goto
  <2>2. \A p \in Proposal : p # subject[r] => status'[p] = status[p]
    BY <1>0, <1>13 DEF TypeOK, SetStatus
  <2>3. status'[subject[r]] # Nothing
    BY <1>0, <1>13, <2>1, NothingAssumption DEF TypeOK, SetStatus
  <2>4. call' = call /\ elements' = elements /\ \A q \in Req \ {r} : Local(q)' = Local(q)
    BY <1>0, <1>13 DEF TypeOK, SetStatus, Goto, locals, Local
  <2> QED
    BY <2>1, <2>2, <2>3, <2>4 DEF Frame
<1>14. CASE ReadConfig(r)
  BY <1>0, <1>14 DEF TypeOK, ReadConfig, Goto, data, Frame, Local
<1>15. CASE \E new \in Level : WriteConfig(r, new)
  BY <1>0, <1>15 DEF TypeOK, WriteConfig, Goto, Frame, Local
<1>16. CASE WriteAudit(r)
  BY <1>0, <1>16 DEF TypeOK, WriteAudit, Goto, locals, Frame, Local
<1>17. CASE \E s \in Sub : ReadBody(r, s)
  BY <1>0, <1>17 DEF TypeOK, ReadBody, Goto, data, Frame, Local
<1>18. CASE WriteBody(r)
  BY <1>0, <1>18 DEF TypeOK, WriteBody, Goto, locals, Frame, Local
<1>19. CASE \E s \in Sub : AddHazard(r, s)
  BY <1>0, <1>19 DEF TypeOK, AddHazard, Goto, locals, Frame, Local
<1>20. CASE \E s \in Sub : DeleteElement(r, s)
  BY <1>0, <1>20 DEF TypeOK, DeleteElement, Goto, locals, Frame, Local
<1>21. CASE Fail(r)
  BY <1>0, <1>21 DEF TypeOK, Fail, data, locals, Frame, Local
<1> QED
  BY <1>1, <1>2, <1>3, <1>4, <1>5, <1>6, <1>7, <1>8, <1>9, <1>10, <1>11,
     <1>12, <1>13, <1>14, <1>15, <1>16, <1>17, <1>18, <1>19, <1>20, <1>21 DEF Step

LEMMA OthersKnow ==
    ASSUME IInv, NEW r \in Req, Frame(r)
    PROVE  \A q \in Req \ {r} : Knows(q)'
BY DEF IInv, Frame, Local, Knows

LEMMA BodyWith ==
    ASSUME NEW b \in Body, NEW x \in Req
    PROVE  [b EXCEPT !.contract = x] \in Body /\ [b EXCEPT !.rest = x] \in Body
BY DEF Body

LEMMA StepTypes ==
    ASSUME IInv, NEW r \in Req, Step(r)
    PROVE  TypeOK'
<1>0. TypeOK /\ Knows(r)
  BY DEF IInv
<1>1. CASE Optimize(r)
  BY <1>0, <1>1 DEF TypeOK, Optimize, Goto, data, PC
<1>2. CASE ReadLevel(r)
  BY <1>0, <1>2 DEF TypeOK, ReadLevel, Goto, data, PC
<1>3. CASE ReadMain(r)
  BY <1>0, <1>3, SubsystemsAreDistinct DEF TypeOK, ReadMain, Goto, data, PC
<1>4. CASE Assess(r)
  <2>1. todo[r] \in Seq(Sub) /\ todo[r] # << >>
    BY <1>0, <1>4 DEF TypeOK, Knows, Assess, Goto
  <2>2. Head(todo[r]) \in Sub /\ Tail(todo[r]) \in Seq(Sub)
    BY <2>1, ItemsOfTail
  <2>3. merge' \in [Req -> Seq(Sub)] /\ review' \in [Req -> Seq(Sub)]
    BY <1>0, <1>4, <2>2 DEF TypeOK, Assess
  <2>4. merge'[r] \in Seq(Sub)
    BY <2>3
  <2>5. todo' \in [Req -> Seq(Sub)]
    BY <1>0, <1>4, <2>2, <2>4 DEF TypeOK, Assess
  <2>6. pc' \in [Req -> PC]
    BY <1>0, <1>4 DEF TypeOK, Assess, Goto, PC
  <2> QED
    BY <1>0, <1>4, <2>3, <2>5, <2>6 DEF TypeOK, Assess, data
<1>5. CASE ApplyNext(r)
  <2>1. todo[r] \in Seq(Sub) /\ todo[r] # << >>
    BY <1>0, <1>5 DEF TypeOK, ApplyNext
  <2>2. Head(todo[r]) \in Sub /\ Tail(todo[r]) \in Seq(Sub)
    BY <2>1, ItemsOfTail
  <2>3. todo' \in [Req -> Seq(Sub)] /\ copy' \in [Req -> Body]
    BY <1>0, <1>5, <2>2 DEF TypeOK, ApplyNext
  <2>4. pc' = [pc EXCEPT ![r] = "writeBody"] \/ pc' = [pc EXCEPT ![r] = "apply"]
    BY <1>5 DEF ApplyNext, Goto
  <2>5. pc' \in [Req -> PC]
    BY <1>0, <2>4 DEF TypeOK, PC
  <2> QED
    BY <1>0, <1>5, <2>3, <2>5 DEF TypeOK, ApplyNext, data
<1>6. CASE WriteContract(r)
  <2>1. todo[r] \in Seq(Sub) /\ todo[r] # << >>
    BY <1>0, <1>6 DEF TypeOK, Knows, WriteContract, Goto
  <2>2. Head(todo[r]) \in Sub /\ Tail(todo[r]) \in Seq(Sub)
    BY <2>1, ItemsOfTail
  <2>3. Candidate(r) \in Req
    BY <1>0, <1>6 DEF Knows, WriteContract, Goto, Candidate, Proposal
  <2>4. [copy[r] EXCEPT !.contract = Candidate(r)] \in Body
    BY <1>0, <2>3, BodyWith DEF TypeOK
  <2> QED
    BY <1>0, <1>6, <2>2, <2>4 DEF TypeOK, WriteContract, Goto, locals, PC
<1>7. CASE MarkOrigin(r)
  <2>1. todo[r] \in Seq(Sub) /\ todo[r] # << >>
    BY <1>0, <1>7 DEF TypeOK, Knows, MarkOrigin, Goto
  <2>2. Head(todo[r]) \in Sub /\ Tail(todo[r]) \in Seq(Sub)
    BY <2>1, ItemsOfTail
  <2> QED
    BY <1>0, <1>7, <2>2 DEF TypeOK, MarkOrigin, Goto, PC
<1>8. CASE Applied(r)
  BY <1>0, <1>8 DEF TypeOK, Applied, Goto, data, locals, PC
<1>9. CASE RecordCommit(r)
  BY <1>0, <1>9 DEF TypeOK, RecordCommit, Goto, locals, PC
<1>10. CASE CreateBranch(r)
  BY <1>0, <1>10 DEF TypeOK, CreateBranch, Goto, data, PC
<1>11. CASE CreateProposal(r)
  <2>1. todo[r] \in Seq(Sub) /\ todo[r] # << >>
    BY <1>0, <1>11 DEF TypeOK, Knows, CreateProposal, Goto
  <2>2. Head(todo[r]) \in Sub /\ Tail(todo[r]) \in Seq(Sub)
    BY <2>1, ItemsOfTail
  <2>3. status' \in [Proposal -> {Nothing, "pending", "accepted", "rejected"}]
    BY <1>0, <1>11 DEF TypeOK, CreateProposal
  <2>4. todo' \in [Req -> Seq(Sub)]
    BY <1>0, <1>11, <2>2 DEF TypeOK, CreateProposal
  <2>5. pc' \in [Req -> PC]
    BY <1>0, <1>11 DEF TypeOK, CreateProposal, Goto, PC
  <2> QED
    BY <1>0, <1>11, <2>2, <2>3, <2>4, <2>5 DEF TypeOK, CreateProposal
<1>12. CASE \E p \in Proposal : GetProposal(r, p)
  <2> PICK p \in Proposal : GetProposal(r, p)
    BY <1>12
  <2>1. <<p[2]>> \in Seq(Sub)
    BY DEF Proposal
  <2> QED
    BY <1>0, <2>1 DEF TypeOK, GetProposal, Goto, data, PC
<1>13. CASE SetStatus(r)
  <2>1. subject[r] \in Proposal
    BY <1>0, <1>13 DEF Knows, SetStatus, Goto
  <2> QED
    BY <1>0, <1>13, <2>1 DEF TypeOK, SetStatus, Goto, locals, PC
<1>14. CASE ReadConfig(r)
  BY <1>0, <1>14 DEF TypeOK, ReadConfig, Goto, data, PC
<1>15. CASE \E new \in Level : WriteConfig(r, new)
  BY <1>0, <1>15, LevelAssumption DEF TypeOK, WriteConfig, Goto, PC
<1>16. CASE WriteAudit(r)
  BY <1>0, <1>16 DEF TypeOK, WriteAudit, Goto, locals, PC
<1>17. CASE \E s \in Sub : ReadBody(r, s)
  BY <1>0, <1>17 DEF TypeOK, ReadBody, Goto, data, PC
<1>18. CASE WriteBody(r)
  <2>1. subject[r] \in Sub
    BY <1>0, <1>18 DEF Knows, WriteBody, Goto
  <2>2. [copy[r] EXCEPT !.rest = r] \in Body
    BY <1>0, BodyWith DEF TypeOK
  <2> QED
    BY <1>0, <1>18, <2>1, <2>2 DEF TypeOK, WriteBody, Goto, locals, PC
<1>19. CASE \E s \in Sub : AddHazard(r, s)
  BY <1>0, <1>19 DEF TypeOK, AddHazard, Goto, locals, PC
<1>20. CASE \E s \in Sub : DeleteElement(r, s)
  <2>1. Empty \in Body
    BY DEF Empty, Body
  <2> QED
    BY <1>0, <1>20, <2>1 DEF TypeOK, DeleteElement, Goto, locals, PC
<1>21. CASE Fail(r)
  BY <1>0, <1>21 DEF TypeOK, Fail, data, locals, PC
<1> QED
  BY <1>1, <1>2, <1>3, <1>4, <1>5, <1>6, <1>7, <1>8, <1>9, <1>10, <1>11,
     <1>12, <1>13, <1>14, <1>15, <1>16, <1>17, <1>18, <1>19, <1>20, <1>21 DEF Step

LEMMA StepKnows ==
    ASSUME IInv, NEW r \in Req, Step(r)
    PROVE  Knows(r)'
<1>0. TypeOK /\ Knows(r) /\ Frame(r)
  BY StepFrame DEF IInv
<1>1. CASE Optimize(r)
  BY <1>0, <1>1 DEF TypeOK, Knows, Optimize, Goto, data
<1>2. CASE ReadLevel(r)
  BY <1>0, <1>2 DEF TypeOK, Knows, ReadLevel, Goto, data
<1>3. CASE ReadMain(r)
  BY <1>0, <1>3, SubsystemsAssumption DEF TypeOK, Knows, ReadMain, Goto, data
<1>4. CASE Assess(r)
  BY <1>0, <1>4 DEF TypeOK, Knows, Assess, Goto, data
<1>5. CASE ApplyNext(r)
  BY <1>0, <1>5 DEF TypeOK, Knows, ApplyNext, Goto, data
<1>6. CASE WriteContract(r)
  BY <1>0, <1>6 DEF TypeOK, Knows, WriteContract, Goto, locals
<1>7. CASE MarkOrigin(r)
  BY <1>0, <1>7 DEF TypeOK, Knows, MarkOrigin, Goto
<1>8. CASE Applied(r)
  BY <1>0, <1>8 DEF TypeOK, Knows, Applied, Goto, data, locals
<1>9. CASE RecordCommit(r)
  BY <1>0, <1>9 DEF TypeOK, Knows, RecordCommit, Goto, locals
<1>10. CASE CreateBranch(r)
  BY <1>0, <1>10 DEF TypeOK, Knows, CreateBranch, Goto, data
<1>11. CASE CreateProposal(r)
  BY <1>0, <1>11 DEF TypeOK, Knows, CreateProposal, Goto
<1>12. CASE \E p \in Proposal : GetProposal(r, p)
  BY <1>0, <1>12 DEF TypeOK, Knows, GetProposal, Goto, data
<1>13. CASE SetStatus(r)
  <2>1. subject[r] \in Proposal /\ status[subject[r]] # Nothing
    BY <1>0, <1>13 DEF Knows, SetStatus, Goto
  <2>2. status'[subject[r]] # Nothing
    BY <1>0, <2>1 DEF Frame
  <2> QED
    BY <1>0, <1>13, <2>1, <2>2 DEF TypeOK, Knows, SetStatus, Goto, locals
<1>14. CASE ReadConfig(r)
  BY <1>0, <1>14 DEF TypeOK, Knows, ReadConfig, Goto, data
<1>15. CASE \E new \in Level : WriteConfig(r, new)
  BY <1>0, <1>15 DEF TypeOK, Knows, WriteConfig, Goto
<1>16. CASE WriteAudit(r)
  BY <1>0, <1>16 DEF TypeOK, Knows, WriteAudit, Goto, locals
<1>17. CASE \E s \in Sub : ReadBody(r, s)
  BY <1>0, <1>17 DEF TypeOK, Knows, ReadBody, Goto, data
<1>18. CASE WriteBody(r)
  BY <1>0, <1>18 DEF TypeOK, Knows, WriteBody, Goto, locals
<1>19. CASE \E s \in Sub : AddHazard(r, s)
  BY <1>0, <1>19 DEF TypeOK, Knows, AddHazard, Goto, locals
<1>20. CASE \E s \in Sub : DeleteElement(r, s)
  BY <1>0, <1>20 DEF TypeOK, Knows, DeleteElement, Goto, locals
<1>21. CASE Fail(r)
  BY <1>0, <1>21 DEF TypeOK, Knows, Fail, data, locals
<1> QED
  BY <1>1, <1>2, <1>3, <1>4, <1>5, <1>6, <1>7, <1>8, <1>9, <1>10, <1>11,
     <1>12, <1>13, <1>14, <1>15, <1>16, <1>17, <1>18, <1>19, <1>20, <1>21 DEF Step

LEMMA StepIInv == 
    ASSUME IInv, NEW r \in Req, Step(r)
    PROVE  IInv'
<1>1. TypeOK' /\ Knows(r)'
  BY StepTypes, StepKnows
<1>2. \A q \in Req \ {r} : Knows(q)'
  BY StepFrame, OthersKnow
<1> QED
  BY <1>1, <1>2 DEF IInv

LEMMA InitIInv == Init => IInv
<1> SUFFICES ASSUME Init PROVE IInv
  OBVIOUS
<1>1. TypeOK
  BY MayAssumption DEF Init, TypeOK, Default, Setting, Empty, Body, PC
<1>2. \A r \in Req : Knows(r)
  BY DEF Init, Knows
<1> QED
  BY <1>1, <1>2 DEF IInv

LEMMA NextIInv == IInv /\ [Next]_vars => IInv'
<1> SUFFICES ASSUME IInv, [Next]_vars PROVE IInv'
  OBVIOUS
<1>1. CASE Next
  BY <1>1, NextIsStep, StepIInv
<1>2. CASE UNCHANGED vars
  BY <1>2 DEF IInv, TypeOK, Knows, vars, data, locals
<1> QED
  BY <1>1, <1>2

(* Every row and every local of a request keeps its type: a contract names   *)
(* the request whose candidate it is, a status is one of three, and what     *)
(* carries an origin is there.                                               *)
THEOREM TypeCorrect == Spec => []TypeOK
<1>1. IInv => TypeOK
  BY DEF IInv
<1> QED
  BY <1>1, InitIInv, NextIInv, PTL DEF Spec

-----------------------------------------------------------------------------
(* A propose goes through the subsystems once: it decides about each of them *)
(* and then writes what may be merged, and files the rest.                   *)

LEMMA OthersDispose ==
    ASSUME DInv, NEW r \in Req, Frame(r)
    PROVE  \A q \in Req \ {r} : Disposes(q)'
<1> SUFFICES ASSUME NEW q \in Req \ {r} PROVE Disposes(q)'
  OBVIOUS
<1>1. Disposes(q) /\ Local(q)' = Local(q) /\ elements' \subseteq elements /\ call' = call
  BY DEF DInv, Frame
<1>2. Filed(q)' = Filed(q)
  BY DEF Filed, Frame, Proposal
<1> QED
  BY <1>1, <1>2 DEF Disposes, Local

LEMMA StepDisposes ==
    ASSUME DInv, NEW r \in Req, Step(r)
    PROVE  Disposes(r)'
<1>0. TypeOK /\ Knows(r) /\ Disposes(r) /\ Frame(r)
  BY StepFrame DEF DInv, IInv
<1>1. CASE Optimize(r)
  <2>1. call[r] = "propose" => Filed(r)' = Filed(r)
    BY <1>0, <1>1 DEF Filed, Optimize, Goto, data
  <2> QED
    BY <1>0, <1>1, <2>1 DEF TypeOK, Knows, Disposes, Optimize, Goto, data
<1>2. CASE ReadLevel(r)
  <2>1. call[r] = "propose" => Filed(r)' = Filed(r)
    BY <1>0, <1>2 DEF Filed, ReadLevel, Goto, data
  <2> QED
    BY <1>0, <1>2, <2>1 DEF TypeOK, Knows, Disposes, ReadLevel, Goto, data
<1>3. CASE ReadMain(r)
  <2>1. call[r] = "propose" /\ todo'[r] = Subsystems /\ pc'[r] = "assess" /\ wrote'[r] = {}
        /\ merge'[r] = << >> /\ review'[r] = << >> /\ elements' = elements
    BY <1>0, <1>3 DEF TypeOK, Knows, ReadMain, Goto, data
  <2>2. Filed(r)' = Filed(r)
    BY <1>3 DEF Filed, ReadMain, data
  <2>3. elements \subseteq Items(Subsystems)
    BY <1>0, SubsystemsAreDistinct DEF TypeOK
  <2>4. Filed(r) \subseteq Items(review[r]) /\ review[r] = << >>
    BY <1>0, <1>3, <2>1 DEF Disposes, Knows, ReadMain, Goto
  <2> QED
    BY <2>1, <2>2, <2>3, <2>4, SubsystemsAreDistinct, ItemsOfEmpty DEF Disposes
<1>4. CASE Assess(r)
  <2>1. todo[r] \in Seq(Sub) /\ todo[r] # << >>
    BY <1>0, <1>4 DEF TypeOK, Knows, Assess, Goto
  <2>2. /\ Head(todo[r]) \in Sub /\ Tail(todo[r]) \in Seq(Sub)
        /\ Items(todo[r]) = {Head(todo[r])} \cup Items(Tail(todo[r]))
        /\ Distinct(todo[r]) => Distinct(Tail(todo[r])) /\ Head(todo[r]) \notin Items(Tail(todo[r]))
    BY <2>1, ItemsOfTail
  <2> DEFINE s == Head(todo[r])
             left == Tail(todo[r])
  <2>3. call[r] = "propose" /\ pc[r] = "assess"
    BY <1>0, <1>4 DEF Knows, Assess
  <2>4. /\ Distinct(left) /\ s \notin Items(left) /\ Items(todo[r]) = {s} \cup Items(left)
        /\ Items(todo[r]) \cap (Items(merge[r]) \cup Items(review[r])) = {}
        /\ elements \subseteq Items(todo[r]) \cup Items(merge[r]) \cup Items(review[r])
        /\ Items(merge[r]) \cap Items(review[r]) = {} /\ Filed(r) \subseteq Items(review[r])
        /\ wrote[r] = {} /\ Filed(r) = {} /\ Distinct(review[r])
    BY <1>0, <2>2, <2>3 DEF Disposes
  <2>5. /\ merge[r] \in Seq(Sub) /\ review[r] \in Seq(Sub)
        /\ Items(Append(merge[r], s)) = Items(merge[r]) \cup {s}
        /\ Items(Append(review[r], s)) = Items(review[r]) \cup {s}
        /\ Distinct(review[r]) /\ s \notin Items(review[r]) => Distinct(Append(review[r], s))
    BY <1>0, <2>2, ItemsOfAppend DEF TypeOK
  <2>6. \/ s \in elements /\ merge'[r] = Append(merge[r], s) /\ review'[r] = review[r]
        \/ s \in elements /\ merge'[r] = merge[r] /\ review'[r] = Append(review[r], s)
        \/ s \notin elements /\ merge'[r] = merge[r] /\ review'[r] = review[r]
    BY <1>0, <1>4 DEF TypeOK, Assess
  <2>7. /\ todo'[r] = IF left # << >> THEN left ELSE merge'[r]
        /\ pc'[r] = IF left # << >> THEN "assess" ELSE IF merge'[r] # << >> THEN "apply" ELSE "branch"
        /\ UNCHANGED <<elements, wrote, call, status>>
    BY <1>0, <1>4 DEF TypeOK, Assess, Goto, data
  <2>8. Filed(r)' = Filed(r)
    BY <2>7 DEF Filed
  <2> HIDE DEF s, left
  <2>9. /\ Items(merge'[r]) \cap Items(review'[r]) = {}
        /\ Items(left) \cap (Items(merge'[r]) \cup Items(review'[r])) = {}
        /\ elements \subseteq Items(left) \cup Items(merge'[r]) \cup Items(review'[r])
        /\ Filed(r)' = {} /\ Distinct(review'[r])
    BY <2>4, <2>5, <2>6, <2>8
  <2>10. left = << >> => Items(left) = {}
    BY ItemsOfEmpty
  <2>11. CASE left # << >>
    BY <2>4, <2>7, <2>9, <2>11 DEF Disposes
  <2>12. CASE left = << >>
    <3>1. merge'[r] = << >> => Items(merge'[r]) = {}
      BY ItemsOfEmpty
    <3> QED
      BY <2>4, <2>7, <2>9, <2>10, <2>12, <3>1 DEF Disposes
  <2> QED
    BY <2>11, <2>12
<1>5. CASE ApplyNext(r)
  <2>1. todo[r] \in Seq(Sub) /\ todo[r] # << >> /\ pc[r] = "apply"
    BY <1>0, <1>5 DEF TypeOK, ApplyNext, Goto
  <2>2. Items(todo[r]) = {Head(todo[r])} \cup Items(Tail(todo[r]))
    BY <2>1, ItemsOfTail
  <2>3. \/ pc'[r] = "writeBody" /\ todo'[r] = todo[r]
        \/ pc'[r] = "apply" /\ todo'[r] = Tail(todo[r]) /\ Head(todo[r]) \notin elements
    BY <1>0, <1>5 DEF TypeOK, ApplyNext, Goto
  <2>4. UNCHANGED <<elements, wrote, call, status, merge, review>>
    BY <1>5 DEF ApplyNext, data
  <2>5. Filed(r)' = Filed(r)
    BY <2>4 DEF Filed
  <2> QED
    BY <1>0, <2>1, <2>2, <2>3, <2>4, <2>5 DEF Disposes
<1>6. CASE WriteContract(r)
  <2>1. call[r] = "propose" => Filed(r)' = Filed(r)
    BY <1>0, <1>6 DEF Filed, WriteContract, Goto, locals
  <2> QED
    BY <1>0, <1>6, <2>1 DEF TypeOK, Knows, Disposes, WriteContract, Goto, locals
<1>7. CASE MarkOrigin(r)
  <2>1. todo[r] \in Seq(Sub) /\ todo[r] # << >>
    BY <1>0, <1>7 DEF TypeOK, Knows, MarkOrigin, Goto
  <2>2. /\ Head(todo[r]) \in Sub /\ Tail(todo[r]) \in Seq(Sub)
        /\ Items(todo[r]) = {Head(todo[r])} \cup Items(Tail(todo[r]))
    BY <2>1, ItemsOfTail
  <2>3. \/ pc'[r] = "apply" /\ todo'[r] = Tail(todo[r]) /\ wrote'[r] = wrote[r] \cup {Head(todo[r])}
        \/ pc'[r] = "failed" /\ todo'[r] = todo[r] /\ wrote'[r] = wrote[r]
    BY <1>0, <1>7 DEF TypeOK, MarkOrigin, Goto
  <2>4. UNCHANGED <<elements, call, status, merge, review>> /\ pc[r] = "mark"
    BY <1>7 DEF MarkOrigin, Goto
  <2>5. Filed(r)' = Filed(r)
    BY <2>4 DEF Filed
  <2> QED
    BY <1>0, <2>2, <2>3, <2>4, <2>5 DEF Disposes
<1>8. CASE Applied(r)
  <2>1. Items(todo[r]) = {} /\ pc[r] = "apply" /\ pc'[r] # "file"
        /\ pc'[r] \in {"commit", "branch", "setStatus"}
    BY <1>0, <1>8, ItemsOfEmpty DEF TypeOK, Applied, Goto
  <2>2. UNCHANGED <<elements, call, status, merge, review, wrote, todo>>
    BY <1>8 DEF Applied, data, locals
  <2>3. Filed(r)' = Filed(r)
    BY <2>2 DEF Filed
  <2> QED
    BY <1>0, <2>1, <2>2, <2>3 DEF Disposes
<1>9. CASE RecordCommit(r)
  <2>1. call[r] = "propose" => Filed(r)' = Filed(r)
    BY <1>0, <1>9 DEF Filed, RecordCommit, Goto, locals
  <2> QED
    BY <1>0, <1>9, <2>1 DEF TypeOK, Knows, Disposes, RecordCommit, Goto, locals
<1>10. CASE CreateBranch(r)
  <2>1. /\ pc[r] = "branch" /\ todo'[r] = review[r]
        /\ pc'[r] = IF review[r] # << >> THEN "file" ELSE "done"
        /\ UNCHANGED <<elements, call, status, merge, review, wrote>>
    BY <1>0, <1>10 DEF TypeOK, CreateBranch, Goto, data
  <2>2. Filed(r)' = Filed(r)
    BY <2>1 DEF Filed
  <2>3. review[r] = << >> => Items(review[r]) = {}
    BY ItemsOfEmpty
  <2> QED
    BY <1>0, <2>1, <2>2, <2>3 DEF Disposes
<1>11. CASE CreateProposal(r)
  <2>1. todo[r] \in Seq(Sub) /\ todo[r] # << >>
    BY <1>0, <1>11 DEF TypeOK, Knows, CreateProposal, Goto
  <2>2. /\ Head(todo[r]) \in Sub /\ Tail(todo[r]) \in Seq(Sub)
        /\ Items(todo[r]) = {Head(todo[r])} \cup Items(Tail(todo[r]))
        /\ Distinct(todo[r]) => Distinct(Tail(todo[r])) /\ Head(todo[r]) \notin Items(Tail(todo[r]))
    BY <2>1, ItemsOfTail
  <2>3. Filed(r)' = Filed(r) \cup {Head(todo[r])}
    <3>1. \A s \in Sub : <<r, s>> \in Proposal
      BY DEF Proposal
    <3>2. \A s \in Sub : status'[<<r, s>>] = IF s = Head(todo[r]) THEN "pending" ELSE status[<<r, s>>]
      BY <1>0, <1>11, <2>2, <3>1 DEF TypeOK, CreateProposal
    <3> QED
      BY <2>2, <3>2, NothingAssumption DEF Filed
  <2>4. /\ pc[r] = "file" /\ todo'[r] = Tail(todo[r])
        /\ pc'[r] = IF Tail(todo[r]) # << >> THEN "file" ELSE "done"
        /\ UNCHANGED <<elements, call, merge, review, wrote>>
    BY <1>0, <1>11 DEF TypeOK, CreateProposal, Goto
  <2>5. Tail(todo[r]) = << >> => Items(Tail(todo[r])) = {}
    BY ItemsOfEmpty
  <2> QED
    BY <1>0, <2>2, <2>3, <2>4, <2>5 DEF Disposes
<1>12. CASE \E p \in Proposal : GetProposal(r, p)
  <2>1. call[r] # "propose" /\ call' = call
    BY <1>12 DEF GetProposal
  <2> QED
    BY <2>1 DEF Disposes
<1>13. CASE SetStatus(r)
  <2>1. call[r] # "propose" /\ call' = call
    BY <1>0, <1>13 DEF Knows, SetStatus, Goto, locals
  <2> QED
    BY <2>1 DEF Disposes
<1>14. CASE ReadConfig(r)
  <2>1. call[r] = "propose" => Filed(r)' = Filed(r)
    BY <1>0, <1>14 DEF Filed, ReadConfig, Goto, data
  <2> QED
    BY <1>0, <1>14, <2>1 DEF TypeOK, Knows, Disposes, ReadConfig, Goto, data
<1>15. CASE \E new \in Level : WriteConfig(r, new)
  <2>1. call[r] = "propose" => Filed(r)' = Filed(r)
    BY <1>0, <1>15 DEF Filed, WriteConfig, Goto
  <2> QED
    BY <1>0, <1>15, <2>1 DEF TypeOK, Knows, Disposes, WriteConfig, Goto
<1>16. CASE WriteAudit(r)
  <2>1. call[r] # "propose" /\ call' = call
    BY <1>0, <1>16 DEF Knows, WriteAudit, Goto, locals
  <2> QED
    BY <2>1 DEF Disposes
<1>17. CASE \E s \in Sub : ReadBody(r, s)
  <2>1. call[r] = "propose" => Filed(r)' = Filed(r)
    BY <1>0, <1>17 DEF Filed, ReadBody, Goto, data
  <2> QED
    BY <1>0, <1>17, <2>1 DEF TypeOK, Knows, Disposes, ReadBody, Goto, data
<1>18. CASE WriteBody(r)
  <2>1. call[r] = "propose" => Filed(r)' = Filed(r)
    BY <1>0, <1>18 DEF Filed, WriteBody, Goto, locals
  <2> QED
    BY <1>0, <1>18, <2>1 DEF TypeOK, Knows, Disposes, WriteBody, Goto, locals
<1>19. CASE \E s \in Sub : AddHazard(r, s)
  <2>1. call[r] = "propose" => Filed(r)' = Filed(r)
    BY <1>0, <1>19 DEF Filed, AddHazard, Goto, locals
  <2> QED
    BY <1>0, <1>19, <2>1 DEF TypeOK, Knows, Disposes, AddHazard, Goto, locals
<1>20. CASE \E s \in Sub : DeleteElement(r, s)
  <2>1. call[r] = "propose" => Filed(r)' = Filed(r)
    BY <1>0, <1>20 DEF Filed, DeleteElement, Goto, locals
  <2> QED
    BY <1>0, <1>20, <2>1 DEF TypeOK, Knows, Disposes, DeleteElement, Goto, locals
<1>21. CASE Fail(r)
  <2>1. call[r] = "propose" => Filed(r)' = Filed(r)
    BY <1>0, <1>21 DEF Filed, Fail, data, locals
  <2> QED
    BY <1>0, <1>21, <2>1 DEF TypeOK, Knows, Disposes, Fail, data, locals
<1> QED
  BY <1>1, <1>2, <1>3, <1>4, <1>5, <1>6, <1>7, <1>8, <1>9, <1>10, <1>11,
     <1>12, <1>13, <1>14, <1>15, <1>16, <1>17, <1>18, <1>19, <1>20, <1>21 DEF Step

LEMMA StepDInv ==
    ASSUME DInv, NEW r \in Req, Step(r)
    PROVE  DInv'
<1>1. IInv'
  BY StepIInv DEF DInv
<1>2. Disposes(r)'
  BY StepDisposes
<1>3. \A q \in Req \ {r} : Disposes(q)'
  BY StepFrame, OthersDispose DEF DInv
<1> QED
  BY <1>1, <1>2, <1>3 DEF DInv

LEMMA NextDInv == DInv /\ [Next]_vars => DInv'
<1> SUFFICES ASSUME DInv, [Next]_vars PROVE DInv'
  OBVIOUS
<1>1. IInv'
  BY NextIInv DEF DInv
<1>2. CASE Next
  BY <1>2, NextIsStep, StepDInv
<1>3. CASE UNCHANGED vars
  <2>1. \A r \in Req : Filed(r)' = Filed(r)
    BY <1>3 DEF Filed, vars, data
  <2> QED
    BY <1>1, <1>3, <2>1 DEF DInv, Disposes, vars, data, locals
<1> QED
  BY <1>2, <1>3

LEMMA InitDInv == Init => DInv
<1> SUFFICES ASSUME Init PROVE DInv
  OBVIOUS
<1>1. \A r \in Req : Filed(r) = {}
  BY DEF Init, Filed, Proposal
<1> QED
  BY <1>1, InitIInv, ItemsOfEmpty DEF Init, DInv, Disposes

(* A propose that is done has merged or filed each subsystem that is still   *)
(* there, and none both ways, whatever was edited, deleted or found          *)
(* hazardous between its assessment and its writes (mode_b.rs:305-420).      *)
THEOREM SubsystemsAreDisposed == Spec => []EverySubsystemDisposed
<1>1. DInv => EverySubsystemDisposed
  <2> SUFFICES ASSUME DInv, NEW r \in Req, call[r] = "propose", pc[r] = "done", NEW s \in Sub
               PROVE  /\ ~(status[<<r, s>>] # Nothing /\ s \in wrote[r])
                      /\ s \in elements => status[<<r, s>>] # Nothing \/ s \in wrote[r]
    BY DEF EverySubsystemDisposed
  <2>1. Disposes(r) /\ (s \in Filed(r) <=> status[<<r, s>>] # Nothing)
    BY DEF DInv, Filed
  <2> QED
    BY <2>1 DEF Disposes
<1> QED
  BY <1>1, InitDInv, NextDInv, PTL DEF Spec

-----------------------------------------------------------------------------
(* Only three actions write a body.                                          *)

Mine(s) ==
    body'[s].rest # body[s].rest =>
        \/ s \notin elements'
        \/ \E r \in Req :
              \/ call[r] = "edit" /\ body'[s].rest = r
              \/ pc[r] = "writeBody" /\ copy[r].rest # body[s].rest

LEMMA StepKeepsOthers ==
    ASSUME IInv, NEW r \in Req, Step(r), NEW t \in Sub
    PROVE  Mine(t)
<1>0. TypeOK /\ Knows(r)
  BY DEF IInv
<1>1. CASE Optimize(r)
  BY <1>0, <1>1 DEF Optimize, Goto, data, Mine
<1>2. CASE ReadLevel(r)
  BY <1>0, <1>2 DEF ReadLevel, Goto, data, Mine
<1>3. CASE ReadMain(r)
  BY <1>0, <1>3 DEF ReadMain, Goto, data, Mine
<1>4. CASE Assess(r)
  BY <1>0, <1>4 DEF Assess, Goto, data, Mine
<1>5. CASE ApplyNext(r)
  BY <1>0, <1>5 DEF ApplyNext, Goto, data, Mine
<1>6. CASE WriteContract(r)
  <2>1. copy[r] \in Body /\ pc[r] = "writeBody"
    BY <1>0, <1>6 DEF TypeOK, WriteContract, Goto
  <2>2. [copy[r] EXCEPT !.contract = Candidate(r)].rest = copy[r].rest
    BY <2>1 DEF Body
  <2>3. body'[t] = body[t] \/ body'[t].rest = copy[r].rest
    BY <1>0, <1>6, <2>2 DEF TypeOK, WriteContract
  <2> QED
    BY <2>1, <2>3 DEF Mine
<1>7. CASE MarkOrigin(r)
  BY <1>0, <1>7 DEF MarkOrigin, Goto, Mine
<1>8. CASE Applied(r)
  BY <1>0, <1>8 DEF Applied, Goto, data, locals, Mine
<1>9. CASE RecordCommit(r)
  BY <1>0, <1>9 DEF RecordCommit, Goto, locals, Mine
<1>10. CASE CreateBranch(r)
  BY <1>0, <1>10 DEF CreateBranch, Goto, data, Mine
<1>11. CASE CreateProposal(r)
  BY <1>0, <1>11 DEF CreateProposal, Goto, Mine
<1>12. CASE \E p \in Proposal : GetProposal(r, p)
  BY <1>0, <1>12 DEF GetProposal, Goto, data, Mine
<1>13. CASE SetStatus(r)
  BY <1>0, <1>13 DEF SetStatus, Goto, locals, Mine
<1>14. CASE ReadConfig(r)
  BY <1>0, <1>14 DEF ReadConfig, Goto, data, Mine
<1>15. CASE \E new \in Level : WriteConfig(r, new)
  BY <1>0, <1>15 DEF WriteConfig, Goto, Mine
<1>16. CASE WriteAudit(r)
  BY <1>0, <1>16 DEF WriteAudit, Goto, locals, Mine
<1>17. CASE \E s \in Sub : ReadBody(r, s)
  BY <1>0, <1>17 DEF ReadBody, Goto, data, Mine
<1>18. CASE WriteBody(r)
  <2>1. copy[r] \in Body /\ call[r] = "edit"
    BY <1>0, <1>18 DEF TypeOK, WriteBody
  <2>2. [copy[r] EXCEPT !.rest = r].rest = r
    BY <2>1 DEF Body
  <2>3. body'[t] = body[t] \/ body'[t].rest = r
    BY <1>0, <1>18, <2>2 DEF TypeOK, WriteBody
  <2> QED
    BY <2>1, <2>3 DEF Mine
<1>19. CASE \E s \in Sub : AddHazard(r, s)
  BY <1>0, <1>19 DEF AddHazard, Goto, locals, Mine
<1>20. CASE \E s \in Sub : DeleteElement(r, s)
  <2> PICK s \in Sub : DeleteElement(r, s)
    BY <1>20
  <2>1. body'[t] = body[t] \/ t = s
    BY <1>0 DEF TypeOK, DeleteElement
  <2>2. s \notin elements'
    BY DEF DeleteElement
  <2> QED
    BY <2>1, <2>2 DEF Mine
<1>21. CASE Fail(r)
  BY <1>0, <1>21 DEF Fail, data, locals, Mine
<1> QED
  BY <1>1, <1>2, <1>3, <1>4, <1>5, <1>6, <1>7, <1>8, <1>9, <1>10, <1>11,
     <1>12, <1>13, <1>14, <1>15, <1>16, <1>17, <1>18, <1>19, <1>20, <1>21 DEF Step

(* What people put into a body is only replaced by another edit, by the      *)
(* deletion of the subsystem, or by a merge that read the body before it was *)
(* put there (upsert_subsystem_contract, mode_b.rs:123).                     *)
THEOREM MergesKeepOthersProperties == Spec => OthersPropertiesKept
<1>1. ASSUME IInv, [Next]_vars
      PROVE  [\A s \in Sub : Mine(s)]_vars
  BY <1>1, NextIsStep, StepKeepsOthers
<1>2. OthersPropertiesKept <=> [][\A s \in Sub : Mine(s)]_vars
  BY PTL DEF OthersPropertiesKept, Mine
<1> QED
  BY <1>1, <1>2, InitIInv, NextIInv, PTL DEF Spec

-----------------------------------------------------------------------------
(* A proposal's status is what the reviewer who was done made it.            *)

(* A step of r that gives no verdict.                                        *)
Undecided(r) ==
    /\ raced' = raced /\ call' = call
    /\ \A p \in Proposal : status[p] # Nothing => status'[p] = status[p]
    /\ \A q \in Req \ {r} : Local(q)' = Local(q)
    /\ call[r] \in {"accept", "reject"} =>
          /\ pc[r] # "idle" => subject'[r] = subject[r] /\ pc[r] \notin {"done", "refused", "failed"}
          /\ pc'[r] \notin {"done", "refused", "idle"} /\ pc[r] # "idle"

LEMMA UndecidedRInv ==
    ASSUME RInv, NEW r \in Req, DInv', Undecided(r)
    PROVE  RInv'
<1>1. Knows(r) /\ \A q \in Req : Reviewing(q) /\ Knows(q)
  BY DEF RInv, DInv, IInv
<1>2. \A q \in Req : Reviewing(q)'
  BY <1>1 DEF Undecided, Local, Reviewing
<1>3. ASSUME NEW p \in Proposal PROVE Reviewed(p)'
  <2>1. CASE p \in raced
    BY <2>1 DEF Undecided, Reviewed
  <2>2. CASE p \notin raced
    <3>1. /\ \A q \in Req : Deciding(q, p) => status[p] = "pending"
          /\ \A q \in Req : Reviews(q, p) /\ pc[q] = "done" => status[p] = Verdict(q)
          /\ \A q, s \in Req :
                Reviews(q, p) /\ pc[q] = "done" /\ Reviews(s, p) /\ pc[s] = "done" => q = s
      BY <2>2 DEF RInv, Reviewed
    <3>2. \A q \in Req : Deciding(q, p)' => Deciding(q, p)
      BY DEF Undecided, Local, Deciding
    <3>3. \A q \in Req : Reviews(q, p)' /\ pc'[q] = "done" => Reviews(q, p) /\ pc[q] = "done"
      BY DEF Undecided, Local, Reviews
    <3>4. \A q \in Req : Verdict(q)' = Verdict(q)
      BY DEF Undecided, Verdict
    <3>5. (\E q \in Req : Deciding(q, p) \/ (Reviews(q, p) /\ pc[q] = "done")) => status'[p] = status[p]
      <4>1. ASSUME NEW q \in Req, Deciding(q, p) \/ (Reviews(q, p) /\ pc[q] = "done")
            PROVE  status[p] # Nothing
        BY <1>1, <4>1 DEF Deciding, Reviews, Knows
      <4> QED
        BY <4>1 DEF Undecided
    <3> QED
      BY <3>1, <3>2, <3>3, <3>4, <3>5 DEF Reviewed
  <2> QED
    BY <2>1, <2>2
<1> QED
  BY <1>2, <1>3 DEF RInv

LEMMA GetProposalRInv ==
    ASSUME RInv, NEW r \in Req, NEW p \in Proposal, GetProposal(r, p), DInv'
    PROVE  RInv'
<1>1. /\ UNCHANGED <<call, status, wrote, raced>> /\ pc[r] = "idle" /\ subject'[r] = p
      /\ pc'[r] = "refused" \/ (status[p] = "pending" /\ pc'[r] \in {"apply", "setStatus"})
      /\ \A q \in Req \ {r} : Local(q)' = Local(q)
  BY DEF RInv, DInv, IInv, TypeOK, GetProposal, Goto, data, Local
<1>2. \A q \in Req : Reviewing(q)'
  BY <1>1 DEF RInv, Reviewing, Local
<1>3. ASSUME NEW x \in Proposal PROVE Reviewed(x)'
  <2>1. Reviewed(x)
    BY DEF RInv
  <2>2. \A q \in Req : Deciding(q, x)' => Deciding(q, x) \/ status[x] = "pending"
    BY <1>1 DEF Deciding, Local
  <2>3. \A q \in Req : Reviews(q, x)' /\ pc'[q] = "done" => Reviews(q, x) /\ pc[q] = "done"
    BY <1>1 DEF Reviews, Local
  <2> QED
    BY <1>1, <2>1, <2>2, <2>3 DEF Reviewed, Verdict
<1> QED
  BY <1>2, <1>3 DEF RInv

LEMMA SetStatusRInv ==
    ASSUME RInv, NEW r \in Req, SetStatus(r), DInv'
    PROVE  RInv'
<1> PICK p : p = subject[r]
  OBVIOUS
<1>1. /\ p \in Proposal /\ Reviews(r, p) /\ Deciding(r, p)
      /\ UNCHANGED <<call, subject, wrote>>
      /\ pc'[r] = "done" /\ \A q \in Req \ {r} : pc'[q] = pc[q]
  BY DEF RInv, DInv, IInv, TypeOK, Knows, SetStatus, Goto, locals, Reviews, Deciding
<1>2. status'[p] = Verdict(r) /\ \A x \in Proposal : x # p => status'[x] = status[x]
  BY <1>1 DEF RInv, DInv, IInv, TypeOK, SetStatus, Verdict
<1>3. raced' = IF \E q \in Req \ {r} : Deciding(q, p) THEN raced \cup {p} ELSE raced
  BY DEF SetStatus
<1>4. \A q \in Req : Reviewing(q)'
  BY <1>1 DEF RInv, Reviewing
<1>5. ASSUME NEW x \in Proposal, x # p PROVE Reviewed(x)'
  <2>1. Reviewed(x)
    BY DEF RInv
  <2>2. \A q \in Req : (Deciding(q, x)' => Deciding(q, x)) /\ (Reviews(q, x)' <=> Reviews(q, x))
        /\ (Reviews(q, x) /\ pc'[q] = "done" => pc[q] = "done")
    BY <1>1, <1>5 DEF Deciding, Reviews
  <2>3. x \notin raced' => x \notin raced
    BY <1>3
  <2> QED
    BY <1>1, <1>2, <1>5, <2>1, <2>2, <2>3 DEF Reviewed, Verdict
<1>6. Reviewed(p)'
  <2> SUFFICES ASSUME p \notin raced' PROVE Reviewed(p)'
    BY DEF Reviewed
  <2>1. p \notin raced /\ \A q \in Req \ {r} : ~ Deciding(q, p)
    BY <1>3
  <2>2. status[p] = "pending"
    BY <1>1, <2>1 DEF RInv, Reviewed
  <2>3. \A q \in Req : ~ (Reviews(q, p) /\ pc[q] = "done")
    BY <1>1, <2>1, <2>2 DEF RInv, Reviewed, Verdict
  <2>4. \A q \in Req : ~ Deciding(q, p)'
    BY <1>1, <2>1 DEF Deciding
  <2>5. \A q \in Req : Reviews(q, p)' /\ pc'[q] = "done" => q = r
    BY <1>1, <2>3 DEF Reviews
  <2>6. Verdict(r)' = Verdict(r)
    BY <1>1 DEF Verdict
  <2> QED
    BY <1>2, <2>4, <2>5, <2>6 DEF Reviewed
<1> QED
  BY <1>4, <1>5, <1>6 DEF RInv

LEMMA StepRInv ==
    ASSUME RInv, NEW r \in Req, Step(r)
    PROVE  RInv'
<1>0. TypeOK /\ Knows(r) /\ Frame(r)
  BY StepFrame DEF RInv, DInv, IInv
<1>b. DInv'
  BY StepDInv DEF RInv
<1>1. CASE Optimize(r)
  <2>1. Undecided(r)
    BY <1>0, <1>1 DEF TypeOK, Knows, Optimize, Goto, data, Undecided, Local
  <2> QED
    BY <1>b, <2>1, UndecidedRInv
<1>2. CASE ReadLevel(r)
  <2>1. Undecided(r)
    BY <1>0, <1>2 DEF TypeOK, Knows, ReadLevel, Goto, data, Undecided, Local
  <2> QED
    BY <1>b, <2>1, UndecidedRInv
<1>3. CASE ReadMain(r)
  <2>1. Undecided(r)
    BY <1>0, <1>3 DEF TypeOK, Knows, ReadMain, Goto, data, Undecided, Local
  <2> QED
    BY <1>b, <2>1, UndecidedRInv
<1>4. CASE Assess(r)
  <2>1. Undecided(r)
    BY <1>0, <1>4 DEF TypeOK, Knows, Assess, Goto, data, Undecided, Local
  <2> QED
    BY <1>b, <2>1, UndecidedRInv
<1>5. CASE ApplyNext(r)
  <2>1. Undecided(r)
    BY <1>0, <1>5 DEF TypeOK, Knows, ApplyNext, Goto, data, Undecided, Local
  <2> QED
    BY <1>b, <2>1, UndecidedRInv
<1>6. CASE WriteContract(r)
  <2>1. Undecided(r)
    BY <1>0, <1>6 DEF TypeOK, Knows, WriteContract, Goto, locals, Undecided, Local
  <2> QED
    BY <1>b, <2>1, UndecidedRInv
<1>7. CASE MarkOrigin(r)
  <2>1. Undecided(r)
    BY <1>0, <1>7 DEF TypeOK, Knows, MarkOrigin, Goto, Undecided, Local
  <2> QED
    BY <1>b, <2>1, UndecidedRInv
<1>8. CASE Applied(r)
  <2>1. Undecided(r)
    BY <1>0, <1>8 DEF TypeOK, Knows, Applied, Goto, data, locals, Undecided, Local
  <2> QED
    BY <1>b, <2>1, UndecidedRInv
<1>9. CASE RecordCommit(r)
  <2>1. Undecided(r)
    BY <1>0, <1>9 DEF TypeOK, Knows, RecordCommit, Goto, locals, Undecided, Local
  <2> QED
    BY <1>b, <2>1, UndecidedRInv
<1>10. CASE CreateBranch(r)
  <2>1. Undecided(r)
    BY <1>0, <1>10 DEF TypeOK, Knows, CreateBranch, Goto, data, Undecided, Local
  <2> QED
    BY <1>b, <2>1, UndecidedRInv
<1>11. CASE CreateProposal(r)
  <2>1. call[r] = "propose" /\ <<r, Head(todo[r])>> \in Proposal /\ status[<<r, Head(todo[r])>>] = Nothing
    <3>1. pc[r] = "file" /\ call[r] = "propose" /\ todo[r] \in Seq(Sub) /\ todo[r] # << >>
      BY <1>0, <1>11 DEF TypeOK, Knows, CreateProposal, Goto
    <3>2. Head(todo[r]) \in Sub /\ Head(todo[r]) \in Items(todo[r])
      BY <3>1, ItemsOfTail
    <3>3. Items(todo[r]) \cap Filed(r) = {}
      BY <3>1 DEF RInv, DInv, Disposes
    <3> QED
      BY <3>1, <3>2, <3>3 DEF Filed, Proposal
  <2>2. Undecided(r)
    BY <1>0, <1>11, <2>1 DEF TypeOK, CreateProposal, Goto, Undecided, Local
  <2> QED
    BY <1>b, <2>2, UndecidedRInv
<1>12. CASE \E p \in Proposal : GetProposal(r, p)
  BY <1>b, <1>12, GetProposalRInv
<1>13. CASE SetStatus(r)
  BY <1>b, <1>13, SetStatusRInv
<1>14. CASE ReadConfig(r)
  <2>1. Undecided(r)
    BY <1>0, <1>14 DEF TypeOK, Knows, ReadConfig, Goto, data, Undecided, Local
  <2> QED
    BY <1>b, <2>1, UndecidedRInv
<1>15. CASE \E new \in Level : WriteConfig(r, new)
  <2>1. Undecided(r)
    BY <1>0, <1>15 DEF TypeOK, Knows, WriteConfig, Goto, Undecided, Local
  <2> QED
    BY <1>b, <2>1, UndecidedRInv
<1>16. CASE WriteAudit(r)
  <2>1. Undecided(r)
    BY <1>0, <1>16 DEF TypeOK, Knows, WriteAudit, Goto, locals, Undecided, Local
  <2> QED
    BY <1>b, <2>1, UndecidedRInv
<1>17. CASE \E s \in Sub : ReadBody(r, s)
  <2>1. Undecided(r)
    BY <1>0, <1>17 DEF TypeOK, Knows, ReadBody, Goto, data, Undecided, Local
  <2> QED
    BY <1>b, <2>1, UndecidedRInv
<1>18. CASE WriteBody(r)
  <2>1. Undecided(r)
    BY <1>0, <1>18 DEF TypeOK, Knows, WriteBody, Goto, locals, Undecided, Local
  <2> QED
    BY <1>b, <2>1, UndecidedRInv
<1>19. CASE \E s \in Sub : AddHazard(r, s)
  <2>1. Undecided(r)
    BY <1>0, <1>19 DEF TypeOK, Knows, AddHazard, Goto, locals, Undecided, Local
  <2> QED
    BY <1>b, <2>1, UndecidedRInv
<1>20. CASE \E s \in Sub : DeleteElement(r, s)
  <2>1. Undecided(r)
    BY <1>0, <1>20 DEF TypeOK, Knows, DeleteElement, Goto, locals, Undecided, Local
  <2> QED
    BY <1>b, <2>1, UndecidedRInv
<1>21. CASE Fail(r)
  <2>1. Undecided(r)
    BY <1>0, <1>21 DEF TypeOK, Knows, Fail, data, locals, Undecided, Local
  <2> QED
    BY <1>b, <2>1, UndecidedRInv
<1> QED
  BY <1>1, <1>2, <1>3, <1>4, <1>5, <1>6, <1>7, <1>8, <1>9, <1>10, <1>11,
     <1>12, <1>13, <1>14, <1>15, <1>16, <1>17, <1>18, <1>19, <1>20, <1>21 DEF Step

LEMMA NextRInv == RInv /\ [Next]_vars => RInv'
<1> SUFFICES ASSUME RInv, [Next]_vars PROVE RInv'
  OBVIOUS
<1>1. CASE Next
  BY <1>1, NextIsStep, StepRInv
<1>2. CASE UNCHANGED vars
  <2>1. DInv'
    BY NextDInv DEF RInv
  <2> QED
    BY <1>2, <2>1 DEF RInv, Reviewing, Reviewed, Reviews, Deciding, Verdict, vars, data, locals
<1> QED
  BY <1>1, <1>2

LEMMA InitRInv == Init => RInv
<1> SUFFICES ASSUME Init PROVE RInv
  OBVIOUS
<1>1. \A r \in Req : Reviewing(r)
  BY DEF Init, Reviewing
<1>2. \A p \in Proposal : Reviewed(p)
  BY DEF Init, Reviewed, Reviews, Deciding
<1> QED
  BY <1>1, <1>2, InitDInv DEF RInv

(* A proposal is written to main by one reviewer at most and never when it   *)
(* is rejected, unless two reviewers were at work on it at once or one       *)
(* stopped between its write and the status (mode_b.rs:462-535).             *)
THEOREM ProposalsAreDecidedOnce == Spec => []DecidedOnce
<1>1. RInv => DecidedOnce
  <2> SUFFICES ASSUME RInv, NEW p \in Proposal, p \notin raced,
                      \A r \in Req : Accepts(r, p) /\ p[2] \in wrote[r] => pc[r] = "done"
               PROVE  LET writers == {r \in Req : Accepts(r, p) /\ p[2] \in wrote[r]}
                      IN  /\ status[p] = "rejected" => writers = {}
                          /\ \A q, r \in writers : q = r
    BY DEF DecidedOnce
  <2>1. \A r \in Req : Accepts(r, p) /\ p[2] \in wrote[r] =>
           Reviews(r, p) /\ pc[r] = "done" /\ Verdict(r) = "accepted"
    BY DEF Accepts, Reviews, Verdict
  <2> QED
    BY <2>1 DEF RInv, Reviewed
<1> QED
  BY <1>1, InitRInv, NextRInv, PTL DEF Spec

=============================================================================
