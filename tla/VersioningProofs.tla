-------------------------- MODULE VersioningProofs --------------------------
(***************************************************************************)
(* What holds of Versioning for every set of requests, branch names and    *)
(* diffs.  The inductive invariant adds to the chain's own shape what each *)
(* request still holds of it: the head it read stays a legal parent, and   *)
(* the commit it inserted is nobody's head until it makes it one.  The two *)
(* properties of a commit's whole history come after what resolve_snapshot *)
(* computes, proved by least counterexample.                               *)
(*                                                                         *)
(* Last, what holds of Seeding, which makes the first project and its      *)
(* genesis commit, for every number of starts, plans and places to stop.   *)
(***************************************************************************)
EXTENDS Versioning, Seeding, SequenceTheorems, WellFoundedInduction, TLAPS

(* A branch that does not exist yet has the defaults InsertMain gives it. *)
FreshRows == \A n \in Name \ rows : head[n] = None /\ fork[n] = None

(* What a request read, or inserted, before its next call. *)
Reading(r) ==
    /\ pc[r] = "readMain" => target[r] = Main
    /\ pc[r] \in {"resolve", "readLive", "insertCommit"} =>
          /\ target[r] \in rows
          /\ seen[r] \in CommitsOf(target[r]) \cup {fork[target[r]]}
    /\ pc[r] = "advanceHead" =>
          /\ target[r] \in rows
          /\ mine[r] \in CommitsOf(target[r])
          /\ mine[r] \notin published

(* How far a request's record has come. *)
Progress(r) ==
    /\ mine[r] # None => commits[mine[r]].by = r
    /\ pc[r] \in {"idle", "resolve", "readLive", "readForkPoint", "insertBranch"} => r \notin live
    /\ pc[r] \in {"idle", "resolve", "readLive", "readForkPoint", "insertBranch",
                  "readMain", "insertCommit"} => mine[r] = None /\ audit[r] = 0
    /\ (pc[r] \in {"readMain"} \/ (pc[r] \in {"insertCommit", "advanceHead"} /\ r \in live)) => Entries[r] > 0
    /\ pc[r] = "advanceHead" => audit[r] = 0
    /\ pc[r] = "recordAudit" => mine[r] \in published /\ audit[r] < Entries[r]
    /\ pc[r] = "done" => \/ mine[r] = None /\ (r \notin live \/ Entries[r] = 0)
                         \/ mine[r] \in published /\ audit[r] = Entries[r]

IInv ==
    /\ TypeOK
    /\ ChainRooted
    /\ FreshRows
    /\ \A r \in Req : Reading(r) /\ Progress(r)

LEMMA InitIInv == Init => IInv
<1> SUFFICES ASSUME Init PROVE IInv
  OBVIOUS
<1>1. commits = << >> /\ Len(commits) = 0 /\ Ids = {}
  BY DEF Init, Ids
<1>2. TypeOK
  <2>1. commits \in Seq(Commit)
    BY <1>1
  <2>2. pc \in [Req -> PC] /\ audit \in [Req -> Nat]
    BY DEF Init, PC
  <2> QED
    BY <1>1, <2>1, <2>2, MainAssumption DEF Init, TypeOK, Ref, None
<1>3. ChainRooted /\ FreshRows
  BY <1>1 DEF Init, ChainRooted, FreshRows
<1>4. \A r \in Req : Reading(r) /\ Progress(r)
  BY DEF Init, Reading, Progress, None
<1> QED
  BY <1>2, <1>3, <1>4 DEF IInv

----------------------------------------------------------------------------
(* One lemma an action.  Only InsertCommit, AdvanceHead and InsertBranch     *)
(* change what the chain consists of.                                        *)

LEMMA InsertProjectIInv == IInv /\ InsertProject => IInv'
BY DEF InsertProject, IInv, TypeOK, ChainRooted, Rooted, FreshRows, Reading, Progress, Ids, Ref, PC,
       Ended, CommitsOf, None, Unknown, locals

LEMMA InsertMainIInv == IInv /\ InsertMain => IInv'
BY MainAssumption
   DEF InsertMain, IInv, TypeOK, ChainRooted, Rooted, FreshRows, Reading, Progress, Ids, Ref, PC,
       Ended, CommitsOf, None, Unknown, locals

LEMMA WriteLiveIInv == \A r \in Req : IInv /\ WriteLive(r) => IInv'
BY MainAssumption, EntriesAssumption
   DEF WriteLive, Goto, IInv, TypeOK, ChainRooted, Rooted, FreshRows, Reading, Progress, Ids, Ref, PC,
       Ended, CommitsOf, None, Unknown

LEMMA ReadMainIInv == \A r \in Req : IInv /\ ReadMain(r) => IInv'
BY MainAssumption, EntriesAssumption
   DEF ReadMain, Goto, IInv, TypeOK, ChainRooted, Rooted, FreshRows, Reading, Progress, Ids, Ref, PC,
       Ended, CommitsOf, None, Unknown, stores

LEMMA CommitTyped ==
    TypeOK => \A c \in Ids :
                 /\ commits[c] \in Commit
                 /\ commits[c].branch \in Name
<1> SUFFICES ASSUME TypeOK, NEW c \in Ids
             PROVE  commits[c] \in Commit /\ commits[c].branch \in Name
  OBVIOUS
<1>1. commits[c] \in Commit
  BY ElementOfSeq DEF TypeOK, Ids
<1> QED
  BY <1>1 DEF Commit

LEMMA InsertCommitIInv == \A r \in Req : IInv /\ InsertCommit(r) => IInv'
<1> SUFFICES ASSUME NEW r \in Req, IInv, InsertCommit(r) PROVE IInv'
  OBVIOUS
<1> USE DEF IInv
<1>0. PICK new : new = Len(commits) + 1
  OBVIOUS
<1>1. CommitRow(r) \in Commit
  BY DEF CommitRow, Commit, TypeOK, Ref, Ids, None, Unknown
<1>2. /\ commits' \in Seq(Commit)
      /\ Ids' = Ids \cup {new}
      /\ \A c \in Ids : commits'[c] = commits[c]
      /\ commits'[new] = CommitRow(r)
      /\ new \in Nat /\ new \notin Ids /\ Ids \subseteq Nat
  BY <1>0, <1>1 DEF InsertCommit, TypeOK, Ids
<1>3. TypeOK'
  <2>1. Ref \subseteq Ref' /\ seen[r] \in Ref
    BY <1>2 DEF TypeOK, Ref
  <2>2. \A c \in Ids' : commits'[c].parent \in Ref'
    <3>1. \A c \in Ids : commits[c].parent \in Ref
      BY DEF TypeOK
    <3>2. commits'[new].parent = seen[r]
      BY <1>2 DEF CommitRow
    <3> QED
      BY <1>2, <2>1, <3>1, <3>2
  <2> QED
    BY <1>0, <1>2, <2>2 DEF InsertCommit, Goto, TypeOK, PC, Ended, Ref, Ids
<1>4. /\ target[r] \in rows /\ target[r] \in Name
      /\ seen[r] \in CommitsOf(target[r]) \cup {fork[target[r]]}
  BY DEF InsertCommit, Goto, Reading, TypeOK
<1>5. /\ \A n \in Name : CommitsOf(n) \subseteq CommitsOf(n)'
      /\ new \in CommitsOf(target[r])'
  <2>1. commits'[new].branch = target[r]
    BY <1>2 DEF CommitRow
  <2>2. target' = target
    BY DEF InsertCommit
  <2> QED
    BY <1>2, <2>1, <2>2 DEF CommitsOf
<1>6. ChainRooted'
  <2>1. \A n \in rows' : head'[n] \in CommitsOf(n)' \cup {fork'[n]}
    BY <1>5 DEF InsertCommit, ChainRooted, TypeOK
  <2>2. ASSUME NEW c \in Ids PROVE Rooted(c)'
    <3>1. Rooted(c) /\ commits'[c] = commits[c]
      BY <1>2 DEF ChainRooted
    <3>2. commits[c].branch \in Name
      BY CommitTyped
    <3> QED
      BY <1>5, <3>1, <3>2 DEF InsertCommit, Rooted
  <2>3. Rooted(new)'
    <3>1. commits'[new].branch = target[r] /\ commits'[new].parent = seen[r]
      BY <1>2 DEF CommitRow
    <3>2. \A x \in Ref : x < new
      BY <1>0, <1>2 DEF Ref, Ids, None, Unknown, TypeOK
    <3>3. seen[r] \in Ref /\ fork[target[r]] \in Ref
      BY <1>4 DEF TypeOK
    <3> QED
      <4>1. seen[r] < new /\ fork[target[r]] < new
        BY <3>2, <3>3
      <4>2. seen[r] \in CommitsOf(target[r])' \cup {fork[target[r]]}
        BY <1>4, <1>5 DEF InsertCommit, TypeOK
      <4>3. rows' = rows /\ fork' = fork /\ target' = target
        BY DEF InsertCommit
      <4> QED
        BY <1>4, <3>1, <4>1, <4>2, <4>3 DEF Rooted
  <2>4. \A c \in Ids' : Rooted(c)'
    BY <1>2, <2>2, <2>3
  <2> QED
    BY <2>1, <2>4 DEF ChainRooted
<1>7. FreshRows'
  BY DEF InsertCommit, FreshRows
<1>8. ASSUME NEW q \in Req PROVE Reading(q)' /\ Progress(q)'
  <2>1. Reading(q)'
    <3>1. target[q] \in Name
      BY DEF TypeOK
    <3>2. CASE q = r
      BY <1>0, <1>2, <1>4, <1>5, <3>1, <3>2 DEF InsertCommit, Goto, Reading, TypeOK
    <3>3. CASE q # r
      BY <1>5, <3>1, <3>3 DEF InsertCommit, Goto, Reading, TypeOK
    <3> QED
      BY <3>2, <3>3
  <2>2. Progress(q)'
    <3>1. CASE q = r
      BY <1>0, <1>2, <3>1 DEF InsertCommit, Goto, Progress, TypeOK, CommitRow, None
    <3>2. CASE q # r
      <4>1. mine[q] # None => mine[q] \in Ids
        BY DEF TypeOK
      <4> QED
        BY <1>2, <3>2, <4>1 DEF InsertCommit, Goto, Progress, TypeOK
    <3> QED
      BY <3>1, <3>2
  <2> QED
    BY <2>1, <2>2
<1> QED
  BY <1>3, <1>6, <1>7, <1>8

LEMMA AdvanceHeadIInv == \A r \in Req : IInv /\ AdvanceHead(r) => IInv'
<1> SUFFICES ASSUME NEW r \in Req, IInv, AdvanceHead(r) PROVE IInv'
  OBVIOUS
<1> USE DEF IInv
<1>1. target[r] \in rows /\ mine[r] \in CommitsOf(target[r]) /\ mine[r] \in Ids
  BY DEF AdvanceHead, Goto, Reading, CommitsOf
<1>2. TypeOK'
  BY <1>1, EntriesAssumption DEF AdvanceHead, Goto, TypeOK, PC, Ended, Ref, Ids
<1>3. ChainRooted'
  <2>1. UNCHANGED <<rows, fork, commits>> /\ head' = [head EXCEPT ![target[r]] = mine[r]]
    BY DEF AdvanceHead
  <2>2. \A n \in rows' : head'[n] \in CommitsOf(n)' \cup {fork'[n]}
    BY <1>1, <2>1 DEF ChainRooted, TypeOK, CommitsOf, Ids
  <2>3. \A c \in Ids' : Rooted(c)'
    BY <2>1 DEF ChainRooted, Rooted, CommitsOf, Ids
  <2> QED
    BY <2>2, <2>3 DEF ChainRooted
<1>4. FreshRows'
  BY <1>1 DEF AdvanceHead, FreshRows, TypeOK
<1>5. ASSUME NEW q \in Req PROVE Reading(q)' /\ Progress(q)'
  <2>1. CommitsOf(target[q])' = CommitsOf(target[q])
    BY DEF AdvanceHead, CommitsOf, Ids
  <2>2. CASE q = r
    <3>1. Reading(q)'
      BY <2>2 DEF AdvanceHead, Goto, Reading, TypeOK
    <3>2. Progress(q)'
      <4>1. /\ pc'[r] = IF Entries[r] = 0 THEN "done" ELSE "recordAudit"
            /\ mine'[r] = mine[r] /\ mine[r] \in published'
            /\ audit'[r] = 0 /\ Entries[r] \in Nat
            /\ commits' = commits
        BY EntriesAssumption DEF AdvanceHead, Goto, Progress, TypeOK
      <4> QED
        BY <2>2, <4>1 DEF Progress
    <3> QED
      BY <3>1, <3>2
  <2>3. CASE q # r
    <3>1. mine[q] # None => mine[q] # mine[r]
      BY <1>1, <2>3 DEF Progress, Ids, None
    <3>2. pc'[q] = pc[q] /\ target'[q] = target[q] /\ seen'[q] = seen[q] /\ mine'[q] = mine[q]
      BY <2>3 DEF AdvanceHead, Goto, TypeOK
    <3>3. Reading(q)'
      BY <2>1, <3>1, <3>2 DEF AdvanceHead, Reading, CommitsOf, Ids, None
    <3>4. Progress(q)'
      BY <3>2 DEF AdvanceHead, Progress
    <3> QED
      BY <3>3, <3>4
  <2> QED
    BY <2>2, <2>3
<1> QED
  BY <1>2, <1>3, <1>4, <1>5

LEMMA RecordAuditIInv == \A r \in Req : IInv /\ RecordAudit(r) => IInv'
BY EntriesAssumption
   DEF RecordAudit, Goto, IInv, TypeOK, ChainRooted, Rooted, FreshRows, Reading, Progress, Ids, Ref, PC,
       Ended, CommitsOf, None, Unknown

LEMMA EditBranchIInv ==
    \A r \in Req, n \in Name : IInv /\ EditBranch(r, n) => IInv'
BY DEF EditBranch, Goto, IInv, TypeOK, ChainRooted, Rooted, FreshRows, Reading, Progress, Ids, Ref, PC,
       Ended, CommitsOf, None, Unknown, stores

LEMMA ResolveStepIInv == \A r \in Req : IInv /\ ResolveStep(r) => IInv'
<1> SUFFICES ASSUME NEW r \in Req, IInv, ResolveStep(r) PROVE IInv'
  OBVIOUS
<1> USE DEF IInv
<1>1. /\ at' \in [Req -> Ref] /\ acc' \in [Req -> SUBSET Req] /\ unrecorded' \in [Req -> SUBSET Req]
      /\ \E to \in {"readLive", "insertCommit", "resolve"} : Goto(r, "resolve", to)
  <2>1. CASE Main \in rows /\ at[r] = head[Main]
    <3>1. /\ unrecorded' = [unrecorded EXCEPT ![r] = @ \cup (live \ Recorded)]
          /\ UNCHANGED <<at, acc>> /\ Goto(r, "resolve", "readLive")
      BY <2>1 DEF ResolveStep
    <3> QED
      BY <3>1 DEF TypeOK
  <2>2. CASE ~(Main \in rows /\ at[r] = head[Main])
    <3>1. at[r] \in Ids /\ commits[at[r]].branch \in Name
      BY <2>2, CommitTyped DEF ResolveStep
    <3>2. fork[commits[at[r]].branch] \in Ref
      BY <3>1 DEF TypeOK
    <3>3. Writes(OwnChain(at[r])) \subseteq Req
      BY DEF Writes
    <3>4. /\ at' = [at EXCEPT ![r] = fork[commits[at[r]].branch]]
          /\ acc' = [acc EXCEPT ![r] = @ \cup Writes(OwnChain(at[r]))]
          /\ Goto(r, "resolve", IF fork[commits[at[r]].branch] = None
                                THEN "insertCommit" ELSE "resolve")
          /\ unrecorded' = unrecorded
      BY <2>2 DEF ResolveStep
    <3> QED
      BY <3>2, <3>3, <3>4 DEF TypeOK
  <2> QED
    BY <2>1, <2>2
<1>2. PICK to \in {"readLive", "insertCommit", "resolve"} : Goto(r, "resolve", to)
  BY <1>1
<1>3. UNCHANGED <<stores, target, seen, mine>>
  BY DEF ResolveStep
<1>4. TypeOK'
  BY <1>1, <1>2, <1>3 DEF Goto, TypeOK, PC, Ended, Ref, Ids, stores
<1>5. ChainRooted' /\ FreshRows'
  BY <1>3 DEF ChainRooted, Rooted, FreshRows, CommitsOf, Ids, stores
<1>6. \A q \in Req : Reading(q)' /\ Progress(q)'
  BY <1>2, <1>3 DEF Goto, TypeOK, Reading, Progress, CommitsOf, Ids, stores
<1> QED
  BY <1>4, <1>5, <1>6

LEMMA ReadLiveIInv == \A r \in Req : IInv /\ ReadLive(r) => IInv'
BY DEF ReadLive, Goto, IInv, TypeOK, ChainRooted, Rooted, FreshRows, Reading, Progress, Ids, Ref, PC,
       Ended, CommitsOf, None, Unknown, stores

LEMMA ForkFromMainIInv ==
    \A r \in Req, n \in Name : IInv /\ ForkFromMain(r, n) => IInv'
BY DEF ForkFromMain, Goto, IInv, TypeOK, ChainRooted, Rooted, FreshRows, Reading, Progress, Ids, Ref, PC,
       Ended, CommitsOf, None, Unknown, stores

LEMMA ReadForkPointIInv == \A r \in Req : IInv /\ ReadForkPoint(r) => IInv'
BY MainAssumption
   DEF ReadForkPoint, Goto, IInv, TypeOK, ChainRooted, Rooted, FreshRows, Reading, Progress, Ids, Ref, PC,
       Ended, CommitsOf, None, Unknown, stores

LEMMA ForkFromCommitIInv ==
    \A r \in Req, n \in Name, c \in published \cup {Unknown} :
        IInv /\ ForkFromCommit(r, n, c) => IInv'
BY DEF ForkFromCommit, Goto, IInv, TypeOK, ChainRooted, Rooted, FreshRows, Reading, Progress, Ids, Ref,
       PC, Ended, CommitsOf, None, Unknown, stores

LEMMA InsertBranchIInv == \A r \in Req : IInv /\ InsertBranch(r) => IInv'
BY DEF InsertBranch, Goto, IInv, TypeOK, ChainRooted, Rooted, FreshRows, Reading, Progress, Ids, Ref, PC,
       Ended, CommitsOf, None, Unknown

LEMMA FailIInv == \A r \in Req : IInv /\ Fail(r) => IInv'
BY DEF Fail, IInv, TypeOK, ChainRooted, Rooted, FreshRows, Reading, Progress, Ids, Ref, PC,
       Ended, CommitsOf, None, Unknown, stores

LEMMA StutterIInv == IInv /\ UNCHANGED vars => IInv'
BY DEF vars, stores, locals, IInv, TypeOK, ChainRooted, Rooted, FreshRows, Reading, Progress, Ids, Ref,
       CommitsOf


----------------------------------------------------------------------------

LEMMA StepIInv == IInv /\ [Next]_vars => IInv'
<1> SUFFICES ASSUME IInv, [Next]_vars PROVE IInv'
  OBVIOUS
<1>1. CASE InsertProject
  BY <1>1, InsertProjectIInv
<1>2. CASE InsertMain
  BY <1>2, InsertMainIInv
<1>3. ASSUME NEW r \in Req, Begin(r) PROVE IInv'
  BY <1>3, WriteLiveIInv, EditBranchIInv, ForkFromMainIInv, ForkFromCommitIInv DEF Begin
<1>4. ASSUME NEW r \in Req, RecordStep(r) PROVE IInv'
  BY <1>4, ReadMainIInv, InsertCommitIInv, AdvanceHeadIInv, RecordAuditIInv DEF RecordStep
<1>5. ASSUME NEW r \in Req, EditStep(r) PROVE IInv'
  BY <1>5, ResolveStepIInv, ReadLiveIInv DEF EditStep
<1>6. ASSUME NEW r \in Req, BranchStep(r) PROVE IInv'
  BY <1>6, ReadForkPointIInv, InsertBranchIInv DEF BranchStep
<1>7. ASSUME NEW r \in Req, Fail(r) PROVE IInv'
  BY <1>7, FailIInv
<1>8. CASE UNCHANGED vars
  BY <1>8, StutterIInv
<1> QED
  BY <1>1, <1>2, <1>3, <1>4, <1>5, <1>6, <1>7, <1>8 DEF Next

(* The inductive invariant holds of every behaviour. *)
THEOREM Invariance == Spec => []IInv
BY InitIInv, StepIInv, PTL DEF Spec

(* Every variable keeps its type, however many requests race or fail. *)
THEOREM TypeCorrect == Spec => []TypeOK
<1>1. IInv => TypeOK
  BY DEF IInv
<1> QED
  BY <1>1, Invariance, PTL

(* A branch's chain of parents leads back to its fork point and nowhere else *)
(* (commit, create_branch and the walk of resolve_snapshot).                 *)
THEOREM ChainsAreRooted == Spec => []ChainRooted
<1>1. IInv => ChainRooted
  BY DEF IInv
<1> QED
  BY <1>1, Invariance, PTL

(* A request that answered 200 has its commit and all of its audit rows. *)
THEOREM RecordIsComplete == Spec => []CompletedIsRecorded
<1>1. IInv => CompletedIsRecorded
  <2> SUFFICES ASSUME IInv, NEW r \in Req, pc[r] = "done",
                      mine[r] # None \/ (r \in live /\ Entries[r] > 0)
               PROVE  /\ mine[r] \in published
                      /\ commits[mine[r]].by = r
                      /\ audit[r] = Entries[r]
    BY DEF CompletedIsRecorded
  <2>1. Progress(r) /\ published \subseteq Ids
    BY DEF IInv, TypeOK
  <2>2. Entries[r] \in Nat /\ None \notin Ids
    BY EntriesAssumption DEF Ids, None
  <2> QED
    BY <2>1, <2>2 DEF Progress
<1> QED
  BY <1>1, Invariance, PTL

(* What a step may not touch: the rows there are, and their columns. *)
Keeps == /\ Len(commits') >= Len(commits)
         /\ \A c \in Ids : commits'[c] = commits[c]
         /\ rows \subseteq rows'
         /\ \A n \in rows : fork'[n] = fork[n]
         /\ \A r \in Req : audit'[r] >= audit[r]
         /\ live \subseteq live'

(* Every row a step does not mention stays; the mentioned ones are appended. *)
LEMMA StepKeeps == IInv /\ [Next]_vars => Keeps \/ UNCHANGED vars
<1> SUFFICES ASSUME IInv, Next PROVE Keeps
  OBVIOUS
<1>1. TypeOK
  BY DEF IInv
<1>2. ASSUME UNCHANGED <<rows, fork, commits, audit>>, live \subseteq live' PROVE Keeps
  BY <1>1, <1>2 DEF TypeOK, Keeps
<1>3. CASE InsertProject \/ InsertMain
  BY <1>1, <1>3 DEF InsertProject, InsertMain, TypeOK, Keeps
<1>4. ASSUME NEW r \in Req, InsertCommit(r) PROVE Keeps
  BY <1>1, <1>4 DEF InsertCommit, TypeOK, Ids, Keeps
<1>5. ASSUME NEW r \in Req, RecordAudit(r) PROVE Keeps
  BY <1>1, <1>5 DEF RecordAudit, TypeOK, Keeps
<1>6. ASSUME NEW r \in Req, InsertBranch(r) PROVE Keeps
  BY <1>1, <1>6 DEF InsertBranch, TypeOK, Keeps
<1>7. ASSUME NEW r \in Req,
             Begin(r) \/ ReadMain(r) \/ AdvanceHead(r) \/ EditStep(r) \/ ReadForkPoint(r) \/ Fail(r)
      PROVE  Keeps
  BY <1>2, <1>7 DEF Begin, WriteLive, EditBranch, ForkFromMain, ForkFromCommit, ReadMain,
                    AdvanceHead, EditStep, ResolveStep, ReadLive, ReadForkPoint, Fail, stores
<1> QED
  BY <1>3, <1>4, <1>5, <1>6, <1>7 DEF Next, RecordStep, BranchStep

(* No step rewrites history: commits, branch rows, fork points, audit rows,  *)
(* live writes.                                                              *)
THEOREM HistoryIsAppendOnly == Spec => HistoryAppendOnly
<1>1. IInv /\ [Next]_vars => [Keeps]_vars
  BY StepKeeps
<1> QED
  BY <1>1, Invariance, PTL DEF Spec, HistoryAppendOnly, Keeps

(* A superseded head is never a head again: what a branch forked from an old *)
(* head is based on can only be answered by replay.                          *)
THEOREM HeadsNeverRevive == Spec => HeadNeverRevives
<1> DEFINE Fresh == \A n \in rows : head'[n] # head[n] =>
                        /\ head'[n] \in CommitsOf(n)
                        /\ head'[n] \notin published
<1>1. IInv /\ [Next]_vars => [Fresh]_vars
  <2> SUFFICES ASSUME IInv, Next PROVE Fresh
    OBVIOUS
  <2>1. TypeOK
    BY DEF IInv
  <2>2. ASSUME UNCHANGED head PROVE Fresh
    BY <2>2
  <2>3. CASE InsertProject \/ InsertMain
    BY <2>2, <2>3 DEF InsertProject, InsertMain
  <2>4. ASSUME NEW r \in Req, AdvanceHead(r) PROVE Fresh
    <3>1. mine[r] \in CommitsOf(target[r]) /\ mine[r] \notin published
      BY <2>4 DEF AdvanceHead, Goto, IInv, Reading
    <3> QED
      BY <2>1, <2>4, <3>1 DEF AdvanceHead, TypeOK
  <2>5. ASSUME NEW r \in Req, InsertBranch(r) PROVE Fresh
    BY <2>1, <2>5 DEF InsertBranch, TypeOK
  <2>6. ASSUME NEW r \in Req,
               Begin(r) \/ ReadMain(r) \/ InsertCommit(r) \/ RecordAudit(r) \/ EditStep(r)
                 \/ ReadForkPoint(r) \/ Fail(r)
        PROVE  Fresh
    BY <2>2, <2>6 DEF Begin, WriteLive, EditBranch, ForkFromMain, ForkFromCommit, ReadMain,
                      InsertCommit, RecordAudit, EditStep, ResolveStep, ReadLive, ReadForkPoint,
                      Fail, stores
  <2> QED
    BY <2>3, <2>4, <2>5, <2>6 DEF Next, RecordStep, BranchStep
<1> QED
  BY <1>1, Invariance, PTL DEF Spec, HeadNeverRevives

(* Each level of resolve_snapshot resolves an older commit than the level    *)
(* above it, so the recursion ends.                                          *)
THEOREM ResolveTerminates == Spec => ResolveDescends
<1> DEFINE Down == \A r \in Req : (pc[r] = "resolve" /\ at'[r] # at[r]) => at'[r] < at[r]
<1>1. IInv /\ [Next]_vars => [Down]_vars
  <2> SUFFICES ASSUME IInv, Next PROVE Down
    OBVIOUS
  <2>1. TypeOK /\ ChainRooted
    BY DEF IInv
  <2>2. ASSUME UNCHANGED at PROVE Down
    BY <2>2
  <2>3. CASE InsertProject \/ InsertMain
    BY <2>2, <2>3 DEF InsertProject, InsertMain, locals
  <2>4. ASSUME NEW r \in Req, ResolveStep(r) PROVE Down
    <3>1. CASE Main \in rows /\ at[r] = head[Main]
      BY <2>2, <2>4, <3>1 DEF ResolveStep
    <3>2. CASE ~(Main \in rows /\ at[r] = head[Main])
      <4>1. at[r] \in Ids /\ at' = [at EXCEPT ![r] = fork[commits[at[r]].branch]]
        BY <2>4, <3>2 DEF ResolveStep
      <4>2. fork[commits[at[r]].branch] < at[r]
        BY <2>1, <4>1 DEF ChainRooted, Rooted
      <4> QED
        BY <2>1, <4>1, <4>2 DEF TypeOK
    <3> QED
      BY <3>1, <3>2
  <2>5. ASSUME NEW r \in Req, NEW n \in Name, EditBranch(r, n) PROVE Down
    BY <2>1, <2>5 DEF EditBranch, Goto, TypeOK
  <2>6. ASSUME NEW r \in Req,
               WriteLive(r) \/ (\E n \in Name : ForkFromMain(r, n)
                                  \/ \E c \in published \cup {Unknown} : ForkFromCommit(r, n, c))
                 \/ RecordStep(r) \/ ReadLive(r) \/ BranchStep(r) \/ Fail(r)
        PROVE  Down
    BY <2>2, <2>6 DEF WriteLive, ForkFromMain, ForkFromCommit, RecordStep, ReadMain, InsertCommit,
                      AdvanceHead, RecordAudit, ReadLive, BranchStep, ReadForkPoint, InsertBranch,
                      Fail
  <2> QED
    BY <2>3, <2>4, <2>5, <2>6 DEF Next, Begin, EditStep
<1> QED
  BY <1>1, Invariance, PTL DEF Spec, ResolveDescends

----------------------------------------------------------------------------
(* What resolve_snapshot's walks compute.  OwnChain and History are recursive *)
(* functions on commit ids; a row always points to an older one, so a least   *)
(* counterexample gives what one would prove by induction.                    *)

(* A nonempty set of naturals has a least element. *)
LEMMA NatLeast ==
    ASSUME NEW T, T \subseteq Nat, T # {}
    PROVE  \E n \in T : \A m \in T : n <= m
<1> DEFINE R == {p \in Nat \X Nat : p[1] < p[2]}
<1>1. IsWellFoundedOn(R, Nat)
  <2>1. R = OpToRel(<, Nat)
    BY DEF OpToRel
  <2> QED
    BY <2>1, NatLessThanWellFounded
<1>2. \A n, m \in Nat : <<n, m>> \in R <=> n < m
  OBVIOUS
<1> HIDE DEF R
<1>3. \E n \in T : \A m \in T : ~(<<m, n>> \in R)
  BY <1>1, WFMin
<1>4. PICK n \in T : \A m \in T : ~(<<m, n>> \in R)
  BY <1>3
<1>5. ASSUME NEW m \in T PROVE n <= m
  <2>1. n \in Nat /\ m \in Nat
    BY <1>4, <1>5
  <2>2. ~(m < n)
    BY <1>2, <1>4, <1>5, <2>1
  <2> QED
    BY <2>1, <2>2
<1> QED
  BY <1>4, <1>5

(* f replays from k on: what k adds, and what is behind it. *)
Descends(f, In, A, P, c) ==
    f = [k \in Unknown..c |-> IF k > 0 /\ k \in In THEN A[k] \cup f[P[k]] ELSE {}]

(* Every commit the replay takes up points to an older one. *)
PointsBack(In, P, c) ==
    \A k \in In : k \in 1..c => P[k] \in Int /\ Unknown <= P[k] /\ P[k] < k

(* Such a replay exists, because it only ever looks at older commits... *)
LEMMA DescentDefined ==
    ASSUME NEW In, NEW A, NEW P, NEW c \in Nat,
           PointsBack(In, P, c)
    PROVE  \E f : Descends(f, In, A, P, c)
<1> DEFINE Eq(f, n) == Descends(f, In, A, P, n)
           T == {n \in 0..c : ~ \E f : Eq(f, n)}
<1> SUFFICES ASSUME T # {} PROVE FALSE
  OBVIOUS
<1>0. T \subseteq Nat
  OBVIOUS
<1> HIDE DEF T
<1>1. PICK n \in T : \A m \in T : n <= m
  BY <1>0, NatLeast
<1>2. n \in 0..c /\ ~ \E f : Eq(f, n)
  BY DEF T
<1>3. n # 0
  <2>1. Eq([k \in Unknown..0 |-> {}], 0)
    BY DEF Unknown, Descends
  <2> QED
    BY <1>2, <2>1
<1>4. n - 1 \in 0..c /\ n - 1 \notin T
  <2>1. n - 1 \in 0..c /\ ~(n <= n - 1)
    BY <1>2, <1>3
  <2> QED
    BY <1>1, <2>1
<1>5. PICK g : Eq(g, n - 1)
  BY <1>4 DEF T
<1> DEFINE h == [k \in Unknown..n |-> IF k # n THEN g[k] ELSE
                                      IF n \in In THEN A[n] \cup g[P[n]] ELSE {}]
<1>6. Eq(h, n)
  <2> SUFFICES ASSUME NEW k \in Unknown..n
               PROVE  h[k] = IF k > 0 /\ k \in In THEN A[k] \cup h[P[k]] ELSE {}
    BY DEF Descends
  <2>0. k \in Int /\ n \in 1..c /\ Unknown = -1
    BY <1>2, <1>3 DEF Unknown
  <2>1. CASE k = n
    <3>1. n \in In => P[n] \in Unknown..n /\ P[n] # n
      BY <2>0 DEF PointsBack
    <3>2. n \in In => h[P[n]] = g[P[n]]
      BY <3>1
    <3>3. h[n] = IF n \in In THEN A[n] \cup g[P[n]] ELSE {}
      BY <2>0
    <3> HIDE DEF h
    <3>4. CASE n \in In
      BY <2>0, <2>1, <3>2, <3>3, <3>4
    <3>5. CASE n \notin In
      BY <2>0, <2>1, <3>3, <3>5
    <3> QED
      BY <3>4, <3>5
  <2>2. CASE k # n
    <3>1. k \in Unknown..(n - 1) /\ (k > 0 => k \in 1..c)
      BY <2>0, <2>2
    <3>2. h[k] = g[k] /\ g[k] = IF k > 0 /\ k \in In THEN A[k] \cup g[P[k]] ELSE {}
      BY <1>5, <2>2, <3>1 DEF Descends
    <3>3. k > 0 /\ k \in In => P[k] \in Unknown..n /\ P[k] # n
      BY <2>0, <3>1 DEF PointsBack
    <3> QED
      BY <3>2, <3>3
  <2> QED
    BY <2>1, <2>2
<1> QED
  BY <1>2, <1>6

(* ... and is the same one wherever it starts from. *)
LEMMA DescentAgrees ==
    ASSUME NEW In, NEW A, NEW P, NEW c \in Nat, NEW b \in Nat, b <= c,
           PointsBack(In, P, c),
           NEW f, Descends(f, In, A, P, c), NEW g, Descends(g, In, A, P, b)
    PROVE  \A k \in Unknown..b : f[k] = g[k]
<1> DEFINE T == {k \in 0..b : f[k] # g[k]}
<1>0. Unknown = -1
  BY DEF Unknown
<1>1. ASSUME NEW k \in Unknown..b
      PROVE  /\ f[k] = IF k > 0 /\ k \in In THEN A[k] \cup f[P[k]] ELSE {}
             /\ g[k] = IF k > 0 /\ k \in In THEN A[k] \cup g[P[k]] ELSE {}
  <2>1. k \in Unknown..c
    BY <1>0
  <2> QED
    BY <2>1 DEF Descends
<1>2. f[Unknown] = g[Unknown]
  <2>1. Unknown \in Unknown..b /\ ~(Unknown > 0)
    BY <1>0
  <2> QED
    BY <1>1, <2>1
<1>3. T = {}
  <2> SUFFICES ASSUME T # {} PROVE FALSE
    OBVIOUS
  <2>0. T \subseteq Nat
    OBVIOUS
  <2> HIDE DEF T
  <2>1. PICK k \in T : \A m \in T : k <= m
    BY <2>0, NatLeast
  <2>2. k \in 0..b /\ f[k] # g[k] /\ k \in Unknown..b
    BY <1>0, <2>1 DEF T
  <2>3. k > 0 /\ k \in In
    BY <1>1, <2>2
  <2>4. P[k] \in Unknown..b /\ P[k] < k
    BY <1>0, <2>2, <2>3 DEF PointsBack
  <2>5. f[P[k]] = g[P[k]]
    <3>1. CASE P[k] = Unknown
      BY <1>2, <3>1
    <3>2. CASE P[k] # Unknown
      <4>1. P[k] \in 0..b /\ ~(k <= P[k])
        BY <1>0, <2>2, <2>4, <3>2
      <4> QED
        BY <2>1, <4>1 DEF T
    <3> QED
      BY <3>1, <3>2
  <2> QED
    BY <1>1, <2>2, <2>3, <2>5
<1> QED
  <2> SUFFICES ASSUME NEW k \in Unknown..b, k # Unknown PROVE f[k] = g[k]
    BY <1>2
  <2>1. k \in 0..b
    BY <1>0
  <2> QED
    BY <1>3, <2>1

(* What the tables are at any time: every row points back. *)
Forest ==
    /\ commits \in Seq(Commit)
    /\ \A c \in Ids : /\ Unknown <= commits[c].parent /\ commits[c].parent < c
                      /\ fork[commits[c].branch] \in Int
                      /\ Unknown <= fork[commits[c].branch] /\ fork[commits[c].branch] < c

(* Commit ids, parents and fork points, as numbers. *)
LEMMA IdsAre ==
    ASSUME Forest
    PROVE  /\ Unknown = -1 /\ Ids \subseteq Nat /\ \A c \in Ids : c > 0 /\ ~(c <= 0)
           /\ \A b \in Ids : \A k \in 1..b : k \in Ids
           /\ \A c \in Ids : /\ commits[c].parent \in Unknown..c /\ commits[c].parent # c
                             /\ commits[c].parent > 0 => commits[c].parent \in Ids
                             /\ fork[commits[c].branch] > 0 => fork[commits[c].branch] \in Ids
<1>1. \A c \in Ids : commits[c] \in Commit
  BY ElementOfSeq DEF Forest, Ids
<1>2. Len(commits) \in Nat
  BY DEF Forest
<1> QED
  BY <1>1, <1>2 DEF Forest, Ids, Unknown, Commit

SameBranch(b) == {k \in Ids : commits[k].branch = commits[b].branch}
Parents       == [k \in Ids |-> commits[k].parent]
Itself        == [k \in Ids |-> {k}]
Chains        == [k \in Ids |-> OwnChain(k)]
ForkPoints    == [k \in Ids |-> fork[commits[k].branch]]

(* OwnChain is such a replay, along parents within one branch. *)
LEMMA OwnChainDescends ==
    ASSUME Forest, NEW b \in Ids
    PROVE  \E f : Descends(f, SameBranch(b), Itself, Parents, b) /\ OwnChain(b) = f[b]
<1> DEFINE Walk(f) == f = [k \in Unknown..b |->
                             IF k <= 0 THEN {}
                             ELSE IF commits[k].branch # commits[b].branch THEN {}
                             ELSE {k} \cup f[commits[k].parent]]
           walk == CHOOSE f : Walk(f)
<1>1. \A f : Walk(f) <=> Descends(f, SameBranch(b), Itself, Parents, b)
  <2> SUFFICES ASSUME NEW f, NEW k \in Unknown..b
               PROVE  (IF k > 0 /\ k \in SameBranch(b) THEN Itself[k] \cup f[Parents[k]] ELSE {})
                      = IF k <= 0 THEN {}
                        ELSE IF commits[k].branch # commits[b].branch THEN {}
                        ELSE {k} \cup f[commits[k].parent]
    BY DEF Descends
  <2>1. CASE k <= 0
    BY IdsAre, <2>1
  <2>2. CASE k > 0
    <3>1. k \in Ids
      BY IdsAre, <2>2
    <3> QED
      BY IdsAre, <2>2, <3>1 DEF SameBranch, Itself, Parents
  <2> QED
    BY IdsAre, <2>1, <2>2
<1>2. \E f : Descends(f, SameBranch(b), Itself, Parents, b)
  <2>1. PointsBack(SameBranch(b), Parents, b)
    BY IdsAre DEF SameBranch, Parents, Forest, PointsBack
  <2>2. b \in Nat
    BY IdsAre
  <2> QED
    BY <2>1, <2>2, DescentDefined
<1>3. Walk(walk)
  BY <1>1, <1>2
<1>4. OwnChain(b) = walk[b]
  BY IdsAre DEF OwnChain
<1> HIDE DEF walk, Walk
<1> QED
  BY <1>1, <1>3, <1>4

(* One step of it. *)
LEMMA OwnChainIs ==
    ASSUME Forest, NEW c \in Ids
    PROVE  LET p == commits[c].parent IN
             OwnChain(c) = {c} \cup IF p > 0 /\ commits[p].branch = commits[c].branch
                                   THEN OwnChain(p) ELSE {}
<1> DEFINE p == commits[c].parent
<1>0. c \in Nat /\ c > 0 /\ c \in Unknown..c /\ p \in Unknown..c /\ p < c
  BY IdsAre DEF Forest
<1>1. PointsBack(SameBranch(c), Parents, c)
  BY IdsAre DEF SameBranch, Parents, Forest, PointsBack
<1>2. PICK f : Descends(f, SameBranch(c), Itself, Parents, c) /\ OwnChain(c) = f[c]
  BY OwnChainDescends
<1>3. f[c] = {c} \cup f[p]
  BY <1>0, <1>2 DEF Descends, SameBranch, Itself, Parents
<1>4. CASE p > 0 /\ commits[p].branch = commits[c].branch
  <2>1. p \in Ids /\ p \in Nat /\ p <= c /\ p \in Unknown..p
    BY IdsAre, <1>0, <1>4
  <2>2. SameBranch(p) = SameBranch(c)
    BY <1>4 DEF SameBranch
  <2>3. PICK g : Descends(g, SameBranch(c), Itself, Parents, p) /\ OwnChain(p) = g[p]
    BY OwnChainDescends, <2>1, <2>2
  <2>4. f[p] = g[p]
    <3>1. \A k \in Unknown..p : f[k] = g[k]
      BY <1>0, <1>1, <1>2, <2>1, <2>3, DescentAgrees
    <3> QED
      BY <2>1, <3>1
  <2> QED
    BY <1>2, <1>3, <1>4, <2>3, <2>4
<1>5. CASE ~(p > 0 /\ commits[p].branch = commits[c].branch)
  <2>1. f[p] = {}
    BY <1>0, <1>2, <1>5 DEF Descends, SameBranch
  <2> QED
    BY <1>2, <1>3, <1>5, <2>1
<1> QED
  BY <1>4, <1>5

(* History is one along fork points, and adds each branch's own chain. *)
LEMMA HistoryDescends ==
    ASSUME Forest, NEW b \in Ids
    PROVE  \E f : Descends(f, Ids, Chains, ForkPoints, b) /\ History(b) = f[b]
<1> DEFINE Walk(f) == f = [k \in Unknown..b |->
                             IF k <= 0 THEN {} ELSE OwnChain(k) \cup f[fork[commits[k].branch]]]
           walk == CHOOSE f : Walk(f)
<1>1. \A f : Walk(f) <=> Descends(f, Ids, Chains, ForkPoints, b)
  <2> SUFFICES ASSUME NEW f, NEW k \in Unknown..b
               PROVE  (IF k > 0 /\ k \in Ids THEN Chains[k] \cup f[ForkPoints[k]] ELSE {})
                      = IF k <= 0 THEN {} ELSE OwnChain(k) \cup f[fork[commits[k].branch]]
    BY DEF Descends
  <2>1. CASE k <= 0
    BY IdsAre, <2>1
  <2>2. CASE k > 0
    <3>1. k \in Ids
      BY IdsAre, <2>2
    <3> QED
      BY IdsAre, <2>2, <3>1 DEF Chains, ForkPoints
  <2> QED
    BY IdsAre, <2>1, <2>2
<1>2. \E f : Descends(f, Ids, Chains, ForkPoints, b)
  <2>1. PointsBack(Ids, ForkPoints, b)
    BY DEF ForkPoints, Forest, PointsBack
  <2>2. b \in Nat
    BY IdsAre
  <2> QED
    BY <2>1, <2>2, DescentDefined
<1>3. Walk(walk)
  BY <1>1, <1>2
<1>4. History(b) = walk[b]
  BY DEF History
<1> HIDE DEF walk, Walk
<1> QED
  BY <1>1, <1>3, <1>4

(* One step of it. *)
LEMMA HistoryIs ==
    ASSUME Forest, NEW c \in Ids
    PROVE  LET p == fork[commits[c].branch] IN
             History(c) = OwnChain(c) \cup IF p > 0 THEN History(p) ELSE {}
<1> DEFINE p == fork[commits[c].branch]
<1>0. c \in Nat /\ c > 0 /\ c \in Unknown..c /\ p \in Unknown..c /\ p < c
  BY IdsAre DEF Forest
<1>1. PointsBack(Ids, ForkPoints, c)
  BY DEF ForkPoints, Forest, PointsBack
<1>2. PICK f : Descends(f, Ids, Chains, ForkPoints, c) /\ History(c) = f[c]
  BY HistoryDescends
<1>3. f[c] = OwnChain(c) \cup f[p]
  BY <1>0, <1>2 DEF Descends, Chains, ForkPoints
<1>4. CASE p > 0
  <2>1. p \in Ids /\ p \in Nat /\ p <= c /\ p \in Unknown..p
    BY IdsAre, <1>0, <1>4
  <2>2. PICK g : Descends(g, Ids, Chains, ForkPoints, p) /\ History(p) = g[p]
    BY HistoryDescends, <2>1
  <2>3. f[p] = g[p]
    <3>1. \A k \in Unknown..p : f[k] = g[k]
      BY <1>0, <1>1, <1>2, <2>1, <2>2, DescentAgrees
    <3> QED
      BY <2>1, <3>1
  <2> QED
    BY <1>2, <1>3, <1>4, <2>2, <2>3
<1>5. CASE ~(p > 0)
  <2>1. f[p] = {}
    BY <1>0, <1>2, <1>5 DEF Descends
  <2> QED
    BY <1>2, <1>3, <1>5, <2>1
<1> QED
  BY <1>4, <1>5

(* There is nothing behind a missing or an unknown commit. *)
LEMMA NoHistory == History(None) = {} /\ History(Unknown) = {} /\ OwnChain(None) = {}
                   /\ OwnChain(Unknown) = {}
<1> DEFINE Walk(f, b) == f = [k \in Unknown..b |->
                             IF k <= 0 THEN {} ELSE OwnChain(k) \cup f[fork[commits[k].branch]]]
<1>1. ASSUME NEW b \in {None, Unknown} PROVE History(b) = {}
  <2>1. Walk([k \in Unknown..b |-> {}], b)
    BY DEF None, Unknown
  <2> DEFINE walk == CHOOSE f : Walk(f, b)
  <2>2. Walk(walk, b)
    BY <2>1
  <2>3. History(b) = walk[b]
    BY DEF History
  <2> HIDE DEF walk
  <2>4. b \in Unknown..b /\ b <= 0
    BY DEF None, Unknown
  <2> QED
    BY <2>2, <2>3, <2>4
<1> QED
  BY <1>1 DEF OwnChain, None, Unknown

(* The least counterexample among commits. *)
LEMMA IdsLeast ==
    ASSUME NEW T, T \subseteq Ids, T # {}
    PROVE  \E n \in T : \A m \in T : n <= m
<1>1. Ids \subseteq Nat
  BY DEF Ids
<1> QED
  BY <1>1, NatLeast

(* The inductive invariant keeps the tables a forest. *)
LEMMA IInvForest == IInv => Forest
<1> SUFFICES ASSUME IInv PROVE Forest
  OBVIOUS
<1>1. \A c \in Ids : Rooted(c) /\ commits[c].branch \in Name
  BY CommitTyped DEF IInv, ChainRooted
<1>2. \A n \in Name : fork[n] \in Int /\ Unknown <= fork[n]
  <2>1. \A x \in Ref : x \in Int /\ Unknown <= x
    BY DEF Ref, Ids, None, Unknown
  <2> QED
    BY <2>1 DEF IInv, TypeOK
<1>3. \A c \in Ids : Unknown <= commits[c].parent
  BY <1>1, <1>2, <1>1 DEF Rooted, CommitsOf, Ids, Unknown
<1> QED
  BY <1>1, <1>2, <1>3 DEF Forest, Rooted, IInv, TypeOK

(* A commit's chain is its branch's, itself and older ones. *)
LEMMA OwnChainLocal ==
    ASSUME Forest, NEW c \in Ids
    PROVE  /\ c \in OwnChain(c)
           /\ OwnChain(c) \subseteq CommitsOf(commits[c].branch)
           /\ \A k \in OwnChain(c) : k <= c
<1> DEFINE T == {b \in Ids : ~(/\ OwnChain(b) \subseteq CommitsOf(commits[b].branch)
                               /\ \A k \in OwnChain(b) : k <= b)}
<1>1. T = {}
  <2> SUFFICES ASSUME T # {} PROVE FALSE
    OBVIOUS
  <2>0. T \subseteq Ids
    OBVIOUS
  <2> HIDE DEF T
  <2>1. PICK b \in T : \A m \in T : b <= m
    BY <2>0, IdsLeast
  <2> DEFINE p == commits[b].parent
  <2>2. b \in Ids /\ b \in Nat /\ p \in Int /\ p < b /\ (p > 0 => p \in Ids)
    BY <2>0, <2>1, IdsAre DEF Forest
  <2>3. OwnChain(b) = {b} \cup IF p > 0 /\ commits[p].branch = commits[b].branch
                               THEN OwnChain(p) ELSE {}
    BY <2>2, OwnChainIs
  <2>4. b \in CommitsOf(commits[b].branch)
    BY <2>2 DEF CommitsOf
  <2>5. CASE p > 0 /\ commits[p].branch = commits[b].branch
    <3>1. p \in Ids /\ p \notin T
      BY <2>1, <2>2, <2>5
    <3>2. OwnChain(p) \subseteq CommitsOf(commits[b].branch) /\ \A k \in OwnChain(p) : k <= p
      BY <2>5, <3>1 DEF T
    <3>3. OwnChain(b) = {b} \cup OwnChain(p)
      BY <2>3, <2>5
    <3>4. OwnChain(b) \subseteq CommitsOf(commits[b].branch)
      BY <2>4, <3>2, <3>3
    <3>5. ASSUME NEW k \in OwnChain(b) PROVE k <= b
      <4>1. CommitsOf(commits[b].branch) \subseteq Nat
        BY DEF CommitsOf, Ids
      <4> QED
        BY <2>2, <3>2, <3>3, <4>1
    <3> QED
      BY <2>1, <3>4, <3>5 DEF T
  <2>6. CASE ~(p > 0 /\ commits[p].branch = commits[b].branch)
    BY <2>1, <2>2, <2>3, <2>4, <2>6 DEF T
  <2> QED
    BY <2>5, <2>6
<1>2. c \in OwnChain(c)
  BY OwnChainIs
<1> QED
  BY <1>1, <1>2

(* A history consists of commits. *)
LEMMA HistoryLocal ==
    ASSUME Forest, NEW c \in Ids
    PROVE  History(c) \subseteq Ids
<1> DEFINE T == {b \in Ids : ~(History(b) \subseteq Ids)}
<1>1. T = {}
  <2> SUFFICES ASSUME T # {} PROVE FALSE
    OBVIOUS
  <2>0. T \subseteq Ids
    OBVIOUS
  <2> HIDE DEF T
  <2>1. PICK b \in T : \A m \in T : b <= m
    BY <2>0, IdsLeast
  <2> DEFINE p == fork[commits[b].branch]
  <2>2. b \in Ids /\ b \in Nat /\ p \in Int /\ p < b /\ (p > 0 => p \in Ids)
    BY <2>0, <2>1, IdsAre DEF Forest
  <2>3. History(b) = OwnChain(b) \cup IF p > 0 THEN History(p) ELSE {}
    BY <2>2, HistoryIs
  <2>4. OwnChain(b) \subseteq Ids
    BY <2>2, OwnChainLocal DEF CommitsOf
  <2>5. CASE p > 0
    BY <2>1, <2>2, <2>3, <2>4, <2>5 DEF T
  <2>6. CASE ~(p > 0)
    BY <2>1, <2>2, <2>3, <2>4, <2>6 DEF T
  <2> QED
    BY <2>5, <2>6
<1> QED
  BY <1>1

(* The two walks, as one step each: what the induction on them uses. *)
Walks ==
    Forest => \A c \in Ids :
        /\ LET p == commits[c].parent IN
             OwnChain(c) = {c} \cup IF p > 0 /\ commits[p].branch = commits[c].branch
                                   THEN OwnChain(p) ELSE {}
        /\ LET p == fork[commits[c].branch] IN
             History(c) = OwnChain(c) \cup IF p > 0 THEN History(p) ELSE {}

LEMMA WalksNow == Walks
BY OwnChainIs, HistoryIs DEF Walks

(* The same of the next state, whose tables are a forest too. *)
LEMMA WalksNext == Walks'
BY WalksNow, PTL

LEMMA NoHistoryNext ==
    (History(None) = {} /\ History(Unknown) = {} /\ OwnChain(None) = {} /\ OwnChain(Unknown) = {})'
BY NoHistory, PTL

(* A step that only appends to the tables leaves every history as it was. *)
Appends ==
    \A c \in Ids : /\ c \in Ids'
                   /\ commits'[c] = commits[c]
                   /\ fork'[commits[c].branch] = fork[commits[c].branch]

(* By the least commit whose walk would differ. *)
LEMMA HistoryStands ==
    ASSUME Forest, Forest', Appends
    PROVE  \A c \in Ref : OwnChain(c)' = OwnChain(c) /\ History(c)' = History(c)
<1> DEFINE T == {b \in Ids : ~(OwnChain(b)' = OwnChain(b))}
           U == {b \in Ids : ~(History(b)' = History(b))}
<1>1. T = {}
  <2> SUFFICES ASSUME T # {} PROVE FALSE
    OBVIOUS
  <2>0. T \subseteq Ids
    OBVIOUS
  <2> HIDE DEF T
  <2>1. PICK b \in T : \A m \in T : b <= m
    BY <2>0, IdsLeast
  <2>p. PICK p : p = commits[b].parent
    OBVIOUS
  <2>2. b \in Ids /\ b \in Nat /\ p \in Int /\ p < b /\ (p > 0 => p \in Ids)
    BY <2>0, <2>1, <2>p, IdsAre DEF Forest
  <2>3. OwnChain(b) = {b} \cup IF p > 0 /\ commits[p].branch = commits[b].branch
                               THEN OwnChain(p) ELSE {}
    BY <2>2, <2>p, WalksNow DEF Walks
  <2>4. OwnChain(b)' = {b} \cup IF p > 0 /\ commits'[p].branch = commits[b].branch
                                THEN OwnChain(p)' ELSE {}
    <3>1. b \in Ids' /\ commits'[b] = commits[b]
      BY <2>2 DEF Appends
    <3> QED
      BY <2>p, <3>1, WalksNext DEF Walks
  <2>5. CASE p > 0
    <3>1. commits'[p] = commits[p]
      BY <2>2, <2>5 DEF Appends
    <3>2. OwnChain(p)' = OwnChain(p)
      BY <2>1, <2>2, <2>5 DEF T
    <3> QED
      BY <2>1, <2>3, <2>4, <3>1, <3>2 DEF T
  <2>6. CASE ~(p > 0)
    BY <2>1, <2>3, <2>4, <2>6 DEF T
  <2> QED
    BY <2>5, <2>6
<1>2. \A c \in Ids : OwnChain(c)' = OwnChain(c)
  BY <1>1
<1>3. U = {}
  <2> SUFFICES ASSUME U # {} PROVE FALSE
    OBVIOUS
  <2>0. U \subseteq Ids
    OBVIOUS
  <2> HIDE DEF T, U
  <2>1. PICK b \in U : \A m \in U : b <= m
    BY <2>0, IdsLeast
  <2>p. PICK p : p = fork[commits[b].branch]
    OBVIOUS
  <2>2. b \in Ids /\ b \in Nat /\ p \in Int /\ p < b /\ (p > 0 => p \in Ids)
    BY <2>0, <2>1, <2>p, IdsAre DEF Forest
  <2>3. History(b) = OwnChain(b) \cup IF p > 0 THEN History(p) ELSE {}
    BY <2>2, <2>p, WalksNow DEF Walks
  <2>4. History(b)' = OwnChain(b) \cup IF p > 0 THEN History(p)' ELSE {}
    <3>1. b \in Ids' /\ commits'[b] = commits[b] /\ fork'[commits[b].branch] = p
      BY <2>2, <2>p DEF Appends
    <3>2. OwnChain(b)' = OwnChain(b)
      BY <1>2, <2>2
    <3> QED
      BY <2>p, <3>1, <3>2, WalksNext DEF Walks
  <2>5. CASE p > 0
    <3>1. History(p)' = History(p)
      BY <2>1, <2>2, <2>5 DEF U
    <3> QED
      BY <2>1, <2>3, <2>4, <3>1 DEF U
  <2>6. CASE ~(p > 0)
    BY <2>1, <2>3, <2>4, <2>6 DEF U
  <2> QED
    BY <2>5, <2>6
<1>4. \A c \in Ids : History(c)' = History(c)
  BY <1>3
<1> HIDE DEF T, U
<1>5. ASSUME NEW c \in {None, Unknown} PROVE OwnChain(c)' = OwnChain(c) /\ History(c)' = History(c)
  BY NoHistory, NoHistoryNext
<1> QED
  BY <1>2, <1>4, <1>5 DEF Ref

----------------------------------------------------------------------------
(* The inductive invariants of the two properties of History. *)

(* Until main's row is there, nothing is committed. *)
NothingBeforeMain ==
    Main \notin rows => /\ Ids = {}
                        /\ \A r \in Req : pc[r] \notin {"readLive", "insertCommit", "advanceHead"}

(* Main has no history of its own to fork from. *)
MainIsRoot == fork[Main] <= 0

(* Whoever committed has made its write, if it makes one. *)
AuthorsBegan ==
    /\ \A c \in Ids : pc[commits[c].by] # "idle"
    /\ \A r \in Req : pc[r] = "readMain" => r \in live

(* Where the writes of the history an edit resolves are, at each of its calls. *)
Collected(r) ==
    (r \notin live /\ pc[r] \in {"resolve", "readLive", "insertCommit"}) =>
        \A k \in History(seen[r]) :
            \/ commits[k].by \in acc[r]
            \/ commits[k].branch = Main /\ commits[k].by \notin live
            \/ pc[r] = "resolve" /\ k \in History(at[r])
            \/ pc[r] = "readLive" /\ commits[k].by \in live

(* The first half of DiffAgainstParent. *)
NoneMissed == \A c \in Ids : commits[c].by \notin live => MissesNothing(c)

DiffIInv ==
    /\ IInv
    /\ NothingBeforeMain
    /\ MainIsRoot
    /\ AuthorsBegan
    /\ \A r \in Req : Collected(r)
    /\ NoneMissed

(* What a request was shown as a head, and so every parent, was published. *)
Shown == published \cup {None, Unknown}

RaceIInv ==
    /\ IInv
    /\ NothingBeforeMain
    /\ \A n \in Name : head[n] \in Shown
    /\ \A r \in Req : seen[r] \in Shown
    /\ \A c \in Ids : commits[c].parent \in Shown
    /\ HistoryLossOnlyByRace

(* What any step leaves of the histories a request may be resolving. *)
LEMMA StepHistories ==
    ASSUME IInv, [Next]_vars
    PROVE  /\ \A k \in Ids : k \in Ids' /\ commits'[k] = commits[k]
           /\ \A x \in Ref : /\ OwnChain(x)' = OwnChain(x)
                             /\ History(x)' = History(x)
                             /\ History(x) \subseteq Ids
           /\ \A k \in Ids : commits[k].parent \in Ref /\ commits[k].by \in Req
<1>1. Forest
  BY IInvForest
<1>2. Forest'
  <2>1. IInv'
    BY StepIInv
  <2>2. (IInv => Forest)'
    BY IInvForest, PTL
  <2> QED
    BY <2>1, <2>2
<1>3. Appends
  <2>1. \A c \in Ids : commits[c].branch \in rows
    BY DEF IInv, ChainRooted, Rooted
  <2>2. TypeOK /\ TypeOK'
    BY StepIInv DEF IInv
  <2>3. Len(commits) \in Nat /\ Len(commits') \in Nat
    BY <2>2 DEF TypeOK
  <2>4. CASE Keeps
    BY <2>1, <2>3, <2>4 DEF Keeps, Appends, Ids
  <2>5. CASE UNCHANGED vars
    BY <2>5 DEF vars, stores, Appends, Ids
  <2> QED
    BY <2>4, <2>5, StepKeeps
<1>4. \A k \in Ids : k \in Ids' /\ commits'[k] = commits[k]
  BY <1>3 DEF Appends
<1>5. ASSUME NEW x \in Ref PROVE OwnChain(x)' = OwnChain(x) /\ History(x)' = History(x)
  BY <1>1, <1>2, <1>3, HistoryStands
<1>6. ASSUME NEW x \in Ref PROVE History(x) \subseteq Ids
  BY <1>1, HistoryLocal, NoHistory DEF Ref
<1>7. ASSUME NEW k \in Ids PROVE commits[k].parent \in Ref /\ commits[k].by \in Req
  <2>1. commits[k] \in Commit
    BY CommitTyped DEF IInv
  <2>2. commits[k].parent \in Unknown..k /\ (commits[k].parent > 0 => commits[k].parent \in Ids) /\ k \in Nat
    BY <1>1, IdsAre
  <2> QED
    BY <2>1, <2>2 DEF Commit, Ref, None, Unknown
<1> QED
  BY <1>4, <1>5, <1>6, <1>7

(* The live graph only grows, by the write of a request that begins. *)
LEMMA StepLive ==
    ASSUME IInv, [Next]_vars
    PROVE  live \subseteq live' /\ \A w \in live' \ live : w \in Req /\ pc[w] = "idle"
<1>1. ASSUME NEW r \in Req, WriteLive(r) PROVE live' = live \cup {r} /\ pc[r] = "idle"
  BY <1>1 DEF WriteLive, Goto
<1>2. ASSUME NEW r \in Req, RecordStep(r) \/ EditStep(r) \/ BranchStep(r) \/ Fail(r) PROVE live' = live
  BY <1>2 DEF RecordStep, EditStep, BranchStep, Fail, ReadMain, InsertCommit, AdvanceHead, RecordAudit,
              ResolveStep, ReadLive, ReadForkPoint, InsertBranch, stores
<1>3. ASSUME NEW r \in Req, NEW n \in Name, EditBranch(r, n) \/ ForkFromMain(r, n)
                      \/ \E c \in published \cup {Unknown} : ForkFromCommit(r, n, c)
      PROVE live' = live
  BY <1>3 DEF EditBranch, ForkFromMain, ForkFromCommit, stores
<1>4. CASE InsertProject \/ InsertMain
  BY <1>4 DEF InsertProject, InsertMain
<1>5. CASE UNCHANGED vars
  BY <1>5 DEF vars, stores
<1> QED
  BY <1>1, <1>2, <1>3, <1>4, <1>5 DEF Next, Begin

----------------------------------------------------------------------------

(* Only a request that found main's row, or a commit, comes to commit. *)
LEMMA StepBeforeMain == IInv /\ NothingBeforeMain /\ [Next]_vars => NothingBeforeMain'
<1> SUFFICES ASSUME IInv, NothingBeforeMain, [Next]_vars, Main \notin rows'
             PROVE  /\ Ids' = {}
                    /\ \A q \in Req : pc'[q] \notin {"readLive", "insertCommit", "advanceHead"}
  BY DEF NothingBeforeMain
<1>0. TypeOK
  BY DEF IInv
<1>1. /\ Main \notin rows /\ Ids = {}
      /\ \A q \in Req : pc[q] \notin {"readLive", "insertCommit", "advanceHead"}
  <2>1. rows \subseteq rows'
    BY StepKeeps DEF Keeps, vars, stores
  <2> QED
    BY <2>1 DEF NothingBeforeMain
<1>2. ASSUME UNCHANGED <<commits, pc>>
      PROVE  Ids' = {} /\ \A q \in Req : pc'[q] \notin {"readLive", "insertCommit", "advanceHead"}
  BY <1>1, <1>2 DEF Ids
<1>3. ASSUME NEW r \in Req, NEW to, to \notin {"readLive", "insertCommit", "advanceHead"},
             pc' = [pc EXCEPT ![r] = to], UNCHANGED commits
      PROVE  Ids' = {} /\ \A q \in Req : pc'[q] \notin {"readLive", "insertCommit", "advanceHead"}
  BY <1>0, <1>1, <1>3 DEF Ids, TypeOK
<1>4. CASE InsertProject \/ InsertMain
  BY <1>2, <1>4 DEF InsertProject, InsertMain, locals
<1>5. ASSUME NEW r \in Req, WriteLive(r) \/ RecordAudit(r) \/ InsertBranch(r)
      PROVE  Ids' = {} /\ \A q \in Req : pc'[q] \notin {"readLive", "insertCommit", "advanceHead"}
  <2>1. PICK to \in {"done", "readMain", "recordAudit"} : pc' = [pc EXCEPT ![r] = to]
    BY <1>1, <1>5 DEF WriteLive, RecordAudit, InsertBranch, Goto
  <2> QED
    BY <1>3, <1>5, <2>1 DEF WriteLive, RecordAudit, InsertBranch
<1>6. ASSUME NEW r \in Req, ReadMain(r) \/ InsertCommit(r) \/ AdvanceHead(r) \/ ReadLive(r) PROVE FALSE
  BY <1>1, <1>6 DEF ReadMain, InsertCommit, AdvanceHead, ReadLive, Goto
<1>7. ASSUME NEW r \in Req, ResolveStep(r) PROVE FALSE
  BY <1>1, <1>7 DEF ResolveStep
<1>8. ASSUME NEW r \in Req,
             ReadForkPoint(r) \/ Fail(r)
               \/ \E n \in Name : \/ EditBranch(r, n)
                                  \/ ForkFromMain(r, n)
                                  \/ \E c \in published \cup {Unknown} : ForkFromCommit(r, n, c)
      PROVE  Ids' = {} /\ \A q \in Req : pc'[q] \notin {"readLive", "insertCommit", "advanceHead"}
  <2>1. PICK to \in {"resolve", "readForkPoint", "insertBranch", "failed"} : pc' = [pc EXCEPT ![r] = to]
    BY <1>8 DEF ReadForkPoint, Fail, EditBranch, ForkFromMain, ForkFromCommit, Goto
  <2>2. commits' = commits
    BY <1>8 DEF ReadForkPoint, Fail, EditBranch, ForkFromMain, ForkFromCommit, stores
  <2> QED
    BY <1>3, <2>1, <2>2
<1>9. CASE UNCHANGED vars
  BY <1>2, <1>9 DEF vars, stores, locals
<1> QED
  BY <1>4, <1>5, <1>6, <1>7, <1>8, <1>9 DEF Next, Begin, RecordStep, EditStep, BranchStep

(* A branch called main is inserted before there is a commit to fork from, or not at all. *)
LEMMA StepMainIsRoot == IInv /\ NothingBeforeMain /\ MainIsRoot /\ [Next]_vars => MainIsRoot'
<1> SUFFICES ASSUME IInv, NothingBeforeMain, MainIsRoot, [Next]_vars PROVE fork'[Main] <= 0
  BY DEF MainIsRoot
<1>1. CASE UNCHANGED fork
  BY <1>1 DEF MainIsRoot
<1>2. ASSUME NEW r \in Req, InsertBranch(r) PROVE fork'[Main] <= 0
  <2>1. /\ fork' = [fork EXCEPT ![target[r]] = seen[r]] /\ target[r] \notin rows
        /\ fork \in [Name -> Ref] /\ seen[r] \in Ref /\ target[r] \in Name
    BY <1>2 DEF InsertBranch, IInv, TypeOK
  <2>2. CASE target[r] = Main
    <3>1. seen[r] \in {None, Unknown}
      BY <2>1, <2>2 DEF NothingBeforeMain, Ref
    <3> QED
      BY <2>1, <2>2, <3>1, MainAssumption DEF None, Unknown
  <2>3. CASE target[r] # Main
    BY <2>1, <2>3 DEF MainIsRoot
  <2> QED
    BY <2>2, <2>3
<1>3. ASSUME NEW r \in Req, Begin(r) \/ RecordStep(r) \/ EditStep(r) \/ ReadForkPoint(r) \/ Fail(r)
      PROVE  fork' = fork
  BY <1>3 DEF Begin, WriteLive, EditBranch, ForkFromMain, ForkFromCommit, RecordStep, ReadMain,
              InsertCommit, AdvanceHead, RecordAudit, EditStep, ResolveStep, ReadLive, ReadForkPoint,
              Fail, stores
<1>4. CASE InsertProject \/ InsertMain \/ UNCHANGED vars
  BY <1>1, <1>4 DEF InsertProject, InsertMain, vars, stores
<1> QED
  BY <1>1, <1>2, <1>3, <1>4 DEF Next, BranchStep

(* The commits table changes in InsertCommit alone. *)
LEMMA StepCommits ==
    ASSUME IInv, [Next]_vars
    PROVE  \/ commits' = commits
           \/ \E r \in Req : InsertCommit(r)
<1>1. ASSUME NEW r \in Req, Begin(r) \/ ReadMain(r) \/ AdvanceHead(r) \/ RecordAudit(r) \/ EditStep(r)
                              \/ BranchStep(r) \/ Fail(r)
      PROVE  commits' = commits
  BY <1>1 DEF Begin, WriteLive, EditBranch, ForkFromMain, ForkFromCommit, RecordStep, ReadMain,
              AdvanceHead, RecordAudit, EditStep, ResolveStep, ReadLive, BranchStep, ReadForkPoint,
              InsertBranch, Fail, stores
<1>2. CASE InsertProject \/ InsertMain \/ UNCHANGED vars
  BY <1>2 DEF InsertProject, InsertMain, vars, stores
<1> QED
  BY <1>1, <1>2 DEF Next, RecordStep

(* The row InsertCommit appends. *)
LEMMA CommitAppended ==
    ASSUME IInv, NEW r \in Req, InsertCommit(r)
    PROVE  /\ Ids' = Ids \cup {Len(commits) + 1} /\ Len(commits) + 1 \notin Ids
           /\ commits'[Len(commits) + 1] = CommitRow(r)
           /\ pc[r] = "insertCommit" /\ pc' = [pc EXCEPT ![r] = "advanceHead"]
           /\ live' = live /\ head' = head /\ published' = published /\ seen' = seen
<1>1. commits \in Seq(Commit)
  BY DEF IInv, TypeOK
<1> QED
  BY <1>1 DEF InsertCommit, Goto, Ids

(* A request never begins twice. *)
LEMMA StepAuthors == IInv /\ AuthorsBegan /\ [Next]_vars => AuthorsBegan'
<1> SUFFICES ASSUME IInv, AuthorsBegan, [Next]_vars PROVE AuthorsBegan'
  OBVIOUS
<1>0. TypeOK
  BY DEF IInv
<1>1. \A q \in Req : pc[q] # "idle" => pc'[q] # "idle"
  <2>1. ASSUME NEW r \in Req, Begin(r) \/ RecordStep(r) \/ EditStep(r) \/ BranchStep(r) \/ Fail(r)
        PROVE  \E to \in PC \ {"idle"} : pc' = [pc EXCEPT ![r] = to]
    BY <2>1 DEF Begin, WriteLive, EditBranch, ForkFromMain, ForkFromCommit, RecordStep, ReadMain,
                InsertCommit, AdvanceHead, RecordAudit, EditStep, ResolveStep, ReadLive, BranchStep,
                ReadForkPoint, InsertBranch, Fail, Goto, PC, Ended
  <2>2. ASSUME NEW r \in Req, NEW to \in PC \ {"idle"}, pc' = [pc EXCEPT ![r] = to]
        PROVE  \A q \in Req : pc[q] # "idle" => pc'[q] # "idle"
    BY <1>0, <2>2 DEF TypeOK
  <2>3. CASE InsertProject \/ InsertMain \/ UNCHANGED vars
    BY <2>3 DEF InsertProject, InsertMain, vars, locals
  <2> QED
    BY <2>1, <2>2, <2>3 DEF Next
<1>2. ASSUME NEW c \in Ids' PROVE pc'[commits'[c].by] # "idle"
  <2>1. CASE c \in Ids
    BY <1>1, <2>1, StepHistories DEF AuthorsBegan
  <2>2. CASE c \notin Ids
    <3>1. PICK r \in Req : InsertCommit(r)
      BY <1>2, <2>2, StepCommits DEF Ids
    <3>2. commits'[c] = CommitRow(r) /\ pc' = [pc EXCEPT ![r] = "advanceHead"]
      BY <1>2, <2>2, <3>1, CommitAppended
    <3> QED
      BY <1>0, <3>2 DEF CommitRow, TypeOK
  <2> QED
    BY <2>1, <2>2
<1>3. ASSUME NEW q \in Req, pc'[q] = "readMain" PROVE q \in live'
  <2>1. CASE pc[q] = "readMain"
    BY <2>1, StepLive DEF AuthorsBegan
  <2>2. CASE pc[q] # "readMain"
    <3>1. ASSUME NEW r \in Req, ~WriteLive(r),
                 Begin(r) \/ RecordStep(r) \/ EditStep(r) \/ BranchStep(r) \/ Fail(r)
          PROVE  \E to \in PC \ {"readMain"} : pc' = [pc EXCEPT ![r] = to]
      BY <3>1 DEF Begin, EditBranch, ForkFromMain, ForkFromCommit, RecordStep, ReadMain,
                InsertCommit, AdvanceHead, RecordAudit, EditStep, ResolveStep, ReadLive, BranchStep,
                ReadForkPoint, InsertBranch, Fail, Goto, PC, Ended
    <3>2. ASSUME NEW r \in Req, NEW to \in PC \ {"readMain"}, pc' = [pc EXCEPT ![r] = to] PROVE FALSE
      BY <1>0, <1>3, <2>2, <3>2 DEF TypeOK
    <3>3. CASE InsertProject \/ InsertMain \/ UNCHANGED vars
      BY <1>3, <2>2, <3>3 DEF InsertProject, InsertMain, vars, locals
    <3>4. ASSUME NEW r \in Req, WriteLive(r) PROVE q \in live'
      BY <1>0, <1>3, <2>2, <3>4 DEF WriteLive, Goto, TypeOK
    <3> QED
      BY <3>1, <3>2, <3>3, <3>4 DEF Next
  <2> QED
    BY <2>1, <2>2
<1> QED
  BY <1>2, <1>3 DEF AuthorsBegan

----------------------------------------------------------------------------

(* Main's history is main's own commits. *)
LEMMA MainHistory ==
    ASSUME IInv, MainIsRoot, NEW k, k \in History(head[Main])
    PROVE  k \in CommitsOf(Main)
<1>1. head[Main] \in CommitsOf(Main) \cup {None, Unknown}
  <2>1. fork[Main] \in {None, Unknown}
    BY MainAssumption DEF MainIsRoot, IInv, TypeOK, Ref, Ids, None, Unknown
  <2>2. CASE Main \in rows
    BY <2>1, <2>2 DEF IInv, ChainRooted
  <2>3. CASE Main \notin rows
    BY <2>3, MainAssumption DEF IInv, FreshRows
  <2> QED
    BY <2>2, <2>3
<1>2. head[Main] \in Ids /\ commits[head[Main]].branch = Main
  BY <1>1, NoHistory DEF CommitsOf
<1>3. Forest
  BY IInvForest
<1>4. History(head[Main]) = OwnChain(head[Main])
  <2>1. ~(fork[commits[head[Main]].branch] > 0)
    <3>1. fork[Main] \in Ref /\ fork[Main] <= 0
      BY MainAssumption DEF MainIsRoot, IInv, TypeOK
    <3>2. \A x \in Ref : x <= 0 => ~(x > 0)
      BY DEF Ref, Ids, None, Unknown
    <3> QED
      BY <1>2, <3>1, <3>2
  <2> QED
    BY <1>2, <1>3, <2>1, HistoryIs
<1> QED
  BY <1>2, <1>3, <1>4, OwnChainLocal

(* A request no step of its own touched still has what it collected. *)
LEMMA CollectedStands ==
    ASSUME DiffIInv, [Next]_vars, NEW q \in Req,
           pc'[q] = pc[q], seen'[q] = seen[q], at'[q] = at[q], acc'[q] = acc[q]
    PROVE  Collected(q)'
<1> SUFFICES ASSUME q \notin live', pc[q] \in {"resolve", "readLive", "insertCommit"},
                    NEW k, k \in History(seen[q])'
             PROVE  \/ commits'[k].by \in acc[q]
                    \/ commits'[k].branch = Main /\ commits'[k].by \notin live'
                    \/ pc[q] = "resolve" /\ k \in History(at[q])'
                    \/ pc[q] = "readLive" /\ commits'[k].by \in live'
  BY DEF Collected
<1>1. IInv /\ TypeOK /\ AuthorsBegan /\ Collected(q)
  BY DEF DiffIInv, IInv
<1>2. seen[q] \in Ref /\ at[q] \in Ref
  BY <1>1 DEF TypeOK
<1>3. History(seen[q])' = History(seen[q]) /\ History(at[q])' = History(at[q])
  <2>1. \A x \in Ref : History(x)' = History(x)
    BY <1>1, StepHistories
  <2>2. PICK x, y \in Ref : x = seen[q] /\ y = at[q]
    BY <1>2
  <2>3. x = seen'[q] /\ y = at'[q]
    BY <2>2
  <2> QED
    BY <2>1, <2>2, <2>3
<1>4. k \in Ids /\ commits'[k] = commits[k]
  BY <1>1, <1>2, <1>3, StepHistories
<1>5. q \notin live /\ live \subseteq live' /\ (commits[k].by \notin live => commits[k].by \notin live')
  BY <1>1, <1>4, StepLive DEF AuthorsBegan
<1> QED
  BY <1>1, <1>3, <1>4, <1>5 DEF Collected

(* Each call of resolve_snapshot moves writes from where they are to the snapshot. *)
LEMMA StepCollected ==
    ASSUME DiffIInv, [Next]_vars, NEW q \in Req
    PROVE  Collected(q)'
<1>0. IInv /\ TypeOK /\ Collected(q) /\ AuthorsBegan
  BY DEF DiffIInv, IInv
<1>1. ASSUME NEW r \in Req, pc' = [pc EXCEPT ![r] = pc'[r]],
             seen' = [seen EXCEPT ![r] = seen'[r]], at' = [at EXCEPT ![r] = at'[r]],
             acc' = [acc EXCEPT ![r] = acc'[r]], q # r
      PROVE  Collected(q)'
  BY <1>0, <1>1, CollectedStands DEF TypeOK
<1>2. ASSUME pc'[q] \notin {"resolve", "readLive", "insertCommit"} \/ q \in live'
      PROVE  Collected(q)'
  BY <1>2 DEF Collected
<1>3. \A x \in Ref : History(x)' = History(x) /\ History(x) \subseteq Ids
  BY <1>0, StepHistories
<1>4. \A k \in Ids : commits'[k] = commits[k] /\ commits[k].by \in Req
  BY <1>0, StepHistories
<1>5. ASSUME NEW r \in Req, NEW n \in Name, EditBranch(r, n) PROVE Collected(q)'
  <2>1. CASE q # r
    BY <1>0, <1>1, <1>5, <2>1 DEF EditBranch, Goto, TypeOK
  <2>2. CASE q = r
    <3>1. pc'[q] = "resolve" /\ seen'[q] = at'[q]
      BY <1>0, <1>5, <2>2 DEF EditBranch, Goto, TypeOK
    <3>2. History(seen[q])' = History(at[q])'
      BY <3>1
    <3> QED
      BY <3>1, <3>2 DEF Collected
  <2> QED
    BY <2>1, <2>2
<1>6. ASSUME NEW r \in Req, ResolveStep(r) PROVE Collected(q)'
  <2>1. CASE q # r
    BY <1>0, <1>1, <1>6, <2>1 DEF ResolveStep, Goto, TypeOK
  <2>2. CASE q = r /\ Main \in rows /\ at[q] = head[Main]
    <3>1. /\ pc[q] = "resolve" /\ pc'[q] = "readLive" /\ seen'[q] = seen[q] /\ acc'[q] = acc[q]
          /\ live' = live /\ seen[q] \in Ref
      BY <1>0, <1>6, <2>2 DEF ResolveStep, Goto, TypeOK, stores
    <3>2. ASSUME NEW k \in History(seen[q]), q \notin live
          PROVE  \/ commits[k].by \in acc[q]
                 \/ commits[k].branch = Main /\ commits[k].by \notin live
                 \/ commits[k].by \in live
      <4>1. CASE k \in History(at[q])
        <5>1. k \in CommitsOf(Main)
          BY <1>0, <2>2, <4>1, MainHistory DEF DiffIInv
        <5> QED
          BY <5>1 DEF CommitsOf
      <4>2. CASE ~(k \in History(at[q]))
        BY <1>0, <3>1, <3>2, <4>2 DEF Collected
      <4> QED
        BY <4>1, <4>2
    <3>3. History(seen[q])' = History(seen[q])
      BY <1>3, <3>1
    <3>4. \A k \in History(seen[q]) : commits'[k] = commits[k]
      BY <1>3, <1>4, <3>1
    <3> QED
      BY <3>1, <3>2, <3>3, <3>4 DEF Collected
  <2>3. CASE q = r /\ ~(Main \in rows /\ at[q] = head[Main])
    <3> DEFINE base == fork[commits[at[q]].branch]
    <3>1. /\ pc[q] = "resolve" /\ at[q] \in Ids
          /\ pc'[q] = IF base = None THEN "insertCommit" ELSE "resolve"
          /\ at'[q] = base /\ acc'[q] = acc[q] \cup Writes(OwnChain(at[q]))
          /\ seen'[q] = seen[q] /\ live' = live /\ seen[q] \in Ref /\ base \in Ref
      <4>1. commits[at[r]].branch \in Name
        BY <1>0, <1>6, <2>3, CommitTyped DEF ResolveStep
      <4> QED
        BY <1>0, <1>6, <2>3, <4>1 DEF ResolveStep, Goto, TypeOK, stores
    <3>2. History(at[q]) \subseteq OwnChain(at[q]) \cup History(base)
      BY <1>0, <3>1, IInvForest, HistoryIs
    <3>3. History(seen[q])' = History(seen[q])
      BY <1>3, <3>1
    <3>4. History(at[q])' = History(base)
      <4>1. PICK x \in Ref : x = base
        BY <3>1
      <4>2. History(x)' = History(x) /\ x = at'[q]
        BY <1>3, <3>1, <4>1
      <4> QED
        BY <4>1, <4>2
    <3> HIDE DEF base
    <3>5. ASSUME NEW k \in History(seen[q]), q \notin live
          PROVE  \/ commits[k].by \in acc'[q]
                 \/ commits[k].branch = Main /\ commits[k].by \notin live
                 \/ base # None /\ k \in History(base)
      <4>1. k \in Ids /\ commits[k].by \in Req
        BY <1>3, <1>4, <3>1
      <4>2. CASE k \in OwnChain(at[q])
        BY <3>1, <4>1, <4>2 DEF Writes
      <4>3. CASE k \in History(base)
        BY <4>3, NoHistory
      <4>4. CASE ~(k \in History(at[q]))
        BY <1>0, <3>1, <3>5, <4>4 DEF Collected
      <4> QED
        BY <3>2, <4>2, <4>3, <4>4
    <3>6. \A k \in History(seen[q]) : commits'[k] = commits[k]
      BY <1>3, <1>4, <3>1
    <3> QED
      BY <3>1, <3>3, <3>4, <3>5, <3>6 DEF Collected
  <2> QED
    BY <2>1, <2>2, <2>3
<1>7. ASSUME NEW r \in Req, ReadLive(r) PROVE Collected(q)'
  <2>1. CASE q # r
    BY <1>0, <1>1, <1>7, <2>1 DEF ReadLive, Goto, TypeOK
  <2>2. CASE q = r
    <3>1. /\ pc[q] = "readLive" /\ pc'[q] = "insertCommit" /\ seen'[q] = seen[q]
          /\ acc'[q] = acc[q] \cup live /\ live' = live /\ seen[q] \in Ref
      BY <1>0, <1>7, <2>2 DEF ReadLive, Goto, TypeOK, stores
    <3>2. History(seen[q])' = History(seen[q])
      BY <1>3, <3>1
    <3>3. \A k \in History(seen[q]) : commits'[k] = commits[k]
      BY <1>3, <1>4, <3>1
    <3> QED
      BY <1>0, <3>1, <3>2, <3>3 DEF Collected
  <2> QED
    BY <2>1, <2>2
<1>8. ASSUME NEW r \in Req, ReadMain(r) PROVE Collected(q)'
  <2>1. CASE q # r
    BY <1>0, <1>1, <1>8, <2>1 DEF ReadMain, Goto, TypeOK
  <2>2. CASE q = r
    <3>1. q \in live'
      BY <1>0, <1>8, <2>2 DEF ReadMain, Goto, AuthorsBegan, stores
    <3> QED
      BY <1>2, <3>1
  <2> QED
    BY <2>1, <2>2
<1>9. ASSUME NEW r \in Req, NEW n \in Name,
             ForkFromMain(r, n) \/ \E c \in published \cup {Unknown} : ForkFromCommit(r, n, c)
      PROVE  Collected(q)'
  <2>1. CASE q # r
    BY <1>0, <1>1, <1>9, <2>1 DEF ForkFromMain, ForkFromCommit, Goto, TypeOK
  <2>2. CASE q = r
    BY <1>0, <1>2, <1>9, <2>2 DEF ForkFromMain, ForkFromCommit, Goto, TypeOK
  <2> QED
    BY <2>1, <2>2
<1>10. ASSUME NEW r \in Req,
              WriteLive(r) \/ InsertCommit(r) \/ AdvanceHead(r) \/ RecordAudit(r) \/ BranchStep(r) \/ Fail(r)
       PROVE  Collected(q)'
  <2>1. CASE q # r
    BY <1>0, <1>1, <1>10, <2>1 DEF WriteLive, InsertCommit, AdvanceHead, RecordAudit, BranchStep,
                                   ReadForkPoint, InsertBranch, Fail, Goto, TypeOK
  <2>2. CASE q = r
    BY <1>0, <1>2, <1>10, <2>2 DEF WriteLive, InsertCommit, AdvanceHead, RecordAudit, BranchStep,
                                   ReadForkPoint, InsertBranch, Fail, Goto, TypeOK
  <2> QED
    BY <2>1, <2>2
<1>11. CASE InsertProject \/ InsertMain \/ UNCHANGED vars
  BY <1>11, CollectedStands DEF InsertProject, InsertMain, vars, locals
<1> QED
  BY <1>5, <1>6, <1>7, <1>8, <1>9, <1>10, <1>11 DEF Next, Begin, RecordStep, EditStep

(* InsertCommit makes what was collected the basis of the row it appends. *)
LEMMA StepNoneMissed == DiffIInv /\ [Next]_vars => NoneMissed'
<1> SUFFICES ASSUME DiffIInv, [Next]_vars, NEW c \in Ids', commits'[c].by \notin live',
                    NEW k, k \in History(commits[c].parent)'
             PROVE  \/ commits'[k].by \in commits'[c].basis
                    \/ commits'[k].branch = Main /\ commits'[k].by \notin live'
  BY DEF NoneMissed, MissesNothing
<1>0. IInv /\ TypeOK /\ AuthorsBegan /\ NoneMissed /\ \A q \in Req : Collected(q)
  BY DEF DiffIInv, IInv
<1>1. CASE c \in Ids
  <2>1. PICK p \in Ref : p = commits[c].parent /\ commits'[c] = commits[c]
    BY <1>0, <1>1, StepHistories
  <2>2. k \in History(p) /\ k \in Ids /\ commits'[k] = commits[k]
    <3>1. p = commits'[c].parent
      BY <2>1
    <3>2. History(p)' = History(p) /\ History(p) \subseteq Ids
      BY <1>0, StepHistories
    <3> QED
      BY <1>0, <3>1, <3>2, StepHistories
  <2>3. commits[c].by \notin live /\ (commits[k].by \notin live => commits[k].by \notin live')
    BY <1>0, <1>1, <2>1, <2>2, StepLive DEF AuthorsBegan
  <2> QED
    BY <1>0, <1>1, <2>1, <2>2, <2>3 DEF NoneMissed, MissesNothing
<1>2. CASE c \notin Ids
  <2>1. PICK r \in Req : InsertCommit(r)
    BY <1>0, <1>2, StepCommits DEF Ids
  <2>2. commits'[c] = CommitRow(r) /\ pc[r] = "insertCommit" /\ live' = live
    BY <1>0, <1>2, <2>1, CommitAppended
  <2>3. PICK p \in Ref : p = seen[r]
    BY <1>0 DEF TypeOK
  <2>4. p = commits'[c].parent /\ commits'[c].basis = acc[r] /\ commits'[c].by = r
    BY <2>2, <2>3 DEF CommitRow
  <2>5. k \in History(p) /\ k \in Ids /\ commits'[k] = commits[k]
    BY <1>0, <2>4, StepHistories
  <2> QED
    BY <1>0, <2>2, <2>3, <2>4, <2>5 DEF Collected
<1> QED
  BY <1>1, <1>2

LEMMA InitDiffIInv == Init => DiffIInv
<1> SUFFICES ASSUME Init PROVE DiffIInv
  OBVIOUS
<1>1. Ids = {}
  BY DEF Init, Ids
<1> QED
  BY <1>1, InitIInv, MainAssumption
     DEF Init, DiffIInv, NothingBeforeMain, MainIsRoot, AuthorsBegan, Collected, NoneMissed, None

LEMMA StepDiffIInv == DiffIInv /\ [Next]_vars => DiffIInv'
<1> SUFFICES ASSUME DiffIInv, [Next]_vars PROVE DiffIInv'
  OBVIOUS
<1>1. IInv /\ NothingBeforeMain /\ MainIsRoot /\ AuthorsBegan
  BY DEF DiffIInv
<1> QED
  BY <1>1, StepIInv, StepBeforeMain, StepMainIsRoot, StepAuthors, StepCollected, StepNoneMissed DEF DiffIInv

----------------------------------------------------------------------------
(* Two commits of one branch: one is behind the other, or their chains part *)
(* at two commits of one parent.                                           *)

(* The parents of a branch's commits, as ChainRooted has them. *)
LEMMA RootedParents ==
    ASSUME IInv, NEW b \in Ids
    PROVE  LET p == commits[b].parent
               n == commits[b].branch IN
             /\ p \in Int /\ p < b /\ b \in Nat
             /\ \/ p \in CommitsOf(n) /\ p \in Ids /\ OwnChain(b) = {b} \cup OwnChain(p)
                \/ p = fork[n] /\ OwnChain(b) = {b}
<1> DEFINE p == commits[b].parent
           n == commits[b].branch
<1>1. Forest
  BY IInvForest
<1>2. p \in Int /\ p < b /\ b \in Nat /\ n \in Name
  BY <1>1, IdsAre, CommitTyped DEF Forest, IInv
<1>3. p \in CommitsOf(n) \cup {fork[n]}
  BY DEF IInv, ChainRooted, Rooted
<1>4. OwnChain(b) = {b} \cup IF p > 0 /\ commits[p].branch = n THEN OwnChain(p) ELSE {}
  BY <1>1, OwnChainIs
<1>5. ASSUME p \in CommitsOf(n)
      PROVE  p \in Ids /\ OwnChain(b) = {b} \cup OwnChain(p)
  <2>1. p \in Ids /\ commits[p].branch = n
    BY <1>5 DEF CommitsOf
  <2>2. p > 0
    BY <1>1, <2>1, IdsAre
  <2> QED
    BY <1>4, <2>1, <2>2
<1>6. ASSUME p \notin CommitsOf(n)
      PROVE  p = fork[n] /\ OwnChain(b) = {b}
  <2>1. ~(p > 0 /\ commits[p].branch = n)
    BY <1>1, <1>2, <1>6, IdsAre DEF CommitsOf
  <2> QED
    BY <1>3, <1>4, <1>6, <2>1
<1> QED
  BY <1>2, <1>5, <1>6

(* Every chain ends at the fork point of its branch. *)
LEMMA ChainReachesFork ==
    ASSUME IInv, NEW a \in Ids
    PROVE  \E j \in OwnChain(a) : commits[j].parent = fork[commits[a].branch]
<1> DEFINE T == {b \in Ids : ~ \E j \in OwnChain(b) : commits[j].parent = fork[commits[b].branch]}
<1> SUFFICES ASSUME T # {} PROVE FALSE
  OBVIOUS
<1>0. T \subseteq Ids
  OBVIOUS
<1> HIDE DEF T
<1>1. PICK b \in T : \A m \in T : b <= m
  BY <1>0, IdsLeast
<1> DEFINE p == commits[b].parent
<1>2. b \in Ids
  BY <1>0, <1>1
<1>3. p \in Int /\ p < b /\ b \in Nat
  BY <1>2, RootedParents
<1>4. CASE p \in CommitsOf(commits[b].branch) /\ p \in Ids /\ OwnChain(b) = {b} \cup OwnChain(p)
  <2>1. p \notin T
    BY <1>1, <1>3
  <2>2. commits[p].branch = commits[b].branch
    BY <1>4 DEF CommitsOf
  <2> QED
    BY <1>1, <1>4, <2>1, <2>2 DEF T
<1>5. CASE p = fork[commits[b].branch] /\ OwnChain(b) = {b}
  BY <1>1, <1>5 DEF T
<1> QED
  BY <1>2, <1>4, <1>5, RootedParents

(* What is behind a commit is the parent of one of its chain. *)
LEMMA ChainHasChild ==
    ASSUME IInv, NEW a \in Ids, NEW k \in OwnChain(a), k # a
    PROVE  \E j \in OwnChain(a) : commits[j].parent = k
<1> DEFINE T == {b \in Ids : k \in OwnChain(b) /\ k # b /\ ~ \E j \in OwnChain(b) : commits[j].parent = k}
<1> SUFFICES ASSUME T # {} PROVE FALSE
  OBVIOUS
<1>0. T \subseteq Ids
  OBVIOUS
<1> HIDE DEF T
<1>1. PICK b \in T : \A m \in T : b <= m
  BY <1>0, IdsLeast
<1> DEFINE p == commits[b].parent
<1>2. b \in Ids
  BY <1>0, <1>1
<1>3. p \in Int /\ p < b /\ b \in Nat
  BY <1>2, RootedParents
<1>4. CASE p \in CommitsOf(commits[b].branch) /\ p \in Ids /\ OwnChain(b) = {b} \cup OwnChain(p)
  <2>1. p \notin T
    BY <1>1, <1>3
  <2> QED
    BY <1>1, <1>4, <2>1 DEF T
<1>5. CASE p = fork[commits[b].branch] /\ OwnChain(b) = {b}
  BY <1>1, <1>5 DEF T
<1> QED
  BY <1>2, <1>4, <1>5, RootedParents

(* The chains of a and b hold two commits of one parent. *)
Part(a, b) == \E k \in OwnChain(a), j \in OwnChain(b) : j # k /\ commits[j].parent = commits[k].parent

(* By the least commit that neither precedes, follows nor parts from another. *)
LEMMA ChainsPart ==
    ASSUME IInv, NEW a \in Ids, NEW b \in Ids, commits[a].branch = commits[b].branch
    PROVE  a \in OwnChain(b) \/ b \in OwnChain(a) \/ Part(a, b)
<1> DEFINE Fits(x, y) == x \in OwnChain(y) \/ y \in OwnChain(x) \/ Part(x, y)
           T == {y \in Ids : \E x \in Ids : /\ x <= y /\ commits[x].branch = commits[y].branch
                                            /\ ~Fits(x, y)}
<1>0. \A x, y : Fits(x, y) <=> Fits(y, x)
  BY DEF Part
<1>1. T = {}
  <2> SUFFICES ASSUME T # {} PROVE FALSE
    OBVIOUS
  <2>0. T \subseteq Ids
    OBVIOUS
  <2> HIDE DEF T, Fits
  <2>1. PICK y \in T : \A m \in T : y <= m
    BY <2>0, IdsLeast
  <2>2. PICK x \in Ids : x <= y /\ commits[x].branch = commits[y].branch /\ ~Fits(x, y)
    BY <2>1 DEF T
  <2>3. y \in Ids /\ IInv
    BY <2>0, <2>1
  <2> DEFINE p == commits[y].parent
             n == commits[y].branch
  <2>4. p \in Int /\ p < y /\ y \in Nat /\ x \in Nat
    BY <2>3, RootedParents DEF Ids
  <2>5. y \in OwnChain(y)
    BY <2>3, OwnChainLocal, IInvForest
  <2>6. x # y /\ x < y
    <3>1. x # y
      BY <2>2, <2>5 DEF Fits
    <3> QED
      BY <2>2, <2>4, <3>1
  <2>7. \A j \in OwnChain(x) : j # y
    <3>1. \A j \in OwnChain(x) : j <= x /\ j \in Ids
      BY <2>2, OwnChainLocal, IInvForest DEF CommitsOf
    <3>2. Ids \subseteq Nat
      BY DEF Ids
    <3> QED
      BY <2>4, <2>6, <3>1, <3>2
  <2>8. CASE p = fork[n]
    <3>1. PICK j \in OwnChain(x) : commits[j].parent = p
      BY <2>2, <2>8, ChainReachesFork
    <3> QED
      BY <2>2, <2>5, <2>7, <3>1 DEF Fits, Part
  <2>9. CASE p \in CommitsOf(n) /\ p \in Ids /\ OwnChain(y) = {y} \cup OwnChain(p)
    <3>1. Fits(x, p)
      <4>1. commits[p].branch = commits[x].branch
        BY <2>2, <2>9 DEF CommitsOf
      <4>2. p \notin T /\ x \notin T
        BY <2>1, <2>2, <2>4, <2>6
      <4>3. CASE x <= p
        BY <2>2, <2>9, <4>1, <4>2, <4>3 DEF T
      <4>4. CASE p <= x
        BY <1>0, <2>2, <2>9, <4>1, <4>2, <4>4 DEF T
      <4> QED
        BY <2>4, <4>3, <4>4
    <3>2. CASE x \in OwnChain(p)
      BY <2>2, <2>9, <3>2 DEF Fits
    <3>3. CASE Part(x, p)
      BY <2>2, <2>9, <3>3 DEF Fits, Part
    <3>4. CASE p \in OwnChain(x) /\ p # x
      <4>1. PICK j \in OwnChain(x) : commits[j].parent = p
        BY <2>2, <3>4, ChainHasChild
      <4> QED
        BY <2>2, <2>5, <2>7, <4>1 DEF Fits, Part
    <3>5. CASE p = x
      <4>1. x \in OwnChain(x)
        BY <2>2, OwnChainLocal, IInvForest
      <4> QED
        BY <2>2, <2>9, <3>5, <4>1 DEF Fits
    <3> QED
      BY <3>1, <3>2, <3>3, <3>4, <3>5 DEF Fits
  <2> QED
    BY <2>3, <2>8, <2>9, RootedParents
<1>2. a \in Nat /\ b \in Nat
  BY DEF Ids
<1>3. CASE a <= b
  BY <1>1, <1>3
<1>4. CASE b <= a
  BY <1>0, <1>1, <1>4
<1> QED
  BY <1>2, <1>3, <1>4

(* A head, a parent and what a request reads come from published commits. *)
LEMMA StepShown ==
    ASSUME RaceIInv, [Next]_vars
    PROVE  /\ \A n \in Name : head'[n] \in Shown'
           /\ \A r \in Req : seen'[r] \in Shown'
           /\ \A c \in Ids' : commits'[c].parent \in Shown'
<1>0. /\ IInv /\ TypeOK
      /\ \A n \in Name : head[n] \in Shown
      /\ \A r \in Req : seen[r] \in Shown
      /\ \A c \in Ids : commits[c].parent \in Shown
  BY DEF RaceIInv, IInv
<1>1. ASSUME NEW r \in Req, AdvanceHead(r)
      PROVE  /\ Shown \subseteq Shown'
             /\ \A n \in Name : head'[n] \in Shown'
             /\ seen' = seen
  BY <1>0, <1>1 DEF AdvanceHead, TypeOK, Shown
<1>2. ASSUME UNCHANGED <<published, head, seen>>
      PROVE  /\ Shown \subseteq Shown'
             /\ \A n \in Name : head'[n] \in Shown'
             /\ \A r \in Req : seen'[r] \in Shown'
  BY <1>0, <1>2 DEF Shown
<1>3. ASSUME NEW r \in Req, NEW x \in Shown, UNCHANGED <<published, head>>, seen' = [seen EXCEPT ![r] = x]
      PROVE  /\ Shown \subseteq Shown'
             /\ \A n \in Name : head'[n] \in Shown'
             /\ \A q \in Req : seen'[q] \in Shown'
  BY <1>0, <1>3 DEF Shown, TypeOK
<1>4. ASSUME NEW r \in Req, InsertBranch(r)
      PROVE  /\ Shown \subseteq Shown'
             /\ \A n \in Name : head'[n] \in Shown'
             /\ \A q \in Req : seen'[q] \in Shown'
  BY <1>0, <1>4 DEF InsertBranch, Shown, TypeOK
<1>5. ASSUME NEW r \in Req, ReadMain(r) \/ ReadForkPoint(r)
               \/ \E n \in Name : EditBranch(r, n) \/ \E c \in published \cup {Unknown} : ForkFromCommit(r, n, c)
      PROVE  \E x \in Shown : UNCHANGED <<published, head>> /\ seen' = [seen EXCEPT ![r] = x]
  <2>1. head[Main] \in Shown /\ None \in Shown /\ published \cup {Unknown} \subseteq Shown
    BY <1>0, MainAssumption DEF Shown
  <2> QED
    BY <1>0, <1>5, <2>1 DEF ReadMain, ReadForkPoint, EditBranch, ForkFromCommit, stores
<1>6. ASSUME NEW r \in Req, WriteLive(r) \/ (\E n \in Name : ForkFromMain(r, n)) \/ InsertCommit(r)
                  \/ RecordAudit(r) \/ EditStep(r) \/ Fail(r)
      PROVE  UNCHANGED <<published, head, seen>>
  BY <1>6 DEF WriteLive, ForkFromMain, InsertCommit, RecordAudit, EditStep, ResolveStep, ReadLive, Fail, stores
<1>7. ASSUME InsertProject \/ InsertMain \/ UNCHANGED vars
      PROVE  UNCHANGED <<published, head, seen>>
  BY <1>7 DEF InsertProject, InsertMain, vars, stores, locals
<1>8. /\ Shown \subseteq Shown'
      /\ \A n \in Name : head'[n] \in Shown'
      /\ \A q \in Req : seen'[q] \in Shown'
  BY <1>0, <1>1, <1>2, <1>3, <1>4, <1>5, <1>6, <1>7 DEF Next, Begin, RecordStep, BranchStep
<1>9. ASSUME NEW c \in Ids' PROVE commits'[c].parent \in Shown'
  <2>1. CASE c \in Ids
    BY <1>0, <1>8, <2>1, StepHistories
  <2>2. CASE c \notin Ids
    <3>1. PICK r \in Req : InsertCommit(r)
      BY <1>0, <1>9, <2>2, StepCommits DEF Ids
    <3>2. commits'[c] = CommitRow(r)
      BY <1>0, <1>9, <2>2, <3>1, CommitAppended
    <3> QED
      BY <1>0, <1>8, <3>2 DEF CommitRow
  <2> QED
    BY <2>1, <2>2
<1> QED
  BY <1>8, <1>9

(* What is still missing from main's history, for a head a step left alone. *)
LEMMA StepLossKept ==
    ASSUME RaceIInv, [Next]_vars, head'[Main] = head[Main], published' = published
    PROVE  HistoryLossOnlyByRace'
<1>0. IInv /\ TypeOK /\ HistoryLossOnlyByRace
  BY DEF RaceIInv, IInv
<1> SUFFICES ASSUME NEW c \in CommitsOf(Main)', c \notin OwnChain(head[Main])', c \in published
             PROVE  \E k \in OwnChain(c)', j \in CommitsOf(Main)' :
                       j # k /\ commits'[j].parent = commits'[k].parent
  BY DEF HistoryLossOnlyByRace, Overtaken
<1>1. c \in Ids /\ c \in CommitsOf(Main)
  <2>1. c \in Ids
    BY <1>0 DEF TypeOK
  <2> QED
    BY <1>0, <2>1, StepHistories DEF CommitsOf
<1>2. OwnChain(c)' = OwnChain(c)
  <2>1. c \in Ref
    BY <1>1 DEF Ref
  <2> QED
    BY <1>0, <2>1, StepHistories
<1>3. OwnChain(head[Main])' = OwnChain(head[Main])
  <2>1. PICK h \in Ref : h = head[Main]
    BY <1>0, MainAssumption DEF TypeOK
  <2>2. OwnChain(h)' = OwnChain(h) /\ h = head'[Main]
    BY <1>0, <2>1, StepHistories
  <2> QED
    BY <2>1, <2>2
<1>4. PICK k \in OwnChain(c), j \in CommitsOf(Main) : j # k /\ commits[j].parent = commits[k].parent
  BY <1>0, <1>1, <1>3 DEF HistoryLossOnlyByRace, Overtaken
<1>5. k \in Ids /\ j \in Ids
  BY <1>0, <1>1, OwnChainLocal, IInvForest DEF CommitsOf
<1>6. j \in CommitsOf(Main)' /\ commits'[j] = commits[j] /\ commits'[k] = commits[k]
  BY <1>0, <1>4, <1>5, StepHistories DEF CommitsOf
<1> QED
  BY <1>2, <1>4, <1>6

(* Moving main's head to m drops c only if c and m part: m itself was never a parent. *)
LEMMA StepLoss == RaceIInv /\ [Next]_vars => HistoryLossOnlyByRace'
<1> SUFFICES ASSUME RaceIInv, [Next]_vars PROVE HistoryLossOnlyByRace'
  OBVIOUS
<1>0. IInv /\ TypeOK /\ NothingBeforeMain /\ HistoryLossOnlyByRace
  BY DEF RaceIInv, IInv
<1>1. CASE head'[Main] = head[Main] /\ published' = published
  BY <1>1, StepLossKept
<1>2. ASSUME NEW r \in Req, AdvanceHead(r) PROVE HistoryLossOnlyByRace'
  <2>1. PICK m : m = mine[r]
    OBVIOUS
  <2>2. /\ m \in CommitsOf(target[r]) /\ m \notin published /\ target[r] \in Name
        /\ head' = [head EXCEPT ![target[r]] = m] /\ published' = published \cup {m}
        /\ commits' = commits
    BY <1>0, <1>2, <2>1 DEF AdvanceHead, Goto, IInv, Reading, TypeOK
  <2>3. CommitsOf(Main)' = CommitsOf(Main)
    BY <2>2 DEF CommitsOf, Ids
  <2>4. \A c \in Ref : OwnChain(c)' = OwnChain(c)
    BY <1>0, StepHistories
  <2> SUFFICES ASSUME NEW c \in CommitsOf(Main), c \notin OwnChain(head[Main])', c \in published \cup {m}
               PROVE  \E k \in OwnChain(c), j \in CommitsOf(Main) :
                         j # k /\ commits[j].parent = commits[k].parent
    <3>1. \A c \in CommitsOf(Main) : OwnChain(c)' = OwnChain(c)
      BY <2>4 DEF CommitsOf, Ref
    <3> QED
      BY <2>2, <2>3, <3>1 DEF HistoryLossOnlyByRace, Overtaken
  <2>5. CASE target[r] = Main
    <3>1. OwnChain(head[Main])' = OwnChain(m)
      <4>1. m = head'[Main] /\ m \in Ref
        BY <1>0, <2>2, <2>5 DEF TypeOK, CommitsOf, Ref
      <4>2. OwnChain(m)' = OwnChain(m)
        BY <2>4, <4>1
      <4> QED
        BY <4>1, <4>2
    <3>2. m \in Ids /\ c \in Ids /\ commits[c].branch = commits[m].branch
      BY <2>2, <2>5 DEF CommitsOf
    <3>3. OwnChain(m) \subseteq CommitsOf(Main) /\ m \in OwnChain(m)
      BY <1>0, <2>2, <2>5, <3>2, OwnChainLocal, IInvForest DEF CommitsOf
    <3>4. c # m /\ c \notin OwnChain(m)
      BY <3>1, <3>3
    <3>5. m \notin OwnChain(c)
      <4> SUFFICES ASSUME m \in OwnChain(c) PROVE FALSE
        OBVIOUS
      <4>1. PICK j \in OwnChain(c) : commits[j].parent = m
        BY <1>0, <3>2, <3>4, ChainHasChild
      <4>2. j \in Ids
        BY <1>0, <3>2, <4>1, OwnChainLocal, IInvForest DEF CommitsOf
      <4>3. m \in Shown /\ m \notin {None, Unknown}
        BY <3>2, <4>1, <4>2 DEF RaceIInv, Ids, None, Unknown
      <4> QED
        BY <2>2, <4>3 DEF Shown
    <3>6. Part(c, m)
      BY <1>0, <3>2, <3>4, <3>5, ChainsPart
    <3> QED
      BY <3>3, <3>6 DEF Part
  <2>6. CASE target[r] # Main
    <3>1. c # m
      BY <2>2, <2>6 DEF CommitsOf
    <3>2. OwnChain(head[Main])' = OwnChain(head[Main])
      <4>1. PICK h \in Ref : h = head[Main]
        BY <1>0, MainAssumption DEF TypeOK
      <4>2. h = head'[Main] /\ OwnChain(h)' = OwnChain(h)
        BY <1>0, <2>2, <2>4, <2>6, <4>1, MainAssumption DEF TypeOK
      <4> QED
        BY <4>1, <4>2
    <3> QED
      BY <1>0, <3>1, <3>2 DEF HistoryLossOnlyByRace, Overtaken
  <2> QED
    BY <2>5, <2>6
<1>3. ASSUME NEW r \in Req, InsertBranch(r) PROVE HistoryLossOnlyByRace'
  <2>1. /\ head' = [head EXCEPT ![target[r]] = seen[r]] /\ published' = published /\ commits' = commits
        /\ target[r] \notin rows
    BY <1>3 DEF InsertBranch
  <2>2. CASE target[r] = Main
    <3>1. CommitsOf(Main)' = {}
      BY <1>0, <2>1, <2>2 DEF NothingBeforeMain, CommitsOf, Ids
    <3> QED
      BY <3>1 DEF HistoryLossOnlyByRace, Overtaken
  <2>3. CASE target[r] # Main
    BY <1>0, <1>1, <2>1, <2>3, MainAssumption DEF TypeOK
  <2> QED
    BY <2>2, <2>3
<1>4. ASSUME NEW r \in Req,
             Begin(r) \/ ReadMain(r) \/ InsertCommit(r) \/ RecordAudit(r) \/ EditStep(r)
               \/ ReadForkPoint(r) \/ Fail(r)
      PROVE  head' = head /\ published' = published
  BY <1>4 DEF Begin, WriteLive, EditBranch, ForkFromMain, ForkFromCommit, ReadMain, InsertCommit,
              RecordAudit, EditStep, ResolveStep, ReadLive, ReadForkPoint, Fail, stores
<1>5. CASE InsertProject \/ InsertMain \/ UNCHANGED vars
  BY <1>1, <1>5 DEF InsertProject, InsertMain, vars, stores
<1> QED
  BY <1>1, <1>2, <1>3, <1>4, <1>5 DEF Next, RecordStep, BranchStep

LEMMA InitRaceIInv == Init => RaceIInv
<1> SUFFICES ASSUME Init PROVE RaceIInv
  OBVIOUS
<1>1. Ids = {}
  BY DEF Init, Ids
<1> QED
  BY <1>1, InitIInv, MainAssumption
     DEF Init, RaceIInv, NothingBeforeMain, Shown, HistoryLossOnlyByRace, CommitsOf

LEMMA StepRaceIInv == RaceIInv /\ [Next]_vars => RaceIInv'
<1> SUFFICES ASSUME RaceIInv, [Next]_vars PROVE RaceIInv'
  OBVIOUS
<1>1. IInv /\ NothingBeforeMain
  BY DEF RaceIInv
<1> QED
  BY <1>1, StepIInv, StepBeforeMain, StepShown, StepLoss DEF RaceIInv

(* A commit that was main's head and is no longer in main's history was      *)
(* raced: the chain to it and main's own hold two commits of one parent.     *)
THEOREM HistoryIsLostOnlyByRace == Spec => []HistoryLossOnlyByRace
<1>1. RaceIInv => HistoryLossOnlyByRace
  BY DEF RaceIInv
<1> QED
  BY <1>1, InitRaceIInv, StepRaceIInv, PTL DEF Spec

----------------------------------------------------------------------------
(* The second half of DiffAgainstParent: what else a snapshot holds is     *)
(* accounted for at each call of resolve_snapshot.                         *)

(* A write that is live is committed to main. *)
LiveIsMain ==
    /\ \A c \in Ids : commits[c].by \in live => commits[c].branch = Main
    /\ \A r \in live : pc[r] \in {"readMain", "insertCommit"} => target[r] = Main

(* The live write w is out of main's history by a race. *)
Raced(w) == \E j \in CommitsOf(Main) : commits[j].by = w /\ Overtaken(j)

Accounted(r, w) == w \in Writes(History(seen[r])) \/ w \in unrecorded[r] \/ Raced(w)

(* What an edit gathered, and what it may still gather, is accounted for. *)
Gathered(r) ==
    (r \notin live /\ pc[r] \in {"resolve", "readLive", "insertCommit"}) =>
        /\ \A w \in acc[r] : Accounted(r, w)
        /\ pc[r] = "resolve" => History(at[r]) \subseteq History(seen[r])
        /\ pc[r] = "readLive" => \A w \in live : Accounted(r, w)

NothingElse == \A c \in Ids : commits[c].by \notin live => HoldsNothingElse(c)

(* Nothing is gathered before the first call. *)
Empty == \A r \in Req : pc[r] = "idle" => acc[r] = {}

ElseIInv ==
    /\ DiffIInv
    /\ RaceIInv
    /\ LiveIsMain
    /\ Empty
    /\ \A r \in Req : Gathered(r)
    /\ NothingElse

(* What a step leaves of the writes that are accounted for. *)
LEMMA StepAccounts ==
    ASSUME IInv, [Next]_vars
    PROVE  /\ \A x \in Ref : Writes(History(x)) \subseteq Writes(History(x))'
           /\ \A w : Raced(w) => Raced(w)'
           /\ \A r \in Req : unrecorded[r] \subseteq unrecorded'[r]
<1>0. TypeOK
  BY DEF IInv
<1>1. ASSUME NEW x \in Ref, NEW w \in Writes(History(x)) PROVE w \in Writes(History(x))'
  <2>1. PICK k \in History(x) : commits[k].by = w
    BY DEF Writes
  <2>2. k \in History(x)' /\ commits'[k] = commits[k]
    BY <1>1, <2>1, StepHistories
  <2> QED
    BY <1>1, <2>1, <2>2 DEF Writes
<1>2. CommitsOf(Main) \subseteq CommitsOf(Main)'
  BY StepHistories DEF CommitsOf
<1>3. ASSUME NEW w, Raced(w) PROVE Raced(w)'
  <2>1. PICK c \in CommitsOf(Main) : commits[c].by = w /\ Overtaken(c)
    BY <1>3 DEF Raced
  <2>2. PICK k \in OwnChain(c), j \in CommitsOf(Main) : j # k /\ commits[j].parent = commits[k].parent
    BY <2>1 DEF Overtaken
  <2>3. c \in Ids /\ c \in Ref /\ j \in Ids
    BY DEF CommitsOf, Ref
  <2>4. k \in Ids
    BY <2>3, OwnChainLocal, IInvForest DEF CommitsOf
  <2>5. k \in OwnChain(c)'
    BY <2>3, StepHistories
  <2>6. j \in CommitsOf(Main)' /\ c \in CommitsOf(Main)'
    BY <1>2
  <2>7. commits'[j] = commits[j] /\ commits'[k] = commits[k] /\ commits'[c] = commits[c]
    BY <2>3, <2>4, StepHistories
  <2>8. Overtaken(c)'
    BY <2>2, <2>5, <2>6, <2>7 DEF Overtaken
  <2> QED
    BY <2>1, <2>6, <2>7, <2>8 DEF Raced
<1>4. ASSUME NEW r \in Req PROVE unrecorded[r] \subseteq unrecorded'[r]
  <2>1. CASE UNCHANGED unrecorded
    BY <2>1
  <2>2. ASSUME NEW q \in Req, WriteLive(q) PROVE unrecorded[r] \subseteq unrecorded'[r]
    BY <2>2 DEF WriteLive
  <2>3. ASSUME NEW q \in Req, ResolveStep(q) PROVE unrecorded[r] \subseteq unrecorded'[r]
    BY <1>0, <2>3 DEF ResolveStep, TypeOK
  <2>4. ASSUME NEW q \in Req, RecordStep(q) \/ ReadLive(q) \/ BranchStep(q) \/ Fail(q) PROVE UNCHANGED unrecorded
    BY <2>4 DEF RecordStep, BranchStep, Fail, ReadMain, InsertCommit, AdvanceHead, RecordAudit,
                ReadLive, ReadForkPoint, InsertBranch
  <2>5. ASSUME NEW q \in Req, NEW n \in Name, EditBranch(q, n) \/ ForkFromMain(q, n)
                        \/ \E c \in published \cup {Unknown} : ForkFromCommit(q, n, c)
        PROVE UNCHANGED unrecorded
    BY <2>5 DEF EditBranch, ForkFromMain, ForkFromCommit
  <2>6. CASE InsertProject \/ InsertMain \/ UNCHANGED vars
    BY <2>6 DEF InsertProject, InsertMain, vars, locals
  <2> QED
    BY <2>1, <2>2, <2>3, <2>4, <2>5, <2>6 DEF Next, Begin, EditStep
<1> QED
  BY <1>1, <1>3, <1>4

(* So a write stays accounted for. *)
LEMMA StepAccounted ==
    ASSUME IInv, [Next]_vars, NEW r \in Req, seen'[r] = seen[r], NEW w, Accounted(r, w)
    PROVE  Accounted(r, w)'
<1>1. PICK x \in Ref : x = seen[r]
  BY DEF IInv, TypeOK
<1>2. x = seen'[r]
  BY <1>1
<1>3. w \in Writes(History(seen[r])) => w \in Writes(History(seen[r]))'
  <2>1. Writes(History(x)) \subseteq Writes(History(x))'
    BY StepAccounts
  <2> QED
    BY <1>1, <1>2, <2>1
<1>4. Raced(w) => Raced(w)'
  BY StepAccounts
<1>5. w \in unrecorded[r] => w \in unrecorded'[r]
  BY StepAccounts
<1> QED
  BY <1>3, <1>4, <1>5 DEF Accounted

(* Whoever makes a live write commits it to main. *)
LEMMA StepLiveIsMain == IInv /\ AuthorsBegan /\ LiveIsMain /\ [Next]_vars => LiveIsMain'
<1> SUFFICES ASSUME IInv, AuthorsBegan, LiveIsMain, [Next]_vars PROVE LiveIsMain'
  OBVIOUS
<1>0. TypeOK /\ live' \subseteq Req
  BY StepIInv DEF IInv, TypeOK
<1>1. ASSUME NEW c \in Ids', commits'[c].by \in live' PROVE commits'[c].branch = Main
  <2>1. CASE c \in Ids
    <3>1. commits'[c] = commits[c] /\ pc[commits[c].by] # "idle"
      BY <2>1, StepHistories DEF AuthorsBegan
    <3>2. commits[c].by \in live
      BY <1>1, <3>1, StepLive
    <3> QED
      BY <2>1, <3>1, <3>2 DEF LiveIsMain
  <2>2. CASE c \notin Ids
    <3>1. PICK r \in Req : InsertCommit(r)
      BY <1>1, <2>2, StepCommits DEF Ids
    <3>2. commits'[c] = CommitRow(r) /\ pc[r] = "insertCommit" /\ live' = live
      BY <1>1, <2>2, <3>1, CommitAppended
    <3> QED
      BY <1>1, <3>2 DEF CommitRow, LiveIsMain
  <2> QED
    BY <2>1, <2>2
<1>2. ASSUME NEW q \in live', pc'[q] \in {"readMain", "insertCommit"} PROVE target'[q] = Main
  <2>0. q \in Req
    BY <1>0
  <2>1. ASSUME NEW r \in Req, WriteLive(r) PROVE target'[q] = Main
    BY <1>0, <1>2, <2>0, <2>1 DEF WriteLive, Goto, LiveIsMain, TypeOK
  <2>2. ASSUME target' = target, live' = live, pc'[q] = pc[q] PROVE target'[q] = Main
    BY <1>2, <2>2 DEF LiveIsMain
  <2>3. ASSUME NEW r \in Req, ReadMain(r) PROVE target'[q] = Main
    BY <1>0, <1>2, <2>0, <2>3 DEF ReadMain, Goto, LiveIsMain, TypeOK, stores
  <2>4. ASSUME NEW r \in Req, InsertCommit(r) \/ AdvanceHead(r) \/ RecordAudit(r) \/ Fail(r) \/ BranchStep(r)
        PROVE target'[q] = Main
    <3>1. CASE q = r
      <4>1. \E to \in PC \ {"readMain", "insertCommit"} : pc' = [pc EXCEPT ![r] = to]
        BY <2>4 DEF InsertCommit, AdvanceHead, RecordAudit, Fail, BranchStep, ReadForkPoint, InsertBranch, Goto, PC, Ended
      <4> QED
        BY <1>0, <1>2, <3>1, <4>1 DEF TypeOK
    <3>2. CASE q # r
      BY <1>0, <2>0, <2>2, <2>4, <3>2 DEF InsertCommit, AdvanceHead, RecordAudit, Fail, BranchStep,
                                   ReadForkPoint, InsertBranch, Goto, TypeOK, stores
    <3> QED
      BY <3>1, <3>2
  <2>5. ASSUME NEW r \in Req, EditStep(r) PROVE target'[q] = Main
    <3>1. CASE q = r
      <4>1. pc[r] \in {"resolve", "readLive"} /\ live' = live
        BY <2>5 DEF EditStep, ResolveStep, ReadLive, Goto, stores
      <4> QED
        BY <1>2, <2>0, <3>1, <4>1 DEF IInv, Progress
    <3>2. CASE q # r
      BY <1>0, <2>0, <2>2, <2>5, <3>2 DEF EditStep, ResolveStep, ReadLive, Goto, TypeOK, stores
    <3> QED
      BY <3>1, <3>2
  <2>6. ASSUME NEW r \in Req, NEW n \in Name, EditBranch(r, n) \/ ForkFromMain(r, n)
                        \/ \E c \in published \cup {Unknown} : ForkFromCommit(r, n, c)
        PROVE target'[q] = Main
    <3>1. pc[r] = "idle" /\ live' = live
      BY <2>6 DEF EditBranch, ForkFromMain, ForkFromCommit, Goto, stores
    <3>2. q # r
      BY <1>2, <2>0, <3>1 DEF IInv, Progress
    <3> QED
      BY <1>0, <1>2, <2>0, <2>6, <3>1, <3>2 DEF EditBranch, ForkFromMain, ForkFromCommit, Goto, TypeOK, stores, LiveIsMain
  <2>7. CASE InsertProject \/ InsertMain \/ UNCHANGED vars
    BY <2>2, <2>7 DEF InsertProject, InsertMain, vars, stores, locals
  <2> QED
    BY <2>1, <2>3, <2>4, <2>5, <2>6, <2>7 DEF Next, Begin, RecordStep
<1> QED
  BY <1>1, <1>2 DEF LiveIsMain

LEMMA StepEmpty == IInv /\ Empty /\ [Next]_vars => Empty'
<1> SUFFICES ASSUME IInv, Empty, [Next]_vars, NEW q \in Req, pc'[q] = "idle" PROVE acc'[q] = {}
  BY DEF Empty
<1>0. TypeOK
  BY DEF IInv
<1>1. ASSUME pc[q] = "idle", acc'[q] = acc[q] PROVE acc'[q] = {}
  BY <1>1 DEF Empty
<1>2. ASSUME NEW r \in Req, Begin(r) \/ RecordStep(r) \/ EditStep(r) \/ BranchStep(r) \/ Fail(r)
      PROVE  \E to \in PC \ {"idle"} : pc' = [pc EXCEPT ![r] = to]
  BY <1>2 DEF Begin, WriteLive, EditBranch, ForkFromMain, ForkFromCommit, RecordStep, ReadMain,
              InsertCommit, AdvanceHead, RecordAudit, EditStep, ResolveStep, ReadLive, BranchStep,
              ReadForkPoint, InsertBranch, Fail, Goto, PC, Ended
<1>3. ASSUME NEW r \in Req, NEW to \in PC \ {"idle"}, pc' = [pc EXCEPT ![r] = to] PROVE pc[q] = "idle" /\ q # r
  BY <1>0, <1>3 DEF TypeOK
<1>4. ASSUME NEW r \in Req, q # r, Begin(r) \/ RecordStep(r) \/ EditStep(r) \/ BranchStep(r) \/ Fail(r)
      PROVE  acc'[q] = acc[q]
  BY <1>0, <1>4 DEF Begin, WriteLive, EditBranch, ForkFromMain, ForkFromCommit, RecordStep, ReadMain,
              InsertCommit, AdvanceHead, RecordAudit, EditStep, ResolveStep, ReadLive, BranchStep,
              ReadForkPoint, InsertBranch, Fail, TypeOK
<1>5. CASE InsertProject \/ InsertMain \/ UNCHANGED vars
  BY <1>1, <1>5 DEF InsertProject, InsertMain, vars, locals
<1> QED
  BY <1>1, <1>2, <1>3, <1>4, <1>5 DEF Next

(* A request no step of its own touched still has what it gathered; what others *)
(* write meanwhile is unrecorded for it.                                        *)
LEMMA GatheredStands ==
    ASSUME ElseIInv, [Next]_vars, NEW q \in Req,
           pc'[q] = pc[q], seen'[q] = seen[q], at'[q] = at[q], acc'[q] = acc[q],
           live' = live \/ \E r \in Req : WriteLive(r)
    PROVE  Gathered(q)'
<1>0. IInv /\ TypeOK /\ Gathered(q)
  BY DEF ElseIInv, DiffIInv, IInv
<1> SUFFICES ASSUME q \notin live', pc[q] \in {"resolve", "readLive", "insertCommit"}
             PROVE  /\ \A w \in acc[q] : Accounted(q, w)'
                    /\ pc[q] = "resolve" => History(at[q])' \subseteq History(seen[q])'
                    /\ pc[q] = "readLive" => \A w \in live' : Accounted(q, w)'
  BY DEF Gathered
<1>1. q \notin live
  BY <1>0, StepLive
<1>2. \A w \in acc[q] : Accounted(q, w)'
  BY <1>0, <1>1, StepAccounted DEF Gathered
<1>3. ASSUME pc[q] = "resolve" PROVE History(at[q])' \subseteq History(seen[q])'
  <2>1. PICK x, y \in Ref : x = seen[q] /\ y = at[q]
    BY <1>0 DEF TypeOK
  <2>2. x = seen'[q] /\ y = at'[q]
    BY <2>1
  <2>3. History(x)' = History(x) /\ History(y)' = History(y)
    BY <1>0, StepHistories
  <2>4. History(y) \subseteq History(x)
    BY <1>0, <1>1, <1>3, <2>1 DEF Gathered
  <2> QED
    BY <2>1, <2>2, <2>3, <2>4
<1>4. ASSUME pc[q] = "readLive", NEW w \in live' PROVE Accounted(q, w)'
  <2>1. CASE w \in live
    BY <1>0, <1>1, <1>4, <2>1, StepAccounted DEF Gathered
  <2>2. CASE w \notin live
    <3>1. PICK r \in Req : WriteLive(r)
      BY <1>4, <2>2
    <3>2. w \in unrecorded'[q]
      BY <1>0, <1>4, <2>2, <3>1 DEF WriteLive, TypeOK
    <3> QED
      BY <3>2 DEF Accounted
  <2> QED
    BY <2>1, <2>2
<1> QED
  BY <1>2, <1>3, <1>4

(* Main's head stands for every live write but those that are accounted for. *)
LEMMA LiveAccounted ==
    ASSUME ElseIInv, NEW q \in Req, NEW w \in live, w \in Recorded,
           head[Main] = at[q], History(at[q]) \subseteq History(seen[q])
    PROVE  Accounted(q, w)
<1>0. IInv /\ TypeOK /\ LiveIsMain /\ HistoryLossOnlyByRace
  BY DEF ElseIInv, RaceIInv, IInv
<1>1. PICK c \in published : commits[c].by = w
  BY DEF Recorded, Writes
<1>2. c \in CommitsOf(Main)
  BY <1>0, <1>1 DEF TypeOK, LiveIsMain, CommitsOf
<1>3. CASE c \in OwnChain(head[Main])
  <2>1. head[Main] \in Ref
    BY <1>0, MainAssumption DEF TypeOK
  <2>2. head[Main] \in Ids
    BY <1>3, <2>1, NoHistory DEF Ref
  <2>3. OwnChain(head[Main]) \subseteq History(head[Main])
    BY <1>0, <2>2, IInvForest, HistoryIs
  <2>4. c \in History(seen[q])
    BY <1>3, <2>3
  <2>5. w \in Writes(History(seen[q]))
    BY <1>0, <1>1, <2>4 DEF Writes, TypeOK
  <2> QED
    BY <2>5 DEF Accounted
<1>4. CASE Overtaken(c)
  BY <1>1, <1>2, <1>4 DEF Accounted, Raced
<1> QED
  BY <1>0, <1>1, <1>2, <1>3, <1>4 DEF HistoryLossOnlyByRace

(* Each call of resolve_snapshot gathers only what is accounted for. *)
LEMMA StepGathered ==
    ASSUME ElseIInv, [Next]_vars, NEW q \in Req
    PROVE  Gathered(q)'
<1>0. IInv /\ TypeOK /\ Gathered(q)
  BY DEF ElseIInv, DiffIInv, IInv
<1>1. ASSUME NEW r \in Req, pc' = [pc EXCEPT ![r] = pc'[r]],
             seen' = [seen EXCEPT ![r] = seen'[r]], at' = [at EXCEPT ![r] = at'[r]],
             acc' = [acc EXCEPT ![r] = acc'[r]], q # r, live' = live \/ WriteLive(r)
      PROVE  Gathered(q)'
  BY <1>0, <1>1, GatheredStands DEF TypeOK
<1>2. ASSUME pc'[q] \notin {"resolve", "readLive", "insertCommit"} \/ q \in live'
      PROVE  Gathered(q)'
  BY <1>2 DEF Gathered
<1>5. ASSUME NEW r \in Req, NEW n \in Name, EditBranch(r, n) PROVE Gathered(q)'
  <2>1. CASE q # r
    BY <1>0, <1>1, <1>5, <2>1 DEF EditBranch, Goto, TypeOK, stores
  <2>2. CASE q = r
    <3>1. pc'[q] = "resolve" /\ seen'[q] = at'[q] /\ acc'[q] = acc[q] /\ pc[q] = "idle"
      BY <1>0, <1>5, <2>2 DEF EditBranch, Goto, TypeOK
    <3>2. acc'[q] = {}
      BY <3>1 DEF ElseIInv, Empty
    <3>3. History(seen[q])' = History(at[q])'
      BY <3>1
    <3> QED
      BY <3>1, <3>2, <3>3 DEF Gathered
  <2> QED
    BY <2>1, <2>2
<1>6. ASSUME NEW r \in Req, ResolveStep(r) PROVE Gathered(q)'
  <2>1. CASE q # r
    BY <1>0, <1>1, <1>6, <2>1 DEF ResolveStep, Goto, TypeOK, stores
  <2>2. CASE q = r /\ Main \in rows /\ at[q] = head[Main]
    <3>1. /\ pc[q] = "resolve" /\ pc'[q] = "readLive" /\ seen'[q] = seen[q] /\ acc'[q] = acc[q]
          /\ live' = live /\ live \ Recorded \subseteq unrecorded'[q]
      BY <1>0, <1>6, <2>2 DEF ResolveStep, Goto, TypeOK, stores
    <3>2. ASSUME q \notin live, NEW w \in acc[q] PROVE Accounted(q, w)'
      BY <1>0, <3>1, <3>2, StepAccounted DEF Gathered
    <3>3. ASSUME q \notin live, NEW w \in live PROVE Accounted(q, w)'
      <4>1. CASE w \in Recorded
        <5>1. History(at[q]) \subseteq History(seen[q])
          BY <1>0, <3>1, <3>3 DEF Gathered
        <5>2. Accounted(q, w)
          BY <2>2, <3>3, <4>1, <5>1, LiveAccounted
        <5> QED
          BY <1>0, <3>1, <5>2, StepAccounted
      <4>2. CASE w \notin Recorded
        BY <3>1, <3>3, <4>2 DEF Accounted
      <4> QED
        BY <4>1, <4>2
    <3> QED
      BY <3>1, <3>2, <3>3 DEF Gathered
  <2>3. CASE q = r /\ ~(Main \in rows /\ at[q] = head[Main])
    <3> DEFINE base == fork[commits[at[q]].branch]
    <3>1. /\ pc[q] = "resolve" /\ at[q] \in Ids
          /\ pc'[q] = IF base = None THEN "insertCommit" ELSE "resolve"
          /\ at'[q] = base /\ acc'[q] = acc[q] \cup Writes(OwnChain(at[q]))
          /\ seen'[q] = seen[q] /\ live' = live /\ seen[q] \in Ref /\ base \in Ref
      <4>1. commits[at[r]].branch \in Name
        BY <1>0, <1>6, <2>3, CommitTyped DEF ResolveStep
      <4> QED
        BY <1>0, <1>6, <2>3, <4>1 DEF ResolveStep, Goto, TypeOK, stores
    <3>2. History(at[q]) = OwnChain(at[q]) \cup IF base > 0 THEN History(base) ELSE {}
      BY <1>0, <3>1, IInvForest, HistoryIs
    <3>3. History(seen[q])' = History(seen[q])
      <4>1. PICK x \in Ref : x = seen[q]
        BY <3>1
      <4>2. History(x)' = History(x) /\ x = seen'[q]
        BY <1>0, <3>1, <4>1, StepHistories
      <4> QED
        BY <4>1, <4>2
    <3>4. History(at[q])' = History(base)
      <4>1. PICK x \in Ref : x = base
        BY <3>1
      <4>2. History(x)' = History(x) /\ x = at'[q]
        BY <1>0, <3>1, <4>1, StepHistories
      <4> QED
        BY <4>1, <4>2
    <3>5. base > 0 \/ History(base) = {}
      <4>1. base \in Ids => base > 0
        BY DEF Ids
      <4>2. base \notin Ids => base = None \/ base = Unknown
        BY <3>1 DEF Ref
      <4> HIDE DEF base
      <4> QED
        BY <4>1, <4>2, NoHistory
    <3> HIDE DEF base
    <3>6. ASSUME q \notin live PROVE History(at[q]) \subseteq History(seen[q])
      BY <1>0, <3>1, <3>6 DEF Gathered
    <3>7. ASSUME q \notin live PROVE History(at[q])' \subseteq History(seen[q])'
      BY <3>2, <3>3, <3>4, <3>5, <3>6, <3>7
    <3>8. ASSUME q \notin live, NEW w \in acc'[q] PROVE Accounted(q, w)'
      <4>1. CASE w \in acc[q]
        BY <1>0, <3>1, <3>8, <4>1, StepAccounted DEF Gathered
      <4>2. CASE w \in Writes(OwnChain(at[q]))
        <5>1. w \in Writes(History(seen[q]))
          BY <3>2, <3>6, <3>8, <4>2 DEF Writes
        <5>2. Accounted(q, w)
          BY <5>1 DEF Accounted
        <5> QED
          BY <1>0, <3>1, <5>2, StepAccounted
      <4> QED
        BY <3>1, <3>8, <4>1, <4>2
    <3>9. pc'[q] # "readLive"
      BY <3>1
    <3> QED
      BY <3>1, <3>7, <3>8, <3>9 DEF Gathered
  <2> QED
    BY <2>1, <2>2, <2>3
<1>7. ASSUME NEW r \in Req, ReadLive(r) PROVE Gathered(q)'
  <2>1. CASE q # r
    BY <1>0, <1>1, <1>7, <2>1 DEF ReadLive, Goto, TypeOK, stores
  <2>2. CASE q = r
    <3>1. /\ pc[q] = "readLive" /\ pc'[q] = "insertCommit" /\ seen'[q] = seen[q]
          /\ acc'[q] = acc[q] \cup live /\ live' = live
      BY <1>0, <1>7, <2>2 DEF ReadLive, Goto, TypeOK, stores
    <3>2. ASSUME q \notin live, NEW w \in acc'[q] PROVE Accounted(q, w)'
      <4>1. Accounted(q, w)
        BY <1>0, <3>1, <3>2 DEF Gathered
      <4> QED
        BY <1>0, <3>1, <4>1, StepAccounted
    <3> QED
      BY <3>1, <3>2 DEF Gathered
  <2> QED
    BY <2>1, <2>2
<1>8. ASSUME NEW r \in Req, ReadMain(r) PROVE Gathered(q)'
  <2>1. CASE q # r
    BY <1>0, <1>1, <1>8, <2>1 DEF ReadMain, Goto, TypeOK, stores
  <2>2. CASE q = r
    <3>1. q \in live'
      BY <1>0, <1>8, <2>2 DEF ReadMain, Goto, ElseIInv, DiffIInv, AuthorsBegan, stores
    <3> QED
      BY <1>2, <3>1
  <2> QED
    BY <2>1, <2>2
<1>9. ASSUME NEW r \in Req, NEW n \in Name,
             ForkFromMain(r, n) \/ \E c \in published \cup {Unknown} : ForkFromCommit(r, n, c)
      PROVE  Gathered(q)'
  <2>1. CASE q # r
    BY <1>0, <1>1, <1>9, <2>1 DEF ForkFromMain, ForkFromCommit, Goto, TypeOK, stores
  <2>2. CASE q = r
    BY <1>0, <1>2, <1>9, <2>2 DEF ForkFromMain, ForkFromCommit, Goto, TypeOK
  <2> QED
    BY <2>1, <2>2
<1>10. ASSUME NEW r \in Req,
              WriteLive(r) \/ InsertCommit(r) \/ AdvanceHead(r) \/ RecordAudit(r) \/ BranchStep(r) \/ Fail(r)
       PROVE  Gathered(q)'
  <2>1. CASE q # r
    BY <1>0, <1>1, <1>10, <2>1 DEF WriteLive, InsertCommit, AdvanceHead, RecordAudit, BranchStep,
                                   ReadForkPoint, InsertBranch, Fail, Goto, TypeOK, stores
  <2>2. CASE q = r
    BY <1>0, <1>2, <1>10, <2>2 DEF WriteLive, InsertCommit, AdvanceHead, RecordAudit, BranchStep,
                                   ReadForkPoint, InsertBranch, Fail, Goto, TypeOK
  <2> QED
    BY <2>1, <2>2
<1>11. CASE InsertProject \/ InsertMain \/ UNCHANGED vars
  BY <1>11, GatheredStands DEF InsertProject, InsertMain, vars, stores, locals
<1> QED
  BY <1>5, <1>6, <1>7, <1>8, <1>9, <1>10, <1>11 DEF Next, Begin, RecordStep, EditStep

LEMMA StepNothingElse == ElseIInv /\ [Next]_vars => NothingElse'
<1> SUFFICES ASSUME ElseIInv, [Next]_vars, NEW c \in Ids', commits'[c].by \notin live',
                    NEW w \in commits'[c].basis
             PROVE  \/ w \in Writes(History(commits[c].parent))'
                    \/ w \in unrecorded'[commits'[c].by]
                    \/ Raced(w)'
  BY DEF NothingElse, HoldsNothingElse, Raced
<1>0. IInv /\ TypeOK /\ AuthorsBegan /\ NothingElse /\ \A q \in Req : Gathered(q)
  BY DEF ElseIInv, DiffIInv, IInv
<1>1. CASE c \in Ids
  <2>1. PICK p \in Ref : p = commits[c].parent /\ commits'[c] = commits[c] /\ commits[c].by \in Req
    BY <1>0, <1>1, StepHistories
  <2>2. commits[c].by \notin live /\ w \in commits[c].basis
    BY <1>0, <1>1, <2>1, StepLive DEF AuthorsBegan
  <2>3. w \in Writes(History(p)) \/ w \in unrecorded[commits[c].by] \/ Raced(w)
    BY <1>0, <1>1, <2>1, <2>2 DEF NothingElse, HoldsNothingElse, Raced
  <2>4. p = commits'[c].parent
    BY <2>1
  <2>5. Writes(History(p)) \subseteq Writes(History(p))' /\ (Raced(w) => Raced(w)')
        /\ unrecorded[commits[c].by] \subseteq unrecorded'[commits[c].by]
    BY <1>0, <2>1, StepAccounts
  <2> QED
    BY <2>1, <2>3, <2>4, <2>5
<1>2. CASE c \notin Ids
  <2>1. PICK r \in Req : InsertCommit(r)
    BY <1>0, <1>2, StepCommits DEF Ids
  <2>2. /\ commits'[c] = CommitRow(r) /\ pc[r] = "insertCommit" /\ live' = live
        /\ seen' = seen
    BY <1>0, <1>2, <2>1, CommitAppended
  <2>3. commits'[c].parent = seen'[r] /\ commits'[c].basis = acc[r] /\ commits'[c].by = r
    BY <2>2 DEF CommitRow
  <2>4. Accounted(r, w)
    BY <1>0, <2>2, <2>3 DEF Gathered
  <2>5. Accounted(r, w)'
    BY <1>0, <2>2, <2>4, StepAccounted
  <2>6. Writes(History(seen[r]))' = Writes(History(commits[c].parent))'
    BY <2>3
  <2> QED
    BY <2>3, <2>5, <2>6 DEF Accounted
<1> QED
  BY <1>1, <1>2

LEMMA InitElseIInv == Init => ElseIInv
<1> SUFFICES ASSUME Init PROVE ElseIInv
  OBVIOUS
<1>1. Ids = {}
  BY DEF Init, Ids
<1>2. LiveIsMain /\ Empty /\ NothingElse
  BY <1>1 DEF Init, LiveIsMain, Empty, NothingElse
<1>3. \A r \in Req : Gathered(r)
  BY DEF Init, Gathered
<1> QED
  BY <1>2, <1>3, InitDiffIInv, InitRaceIInv DEF ElseIInv

LEMMA StepElseIInv == ElseIInv /\ [Next]_vars => ElseIInv'
<1> SUFFICES ASSUME ElseIInv, [Next]_vars PROVE ElseIInv'
  OBVIOUS
<1>1. DiffIInv /\ RaceIInv /\ IInv /\ AuthorsBegan /\ LiveIsMain /\ Empty
  BY DEF ElseIInv, DiffIInv
<1> QED
  BY <1>1, StepDiffIInv, StepRaceIInv, StepLiveIsMain, StepEmpty, StepGathered, StepNothingElse DEF ElseIInv

(* A branch edit's old values are those at its parent, up to live writes     *)
(* that main's history does not have, whatever moved the heads, the live     *)
(* graph or the branches while resolve_snapshot ran.                         *)
THEOREM DiffsAreAgainstParents == Spec => []DiffAgainstParent
<1>1. ElseIInv => DiffAgainstParent
  BY DEF ElseIInv, DiffIInv, NoneMissed, NothingElse, DiffAgainstParent
<1> QED
  BY <1>1, InitElseIInv, StepElseIInv, PTL DEF Spec

-----------------------------------------------------------------------------
(* A bounded one has a greatest. *)
LEMMA GreatestUpTo ==
    ASSUME NEW c \in Nat, NEW T, T \subseteq 1..c, T # {}
    PROVE  \E n \in T : \A m \in T : m <= n
<1> DEFINE U == {c - n : n \in T}
<1>1. U \subseteq Nat /\ U # {}
  <2>1. \A n \in T : c - n \in Nat
    OBVIOUS
  <2> QED
    BY <2>1
<1>2. PICK u \in U : \A x \in U : u <= x
  BY <1>1, NatLeast
<1>3. PICK n \in T : u = c - n
  BY <1>2
<1>4. \A m \in T : c - n <= c - m
  BY <1>2, <1>3
<1> QED
  BY <1>3, <1>4

(* What does not change from one to the next is the same at the end. *)


(* A diff of some entries.                                                   *)
IsDiff(d) == \E S : d \in Seq(S)

LEMMA OneMore ==
  ASSUME NEW d, IsDiff(d), NEW e
  PROVE  /\ IsDiff(d \o <<e>>)
         /\ Len(d) \in Nat /\ DOMAIN d = 1..Len(d)
         /\ DOMAIN (d \o <<e>>) = DOMAIN d \cup {Len(d) + 1}
         /\ (d \o <<e>>)[Len(d) + 1] = e
         /\ \A n \in DOMAIN d : (d \o <<e>>)[n] = d[n]
<1>1. PICK S : d \in Seq(S)
  BY DEF IsDiff
<1>2. d \in Seq(S \cup {e}) /\ <<e>> \in Seq(S \cup {e})
  <2>1. Len(d) \in Nat /\ DOMAIN d = 1..Len(d) /\ d \in [1..Len(d) -> S]
    BY <1>1
  <2>2. d \in [1..Len(d) -> S \cup {e}]
    BY <2>1
  <2> QED
    BY <2>1, <2>2
<1>3. d \o <<e>> \in Seq(S \cup {e})
  BY <1>2
<1>4. Len(d) \in Nat /\ DOMAIN d = 1..Len(d)
  BY <1>1
<1>5. Len(d \o <<e>>) = Len(d) + 1 /\ DOMAIN (d \o <<e>>) = 1..(Len(d) + 1)
  BY <1>2, <1>3
<1>6. (d \o <<e>>)[Len(d) + 1] = e
  BY <1>2, <1>4
<1>7. \A n \in DOMAIN d : (d \o <<e>>)[n] = d[n]
  BY <1>2, <1>4
<1>8. DOMAIN (d \o <<e>>) = DOMAIN d \cup {Len(d) + 1}
  BY <1>4, <1>5
<1> QED
  BY <1>3, <1>4, <1>6, <1>7, <1>8 DEF IsDiff

LEMMA NoMore == ASSUME NEW d, IsDiff(d) PROVE d \o << >> = d
<1>1. PICK S : d \in Seq(S)
  BY DEF IsDiff
<1> QED
  BY <1>1

(* The entries of every sort, after one more.                                *)
LEMMA OneMoreMade ==
  ASSUME NEW d, IsDiff(d), NEW kind, NEW id
  PROVE  LET e == <<"created", kind, id>>
         IN  /\ Created(d \o <<e>>) = Created(d) \cup {<<kind, id>>}
             /\ Joined(d \o <<e>>) = Joined(d)
             /\ \A i, k : Sets(d \o <<e>>, i, k) = Sets(d, i, k)
<1> DEFINE e == <<"created", kind, id>>
           f == d \o <<e>>
<1>1. /\ DOMAIN f = DOMAIN d \cup {Len(d) + 1} /\ f[Len(d) + 1] = e
      /\ \A n \in DOMAIN d : f[n] = d[n]
  BY OneMore
<1>2. e[1] = "created" /\ e[2] = kind /\ e[3] = id
  OBVIOUS
<1> HIDE DEF e, f
<1>3. Created(f) = Created(d) \cup {<<kind, id>>}
  BY <1>1, <1>2 DEF Created
<1>4. Joined(f) = Joined(d)
  BY <1>1, <1>2 DEF Joined
<1>5. \A i, k : Sets(f, i, k) = Sets(d, i, k)
  BY <1>1, <1>2 DEF Sets
<1> QED
  BY <1>3, <1>4, <1>5 DEF e, f

LEMMA OneMoreTied ==
  ASSUME NEW d, IsDiff(d), NEW kind, NEW a, NEW b
  PROVE  LET e == <<"edge", kind, a, b>>
         IN  /\ Created(d \o <<e>>) = Created(d)
             /\ Joined(d \o <<e>>) = Joined(d) \cup {<<kind, a, b>>}
             /\ \A i, k : Sets(d \o <<e>>, i, k) = Sets(d, i, k)
<1> DEFINE e == <<"edge", kind, a, b>>
           f == d \o <<e>>
<1>1. /\ DOMAIN f = DOMAIN d \cup {Len(d) + 1} /\ f[Len(d) + 1] = e
      /\ \A n \in DOMAIN d : f[n] = d[n]
  BY OneMore
<1>2. e[1] = "edge" /\ e[2] = kind /\ e[3] = a /\ e[4] = b
  OBVIOUS
<1> HIDE DEF e, f
<1>3. Created(f) = Created(d)
  BY <1>1, <1>2 DEF Created
<1>4. Joined(f) = Joined(d) \cup {<<kind, a, b>>}
  BY <1>1, <1>2 DEF Joined
<1>5. \A i, k : Sets(f, i, k) = Sets(d, i, k)
  BY <1>1, <1>2 DEF Sets
<1> QED
  BY <1>3, <1>4, <1>5 DEF e, f

LEMMA OneMoreSet ==
  ASSUME NEW d, IsDiff(d), NEW id, NEW row
  PROVE  LET e == <<"set", id, row>>
         IN  /\ Created(d \o <<e>>) = Created(d)
             /\ Joined(d \o <<e>>) = Joined(d)
             /\ \A i, k : Sets(d \o <<e>>, i, k)
                          = Sets(d, i, k) \cup {n \in {Len(d) + 1} : i = id /\ k \in DOMAIN row}
<1> DEFINE e == <<"set", id, row>>
           f == d \o <<e>>
<1>1. /\ DOMAIN f = DOMAIN d \cup {Len(d) + 1} /\ f[Len(d) + 1] = e
      /\ \A n \in DOMAIN d : f[n] = d[n]
  BY OneMore
<1>2. e[1] = "set" /\ e[2] = id /\ e[3] = row
  OBVIOUS
<1> HIDE DEF e, f
<1>3. Created(f) = Created(d)
  BY <1>1, <1>2 DEF Created
<1>4. Joined(f) = Joined(d)
  BY <1>1, <1>2 DEF Joined
<1>5. \A i, k : Sets(f, i, k) = Sets(d, i, k) \cup {n \in {Len(d) + 1} : i = id /\ k \in DOMAIN row}
  BY <1>1, <1>2 DEF Sets
<1> QED
  BY <1>3, <1>4, <1>5 DEF e, f

(* What a diff names, by the entries that name it.                           *)
LEMMA NamedIs ==
  ASSUME NEW d
  PROVE  /\ \A i, k : <<i, k>> \in Named(d) <=> Sets(d, i, k) # {}
         /\ \A x \in Named(d) : x = <<x[1], x[2]>>
  BY DEF Named, Sets

(* The last entry that names a property, after one more.                     *)
LEMMA LastStands ==
  ASSUME NEW d, IsDiff(d), NEW e, NEW i, NEW k, Sets(d \o <<e>>, i, k) = Sets(d, i, k), Sets(d, i, k) # {}
  PROVE  LastSet(d \o <<e>>, i, k) = LastSet(d, i, k)
<1> DEFINE f == d \o <<e>>
           last == CHOOSE n \in Sets(d, i, k) : \A m \in Sets(d, i, k) : m <= n
<1>1. \A n \in DOMAIN d : f[n] = d[n]
  BY OneMore
<1>2. Sets(d, i, k) \subseteq DOMAIN d /\ DOMAIN d \subseteq Nat /\ DOMAIN d = 1..Len(d) /\ Len(d) \in Nat
  BY OneMore DEF Sets
<1>3. \E n \in Sets(d, i, k) : \A m \in Sets(d, i, k) : m <= n
  BY <1>2, GreatestUpTo
<1>4. last \in DOMAIN d
  BY <1>2, <1>3
<1>5. f[last] = d[last]
  BY <1>1, <1>4
<1>6. LastSet(f, i, k) = f[last][3][k]
  BY DEF LastSet
<1> QED
  BY <1>5, <1>6 DEF LastSet

LEMMA LastIsNew ==
  ASSUME NEW d, IsDiff(d), NEW e, NEW i, NEW k,
         Sets(d \o <<e>>, i, k) = Sets(d, i, k) \cup {Len(d) + 1}
  PROVE  LastSet(d \o <<e>>, i, k) = e[3][k]
<1> DEFINE f == d \o <<e>>
           top == Len(d) + 1
           there == Sets(d, i, k) \cup {top}
<1>1. f[top] = e
  BY OneMore
<1>2. Sets(d, i, k) \subseteq 1..Len(d) /\ Len(d) \in Nat
  BY OneMore DEF Sets
<1> DEFINE last == CHOOSE n \in there : \A m \in there : m <= n
<1>3. top \in there /\ \A m \in there : m <= top
  BY <1>2
<1>4. last \in there /\ \A m \in there : m <= last
  BY <1>3
<1>5. LastSet(f, i, k) = f[last][3][k]
  BY DEF LastSet
<1> HIDE DEF last
<1>6. last = top
  BY <1>2, <1>3, <1>4
<1> QED
  BY <1>1, <1>5, <1>6

(* How far a plan is followed: what the calls before the n-th asked for is   *)
(* there, the diff d says so, and of every property that it names it has the *)
(* value; whatever a property names some call of the plan put there.         *)
Tells(d, b) ==
    \A i, k : Sets(d, i, k) # {} => i \in DOMAIN b /\ k \in DOMAIN b[i] /\ b[i][k] = LastSet(d, i, k)
ToldOf(d, plan, n) ==
    \A i, k : Sets(d, i, k) # {} =>
        \E m \in OfRows(plan) : m < n /\ plan[m].id = i /\ k \in plan[m].said
PutBy(plan, i, k, name) ==
    \E m \in OfRows(plan) : plan[m].id = i /\ k \in DOMAIN plan[m].with /\ name \in plan[m].with[k]
PutThere(b, plan) ==
    \A i \in DOMAIN b : \A k \in DOMAIN b[i] : \A name \in b[i][k] : PutBy(plan, i, k, name)
Follows(d, made, tied, b, plan, n) ==
    /\ n \in 1..(Len(plan) + 1)
    /\ made = MadeBefore(plan, n) /\ tied = TiedBefore(plan, n)
    /\ IsDiff(d) /\ Created(d) = made /\ Joined(d) = tied
    /\ Tells(d, b) /\ ToldOf(d, plan, n) /\ PutThere(b, plan)

IsPlan(plan) == Len(plan) \in Nat /\ DOMAIN plan = 1..Len(plan)

(* At first nothing was asked for.                                           *)
LEMMA FollowsNothing ==
  ASSUME NEW plan, IsPlan(plan)
  PROVE  Follows(<< >>, {}, {}, << >>, plan, 1)
<1>1. MadeBefore(plan, 1) = {} /\ TiedBefore(plan, 1) = {}
  BY DEF MadeBefore, TiedBefore
<1>2. IsDiff(<< >>)
  <2>1. << >> \in Seq({})
    OBVIOUS
  <2> QED
    BY <2>1 DEF IsDiff
<1>3. Created(<< >>) = {} /\ Joined(<< >>) = {} /\ \A i, k : Sets(<< >>, i, k) = {}
  BY DEF Created, Joined, Sets
<1>4. PutThere(<< >>, plan)
  BY DEF PutThere
<1>5. 1 \in 1..(Len(plan) + 1)
  BY DEF IsPlan
<1> QED
  BY <1>1, <1>2, <1>3, <1>4, <1>5 DEF Follows, Tells, ToldOf

LEMMA NextBefore ==
  ASSUME NEW plan, IsPlan(plan), NEW n \in DOMAIN plan
  PROVE  /\ n + 1 \in 1..(Len(plan) + 1)
         /\ plan[n].op = "element" =>
               MadeBefore(plan, n + 1) = MadeBefore(plan, n) \cup {<<plan[n].kind, plan[n].id>>}
         /\ plan[n].op # "element" => MadeBefore(plan, n + 1) = MadeBefore(plan, n)
         /\ plan[n].op = "edge" =>
               TiedBefore(plan, n + 1)
               = TiedBefore(plan, n) \cup {<<plan[n].kind, plan[n].source, plan[n].target>>}
         /\ plan[n].op # "edge" => TiedBefore(plan, n + 1) = TiedBefore(plan, n)
<1>1. n \in Nat /\ n >= 1 /\ n <= Len(plan) /\ Len(plan) \in Nat
  BY DEF IsPlan
<1>2. 1..((n + 1) - 1) = (1..(n - 1)) \cup {n}
  BY <1>1
<1>3. n + 1 \in 1..(Len(plan) + 1)
  BY <1>1
<1>4. /\ plan[n].op = "element" =>
            MadeBefore(plan, n + 1) = MadeBefore(plan, n) \cup {<<plan[n].kind, plan[n].id>>}
      /\ plan[n].op # "element" => MadeBefore(plan, n + 1) = MadeBefore(plan, n)
  BY <1>2 DEF MadeBefore
<1>5. /\ plan[n].op = "edge" =>
            TiedBefore(plan, n + 1)
            = TiedBefore(plan, n) \cup {<<plan[n].kind, plan[n].source, plan[n].target>>}
      /\ plan[n].op # "edge" => TiedBefore(plan, n + 1) = TiedBefore(plan, n)
  BY <1>2 DEF TiedBefore
<1> QED
  BY <1>3, <1>4, <1>5

LEMMA ToldOfNext ==
  ASSUME NEW plan, IsPlan(plan), NEW d, NEW f, NEW n \in Nat, ToldOf(d, plan, n),
         \A i, k : Sets(f, i, k) = Sets(d, i, k)
  PROVE  ToldOf(f, plan, n + 1)
<1> SUFFICES ASSUME NEW i, NEW k, Sets(f, i, k) # {}
             PROVE  \E m \in OfRows(plan) : m < n + 1 /\ plan[m].id = i /\ k \in plan[m].said
  BY DEF ToldOf
<1>1. PICK m \in OfRows(plan) : m < n /\ plan[m].id = i /\ k \in plan[m].said
  BY DEF ToldOf
<1>2. m \in Nat
  BY DEF OfRows, IsPlan
<1>3. m < n + 1
  BY <1>1, <1>2
<1> QED
  BY <1>1, <1>3

(* One call further, by the sort of the call.                                *)
LEMMA FollowsElement ==
  ASSUME NEW plan, IsPlan(plan), NEW n \in DOMAIN plan, NEW d, NEW made, NEW tied, NEW b,
         Follows(d, made, tied, b, plan, n), plan[n].op = "element"
  PROVE  Follows(d \o <<<<"created", plan[n].kind, plan[n].id>>>>, made \cup {<<plan[n].kind, plan[n].id>>},
                 tied, b, plan, n + 1)
<1> DEFINE e == <<"created", plan[n].kind, plan[n].id>>
           f == d \o <<e>>
<1>1. IsDiff(d) /\ Created(d) = made /\ Joined(d) = tied /\ Tells(d, b) /\ ToldOf(d, plan, n) /\ PutThere(b, plan)
      /\ made = MadeBefore(plan, n) /\ tied = TiedBefore(plan, n)
  BY DEF Follows
<1>2. IsDiff(f)
  BY <1>1, OneMore
<1>3. /\ Created(f) = Created(d) \cup {<<plan[n].kind, plan[n].id>>}
      /\ Joined(f) = Joined(d)
      /\ \A i, k : Sets(f, i, k) = Sets(d, i, k)
  BY <1>1, OneMoreMade
<1>4. Tells(f, b)
  <2> SUFFICES ASSUME NEW i, NEW k, Sets(f, i, k) # {}
               PROVE  i \in DOMAIN b /\ k \in DOMAIN b[i] /\ b[i][k] = LastSet(f, i, k)
    BY DEF Tells
  <2>1. LastSet(f, i, k) = LastSet(d, i, k)
    BY <1>1, <1>3, LastStands
  <2> QED
    BY <1>1, <1>3, <2>1 DEF Tells
<1>5. n \in Nat
  BY DEF IsPlan
<1>6. ToldOf(f, plan, n + 1)
  BY <1>1, <1>3, <1>5, ToldOfNext
<1>7. /\ n + 1 \in 1..(Len(plan) + 1)
      /\ MadeBefore(plan, n + 1) = made \cup {<<plan[n].kind, plan[n].id>>}
      /\ TiedBefore(plan, n + 1) = tied
  BY <1>1, NextBefore
<1> HIDE DEF f
<1> QED
  BY <1>1, <1>2, <1>3, <1>4, <1>6, <1>7 DEF Follows, f

LEMMA FollowsEdge ==
  ASSUME NEW plan, IsPlan(plan), NEW n \in DOMAIN plan, NEW d, NEW made, NEW tied, NEW b,
         Follows(d, made, tied, b, plan, n), plan[n].op = "edge"
  PROVE  Follows(d \o <<<<"edge", plan[n].kind, plan[n].source, plan[n].target>>>>, made,
                 tied \cup {<<plan[n].kind, plan[n].source, plan[n].target>>}, b, plan, n + 1)
<1> DEFINE e == <<"edge", plan[n].kind, plan[n].source, plan[n].target>>
           f == d \o <<e>>
<1>1. IsDiff(d) /\ Created(d) = made /\ Joined(d) = tied /\ Tells(d, b) /\ ToldOf(d, plan, n) /\ PutThere(b, plan)
      /\ made = MadeBefore(plan, n) /\ tied = TiedBefore(plan, n)
  BY DEF Follows
<1>2. IsDiff(f)
  BY <1>1, OneMore
<1>3. /\ Created(f) = Created(d)
      /\ Joined(f) = Joined(d) \cup {<<plan[n].kind, plan[n].source, plan[n].target>>}
      /\ \A i, k : Sets(f, i, k) = Sets(d, i, k)
  BY <1>1, OneMoreTied
<1>4. Tells(f, b)
  <2> SUFFICES ASSUME NEW i, NEW k, Sets(f, i, k) # {}
               PROVE  i \in DOMAIN b /\ k \in DOMAIN b[i] /\ b[i][k] = LastSet(f, i, k)
    BY DEF Tells
  <2>1. LastSet(f, i, k) = LastSet(d, i, k)
    BY <1>1, <1>3, LastStands
  <2> QED
    BY <1>1, <1>3, <2>1 DEF Tells
<1>5. n \in Nat
  BY DEF IsPlan
<1>6. ToldOf(f, plan, n + 1)
  BY <1>1, <1>3, <1>5, ToldOfNext
<1>7. /\ n + 1 \in 1..(Len(plan) + 1)
      /\ MadeBefore(plan, n + 1) = made
      /\ TiedBefore(plan, n + 1) = tied \cup {<<plan[n].kind, plan[n].source, plan[n].target>>}
  BY <1>1, NextBefore
<1> HIDE DEF f
<1> QED
  BY <1>1, <1>2, <1>3, <1>4, <1>6, <1>7 DEF Follows, f

LEMMA FollowsObject ==
  ASSUME NEW plan, IsPlan(plan), NEW n \in DOMAIN plan, NEW d, NEW made, NEW tied, NEW b,
         Follows(d, made, tied, b, plan, n), plan[n].op = "object"
  PROVE  Follows(d \o << >>, made, tied, b, plan, n + 1)
<1>1. IsDiff(d) /\ ToldOf(d, plan, n) /\ made = MadeBefore(plan, n) /\ tied = TiedBefore(plan, n)
  BY DEF Follows
<1>2. d \o << >> = d
  BY <1>1, NoMore
<1>3. n \in Nat
  BY DEF IsPlan
<1>4. ToldOf(d, plan, n + 1)
  BY <1>1, <1>3, ToldOfNext
<1>5. /\ n + 1 \in 1..(Len(plan) + 1)
      /\ MadeBefore(plan, n + 1) = made /\ TiedBefore(plan, n + 1) = tied
  BY <1>1, NextBefore
<1> QED
  BY <1>2, <1>4, <1>5 DEF Follows

(* Of a row that is written, what the commit was told of and is not told     *)
(* again stays.                                                              *)
Rewritten(b, id, row) == [i \in DOMAIN b \cup {id} |-> IF i = id THEN row ELSE b[i]]

LEMMA FollowsRow ==
  ASSUME NEW plan, IsPlan(plan), NEW n \in OfRows(plan), NEW d, NEW made, NEW tied, NEW b, NEW row,
         Follows(d, made, tied, b, plan, n),
         plan[n].said \subseteq DOMAIN row,
         \A k : Sets(d, plan[n].id, k) # {} /\ k \notin plan[n].said =>
             k \in DOMAIN row /\ row[k] = b[plan[n].id][k],
         \A k \in DOMAIN row : \A name \in row[k] : PutBy(plan, plan[n].id, k, name)
  PROVE  Follows(d \o Set(plan[n].id, row, plan[n].said), made, tied, Rewritten(b, plan[n].id, row), plan, n + 1)
<1> DEFINE id == plan[n].id
           said == plan[n].said
           told == [k \in said |-> row[k]]
           e == <<"set", id, told>>
           f == d \o Set(id, row, said)
           r == Rewritten(b, id, row)
<1>1. IsDiff(d) /\ Created(d) = made /\ Joined(d) = tied /\ Tells(d, b) /\ ToldOf(d, plan, n) /\ PutThere(b, plan)
      /\ made = MadeBefore(plan, n) /\ tied = TiedBefore(plan, n)
  BY DEF Follows
<1>2. /\ n \in DOMAIN plan /\ n \in Nat /\ n < n + 1
      /\ plan[n].op # "element" /\ plan[n].op # "edge"
  BY DEF OfRows, IsPlan
<1>3. /\ n + 1 \in 1..(Len(plan) + 1)
      /\ MadeBefore(plan, n + 1) = made /\ TiedBefore(plan, n + 1) = tied
  BY <1>1, <1>2, NextBefore
<1>4. /\ DOMAIN r = DOMAIN b \cup {id} /\ r[id] = row
      /\ \A i \in DOMAIN b : i # id => r[i] = b[i]
  BY DEF Rewritten
<1>5. DOMAIN told = said /\ \A k \in said : told[k] = row[k]
  OBVIOUS
<1>6. e[3] = told
  OBVIOUS
<1>7. IF said = {} THEN f = d ELSE f = d \o <<e>>
  BY <1>1, NoMore DEF Set
<1> HIDE DEF e, r, told, f
<1>8. PutThere(r, plan)
  BY <1>1, <1>4 DEF PutThere
<1>9. /\ IsDiff(f) /\ Created(f) = made /\ Joined(f) = tied
      /\ \A i, k : Sets(f, i, k) = Sets(d, i, k) \cup {m \in {Len(d) + 1} : i = id /\ k \in said}
  <2>1. CASE said = {}
    BY <1>1, <1>7, <2>1
  <2>2. CASE said # {}
    <3>1. f = d \o <<e>>
      BY <1>7, <2>2
    <3>2. IsDiff(d \o <<e>>)
      BY <1>1, OneMore
    <3>3. /\ Created(d \o <<e>>) = Created(d) /\ Joined(d \o <<e>>) = Joined(d)
          /\ \A i, k : Sets(d \o <<e>>, i, k)
                       = Sets(d, i, k) \cup {m \in {Len(d) + 1} : i = id /\ k \in DOMAIN told}
      BY <1>1, OneMoreSet DEF e
    <3> QED
      BY <1>1, <1>5, <3>1, <3>2, <3>3
  <2> QED
    BY <2>1, <2>2
<1>10. Tells(f, r)
  <2> SUFFICES ASSUME NEW i, NEW k, Sets(f, i, k) # {}
               PROVE  i \in DOMAIN r /\ k \in DOMAIN r[i] /\ r[i][k] = LastSet(f, i, k)
    BY DEF Tells
  <2>1. CASE i = id /\ k \in said
    <3>1. f = d \o <<e>>
      BY <1>7, <2>1
    <3>2. Sets(f, i, k) = Sets(d, i, k) \cup {Len(d) + 1}
      BY <1>9, <2>1
    <3>3. LastSet(f, i, k) = e[3][k]
      BY <1>1, <3>1, <3>2, LastIsNew
    <3> QED
      BY <1>4, <1>5, <1>6, <2>1, <3>3
  <2>2. CASE ~(i = id /\ k \in said)
    <3>1. Sets(f, i, k) = Sets(d, i, k)
      BY <1>9, <2>2
    <3>2. LastSet(f, i, k) = LastSet(d, i, k)
      <4>1. CASE f = d
        BY <4>1
      <4>2. CASE f = d \o <<e>>
        BY <1>1, <3>1, <4>2, LastStands
      <4> QED
        BY <1>7, <4>1, <4>2
    <3>3. i \in DOMAIN b /\ k \in DOMAIN b[i] /\ b[i][k] = LastSet(d, i, k)
      BY <1>1, <3>1 DEF Tells
    <3>4. CASE i = id
      BY <1>4, <2>2, <3>1, <3>2, <3>3, <3>4
    <3>5. CASE i # id
      BY <1>4, <3>2, <3>3, <3>5
    <3> QED
      BY <3>4, <3>5
  <2> QED
    BY <2>1, <2>2
<1>11. ToldOf(f, plan, n + 1)
  <2> SUFFICES ASSUME NEW i, NEW k, Sets(f, i, k) # {}
               PROVE  \E m \in OfRows(plan) : m < n + 1 /\ plan[m].id = i /\ k \in plan[m].said
    BY DEF ToldOf
  <2>1. CASE i = id /\ k \in said
    BY <1>2, <2>1
  <2>2. CASE ~(i = id /\ k \in said)
    <3>1. Sets(d, i, k) # {}
      BY <1>9, <2>2
    <3>2. PICK m \in OfRows(plan) : m < n /\ plan[m].id = i /\ k \in plan[m].said
      BY <1>1, <3>1 DEF ToldOf
    <3>3. m \in Nat
      BY DEF OfRows, IsPlan
    <3>4. m < n + 1
      BY <1>2, <3>2, <3>3
    <3> QED
      BY <3>2, <3>4
  <2> QED
    BY <2>1, <2>2
<1> QED
  BY <1>3, <1>8, <1>9, <1>10, <1>11 DEF Follows, f, r

-----------------------------------------------------------------------------
(* The invariant of the starts.                                              *)
Filed(f) == f = [s \in Start |-> f[s]]
Where == {"ask", "create", "branch", "seed", "ready", "stopped", "refused"}

(* A project has the start that made it.  A start that is up found one, or   *)
(* made its own and saw its plan through.                                    *)
Standing(s) ==
    /\ stage[s] \in {"ask", "create"} => s \notin projects
    /\ stage[s] \in {"branch", "seed"} => s \in projects
    /\ stage[s] = "seed" => s \in branches
    /\ stage[s] = "ready" => projects # {}
    /\ s \in Server /\ stage[s] = "ready" /\ s \in projects => s \in branches /\ s \in DOMAIN genesis
    /\ s \in Server => stage[s] # "refused"
    /\ s \in DOMAIN genesis =>
          s \in Server /\ stage[s] = "ready" /\ next[s] = Len(Plan[s]) + 1 /\ genesis[s] = diff[s]

Followed(s) == Follows(diff[s], elements[s], edges[s], body[s], Plan[s], next[s])

SeedInv ==
    /\ stage \in [Start -> Where] /\ projects \subseteq Start /\ DOMAIN genesis \subseteq Start
    /\ Filed(elements) /\ Filed(edges) /\ Filed(body) /\ Filed(diff) /\ Filed(next)
    /\ \A s \in Start : Standing(s)
    /\ \A s \in Server : Followed(s)

LEMMA Plans ==
  ASSUME NEW s \in Server
  PROVE  /\ s \in Start /\ IsPlan(Plan[s]) /\ Sound(Plan[s]) /\ Told(Plan[s])
  BY PlanAssumption, ServerAssumption DEF Start, IsPlan

LEMMA InitSeedInv == SeedInit => SeedInv
<1> SUFFICES ASSUME SeedInit PROVE SeedInv
  OBVIOUS
<1>1. stage \in [Start -> Where] /\ projects \subseteq Start /\ DOMAIN genesis \subseteq Start
  BY DEF SeedInit, Where
<1>2. Filed(elements) /\ Filed(edges) /\ Filed(body) /\ Filed(diff) /\ Filed(next)
  BY DEF SeedInit, Filed
<1>3. \A s \in Start : Standing(s)
  BY DEF SeedInit, Standing
<1>4. ASSUME NEW s \in Server PROVE Followed(s)
  <2>1. elements[s] = {} /\ edges[s] = {} /\ body[s] = << >> /\ diff[s] = << >> /\ next[s] = 1
    BY Plans DEF SeedInit
  <2> QED
    BY <2>1, Plans, FollowsNothing DEF Followed
<1> QED
  BY <1>1, <1>2, <1>3, <1>4 DEF SeedInv

(* One entry of a function over the starts.                                  *)
Enters(g, f, s, v) == g = [f EXCEPT ![s] = v]

LEMMA Filing ==
  ASSUME NEW f, Filed(f), NEW s \in Start, NEW v, NEW g, Enters(g, f, s, v)
  PROVE  Filed(g) /\ g[s] = v /\ \A t \in Start : t # s => g[t] = f[t]
  BY DEF Filed, Enters

(* Steps outside the plan.                                                   *)
LEMMA StepAround ==
  ASSUME SeedInv, NEW s \in Start,
         \/ CountProjects(s) \/ ListProjects(s) \/ InsertProjectRow(s) \/ InsertMainBranch(s)
         \/ RecordCommit(s) \/ Stop(s)
  PROVE  SeedInv'
<1>1. /\ stage \in [Start -> Where] /\ projects \subseteq Start /\ DOMAIN genesis \subseteq Start
      /\ Filed(elements) /\ Filed(edges) /\ Filed(body) /\ Filed(diff) /\ Filed(next)
      /\ \A t \in Start : Standing(t)
      /\ \A t \in Server : Followed(t)
  BY DEF SeedInv
<1>2. UNCHANGED <<elements, edges, body, diff, next>>
  BY DEF CountProjects, ListProjects, InsertProjectRow, InsertMainBranch, RecordCommit, Stop, graph
<1>3. /\ Filed(elements)' /\ Filed(edges)' /\ Filed(body)' /\ Filed(diff)' /\ Filed(next)'
      /\ \A t \in Server : Followed(t)'
  BY <1>1, <1>2 DEF Filed, Followed
<1>4. CASE CountProjects(s) \/ ListProjects(s)
  <2>1. /\ s \in Start /\ stage[s] = "ask" /\ UNCHANGED <<projects, branches, genesis>>
        /\ \E w \in Where : stage' = [stage EXCEPT ![s] = w] /\ w \in {"ready", "create"} /\ (w = "ready" => projects # {})
    BY <1>4 DEF CountProjects, ListProjects, Enter, Where
  <2>2. s \notin projects
    BY <1>1, <2>1 DEF Standing
  <2>3. ASSUME NEW t \in Start PROVE Standing(t)'
    <3>1. CASE t = s
      BY <1>1, <1>2, <2>1, <2>2, <3>1 DEF Standing
    <3>2. CASE t # s
      BY <1>1, <1>2, <2>1, <3>2 DEF Standing
    <3> QED
      BY <3>1, <3>2
  <2> QED
    BY <1>1, <1>3, <2>1, <2>3 DEF SeedInv
<1>5. CASE InsertProjectRow(s)
  <2>1. /\ stage[s] = "create" /\ UNCHANGED <<branches, genesis>>
        /\ projects' = projects \cup {s} /\ stage' = [stage EXCEPT ![s] = "branch"]
    BY <1>5 DEF InsertProjectRow, Enter
  <2>2. ASSUME NEW t \in Start PROVE Standing(t)'
    <3>1. CASE t = s
      BY <1>1, <1>2, <2>1, <3>1 DEF Standing
    <3>2. CASE t # s
      BY <1>1, <1>2, <2>1, <3>2 DEF Standing
    <3> QED
      BY <3>1, <3>2
  <2> QED
    BY <1>1, <1>3, <2>1, <2>2 DEF SeedInv, Where
<1>6. CASE InsertMainBranch(s)
  <2>1. /\ stage[s] = "branch" /\ UNCHANGED <<projects, genesis>>
        /\ branches' = branches \cup {s} /\ stage' = [stage EXCEPT ![s] = "seed"]
    BY <1>6 DEF InsertMainBranch, Enter
  <2>2. ASSUME NEW t \in Start PROVE Standing(t)'
    <3>1. CASE t = s
      BY <1>1, <1>2, <2>1, <3>1 DEF Standing
    <3>2. CASE t # s
      BY <1>1, <1>2, <2>1, <3>2 DEF Standing
    <3> QED
      BY <3>1, <3>2
  <2> QED
    BY <1>1, <1>3, <2>1, <2>2 DEF SeedInv, Where
<1>7. CASE RecordCommit(s)
  <2>1. /\ stage[s] = "seed" /\ next[s] = Len(Plan[s]) + 1 /\ UNCHANGED <<projects, branches>>
        /\ stage' = [stage EXCEPT ![s] = "ready"]
        /\ s \in Server => /\ DOMAIN genesis' = DOMAIN genesis \cup {s} /\ genesis'[s] = diff[s]
                           /\ \A t \in DOMAIN genesis : t # s => genesis'[t] = genesis[t]
        /\ s \notin Server => genesis' = genesis
    BY <1>7 DEF RecordCommit, Enter
  <2>2. ASSUME NEW t \in Start PROVE Standing(t)'
    <3>1. CASE t = s
      BY <1>1, <1>2, <2>1, <3>1 DEF Standing
    <3>2. CASE t # s
      BY <1>1, <1>2, <2>1, <3>2 DEF Standing
    <3> QED
      BY <3>1, <3>2
  <2> QED
    BY <1>1, <1>3, <2>1, <2>2 DEF SeedInv, Where
<1>8. CASE Stop(s)
  <2>1. /\ stage[s] \in {"ask", "create", "branch", "seed"} /\ UNCHANGED <<projects, branches, genesis>>
        /\ stage' = [stage EXCEPT ![s] = "stopped"]
    BY <1>8 DEF Stop, Enter
  <2>2. ASSUME NEW t \in Start PROVE Standing(t)'
    <3>1. CASE t = s
      BY <1>1, <1>2, <2>1, <3>1 DEF Standing
    <3>2. CASE t # s
      BY <1>1, <1>2, <2>1, <3>2 DEF Standing
    <3> QED
      BY <3>1, <3>2
  <2> QED
    BY <1>1, <1>3, <2>1, <2>2 DEF SeedInv, Where
<1> QED
  BY <1>4, <1>5, <1>6, <1>7, <1>8

(* A call says what it does, and leaves the other starts' projects alone.    *)
Quiet(t) ==
    /\ elements'[t] = elements[t] /\ edges'[t] = edges[t] /\ body'[t] = body[t]
    /\ diff'[t] = diff[t] /\ next'[t] = next[t]

LEMMA CallStands ==
  ASSUME SeedInv, NEW s \in Start, stage[s] = "seed",
         UNCHANGED <<stage, projects, branches, genesis>>,
         \A t \in Start : t # s => Quiet(t)
  PROVE  \A t \in Start : Standing(t)'
<1>1. \A t \in Start : Standing(t)
  BY DEF SeedInv
<1>2. ASSUME NEW t \in Start PROVE Standing(t)'
  <2>1. CASE t = s
    BY <1>1, <2>1 DEF Standing
  <2>2. CASE t # s
    <3>1. next'[t] = next[t] /\ diff'[t] = diff[t]
      BY <2>2 DEF Quiet
    <3> QED
      BY <1>1, <3>1 DEF Standing
  <2> QED
    BY <2>1, <2>2
<1> QED
  BY <1>2

LEMMA CallFollows ==
  ASSUME SeedInv, NEW s \in Start, \A t \in Start : t # s => Quiet(t),
         s \in Server => Followed(s)'
  PROVE  \A t \in Server : Followed(t)'
<1>1. ASSUME NEW t \in Server, t # s PROVE Followed(t)'
  <2>1. t \in Start
    BY Plans
  <2>2. Quiet(t) /\ Followed(t)
    BY <1>1, <2>1 DEF SeedInv
  <2> QED
    BY <2>2 DEF Quiet, Followed
<1> QED
  BY <1>1

(* What is common to the calls.                                              *)
LEMMA CallFiles ==
  ASSUME SeedInv, NEW s \in Start, NEW entries, Says(s, entries)
  PROVE  /\ Filed(diff)' /\ Filed(next)'
         /\ diff'[s] = diff[s] \o entries /\ next'[s] = next[s] + 1
         /\ \A t \in Start : t # s => diff'[t] = diff[t] /\ next'[t] = next[t]
         /\ UNCHANGED <<projects, branches, genesis>>
<1>1. Filed(diff) /\ Filed(next)
  BY DEF SeedInv
<1>2. /\ diff' = [diff EXCEPT ![s] = diff[s] \o entries] /\ next' = [next EXCEPT ![s] = next[s] + 1]
      /\ UNCHANGED <<projects, branches, genesis>>
  BY DEF Says
<1>3. Filed(diff') /\ diff'[s] = diff[s] \o entries /\ \A t \in Start : t # s => diff'[t] = diff[t]
  <2>1. Enters(diff', diff, s, diff[s] \o entries)
    BY <1>2 DEF Enters
  <2>2. \A v : Enters(diff', diff, s, v) =>
               Filed(diff') /\ diff'[s] = v /\ \A t \in Start : t # s => diff'[t] = diff[t]
    BY <1>1, Filing
  <2> QED
    BY <2>1, <2>2
<1>4. Filed(next') /\ next'[s] = next[s] + 1 /\ \A t \in Start : t # s => next'[t] = next[t]
  <2>1. Enters(next', next, s, next[s] + 1)
    BY <1>2 DEF Enters
  <2> QED
    BY <1>1, <2>1, Filing
<1> QED
  BY <1>2, <1>3, <1>4 DEF Filed

LEMMA StepElement ==
  ASSUME SeedInv, NEW s \in Start, UpsertElement(s)
  PROVE  SeedInv'
<1> DEFINE c == Plan[s][next[s]]
<1>1. /\ stage \in [Start -> Where] /\ projects \subseteq Start /\ DOMAIN genesis \subseteq Start
      /\ Filed(elements) /\ Filed(edges) /\ Filed(body)
  BY DEF SeedInv
<1>2. /\ stage[s] = "seed" /\ next[s] \in DOMAIN Plan[s] /\ c.op = "element"
      /\ elements' = [elements EXCEPT ![s] = elements[s] \cup {<<c.kind, c.id>>}]
      /\ Says(s, <<<<"created", c.kind, c.id>>>>)
      /\ UNCHANGED <<edges, body, stage>>
  BY DEF UpsertElement, Calls, Call
<1> HIDE DEF c
<1>3. /\ Filed(diff)' /\ Filed(next)'
      /\ diff'[s] = diff[s] \o <<<<"created", c.kind, c.id>>>> /\ next'[s] = next[s] + 1
      /\ \A t \in Start : t # s => diff'[t] = diff[t] /\ next'[t] = next[t]
      /\ UNCHANGED <<projects, branches, genesis>>
  BY <1>2, CallFiles
<1>4. /\ Filed(elements') /\ elements'[s] = elements[s] \cup {<<c.kind, c.id>>}
      /\ \A t \in Start : t # s => elements'[t] = elements[t]
  <2>1. Enters(elements', elements, s, elements[s] \cup {<<c.kind, c.id>>})
    BY <1>2 DEF Enters
  <2> QED
    BY <1>1, <2>1, Filing
<1>5. \A t \in Start : t # s => Quiet(t)
  BY <1>2, <1>3, <1>4 DEF Quiet
<1>6. \A t \in Start : Standing(t)'
  BY <1>2, <1>3, <1>5, CallStands
<1>7. ASSUME s \in Server PROVE Followed(s)'
  <2>1. Follows(diff[s], elements[s], edges[s], body[s], Plan[s], next[s]) /\ IsPlan(Plan[s])
    BY <1>7, Plans DEF SeedInv, Followed
  <2>2. Follows(diff[s] \o <<<<"created", c.kind, c.id>>>>, elements[s] \cup {<<c.kind, c.id>>},
                edges[s], body[s], Plan[s], next[s] + 1)
    BY <1>2, <2>1, FollowsElement DEF c
  <2> QED
    BY <1>2, <1>3, <1>4, <2>2 DEF Followed
<1>8. \A t \in Server : Followed(t)'
  BY <1>5, <1>7, CallFollows
<1>9. Filed(edges)' /\ Filed(body)' /\ Filed(elements)'
  BY <1>1, <1>2, <1>4 DEF Filed
<1> QED
  BY <1>1, <1>2, <1>3, <1>6, <1>8, <1>9 DEF SeedInv

(* The server asks for no edge that create_edge refuses.                     *)
LEMMA StepEdge ==
  ASSUME SeedInv, NEW s \in Start, CreateEdge(s)
  PROVE  SeedInv'
<1> DEFINE c == Plan[s][next[s]]
           accepted == Accepted(elements[s], edges[s], c)
<1>1. /\ stage \in [Start -> Where] /\ projects \subseteq Start /\ DOMAIN genesis \subseteq Start
      /\ Filed(elements) /\ Filed(edges) /\ Filed(body) /\ Filed(diff) /\ Filed(next)
      /\ \A t \in Start : Standing(t)
      /\ \A t \in Server : Followed(t)
  BY DEF SeedInv
<1>2. stage[s] = "seed" /\ next[s] \in DOMAIN Plan[s] /\ c.op = "edge"
  BY DEF CreateEdge, Calls, Call
<1>3. accepted => /\ edges' = [edges EXCEPT ![s] = edges[s] \cup {<<c.kind, c.source, c.target>>}]
                  /\ Says(s, <<<<"edge", c.kind, c.source, c.target>>>>)
                  /\ UNCHANGED stage
  BY DEF CreateEdge, Call
<1>4. ~accepted => /\ stage' = [stage EXCEPT ![s] = "refused"]
                   /\ UNCHANGED <<projects, branches, edges, genesis, next, diff>>
  BY DEF CreateEdge, Call, Enter
<1>5. UNCHANGED <<elements, body>>
  BY DEF CreateEdge
<1>6. s \in Server => accepted
  <2> SUFFICES ASSUME s \in Server PROVE accepted
    OBVIOUS
  <2>1. elements[s] = MadeBefore(Plan[s], next[s]) /\ edges[s] = TiedBefore(Plan[s], next[s])
    BY <1>1 DEF Followed, Follows
  <2>2. Accepted(MadeBefore(Plan[s], next[s]), TiedBefore(Plan[s], next[s]), Plan[s][next[s]])
    BY <1>2, Plans DEF Sound
  <2> QED
    BY <2>1, <2>2
<1> HIDE DEF c, accepted
<1>7. CASE accepted
  <2>1. /\ Filed(diff)' /\ Filed(next)'
        /\ diff'[s] = diff[s] \o <<<<"edge", c.kind, c.source, c.target>>>> /\ next'[s] = next[s] + 1
        /\ \A t \in Start : t # s => diff'[t] = diff[t] /\ next'[t] = next[t]
        /\ UNCHANGED <<projects, branches, genesis>>
    BY <1>3, <1>7, CallFiles
  <2>2. /\ Filed(edges') /\ edges'[s] = edges[s] \cup {<<c.kind, c.source, c.target>>}
        /\ \A t \in Start : t # s => edges'[t] = edges[t]
    <3>1. Enters(edges', edges, s, edges[s] \cup {<<c.kind, c.source, c.target>>})
      BY <1>3, <1>7 DEF Enters
    <3> QED
      BY <1>1, <3>1, Filing
  <2>3. \A t \in Start : t # s => Quiet(t)
    BY <1>5, <2>1, <2>2 DEF Quiet
  <2>4. \A t \in Start : Standing(t)'
    BY <1>2, <1>3, <1>7, <2>1, <2>3, CallStands
  <2>5. ASSUME s \in Server PROVE Followed(s)'
    <3>1. Follows(diff[s], elements[s], edges[s], body[s], Plan[s], next[s]) /\ IsPlan(Plan[s])
      BY <1>1, <2>5, Plans DEF Followed
    <3>2. Follows(diff[s] \o <<<<"edge", c.kind, c.source, c.target>>>>, elements[s],
                  edges[s] \cup {<<c.kind, c.source, c.target>>}, body[s], Plan[s], next[s] + 1)
      BY <1>2, <3>1, FollowsEdge DEF c
    <3> QED
      BY <1>5, <2>1, <2>2, <3>2 DEF Followed
  <2>6. \A t \in Server : Followed(t)'
    BY <2>3, <2>5, CallFollows
  <2>7. Filed(edges)' /\ Filed(body)' /\ Filed(elements)'
    BY <1>1, <1>5, <2>2 DEF Filed
  <2> QED
    BY <1>1, <1>3, <1>7, <2>1, <2>4, <2>6, <2>7 DEF SeedInv
<1>8. CASE ~accepted
  <2>1. /\ stage' = [stage EXCEPT ![s] = "refused"] /\ s \notin Server
        /\ UNCHANGED <<projects, branches, elements, edges, body, genesis, next, diff>>
    BY <1>4, <1>5, <1>6, <1>8
  <2>2. ASSUME NEW t \in Start PROVE Standing(t)'
    <3>1. CASE t = s
      BY <1>1, <1>2, <2>1, <3>1 DEF Standing
    <3>2. CASE t # s
      BY <1>1, <2>1, <3>2 DEF Standing
    <3> QED
      BY <3>1, <3>2
  <2>3. \A t \in Server : Followed(t)'
    BY <1>1, <2>1 DEF Followed
  <2>4. Filed(edges)' /\ Filed(body)' /\ Filed(elements)' /\ Filed(diff)' /\ Filed(next)'
    BY <1>1, <2>1 DEF Filed
  <2> QED
    BY <1>1, <2>1, <2>2, <2>3, <2>4 DEF SeedInv, Where
<1> QED
  BY <1>7, <1>8

LEMMA StepObject ==
  ASSUME SeedInv, NEW s \in Start, PutObject(s)
  PROVE  SeedInv'
<1>1. /\ stage \in [Start -> Where] /\ projects \subseteq Start /\ DOMAIN genesis \subseteq Start
      /\ Filed(elements) /\ Filed(edges) /\ Filed(body)
  BY DEF SeedInv
<1>2. /\ stage[s] = "seed" /\ next[s] \in DOMAIN Plan[s] /\ Plan[s][next[s]].op = "object"
      /\ Says(s, << >>) /\ UNCHANGED <<elements, edges, body, stage>>
  BY DEF PutObject, Calls, Call
<1>3. /\ Filed(diff)' /\ Filed(next)'
      /\ diff'[s] = diff[s] \o << >> /\ next'[s] = next[s] + 1
      /\ \A t \in Start : t # s => diff'[t] = diff[t] /\ next'[t] = next[t]
      /\ UNCHANGED <<projects, branches, genesis>>
  BY <1>2, CallFiles
<1>4. \A t \in Start : t # s => Quiet(t)
  BY <1>2, <1>3 DEF Quiet
<1>5. \A t \in Start : Standing(t)'
  BY <1>2, <1>3, <1>4, CallStands
<1>6. ASSUME s \in Server PROVE Followed(s)'
  <2>1. Follows(diff[s], elements[s], edges[s], body[s], Plan[s], next[s]) /\ IsPlan(Plan[s])
    BY <1>6, Plans DEF SeedInv, Followed
  <2>2. Follows(diff[s] \o << >>, elements[s], edges[s], body[s], Plan[s], next[s] + 1)
    BY <1>2, <2>1, FollowsObject
  <2> QED
    BY <1>2, <1>3, <2>2 DEF Followed
<1>7. \A t \in Server : Followed(t)'
  BY <1>4, <1>6, CallFollows
<1>8. Filed(edges)' /\ Filed(body)' /\ Filed(elements)'
  BY <1>1, <1>2 DEF Filed
<1> QED
  BY <1>1, <1>2, <1>3, <1>5, <1>7, <1>8 DEF SeedInv

(* Only the script makes bulk calls.                                         *)
LEMMA StepBulk ==
  ASSUME SeedInv, NEW s \in Start, BulkUpsertElements(s) \/ BulkCreateEdges(s)
  PROVE  SeedInv'
<1>1. /\ stage \in [Start -> Where] /\ projects \subseteq Start /\ DOMAIN genesis \subseteq Start
      /\ Filed(elements) /\ Filed(edges) /\ Filed(body)
  BY DEF SeedInv
<1>2. /\ stage[s] = "seed" /\ next[s] \in DOMAIN Plan[s] /\ Plan[s][next[s]].op \in {"elements", "bulk"}
      /\ Says(s, << >>) /\ UNCHANGED <<body, stage>>
  BY DEF BulkUpsertElements, BulkCreateEdges, Calls, Call
<1>3. \E v, w : Enters(elements', elements, s, v) /\ Enters(edges', edges, s, w)
  <2>1. CASE BulkUpsertElements(s)
    <3>1. \E v : Enters(elements', elements, s, v)
      BY <2>1 DEF BulkUpsertElements, Enters
    <3>2. Enters(edges', edges, s, edges[s])
      BY <1>1, <2>1 DEF BulkUpsertElements, Filed, Enters
    <3> QED
      BY <3>1, <3>2
  <2>2. CASE BulkCreateEdges(s)
    <3>1. \E w : Enters(edges', edges, s, w)
      BY <2>2 DEF BulkCreateEdges, Enters
    <3>2. Enters(elements', elements, s, elements[s])
      BY <1>1, <2>2 DEF BulkCreateEdges, Filed, Enters
    <3> QED
      BY <3>1, <3>2
  <2> QED
    BY <2>1, <2>2
<1>4. /\ Filed(elements') /\ Filed(edges')
      /\ \A t \in Start : t # s => elements'[t] = elements[t] /\ edges'[t] = edges[t]
  <2>1. PICK v, w : Enters(elements', elements, s, v) /\ Enters(edges', edges, s, w)
    BY <1>3
  <2>2. Filed(elements') /\ \A t \in Start : t # s => elements'[t] = elements[t]
    BY <1>1, <2>1, Filing
  <2>3. Filed(edges') /\ \A t \in Start : t # s => edges'[t] = edges[t]
    BY <1>1, <2>1, Filing
  <2> QED
    BY <2>2, <2>3
<1>5. /\ Filed(diff)' /\ Filed(next)'
      /\ \A t \in Start : t # s => diff'[t] = diff[t] /\ next'[t] = next[t]
      /\ UNCHANGED <<projects, branches, genesis>>
  BY <1>2, CallFiles
<1>6. \A t \in Start : t # s => Quiet(t)
  BY <1>2, <1>4, <1>5 DEF Quiet
<1>7. \A t \in Start : Standing(t)'
  BY <1>2, <1>5, <1>6, CallStands
<1>8. s \notin Server
  BY <1>2, Plans DEF Told, Single
<1>9. \A t \in Server : Followed(t)'
  BY <1>6, <1>8, CallFollows
<1>10. Filed(edges)' /\ Filed(body)' /\ Filed(elements)'
  BY <1>1, <1>2, <1>4 DEF Filed
<1> QED
  BY <1>1, <1>2, <1>5, <1>7, <1>9, <1>10 DEF SeedInv

(* What a call makes of a row: the keys it comes with are in it, other keys  *)
(* stay but in a row that is replaced, and every name was there or comes     *)
(* with the call.                                                            *)
RowBy(c, old, row) ==
    /\ DOMAIN c.with \subseteq DOMAIN row
    /\ c.op # "body" => \A k \in DOMAIN old \ DOMAIN c.with : k \in DOMAIN row /\ row[k] = old[k]
    /\ \A k \in DOMAIN row : \A name \in row[k] :
          (k \in DOMAIN old /\ name \in old[k]) \/ (k \in DOMAIN c.with /\ name \in c.with[k])

LEMMA FollowsCall ==
  ASSUME NEW s \in Server, Followed(s), next[s] \in OfRows(Plan[s]), NEW row,
         RowBy(Plan[s][next[s]], Row(s, Plan[s][next[s]].id), row)
  PROVE  LET c == Plan[s][next[s]]
         IN  Follows(diff[s] \o Set(c.id, row, c.said), elements[s], edges[s], Rewritten(body[s], c.id, row),
                     Plan[s], next[s] + 1)
<1> DEFINE plan == Plan[s]
           n == next[s]
           c == plan[n]
           d == diff[s]
           b == body[s]
<1>1. IsPlan(plan) /\ Told(plan)
  BY Plans
<1>2. n \in DOMAIN plan /\ n \in OfRows(plan)
  BY DEF OfRows
<1>3. Follows(d, elements[s], edges[s], b, plan, n)
  BY DEF Followed
<1>4. Tells(d, b) /\ ToldOf(d, plan, n) /\ PutThere(b, plan)
  BY <1>3 DEF Follows
<1>5. Row(s, c.id) = IF c.id \in DOMAIN b THEN b[c.id] ELSE << >>
  BY DEF Row
<1>6. RowBy(c, Row(s, c.id), row)
  OBVIOUS
<1>7. c.said \subseteq DOMAIN row
  BY <1>1, <1>2, <1>6 DEF Told, RowBy
<1>8. ASSUME NEW k, Sets(d, c.id, k) # {}, k \notin c.said
      PROVE  k \in DOMAIN row /\ row[k] = b[c.id][k]
  <2>1. c.id \in DOMAIN b /\ k \in DOMAIN b[c.id]
    BY <1>4, <1>8 DEF Tells
  <2>2. PICK m \in OfRows(plan) : m < n /\ plan[m].id = c.id /\ k \in plan[m].said
    BY <1>4, <1>8 DEF ToldOf
  <2>3. Touched(c, plan[m].said) \subseteq c.said
    BY <1>1, <1>2, <2>2 DEF Told
  <2>4. c.op # "body" /\ k \notin DOMAIN c.with
    BY <1>8, <2>2, <2>3 DEF Touched
  <2> QED
    BY <1>5, <1>6, <2>1, <2>4 DEF RowBy
<1>9. ASSUME NEW k \in DOMAIN row, NEW name \in row[k] PROVE PutBy(plan, c.id, k, name)
  <2>1. CASE k \in DOMAIN c.with /\ name \in c.with[k]
    BY <1>2, <2>1 DEF PutBy
  <2>2. CASE k \in DOMAIN Row(s, c.id) /\ name \in Row(s, c.id)[k]
    <3>1. c.id \in DOMAIN b /\ k \in DOMAIN b[c.id] /\ name \in b[c.id][k]
      BY <1>5, <2>2
    <3> QED
      BY <1>4, <3>1 DEF PutThere
  <2> QED
    BY <1>6, <2>1, <2>2 DEF RowBy
<1> HIDE DEF plan, n, d, b
<1>10. Follows(d \o Set(c.id, row, c.said), elements[s], edges[s], Rewritten(b, c.id, row), plan, n + 1)
  BY <1>1, <1>2, <1>3, <1>7, <1>8, <1>9, FollowsRow
<1> QED
  BY <1>10 DEF plan, n, d, b

LEMMA StepRow ==
  ASSUME SeedInv, NEW s \in Start, UpsertBody(s) \/ MergeBody(s) \/ PushBody(s)
  PROVE  SeedInv'
<1> DEFINE c == Plan[s][next[s]]
           old == Row(s, c.id)
<1>1. /\ stage \in [Start -> Where] /\ projects \subseteq Start /\ DOMAIN genesis \subseteq Start
      /\ Filed(elements) /\ Filed(edges) /\ Filed(body)
  BY DEF SeedInv
<1>2. /\ stage[s] = "seed" /\ next[s] \in DOMAIN Plan[s] /\ c.op \in {"body", "merge", "push"}
      /\ UNCHANGED <<elements, edges, stage>>
  BY DEF UpsertBody, MergeBody, PushBody, Calls, Call
<1>3. \E row : RowBy(c, old, row) /\ Put(s, c.id, row) /\ Says(s, Set(c.id, row, c.said))
  <2>1. CASE UpsertBody(s)
    <3>1. Put(s, c.id, c.with) /\ Says(s, Set(c.id, c.with, c.said)) /\ c.op = "body"
      BY <2>1 DEF UpsertBody, Calls, Call
    <3>2. RowBy(c, old, c.with)
      BY <3>1 DEF RowBy
    <3> QED
      BY <3>1, <3>2
  <2>2. CASE MergeBody(s)
    <3> DEFINE row == [k \in DOMAIN old \cup DOMAIN c.with |-> IF k \in DOMAIN c.with THEN c.with[k] ELSE old[k]]
    <3>1. Put(s, c.id, row) /\ Says(s, Set(c.id, row, c.said))
      BY <2>2 DEF MergeBody, Call
    <3>2. RowBy(c, old, row)
      BY DEF RowBy
    <3> HIDE DEF row
    <3> QED
      BY <3>1, <3>2
  <2>3. CASE PushBody(s)
    <3> DEFINE row == [k \in DOMAIN old \cup DOMAIN c.with |->
                          IF k \notin DOMAIN old THEN {} ELSE
                          IF k \in DOMAIN c.with THEN old[k] \cup c.with[k] ELSE old[k]]
    <3>1. Put(s, c.id, row) /\ Says(s, Set(c.id, row, c.said))
      BY <2>3 DEF PushBody, Call
    <3>2. RowBy(c, old, row)
      BY DEF RowBy
    <3> HIDE DEF row
    <3> QED
      BY <3>1, <3>2
  <2> QED
    BY <2>1, <2>2, <2>3
<1> HIDE DEF c
<1>4. PICK row : RowBy(c, Row(s, c.id), row) /\ Put(s, c.id, row) /\ Says(s, Set(c.id, row, c.said))
  BY <1>3
<1>5. /\ Filed(diff)' /\ Filed(next)'
      /\ diff'[s] = diff[s] \o Set(c.id, row, c.said) /\ next'[s] = next[s] + 1
      /\ \A t \in Start : t # s => diff'[t] = diff[t] /\ next'[t] = next[t]
      /\ UNCHANGED <<projects, branches, genesis>>
  BY <1>4, CallFiles
<1>6. /\ Filed(body') /\ body'[s] = Rewritten(body[s], c.id, row)
      /\ \A t \in Start : t # s => body'[t] = body[t]
  <2>1. Enters(body', body, s, Rewritten(body[s], c.id, row))
    BY <1>4 DEF Put, Enters, Rewritten
  <2>2. \A v : Enters(body', body, s, v) =>
               Filed(body') /\ body'[s] = v /\ \A t \in Start : t # s => body'[t] = body[t]
    BY <1>1, Filing
  <2> QED
    BY <2>1, <2>2
<1>7. \A t \in Start : t # s => Quiet(t)
  BY <1>2, <1>5, <1>6 DEF Quiet
<1>8. \A t \in Start : Standing(t)'
  BY <1>2, <1>5, <1>7, CallStands
<1>9. ASSUME s \in Server PROVE Followed(s)'
  <2>1. Followed(s) /\ next[s] \in OfRows(Plan[s])
    BY <1>2, <1>9 DEF SeedInv, OfRows, c
  <2>2. Follows(diff[s] \o Set(c.id, row, c.said), elements[s], edges[s], Rewritten(body[s], c.id, row),
                Plan[s], next[s] + 1)
    BY <1>4, <1>9, <2>1, FollowsCall DEF c
  <2> QED
    BY <1>2, <1>5, <1>6, <2>2 DEF Followed
<1>10. \A t \in Server : Followed(t)'
  BY <1>7, <1>9, CallFollows
<1>11. Filed(edges)' /\ Filed(body)' /\ Filed(elements)'
  BY <1>1, <1>2, <1>6 DEF Filed
<1> QED
  BY <1>1, <1>2, <1>5, <1>8, <1>10, <1>11 DEF SeedInv

LEMMA StepSeedInv == SeedInv /\ [SeedNext]_seedVars => SeedInv'
<1> SUFFICES ASSUME SeedInv, [SeedNext]_seedVars PROVE SeedInv'
  OBVIOUS
<1>1. ASSUME NEW s \in Start, Step(s) PROVE SeedInv'
  BY <1>1, StepAround, StepElement, StepEdge, StepObject, StepBulk, StepRow DEF Step
<1>2. CASE UNCHANGED seedVars
  <2>1. /\ \A s \in Start : Standing(s)'
        /\ \A s \in Server : Followed(s)'
    BY <1>2 DEF SeedInv, Standing, Followed, seedVars, graph
  <2>2. Filed(edges)' /\ Filed(body)' /\ Filed(elements)' /\ Filed(diff)' /\ Filed(next)'
    BY <1>2 DEF SeedInv, Filed, seedVars, graph
  <2> QED
    BY <1>2, <2>1, <2>2 DEF SeedInv, seedVars, graph
<1> QED
  BY <1>1, <1>2 DEF SeedNext

(* The genesis commit of a seeded project gives its elements and edges back, *)
(* and of every property that it names the value that the row has: the diff  *)
(* is told again whenever a later call touches such a property.              *)
THEOREM GenesisIsWhole == SeedSpec => []GenesisReplays
<1>1. SeedInv => GenesisReplays
  <2> SUFFICES ASSUME SeedInv, NEW s \in DOMAIN genesis
               PROVE  /\ Created(genesis[s]) = elements[s]
                      /\ Joined(genesis[s]) = edges[s]
                      /\ \A x \in Named(genesis[s]) :
                            /\ x[2] \in DOMAIN Row(s, x[1])
                            /\ Row(s, x[1])[x[2]] = LastSet(genesis[s], x[1], x[2])
    BY DEF GenesisReplays
  <2>1. s \in Server /\ genesis[s] = diff[s]
    BY DEF SeedInv, Standing
  <2>2. /\ Created(diff[s]) = elements[s] /\ Joined(diff[s]) = edges[s]
        /\ Tells(diff[s], body[s])
    BY <2>1 DEF SeedInv, Followed, Follows
  <2>3. ASSUME NEW x \in Named(diff[s])
        PROVE  x[2] \in DOMAIN Row(s, x[1]) /\ Row(s, x[1])[x[2]] = LastSet(diff[s], x[1], x[2])
    <3>1. Sets(diff[s], x[1], x[2]) # {}
      BY NamedIs
    <3> QED
      BY <2>2, <3>1 DEF Tells, Row
  <2> QED
    BY <2>1, <2>2, <2>3
<1> QED
  BY <1>1, InitSeedInv, StepSeedInv, PTL DEF SeedSpec

(* Once a server is up, whatever other starts do and wherever they stop, the *)
(* reference is there, whole and with its commit; or a start stopped with    *)
(* its project half made, is still at it, or the script came first.          *)
THEOREM ReferenceComesWhole == SeedSpec => []ReferenceIsWhole
<1>1. SeedInv => ReferenceIsWhole
  <2> SUFFICES ASSUME SeedInv, NEW r \in Server, stage[r] = "ready",
                      \A p \in projects : p \notin Script /\ stage[p] \notin {"stopped", "branch", "seed"}
               PROVE  \E s \in Server : Whole(s)
    BY DEF ReferenceIsWhole
  <2>1. projects # {} /\ projects \subseteq Start
    BY Plans DEF SeedInv, Standing
  <2>2. PICK s : s \in projects
    BY <2>1
  <2>3. s \in Server /\ s \in Start
    BY <2>1, <2>2 DEF Start
  <2>4. Standing(s) /\ stage[s] \in Where /\ Followed(s)
    BY <2>3 DEF SeedInv
  <2>5. stage[s] = "ready"
    BY <2>2, <2>3, <2>4 DEF Standing, Where
  <2>6. s \in branches /\ s \in DOMAIN genesis /\ next[s] = Len(Plan[s]) + 1
    BY <2>2, <2>3, <2>4, <2>5 DEF Standing
  <2> DEFINE plan == Plan[s]
             n1 == Len(plan) + 1
  <2>7. IsPlan(plan) /\ Sound(plan) /\ Told(plan)
    BY <2>3, Plans
  <2>8. elements[s] = MadeBefore(plan, n1) /\ edges[s] = TiedBefore(plan, n1) /\ PutThere(body[s], plan)
    BY <2>4, <2>6 DEF Followed, Follows
  <2>9. ASSUME NEW n \in DOMAIN plan PROVE Asked(plan[n]) \subseteq edges[s]
    <3>1. n \in 1..(n1 - 1)
      BY <2>7 DEF IsPlan
    <3>2. plan[n].op # "bulk"
      BY <2>7 DEF Told, Single
    <3>3. CASE plan[n].op = "edge"
      <4>1. Asked(plan[n]) = {<<plan[n].kind, plan[n].source, plan[n].target>>}
        BY <3>3 DEF Asked
      <4> QED
        BY <2>8, <3>1, <3>3, <4>1 DEF TiedBefore
    <3>4. CASE plan[n].op # "edge"
      BY <3>2, <3>4 DEF Asked
    <3> QED
      BY <3>3, <3>4
  <2>10. ASSUME NEW i \in DOMAIN body[s], NEW k \in DOMAIN body[s][i], NEW name \in body[s][i][k]
         PROVE  /\ KindsOf(elements[s], name) # {} \/ name \in Outsiders
                /\ k = "interfacePortDefinitions" => <<"Contains", i, name>> \in edges[s]
    <3>1. PICK m \in OfRows(plan) : plan[m].id = i /\ k \in DOMAIN plan[m].with /\ name \in plan[m].with[k]
      BY <2>8 DEF PutThere, PutBy
    <3>2. /\ KindsOf(MadeBefore(plan, n1), name) # {} \/ name \in Outsiders
          /\ k = "interfacePortDefinitions" => <<"Contains", plan[m].id, name>> \in TiedBefore(plan, n1)
      BY <2>7, <3>1 DEF Sound
    <3> QED
      BY <2>8, <3>1, <3>2
  <2> HIDE DEF plan, n1
  <2>11. \A i \in {i \in DOMAIN body[s] : "interfacePortDefinitions" \in DOMAIN body[s][i]} :
            \A p \in body[s][i]["interfacePortDefinitions"] : <<"Contains", i, p>> \in edges[s]
    BY <2>10
  <2> QED
    BY <2>2, <2>3, <2>6, <2>9, <2>10, <2>11 DEF Whole, plan
<1> QED
  BY <1>1, InitSeedInv, StepSeedInv, PTL DEF SeedSpec
=============================================================================
