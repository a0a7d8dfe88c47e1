----------------------------- MODULE Versioning -----------------------------
(***************************************************************************)
(* The commit chain of one Axioma project, as concurrent HTTP requests     *)
(* build it: apps/api/src/store/versioning.rs and the write paths of       *)
(* apps/api/src/main.rs.                                                   *)
(*                                                                         *)
(* Every store call is one SQL statement (or one Cypher transaction) and   *)
(* every await between two calls lets other requests run, so each call is  *)
(* an action and pc says which call a request makes next.  No call is      *)
(* retried and none is undone: a failed call, an unusable bearer token or  *)
(* a crash of the API process ends the request where it stands (Fail).     *)
(*                                                                         *)
(* Data is abstracted to what the properties tell apart.  A request makes  *)
(* one write, named by the request itself; a snapshot is the set of the    *)
(* writes it contains.  Commit ids are positions in the commits table, in  *)
(* insertion order (the code's ids are fresh UUIDs).                       *)
(***************************************************************************)
EXTENDS Integers, Sequences

CONSTANTS
    Req,        \* HTTP requests
    Name,       \* branch names clients use
    Main,       \* MAIN_BRANCH
    May,        \* what each request may be, and whether it may fail (a bound:
                \* the code allows all of it to every request)
    Entries     \* how many diff entries the endpoint records for each request's
                \* write (none for a rename to the same name, or a body update
                \* that only drops properties)

ASSUME MainAssumption == Main \in Name
ASSUME MayAssumption == May \in [Req -> SUBSET {"write", "edit", "fork", "fail"}]
ASSUME EntriesAssumption == Entries \in [Req -> Nat]

None    == 0    \* SQL NULL: no head, no parent, no fork point
Unknown == -1   \* an id no commit has: create_branch does not validate its argument

VARIABLES
    project,    \* is the row of the project in the projects table?
    rows,       \* names in the branches table
    head, fork, \* head_commit_id and fork_commit_id of each branch row
    commits,    \* the commits table, in insertion order
    live,       \* writes the live graph and bodies contain
    audit,      \* how many audit_log rows each request has inserted
    published,  \* history: every commit that has ever been the head of a branch
    pc,         \* the call each request makes next
    target,     \* the branch it writes or creates
    seen,       \* the head it read for that branch
    mine,       \* the commit it inserted
    at, acc,    \* resolve_snapshot: the commit being resolved, the writes found
    unrecorded  \* history: the live writes that no head had recorded when a request
                \* found main's head to be answered from the live graph, or came later

stores == <<project, rows, head, fork, commits, live, audit, published>>
locals == <<pc, target, seen, mine, at, acc, unrecorded>>
vars   == <<stores, locals>>

Ended == {"done", "failed"}
PC    == Ended \cup {"idle", "readMain", "resolve", "readLive", "insertCommit",
                     "advanceHead", "recordAudit", "readForkPoint", "insertBranch"}

Ids == 1..Len(commits)
Ref == {None, Unknown} \cup Ids

Init ==
    /\ project = FALSE
    /\ rows = {}
    /\ head = [n \in Name |-> None]
    /\ fork = [n \in Name |-> None]
    /\ commits = << >>
    /\ live = {}
    /\ audit = [r \in Req |-> 0]
    /\ published = {}
    /\ pc = [r \in Req |-> "idle"]
    /\ target = [r \in Req |-> Main]
    /\ seen = [r \in Req |-> None]
    /\ mine = [r \in Req |-> None]
    /\ at = [r \in Req |-> None]
    /\ acc = [r \in Req |-> {}]
    /\ unrecorded = [r \in Req |-> {}]

Goto(r, from, to) ==
    /\ pc[r] = from
    /\ pc' = [pc EXCEPT ![r] = to]

----------------------------------------------------------------------------
(* VersioningStore::create_project: two statements, no transaction.  Other  *)
(* requests see the project as soon as the first has run.                   *)

InsertProject ==
    /\ ~project
    /\ project' = TRUE
    /\ UNCHANGED <<rows, head, fork, commits, live, audit, published, locals>>

InsertMain ==
    /\ project
    /\ Main \notin rows
    /\ rows' = rows \cup {Main}
    /\ UNCHANGED <<project, head, fork, commits, live, audit, published, locals>>

----------------------------------------------------------------------------
(* A mutating endpoint: it writes the live stores, then record_commit does  *)
(* the rest.  The actor is resolved between the two (an error is Fail).     *)

WriteLive(r) ==
    /\ project
    /\ Goto(r, "idle", IF Entries[r] = 0 THEN "done" ELSE "readMain")
    /\ live' = live \cup {r}
    /\ target' = [target EXCEPT ![r] = Main]
    /\ unrecorded' = [s \in Req |-> IF pc[s] = "readLive" THEN unrecorded[s] \cup {r}
                                    ELSE unrecorded[s]]
    /\ UNCHANGED <<project, rows, head, fork, commits, audit, published,
                   seen, mine, at, acc>>

ReadMain(r) ==
    /\ Main \in rows                      \* else "project has no main branch"
    /\ Goto(r, "readMain", "insertCommit")
    /\ seen' = [seen EXCEPT ![r] = head[Main]]
    /\ UNCHANGED <<stores, target, mine, at, acc, unrecorded>>

----------------------------------------------------------------------------
(* VersioningStore::commit: the parent is the head the caller read earlier, *)
(* and the head is moved unconditionally.  `basis` is not a column: it is   *)
(* the snapshot against which a branch edit computed its diff's old values. *)

(* Fault: the parent is the head at the time of the insert. *)
FaultParentReread(r) ==
    [branch |-> target[r], parent |-> head[target[r]], by |-> r, basis |-> acc[r]]

CommitRow(r) ==
    [branch |-> target[r], parent |-> seen[r], by |-> r, basis |-> acc[r]]

InsertCommit(r) ==
    /\ Goto(r, "insertCommit", "advanceHead")
    /\ commits' = Append(commits, CommitRow(r))
    /\ mine' = [mine EXCEPT ![r] = Len(commits) + 1]
    /\ UNCHANGED <<project, rows, head, fork, live, audit, published,
                   target, seen, at, acc, unrecorded>>

AdvanceHead(r) ==
    /\ Goto(r, "advanceHead", IF Entries[r] = 0 THEN "done" ELSE "recordAudit")
    /\ head' = [head EXCEPT ![target[r]] = mine[r]]
    /\ published' = published \cup {mine[r]}
    /\ UNCHANGED <<project, rows, fork, commits, live, audit,
                   target, seen, mine, at, acc, unrecorded>>

(* Fault: one audit row for the commit, not one for each entry. *)
FaultAuditOnce(r) ==
    /\ Goto(r, "recordAudit", "done")
    /\ audit' = [audit EXCEPT ![r] = @ + 1]
    /\ UNCHANGED <<project, rows, head, fork, commits, live, published,
                   target, seen, mine, at, acc, unrecorded>>

(* One audit_log row for each diff entry, one statement each. *)
RecordAudit(r) ==
    /\ Goto(r, "recordAudit", IF audit[r] + 1 = Entries[r] THEN "done" ELSE "recordAudit")
    /\ audit' = [audit EXCEPT ![r] = @ + 1]
    /\ UNCHANGED <<project, rows, head, fork, commits, live, published,
                   target, seen, mine, at, acc, unrecorded>>

----------------------------------------------------------------------------
(* branch_update_element_body: read the branch (404 without a row, 400      *)
(* without a head), resolve its head, commit the difference.  The branch    *)
(* named in the URL may be any branch, main included.                       *)

EditBranch(r, n) ==
    /\ n \in rows
    /\ head[n] # None
    /\ Goto(r, "idle", "resolve")
    /\ target' = [target EXCEPT ![r] = n]
    /\ seen' = [seen EXCEPT ![r] = head[n]]
    /\ at' = [at EXCEPT ![r] = head[n]]
    /\ UNCHANGED <<stores, mine, acc, unrecorded>>

(* The commits resolve_snapshot replays from c: parents, up to the first    *)
(* commit of another branch.                                                *)
OwnChain(c) ==
    LET walk[k \in Unknown..c] ==
            IF k <= 0 THEN {}
            ELSE IF commits[k].branch # commits[c].branch THEN {}
            ELSE {k} \cup walk[commits[k].parent]
    IN  IF c <= 0 THEN {} ELSE walk[c]

Writes(C) == {r \in Req : \E c \in C : commits[c].by = r}

(* The writes of the commits that became a head. *)
Recorded == Writes(published)

(* One level of resolve_snapshot: main's present head is answered from the  *)
(* live graph, any other commit by its branch's own commits on top of the   *)
(* branch's fork point.  The rows it reads besides main's head never change, *)
(* so they are read in the same step.                                       *)
ResolveStep(r) ==
    /\ IF Main \in rows /\ at[r] = head[Main]
       THEN /\ Goto(r, "resolve", "readLive")
            /\ unrecorded' = [unrecorded EXCEPT ![r] = @ \cup (live \ Recorded)]
            /\ UNCHANGED <<at, acc>>
       ELSE /\ at[r] \in Ids              \* else "commit not found"
            /\ LET base == fork[commits[at[r]].branch] IN
                 /\ Goto(r, "resolve", IF base = None THEN "insertCommit" ELSE "resolve")
                 /\ at' = [at EXCEPT ![r] = base]
                 /\ acc' = [acc EXCEPT ![r] = @ \cup Writes(OwnChain(at[r]))]
            /\ UNCHANGED unrecorded
    /\ UNCHANGED <<stores, target, seen, mine>>

(* build_snapshot, later than the read of main's head. *)
ReadLive(r) ==
    /\ Goto(r, "readLive", "insertCommit")
    /\ acc' = [acc EXCEPT ![r] = @ \cup live]
    /\ UNCHANGED <<stores, target, seen, mine, at, unrecorded>>

----------------------------------------------------------------------------
(* create_branch: the starting point is the caller's (not validated) or     *)
(* main's head at the time of reading.  A client can name any commit that   *)
(* was ever shown to it as a head.                                          *)

ForkFromMain(r, n) ==
    /\ project
    /\ Goto(r, "idle", "readForkPoint")
    /\ target' = [target EXCEPT ![r] = n]
    /\ UNCHANGED <<stores, seen, mine, at, acc, unrecorded>>

ReadForkPoint(r) ==
    /\ Goto(r, "readForkPoint", "insertBranch")
    /\ seen' = [seen EXCEPT ![r] = IF Main \in rows THEN head[Main] ELSE None]
    /\ UNCHANGED <<stores, target, mine, at, acc, unrecorded>>

ForkFromCommit(r, n, c) ==
    /\ project
    /\ Goto(r, "idle", "insertBranch")
    /\ target' = [target EXCEPT ![r] = n]
    /\ seen' = [seen EXCEPT ![r] = c]
    /\ UNCHANGED <<stores, mine, at, acc, unrecorded>>

(* Fault: the fork point is not stored. *)
FaultForkDropped(r) ==
    /\ target[r] \notin rows
    /\ Goto(r, "insertBranch", "done")
    /\ rows' = rows \cup {target[r]}
    /\ head' = [head EXCEPT ![target[r]] = seen[r]]
    /\ UNCHANGED <<project, fork, commits, live, audit, published,
                   target, seen, mine, at, acc, unrecorded>>

(* Fault: an existing branch of that name is overwritten. *)
FaultBranchUpsert(r) ==
    /\ Goto(r, "insertBranch", "done")
    /\ rows' = rows \cup {target[r]}
    /\ head' = [head EXCEPT ![target[r]] = seen[r]]
    /\ fork' = [fork EXCEPT ![target[r]] = seen[r]]
    /\ UNCHANGED <<project, commits, live, audit, published,
                   target, seen, mine, at, acc, unrecorded>>

(* UNIQUE (project_id, name) refuses a second row of that name. *)
InsertBranch(r) ==
    /\ target[r] \notin rows
    /\ Goto(r, "insertBranch", "done")
    /\ rows' = rows \cup {target[r]}
    /\ head' = [head EXCEPT ![target[r]] = seen[r]]
    /\ fork' = [fork EXCEPT ![target[r]] = seen[r]]
    /\ UNCHANGED <<project, commits, live, audit, published,
                   target, seen, mine, at, acc, unrecorded>>

----------------------------------------------------------------------------

(* The calls that answer with an error: main's row is not there yet, no       *)
(* commit has the id to resolve, the branch name is taken.                    *)
Refused(r) ==
    \/ pc[r] = "readMain" /\ Main \notin rows
    \/ pc[r] = "resolve" /\ at[r] \notin Ids
    \/ pc[r] = "insertBranch" /\ target[r] \in rows

(* Fault: a request that fails after moving the head puts the old one back. *)
FaultRollback(r) ==
    /\ "fail" \in May[r] \/ Refused(r)
    /\ pc[r] \notin Ended \cup {"idle"}
    /\ pc' = [pc EXCEPT ![r] = "failed"]
    /\ head' = IF pc[r] = "recordAudit" THEN [head EXCEPT ![target[r]] = seen[r]] ELSE head
    /\ UNCHANGED <<project, rows, fork, commits, live, audit, published,
                   target, seen, mine, at, acc, unrecorded>>

(* A call returns an error, the actor cannot be resolved, or the process    *)
(* crashes: nothing already written is undone.                              *)
Fail(r) ==
    /\ "fail" \in May[r] \/ Refused(r)
    /\ pc[r] \notin Ended \cup {"idle"}
    /\ pc' = [pc EXCEPT ![r] = "failed"]
    /\ UNCHANGED <<stores, target, seen, mine, at, acc, unrecorded>>

RecordStep(r) ==
    \/ ReadMain(r) \/ InsertCommit(r) \/ AdvanceHead(r) \/ RecordAudit(r)

EditStep(r)   == ResolveStep(r) \/ ReadLive(r)
BranchStep(r) == ReadForkPoint(r) \/ InsertBranch(r)

Begin(r) ==
    \/ "write" \in May[r] /\ WriteLive(r)
    \/ "edit" \in May[r] /\ \E n \in Name : EditBranch(r, n)
    \/ "fork" \in May[r] /\ \E n \in Name :
          \/ ForkFromMain(r, n)
          \/ \E c \in published \cup {Unknown} : ForkFromCommit(r, n, c)

Next ==
    \/ InsertProject
    \/ InsertMain
    \/ \E r \in Req : \/ Begin(r)
                      \/ RecordStep(r)
                      \/ EditStep(r)
                      \/ BranchStep(r)
                      \/ Fail(r)

Spec == Init /\ [][Next]_vars

----------------------------------------------------------------------------
Commit == [branch : Name, parent : Int, by : Req, basis : SUBSET Req]

(* Type correctness of every variable; no id is dangling: a head, a fork     *)
(* point or a parent names an existing row of commits, or none, or the one   *)
(* unknown id a client can pass to create_branch.                            *)
TypeOK ==
    /\ project \in BOOLEAN
    /\ rows \subseteq Name
    /\ commits \in Seq(Commit)
    /\ \A c \in Ids : commits[c].parent \in Ref
    /\ head \in [Name -> Ref]
    /\ fork \in [Name -> Ref]
    /\ live \subseteq Req
    /\ audit \in [Req -> Nat]
    /\ published \subseteq Ids
    /\ pc \in [Req -> PC]
    /\ target \in [Req -> Name]
    /\ seen \in [Req -> Ref]
    /\ mine \in [Req -> {None} \cup Ids]
    /\ at \in [Req -> Ref]
    /\ acc \in [Req -> SUBSET Req]
    /\ unrecorded \in [Req -> SUBSET Req]

CommitsOf(n) == {c \in Ids : commits[c].branch = n}

(* A branch stays rooted at the commit it forked from, whatever interleaves: *)
(* its head is one of its own commits or still its fork point; the parent of *)
(* each of its commits is an earlier one of them, or its fork point, which   *)
(* precedes them all.  resolve_snapshot relies on it: it walks parents until *)
(* the branch changes and takes for granted that it then stands on the fork. *)
Rooted(c) ==
    LET n == commits[c].branch IN
      /\ n \in rows
      /\ commits[c].parent < c
      /\ fork[n] < c
      /\ commits[c].parent \in CommitsOf(n) \cup {fork[n]}

ChainRooted ==
    /\ \A n \in rows : head[n] \in CommitsOf(n) \cup {fork[n]}
    /\ \A c \in Ids : Rooted(c)

(* A request that answered 200 left its record complete, whatever other      *)
(* requests and failures did: its commit became a head, and there is an      *)
(* audit row for each entry of its diff.  (The commit may be missing from    *)
(* the history that the present head leads to: HistoryLossOnlyByRace.)       *)
CompletedIsRecorded ==
    \A r \in Req :
        (pc[r] = "done" /\ (mine[r] # None \/ (r \in live /\ Entries[r] > 0))) =>
            /\ mine[r] \in published
            /\ commits[mine[r]].by = r
            /\ audit[r] = Entries[r]

(* Everything committed up to c: its branch's own chain, on top of whatever  *)
(* the branch's fork point stands for.                                       *)
History(c) ==
    LET up[k \in Unknown..c] ==
            IF k <= 0 THEN {} ELSE OwnChain(k) \cup up[fork[commits[k].branch]]
    IN  up[c]

(* A commit of a concurrent request took the same parent as c, or as one of  *)
(* the commits c stands on.                                                  *)
Overtaken(c) ==
    \E k \in OwnChain(c), j \in CommitsOf(Main) :
        j # k /\ commits[j].parent = commits[k].parent

(* The snapshot that the old values of a branch edit's diff are taken from,  *)
(* and the history of the parent its commit names, between whose readings    *)
(* other requests may have moved any head.  It misses nothing of that        *)
(* history, except edits sent to the branch "main", which are in main's      *)
(* chain and never in the live graph that main's head is answered from.      *)
MissesNothing(c) ==
    \A k \in History(commits[c].parent) :
        \/ commits[k].by \in commits[c].basis
        \/ commits[k].branch = Main /\ commits[k].by \notin live

(* It holds nothing else, except live writes main's history does not have:   *)
(* those that no head had recorded when the branch was found to end on       *)
(* main's head (their commits are to come, or never will) or that came       *)
(* between that comparison and the reading of the live graph; and those      *)
(* whose commit a race took from main's history.                             *)
HoldsNothingElse(c) ==
    \A w \in commits[c].basis \ Writes(History(commits[c].parent)) :
        \/ w \in unrecorded[commits[c].by]
        \/ \E j \in CommitsOf(Main) : commits[j].by = w /\ Overtaken(j)

(* The old values in a branch edit's diff are those at the commit's parent,  *)
(* but for the writes that MissesNothing and HoldsNothingElse except: a      *)
(* branch that ends on main's head takes the live graph for it, and the live *)
(* graph may be ahead of every commit.                                       *)
DiffAgainstParent ==
    \A c \in Ids : commits[c].by \notin live => MissesNothing(c) /\ HoldsNothingElse(c)

(* Why a commit can be missing from main's history: it has not been made the *)
(* head (its request is still between the two statements of commit, or died  *)
(* there), or a commit of a concurrent request took the same parent.         *)
HistoryLossOnlyByRace ==
    LET kept == OwnChain(head[Main]) IN
      \A c \in CommitsOf(Main) :
        \/ c \in kept
        \/ c \notin published
        \/ Overtaken(c)

(* History is append-only: no step changes or removes a commit, removes a    *)
(* branch row, changes its fork point, removes an audit row, or takes a      *)
(* write out of the live graph.  (Heads do move: HeadNeverRevives.)          *)
HistoryAppendOnly ==
    [][/\ Len(commits') >= Len(commits)
       /\ \A c \in Ids : commits'[c] = commits[c]
       /\ rows \subseteq rows'
       /\ \A n \in rows : fork'[n] = fork[n]
       /\ \A r \in Req : audit'[r] >= audit[r]
       /\ live \subseteq live']_vars

(* A head that has been superseded never becomes a head again: a branch only *)
(* moves to a commit of its own that was never any branch's head.  So a fork *)
(* point that main has left is from then on resolved by replay, and never    *)
(* again from the live graph.                                                *)
HeadNeverRevives ==
    [][\A n \in rows : head'[n] # head[n] =>
          /\ head'[n] \in CommitsOf(n)
          /\ head'[n] \notin published]_vars

(* resolve_snapshot terminates: each level resolves a commit older than the  *)
(* one before, down to a branch without a fork point or an unknown id.       *)
ResolveDescends ==
    [][\A r \in Req : (pc[r] = "resolve" /\ at'[r] # at[r]) => at'[r] < at[r]]_vars
=============================================================================
