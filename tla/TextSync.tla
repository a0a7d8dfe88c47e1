------------------------------ MODULE TextSync ------------------------------
(***************************************************************************)
(* The text view of a model (sysml-textual, apps/lsp) and the edits it     *)
(* makes: an editor that sends its whole text 300 ms after it last         *)
(* changed, a language server that prints what it last read of the model,  *)
(* compares each text with that, and has the API apply the difference, and *)
(* the model itself, which the canvas and other clients edit too.          *)
(*                                                                         *)
(* A text is the sequence of its elements in the order of their first      *)
(* lines, each with the depth of its block.  Handlers of the server run    *)
(* concurrently and lose the processor at every await.  Of a call of the   *)
(* API the check, the transaction and the commit are steps of their own.   *)
(* Diagnostics are shown at once.  Elements have one parent here: Topology *)
(* has what several do to the check.                                       *)
(***************************************************************************)
EXTENDS TextDiff

CONSTANTS
    Id, Name, Kind, Blank,      \* Blank: a name of nothing but space
    NewLines,       \* kinds and names of elements that may be typed (a bound)
    First,          \* the model at first: a snapshot
    Handler,        \* handlers of the language server that may run at once
    MaxEvents,      \* edits of the text, renames on the canvas, writes of others and
                    \* lost calls, together (a bound)
    MaxCommits      \* a bound: two texts may undo each other for ever

ASSUME IdAssumption == Id \subseteq Nat \ {NoOne} /\ IsFiniteSet(Id)
ASSUME LinesAssumption == NewLines \subseteq [kind : Kind, name : Name]

(* The model at first has the ends of its edges, and one parent for each.    *)
ASSUME FirstAssumption ==
    /\ First = [elements |-> First.elements, edges |-> First.edges, bodies |-> First.bodies]
    /\ DOMAIN First.elements \subseteq Id
    /\ First.elements \in [DOMAIN First.elements ->
                              [kind : Kind, name : Name, active : BOOLEAN, origin : STRING]]
    /\ First.edges \subseteq [source : DOMAIN First.elements, target : DOMAIN First.elements, kind : STRING]
    /\ \A d, e \in ContainsOf(First) : d.target = e.target => d = e

VARIABLES
    graph, commits,
    used,           \* ids there have ever been
    snapshot,       \* what the server last read
    job,            \* of each handler
    toServer, toEditor,
    text, base,     \* of the editor: its text, and the one last pushed to it
    due,            \* its timer runs
    shown,          \* it shows diagnostics
    canvas,         \* the rename the canvas is making
    open,           \* the server knows the document
    typed, inserted, renamed, others, lost,     \* how much has happened
    crossed,        \* history: the server handled a text that came from another print than its
                    \* snapshot's, or handled or wrote one before it heard of a rename, or handled
                    \* anything while another handler ran
    raced,          \* history: a write fell between the check, the write and the commit of another
    unrecorded,     \* history: a write has no commit, as its request failed before that
    unread,         \* history: an element that a text made is not in what the server has read: its
                    \* answer was lost, the read failed, or another client deleted the element
    stale           \* history: since it last read the model as it is, the server has missed a write
                    \* or a part of what it read, or was told of a rename that was refused

model  == <<graph, commits, used>>
editor == <<text, base, due, shown>>
Event  == typed + renamed + others + lost < MaxEvents
counts == <<typed, inserted, renamed, others, lost>>
ghosts == <<crossed, raced, unrecorded, unread, stale>>
vars   == <<model, snapshot, open, job, toServer, toEditor, editor, canvas, counts, ghosts>>

Idle == [pc |-> "idle"]

(* The document was opened: the handler of didOpen reads the model.          *)
Init ==
    /\ graph = First /\ commits = << >> /\ used = DOMAIN First.elements
    /\ snapshot = Empty /\ open = FALSE
    /\ job = [h \in Handler |-> IF h = CHOOSE g \in Handler : TRUE THEN [pc |-> "elements"] ELSE Idle]
    /\ toServer = << >> /\ toEditor = << >>
    /\ text = << >> /\ base = << >> /\ due = FALSE /\ shown = FALSE
    /\ canvas = Idle
    /\ typed = 0 /\ inserted = 0 /\ renamed = 0 /\ others = 0 /\ lost = 0
    /\ crossed = FALSE /\ raced = FALSE /\ unrecorded = FALSE /\ unread = FALSE /\ stale = FALSE

----------------------------------------------------------------------------
(* apply_graph_ops and apply_text_model.                                     *)

Reaches(links, from, to) ==
    LET within[n \in 0..Cardinality(links)] ==
            IF n = 0 THEN {from}
            ELSE LET w == within[n - 1] IN w \cup {l[2] : l \in {l \in links : l[1] \in w}}
    IN  to \in within[Cardinality(links)]

Moved(links, id, parent) ==
    {l \in links : l[2] # id} \cup (IF parent = NoOne THEN {} ELSE {<<parent, id>>})

(* Every op is checked on the hierarchy those before it leave.               *)
CheckOp(r, op) ==
    LET known  == r.old \cup r.made
        parent == op.do = "rename" \/ op.parent \in known \cup {NoOne}
        allowed ==
            CASE op.do = "rename"   -> op.id \in r.old /\ op.name # Blank
              [] op.do = "create"   -> parent
              [] op.do = "reparent" -> op.id \in r.old /\ parent /\ ~Reaches(r.links, op.id, op.parent)
    IN  IF ~r.ok \/ ~allowed THEN [r EXCEPT !.ok = FALSE]
        ELSE [r EXCEPT !.made  = IF op.do = "create" THEN @ \cup {op.id} ELSE @,
                       !.links = IF op.do = "rename" THEN @ ELSE Moved(@, op.id, op.parent)]

Accepts(s, ops) ==
    FoldLeft(CheckOp,
             [ok |-> TRUE, old |-> DOMAIN s.elements, made |-> {},
              links |-> {<<e.source, e.target>> : e \in ContainsOf(s)}],
             ops).ok

(* Which of the ops create something.                                        *)
Created(ops) == SortedIds({n \in DOMAIN ops : ops[n].do = "create"})
Unused == SortedIds(Id \ used)

(* resolve_ops_to_real_ids: ids gives the temporary ones theirs.             *)
Real(ids, i) == IF i \in DOMAIN ids THEN ids[i] ELSE i
RealOps(ops, ids) ==
    [n \in DOMAIN ops |->
        IF ops[n].do = "rename" THEN ops[n]
        ELSE [ops[n] EXCEPT !.id = Real(ids, @), !.parent = Real(ids, @)]]

RealIds(ops) ==
    LET new == Created(ops)
    IN  [i \in {ops[new[n]].id : n \in DOMAIN new} |->
            Unused[CHOOSE n \in DOMAIN new : ops[new[n]].id = i]]

(* A statement that matches no element does nothing: no edge to a parent     *)
(* that is gone.                                                             *)
WriteOp(s, op) ==
    LET there == IF op.do # "rename" /\ op.parent \in DOMAIN s.elements THEN op.parent ELSE NoOne
    IN  CASE op.do = "rename"   -> SetName(s, op.id, op.name)
          [] op.do = "create"   -> [AddElement(s, op.id, op.kind, op.name) EXCEPT
                                       !.edges = @ \cup ParentEdge(there, op.id)]
          [] op.do = "reparent" -> IF op.id \in DOMAIN s.elements
                                   THEN [s EXCEPT !.edges = {e \in @ : ~(e.target = op.id /\ e.kind = "Contains")}
                                                            \cup ParentEdge(there, op.id)]
                                   ELSE s

Written(s, ops, ids) == FoldLeft(WriteOp, s, RealOps(ops, ids))

----------------------------------------------------------------------------
(* The editor.                                                               *)

Valid(t) ==
    \A n \in DOMAIN t : t[n].depth <= (IF n = 1 THEN 0 ELSE t[n - 1].depth + 1)

(* The lines of the block that begins at a line.                             *)
Block(n) ==
    n..(CHOOSE m \in n..Len(text) :
            /\ \A k \in (n + 1)..m : text[k].depth > text[n].depth
            /\ m = Len(text) \/ text[m + 1].depth <= text[n].depth)

Type(t) ==
    /\ Event /\ text # Unparsable /\ Valid(t) /\ t # text
    /\ typed' = typed + 1
    /\ text' = t /\ due' = TRUE
    /\ UNCHANGED <<model, snapshot, open, job, toServer, toEditor, base, shown, canvas,
                   renamed, others, lost, ghosts>>

Retitle == \E n \in DOMAIN text, m \in Name : Type([text EXCEPT ![n].name = m]) /\ UNCHANGED inserted
Rekind  == \E n \in DOMAIN text, k \in Kind : Type([text EXCEPT ![n].kind = k]) /\ UNCHANGED inserted
Indent  ==
    \E n \in DOMAIN text, by \in {-1, 1} :
        /\ text[n].depth + by >= 0
        /\ Type([m \in DOMAIN text |->
                    IF m \in Block(n) THEN [text[m] EXCEPT !.depth = @ + by] ELSE text[m]])
        /\ UNCHANGED inserted
Cut   ==
    \E n \in DOMAIN text :
        Type(SubSeq(text, 1, n - 1) \o SubSeq(text, n + Cardinality(Block(n)), Len(text))) /\ UNCHANGED inserted
Copy  ==
    \E n \in DOMAIN text :
        /\ Type(Append(text, [text[n] EXCEPT !.depth = 0]))
        /\ inserted' = IF text[n].anchor = NoOne THEN inserted + 1 ELSE inserted
Spoil == text # << >> /\ Type(Unparsable) /\ UNCHANGED inserted

(* The element of a new line has no id yet.                                  *)
Insert ==
    \E n \in 0..Len(text), l \in NewLines, d \in 0..Len(text) :
        /\ Type(InsertAt(text, n + 1, [anchor |-> NoOne, kind |-> l.kind, name |-> l.name, depth |-> d]))
        /\ inserted' = inserted + 1

(* The whole text, with no version the server would look at.                 *)
Send ==
    /\ due
    /\ due' = FALSE
    /\ toServer' = Append(toServer, [what |-> "text", text |-> text, base |-> base])
    /\ UNCHANGED <<model, snapshot, open, job, toEditor, text, base, shown, canvas, counts, ghosts>>

(* workspace/applyEdit replaces the text: a change like any other.           *)
Pushed ==
    /\ toEditor # << >>
    /\ text' = Head(toEditor) /\ base' = Head(toEditor) /\ due' = TRUE
    /\ toEditor' = Tail(toEditor)
    /\ UNCHANGED <<model, snapshot, open, job, toServer, shown, canvas, counts, ghosts>>

----------------------------------------------------------------------------
(* The language server.                                                      *)

Busy == {h \in Handler : job[h] # Idle}
Free(h) == h \notin Busy /\ h = CHOOSE g \in Handler : g \notin Busy   \* no matter which
Goto(h, j) == job' = [job EXCEPT ![h] = j]

(* The canvas has renamed an element and the server has not heard of it.     *)
Renaming == canvas # Idle \/ \E n \in DOMAIN toServer : toServer[n].what = "renamed"

(* didChange: parse, compare, and stop at an error or at nothing to do.      *)
HandleText(h) ==
    LET m   == Head(toServer)
        bad == m.text = Unparsable \/ HasErrors(snapshot, m.text)
        ops == IF bad THEN << >> ELSE DiffOps(snapshot, m.text)
    IN  /\ toServer # << >> /\ m.what = "text" /\ Free(h)
        /\ toServer' = Tail(toServer)
        /\ IF ops = << >>
           THEN shown' = bad /\ UNCHANGED job
           ELSE Goto(h, [pc |-> "check", ops |-> ops, text |-> m.text, base |-> m.base, read |-> snapshot])
                /\ UNCHANGED shown
        /\ crossed' = (crossed \/ Busy # {} \/ m.base # PrintTree(snapshot) \/ Renaming)
        /\ UNCHANGED <<model, snapshot, open, toEditor, text, base, due, canvas, counts, raced, unrecorded, unread, stale>>

(* Fault: the text is not pushed. *)
FaultNotPushed(h) ==
    LET m == Head(toServer)
    IN  /\ toServer # << >> /\ m.what = "renamed" /\ Free(h)
        /\ toServer' = Tail(toServer)
        /\ snapshot' = SetName(snapshot, m.id, m.name)
        /\ crossed' = (crossed \/ Busy # {})
        /\ UNCHANGED <<model, open, job, toEditor, editor, canvas, counts, raced, unrecorded, unread, stale>>

(* axioma/elementChanged: the snapshot takes the name.                       *)
HandleRenamed(h) ==
    LET m == Head(toServer)
        s == SetName(snapshot, m.id, m.name)
    IN  /\ toServer # << >> /\ m.what = "renamed" /\ Free(h)
        /\ toServer' = Tail(toServer)
        /\ snapshot' = s
        /\ toEditor' = IF open THEN Append(toEditor, PrintTree(s)) ELSE toEditor
        /\ crossed' = (crossed \/ Busy # {})
        /\ UNCHANGED <<model, open, job, editor, canvas, counts, raced, unrecorded, unread, stale>>

Recording == canvas.pc = "record" \/ \E h \in Handler : job[h].pc = "record"

(* Fault: a refused edit is tried again. *)
FaultTriedAgain(h) ==
    /\ job[h].pc = "check"
    /\ Accepts(graph, job[h].ops)
    /\ Goto(h, [pc |-> "write", ops |-> job[h].ops, seen |-> graph]) /\ UNCHANGED shown
    /\ UNCHANGED <<model, snapshot, open, toServer, toEditor, text, base, due, canvas, counts, ghosts>>

Check(h) ==
    /\ job[h].pc = "check"
    /\ IF Accepts(graph, job[h].ops)
       THEN Goto(h, [pc |-> "write", ops |-> job[h].ops, seen |-> graph]) /\ UNCHANGED shown
       ELSE Goto(h, Idle) /\ shown' = TRUE
    /\ UNCHANGED <<model, snapshot, open, toServer, toEditor, text, base, due, canvas, counts, ghosts>>

Write(h) ==
    LET ops == job[h].ops
        ids == RealIds(ops)
    IN  /\ job[h].pc = "write" /\ Len(Created(ops)) <= Len(Unused) /\ Len(commits) < MaxCommits
        /\ graph' = Written(graph, ops, ids)
        /\ used' = used \cup Range(ids)
        /\ Goto(h, [pc |-> "record", ops |-> RealOps(ops, ids)])
        /\ raced' = (raced \/ Recording \/ graph # job[h].seen)
        /\ crossed' = (crossed \/ Renaming)
        /\ UNCHANGED <<commits, snapshot, open, toServer, toEditor, editor, canvas, counts,
                       unrecorded, unread, stale>>

Record(h) ==
    /\ job[h].pc = "record"
    /\ commits' = Append(commits, [do |-> "text", ops |-> job[h].ops])
    /\ Goto(h, [pc |-> "answer"])
    /\ UNCHANGED <<graph, used, snapshot, open, toServer, toEditor, editor, canvas, counts, ghosts>>

(* Fault: the model is not read again. *)
FaultNoRefresh(h) ==
    /\ job[h].pc = "answer"
    /\ shown' = FALSE
    /\ Goto(h, Idle)
    /\ UNCHANGED <<model, snapshot, open, toServer, toEditor, text, base, due, canvas, counts, ghosts>>

Answer(h) ==
    /\ job[h].pc = "answer"
    /\ shown' = FALSE
    /\ Goto(h, [pc |-> "elements"])
    /\ UNCHANGED <<model, snapshot, open, toServer, toEditor, text, base, due, canvas, counts, ghosts>>

(* What texts have made.                                                     *)
Made == used \ DOMAIN First.elements

(* The request fails, before its write or between that and its commit, or    *)
(* the answer is lost: to the server it is all the same.                     *)
Lose(h) ==
    /\ job[h].pc \in {"check", "write", "record", "answer"} /\ Event
    /\ shown' = TRUE
    /\ Goto(h, Idle)
    /\ lost' = lost + 1
    /\ unrecorded' = (unrecorded \/ job[h].pc = "record")
    /\ unread' = (unread \/ ~(Made \subseteq DOMAIN snapshot.elements))
    /\ stale' = (stale \/ job[h].pc \in {"record", "answer"})
    /\ UNCHANGED <<model, snapshot, open, toServer, toEditor, text, base, due, canvas,
                   typed, inserted, renamed, others, crossed, raced>>

(* refresh_snapshot; what cannot be read is read as empty.                   *)
ReadElements(h) ==
    /\ job[h].pc = "elements"
    /\ \/ Goto(h, [pc |-> "contains", elements |-> graph.elements]) /\ UNCHANGED <<lost, unread, stale>>
       \/ /\ Event /\ lost' = lost + 1 /\ stale' = TRUE /\ unread' = (unread \/ Made # {})
          /\ Goto(h, [pc |-> "contains", elements |-> << >>])
    /\ UNCHANGED <<model, snapshot, open, toServer, toEditor, editor, canvas,
                   typed, inserted, renamed, others, crossed, raced, unrecorded>>

ReadContains(h) ==
    LET j == job[h]
        Got(edges) == [pc |-> "install", elements |-> j.elements, edges |-> edges]
    IN  /\ j.pc = "contains"
        /\ \/ Goto(h, Got(ContainsOf(graph))) /\ UNCHANGED <<lost, stale>>
           \/ Event /\ lost' = lost + 1 /\ stale' = TRUE /\ Goto(h, Got({}))
        /\ UNCHANGED <<model, snapshot, open, toServer, toEditor, editor, canvas,
                       typed, inserted, renamed, others, crossed, raced, unrecorded, unread>>

Install(h) ==
    LET s == [Empty EXCEPT !.elements = job[h].elements, !.edges = job[h].edges]
    IN  /\ job[h].pc = "install"
        /\ snapshot' = s /\ open' = TRUE
        /\ toEditor' = Append(toEditor, PrintTree(s))
        /\ Goto(h, Idle)
        /\ stale' = (stale /\ ~(s.elements = graph.elements /\ s.edges = ContainsOf(graph) /\ ~Renaming))
        /\ UNCHANGED <<model, toServer, editor, canvas, counts, crossed, raced, unrecorded, unread>>

----------------------------------------------------------------------------
(* The canvas of the same page renames an element: PATCH, then tell the      *)
(* language server.                                                          *)
CanvasWrite ==
    /\ canvas = Idle /\ Event
    /\ \E i \in DOMAIN graph.elements, m \in Name \ {Blank} :
          /\ m # graph.elements[i].name
          /\ graph' = SetName(graph, i, m)
          /\ canvas' = [pc |-> "record", id |-> i, name |-> m]
    /\ renamed' = renamed + 1
    /\ raced' = (raced \/ Recording)
    /\ UNCHANGED <<commits, used, snapshot, open, job, toServer, toEditor, editor,
                   typed, inserted, others, lost, crossed, unrecorded, unread, stale>>

CanvasRecord ==
    /\ canvas.pc = "record"
    /\ commits' = Append(commits, [do |-> "renamed", id |-> canvas.id, to |-> canvas.name])
    /\ canvas' = [canvas EXCEPT !.pc = "notify"]
    /\ UNCHANGED <<graph, used, snapshot, open, job, toServer, toEditor, editor, counts, ghosts>>

CanvasNotify ==
    /\ canvas.pc = "notify"
    /\ toServer' = Append(toServer, [what |-> "renamed", id |-> canvas.id, name |-> canvas.name])
    /\ canvas' = Idle
    /\ UNCHANGED <<model, snapshot, open, job, toEditor, editor, counts, ghosts>>

(* The page reports a PATCH that fails, written or refused, and tells the    *)
(* server of the rename all the same; only if no answer comes does it not.   *)
CanvasFails ==
    /\ Event /\ lost' = lost + 1
    /\ \/ /\ canvas.pc = "record" /\ unrecorded' = TRUE
          /\ canvas' = [canvas EXCEPT !.pc = "notify"]
          /\ UNCHANGED stale
       \/ /\ canvas = Idle /\ stale' = TRUE
          /\ \E i \in used, m \in Name \ {Blank} : canvas' = [pc |-> "notify", id |-> i, name |-> m]
          /\ UNCHANGED unrecorded
       \/ /\ canvas # Idle /\ canvas' = Idle /\ stale' = TRUE
          /\ unrecorded' = (unrecorded \/ canvas.pc = "record")
    /\ UNCHANGED <<model, snapshot, open, job, toServer, toEditor, editor,
                   typed, inserted, renamed, others, crossed, raced, unread>>

(* Another client renames or deletes an element; its own races are           *)
(* Versioning's.                                                             *)
Other ==
    /\ Event
    /\ \E i \in DOMAIN graph.elements :
          \/ \E m \in Name \ {Blank} :
                /\ m # graph.elements[i].name
                /\ graph' = SetName(graph, i, m)
                /\ commits' = Append(commits, [do |-> "renamed", id |-> i, to |-> m])
                /\ UNCHANGED unread
          \/ /\ graph' = Removed(graph, i)
             /\ commits' = Append(commits, [do |-> "deleted", id |-> i])
             /\ unread' = (unread \/ i \in Made)
    /\ others' = others + 1
    /\ raced' = (raced \/ Recording) /\ stale' = TRUE
    /\ UNCHANGED <<used, snapshot, open, job, toServer, toEditor, editor, canvas,
                   typed, inserted, renamed, lost, crossed, unrecorded>>

Handle(h) ==
    \/ HandleText(h) \/ HandleRenamed(h) \/ Check(h) \/ Write(h) \/ Record(h) \/ Answer(h)
    \/ ReadElements(h) \/ ReadContains(h) \/ Install(h)
Typing == Retitle \/ Rekind \/ Indent \/ Cut \/ Copy \/ Spoil \/ Insert

Next ==
    \/ Typing \/ Send \/ Pushed
    \/ \E h \in Handler : Handle(h) \/ Lose(h)
    \/ CanvasWrite \/ CanvasRecord \/ CanvasNotify \/ CanvasFails \/ Other

Spec == Init /\ [][Next]_vars /\ WF_vars(Send) /\ WF_vars(Pushed)
             /\ WF_vars(CanvasRecord \/ CanvasNotify) /\ \A h \in Handler : WF_vars(Handle(h))

----------------------------------------------------------------------------
Quiet ==
    /\ Busy = {} /\ toServer = << >> /\ toEditor = << >>
    /\ ~due /\ canvas = Idle

(* A commit made of a text edit replays to what the edit wrote: the chain    *)
(* gives the live model back, unless a write fell between another's check,   *)
(* write and commit, or a request failed after its write and has no commit.  *)
ReplayIsLive ==
    (~raced /\ ~unrecorded /\ ~Recording) =>
        LET r == Replay(First, commits)
        IN  r.elements = graph.elements /\ r.edges = graph.edges

(* The model says what the text says: ops computed of the model as it is are *)
(* never refused, unless for a blank name, and leave the elements of the     *)
(* text and nothing else, named as in the text and where they are in it.     *)
TextIsTaken ==
    \A h \in Handler :
        LET j == job[h]
        IN  (j.pc = "check" /\ j.read.elements = graph.elements /\ j.read.edges = ContainsOf(graph)
                /\ \A n \in DOMAIN j.text : j.text[n].name # Blank) =>
            LET t   == j.text
                ids == RealIds(j.ops)
                g   == Written(graph, j.ops, ids)
            IN  /\ Accepts(graph, j.ops)
                /\ Len(Created(j.ops)) <= Len(Unused) =>
                      /\ DOMAIN g.elements = {Real(ids, RefOf(t, n)) : n \in DOMAIN t}
                      /\ \A n \in DOMAIN t :
                            LET i == Real(ids, RefOf(t, n))
                            IN  /\ g.elements[i].name = t[n].name
                                /\ ParentOf(g, i) = Real(ids, RefOf(t, BlockOf(t, n)))

(* An edit changes only what its author changed, if the server handles it    *)
(* with the snapshot its text was printed from: then it renames and moves no *)
(* other element than those whose line or block differ from the print.  With *)
(* another snapshot it may: OneTransaction has what comes of it.             *)
OthersStand ==
    \A h \in Handler :
        (job[h].pc = "check" /\ job[h].base = PrintTree(job[h].read)) =>
            \A k \in DOMAIN job[h].ops :
                LET op   == job[h].ops[k]
                    At(t) == CHOOSE n \in DOMAIN t : t[n].anchor = op.id
                    t    == job[h].text
                    b    == job[h].base
                IN  CASE op.do = "create"   -> TRUE
                      [] op.do = "rename"   -> b[At(b)].name # t[At(t)].name
                      [] op.do = "reparent" -> RefOf(b, BlockOf(b, At(b))) # RefOf(t, BlockOf(t, At(t)))

(* A line typed once makes one element, unless texts cross, or the server    *)
(* does not read the element a line has made: the answer is lost, the        *)
(* elements cannot be read, or another client deletes it.  What else fails,  *)
(* is lost or is written by others makes no second one.                      *)
CreatedOnce == (~crossed /\ ~unread) => Cardinality(Made) <= inserted

(* At rest, if no diagnostics are shown and texts never crossed, the text    *)
(* says what the model is; but not while the server has missed something,    *)
(* and it has until it next reads the model whole: a write of another        *)
(* client, one whose answer was lost, a rename it was not told of, a refused *)
(* one it was told of, or what it could not read.                            *)
QuietIsInSync ==
    (Quiet /\ open /\ ~crossed /\ ~stale /\ ~shown) =>
        ~HasErrors(graph, text) /\ DiffOps(graph, text) = << >>

(* Editor and server come to rest, unless texts cross: then each push may    *)
(* undo the other, is sent back, and is undone in turn.                      *)
SettlesUnlessCrossed == <>crossed \/ <>[]Quiet

(* "backend records exactly one transaction" for a rename on the canvas: if  *)
(* nothing is typed, every commit is a rename of the canvas.                 *)
OneTransaction == (typed = 0 /\ others = 0) => Len(commits) <= renamed
=============================================================================
