------------------------- MODULE TextSyncInvariants -------------------------
(***************************************************************************)
(* What the proofs about TextSync say of its states and of what its        *)
(* operators compute: the states a fold goes through, how the lines of a   *)
(* print nest, which line each op of a diff is of, the types, and the      *)
(* inductive invariants.  The facts themselves are in TextSyncProofs.      *)
(***************************************************************************)
EXTENDS TextSync, Diffs

(* How many of S come before i. *)
Rank(S, i) == Cardinality({j \in S : j < i})

(* f joins the first sequences of ss: f[i] is the first i of them in a row. *)
Joins(ss, f, n) == f = [i \in 1..n |-> IF i = 1 THEN ss[i] ELSE f[i - 1] \o ss[i]]

(* Where the items of a flattened list come from: w gives the list and the   *)
(* place in it, in order, and each item of each list is there.               *)
Places(ss, f, n, w) ==
    /\ w \in [DOMAIN f -> Nat \X Nat]
    /\ \A k \in DOMAIN f : /\ w[k][1] \in 1..n /\ w[k][2] \in DOMAIN ss[w[k][1]]
                           /\ f[k] = ss[w[k][1]][w[k][2]]
    /\ \A k, l \in DOMAIN f :
          k < l => w[k][1] < w[l][1] \/ (w[k][1] = w[l][1] /\ w[k][2] < w[l][2])
    /\ \A m \in 1..n : \A j \in DOMAIN ss[m] : \E k \in DOMAIN f : w[k] = <<m, j>>

-----------------------------------------------------------------------------
(* Folds: what each goes through, item by item.                              *)
GraphOpFold(b, q) == FoldLeft(ApplyGraphOp, b, q)

GraphOpRun(f, b, q, c) ==
    /\ f[0] = b
    /\ \A k \in 1..c : f[k] = ApplyGraphOp(f[k - 1], q[k])
    /\ GraphOpFold(b, q) = f[c]

WriteFold(b, q) == FoldLeft(WriteOp, b, q)

WriteRun(f, b, q, c) ==
    /\ f[0] = b
    /\ \A k \in 1..c : f[k] = WriteOp(f[k - 1], q[k])
    /\ WriteFold(b, q) = f[c]

CheckFold(b, q) == FoldLeft(CheckOp, b, q)

CheckRun(f, b, q, c) ==
    /\ f[0] = b
    /\ \A k \in 1..c : f[k] = CheckOp(f[k - 1], q[k])
    /\ CheckFold(b, q) = f[c]

DiffFold(b, q) == FoldLeft(ApplyDiff, b, q)

DiffRun(f, b, q, c) ==
    /\ f[0] = b
    /\ \A k \in 1..c : f[k] = ApplyDiff(f[k - 1], q[k])
    /\ DiffFold(b, q) = f[c]

-----------------------------------------------------------------------------
(* The types of a model's parts. *)
Origin     == {"Human"} \cup {First.elements[i].origin : i \in DOMAIN First.elements}
EdgeKind   == {"Contains"} \cup {e.kind : e \in First.edges}
ElementRec == [kind : Kind, name : Name, active : BOOLEAN, origin : Origin]

EdgeRec    == [source : Id, target : Id, kind : EdgeKind]

IsModel(s) ==
    /\ Snap(s)
    /\ DOMAIN s.elements \subseteq Id
    /\ s.elements \in [DOMAIN s.elements -> ElementRec]
    /\ s.edges \subseteq EdgeRec

(* Two models but for their bodies. *)
Same(r, s) == r.elements = s.elements /\ r.edges = s.edges

(* No element has two parents. *)
OneParent(s) == \A d, e \in ContainsOf(s) : d.target = e.target => d = e

(* A model whose edges have their ends in it, and no element two parents. *)
Whole(s) ==
    /\ IsModel(s) /\ OneParent(s)
    /\ \A e \in s.edges : e.source \in DOMAIN s.elements /\ e.target \in DOMAIN s.elements

(* The ops of a text edit. *)
IsRename(op)   == op = [do |-> "rename", id |-> op.id, name |-> op.name]

IsCreate(op)   == op = [do |-> "create", id |-> op.id, kind |-> op.kind, name |-> op.name, parent |-> op.parent]

IsReparent(op) == op = [do |-> "reparent", id |-> op.id, parent |-> op.parent]

Renamed(els, i, m) == IF i \in DOMAIN els THEN [els EXCEPT ![i].name = m] ELSE els

(* The edges an element has when it is moved. *)
MovedEdges(s, i, p) == {e \in s.edges : ~(e.target = i /\ e.kind = "Contains")} \cup ParentEdge(p, i)

(* What an op may be. *)
OpSet ==
    [do : {"rename"}, id : Id, name : Name]
    \cup [do : {"create"}, id : Int, kind : Kind, name : Name, parent : Int]
    \cup [do : {"reparent"}, id : Id, parent : Int]

(* The ops of an edit: each new element has a temporary id of its own. *)
IsOps(ops) ==
    /\ ops \in Seq(OpSet)
    /\ \A k \in DOMAIN ops : ops[k].do = "create" => ops[k].id < 0
    /\ \A k, l \in DOMAIN ops :
          (ops[k].do = "create" /\ ops[l].do = "create" /\ ops[k].id = ops[l].id) => k = l

(* What the check of an accepted edit finds at each op. *)
Allowed(r, op) ==
    LET parent == op.parent \in r.old \cup r.made \cup {NoOne}
    IN  CASE op.do = "rename"   -> op.id \in r.old /\ op.name # Blank
          [] op.do = "create"   -> parent
          [] op.do = "reparent" -> op.id \in r.old /\ parent /\ ~Reaches(r.links, op.id, op.parent)

(* The hierarchy that the check knows after an op it allows. *)
Checked(r, op) ==
    [ok |-> TRUE, old |-> r.old,
     made |-> IF op.do = "create" THEN r.made \cup {op.id} ELSE r.made,
     links |-> IF op.do = "rename" THEN r.links ELSE Moved(r.links, op.id, op.parent)]

IsCheck(r) == r = [ok |-> r.ok, old |-> r.old, made |-> r.made, links |-> r.links]

CheckBase(s) ==
    [ok |-> TRUE, old |-> DOMAIN s.elements, made |-> {},
     links |-> {<<e.source, e.target>> : e \in ContainsOf(s)}]

(* An edit is accepted if and only if each op is allowed in its turn. *)
CheckedRun(r, s, ops, c) ==
    /\ r[0] = CheckBase(s)
    /\ \A k \in 0..c : IsCheck(r[k]) /\ r[k].ok \in BOOLEAN
    /\ \A k \in 1..c : /\ r[k].ok <=> r[k - 1].ok /\ Allowed(r[k - 1], ops[k])
                       /\ r[k].ok => r[k] = Checked(r[k - 1], ops[k])
    /\ Accepts(s, ops) <=> r[c].ok
    /\ r[c].ok => \A k \in 0..c : r[k].ok

(* The temporary ids of the first k ops. *)
MadeBy(ops, k) == {ops[l].id : l \in {l \in 1..k : ops[l].do = "create"}}

(* What the check of an accepted edit went through. *)
AcceptRun(r, s, ops) ==
    /\ r[0] = CheckBase(s)
    /\ \A k \in 0..Len(ops) : /\ r[k].old = DOMAIN s.elements /\ r[k].made = MadeBy(ops, k)
    /\ \A k \in 1..Len(ops) : /\ Allowed(r[k - 1], ops[k])
                              /\ r[k].links = IF ops[k].do = "rename" THEN r[k - 1].links
                                              ELSE Moved(r[k - 1].links, ops[k].id, ops[k].parent)

LineRec == [anchor : Id \cup {NoOne}, kind : Kind, name : Name, depth : Nat]

Linked(s, p, i) == \E e \in ContainsOf(s) : e.source = p /\ e.target = i

(* What the line of an element is in: the last line above that is not as     *)
(* deep, one step less deep, and of its parent.                              *)
InBlock(s, q, n) ==
    \E m \in 1..(n - 1) : /\ q[m].depth + 1 = q[n].depth
                          /\ \A k \in (m + 1)..(n - 1) : q[k].depth >= q[n].depth
                          /\ Linked(s, q[m].anchor, q[n].anchor)

(* A part of a print, at depth d: the elements of P, each above those in it. *)
Nested(q, d, s, P) ==
    /\ q \in Seq(LineRec)
    /\ \A n \in DOMAIN q :
          /\ q[n].anchor \in DOMAIN s.elements
          /\ q[n].kind = s.elements[q[n].anchor].kind /\ q[n].name = s.elements[q[n].anchor].name
          /\ q[n].depth >= d
          /\ q[n].depth = d => q[n].anchor \in P
          /\ q[n].depth # d => InBlock(s, q, n)

(* The prints of the members of a set, by id. *)
EachOf(S, print) ==
    LET ids == SortedIds(S)
    IN  FlattenSeq([k \in DOMAIN ids |-> print[ids[k]]])

(* The print of each element that some levels are left under. *)
LevelOf(s, left, next) ==
    [i \in DOMAIN s.elements |->
        <<Line(i, s, Cardinality(DOMAIN s.elements) - left)>>
            \o (IF left = 0 THEN << >> ELSE EachOf(ChildrenOf(s, i), next))]

BelowIs(f, s, c) == f = [left \in 0..c |-> LevelOf(s, left, IF left = 0 THEN << >> ELSE f[left - 1])]

(* The op that makes, names or moves the element of line n. *)
Makes(op, t, n) ==
    /\ t[n].anchor = NoOne
    /\ op = [do |-> "create", id |-> RefOf(t, n), kind |-> t[n].kind, name |-> t[n].name,
             parent |-> RefOf(t, BlockOf(t, n))]

Names(op, s, t, n) ==
    /\ t[n].anchor # NoOne /\ s.elements[t[n].anchor].name # t[n].name
    /\ op = [do |-> "rename", id |-> t[n].anchor, name |-> t[n].name]

Moves(op, s, t, n) ==
    /\ t[n].anchor # NoOne /\ ParentOf(s, t[n].anchor) # RefOf(t, BlockOf(t, n))
    /\ op = [do |-> "reparent", id |-> t[n].anchor, parent |-> RefOf(t, BlockOf(t, n))]

(* The ops of one line. *)
LineOps(q, s, t, n) ==
    /\ q \in Seq(OpSet)
    /\ \A j \in DOMAIN q : Makes(q[j], t, n) \/ Names(q[j], s, t, n) \/ Moves(q[j], s, t, n)
    /\ \A j, l \in DOMAIN q : j < l => q[j].do = "rename" /\ q[l].do = "reparent"
    /\ t[n].anchor = NoOne => \E j \in DOMAIN q : Makes(q[j], t, n)
    /\ (t[n].anchor # NoOne /\ s.elements[t[n].anchor].name # t[n].name) =>
          \E j \in DOMAIN q : Names(q[j], s, t, n)
    /\ (t[n].anchor # NoOne /\ ParentOf(s, t[n].anchor) # RefOf(t, BlockOf(t, n))) =>
          \E j \in DOMAIN q : Moves(q[j], s, t, n)

(* The line each op of an edit is of: in the order of the lines, a line's    *)
(* name before its place.                                                    *)
OpsFrom(w, s, t, ops) ==
    /\ \A k \in DOMAIN ops :
          /\ w[k] \in DOMAIN t
          /\ Makes(ops[k], t, w[k]) \/ Names(ops[k], s, t, w[k]) \/ Moves(ops[k], s, t, w[k])
    /\ \A k, l \in DOMAIN ops :
          k < l => w[k] < w[l] \/ (w[k] = w[l] /\ ops[k].do = "rename" /\ ops[l].do = "reparent")
    /\ \A n \in DOMAIN t :
          /\ t[n].anchor = NoOne => \E k \in DOMAIN ops : w[k] = n /\ Makes(ops[k], t, n)
          /\ (t[n].anchor # NoOne /\ s.elements[t[n].anchor].name # t[n].name) =>
                \E k \in DOMAIN ops : w[k] = n /\ Names(ops[k], s, t, n)
          /\ (t[n].anchor # NoOne /\ ParentOf(s, t[n].anchor) # RefOf(t, BlockOf(t, n))) =>
                \E k \in DOMAIN ops : w[k] = n /\ Moves(ops[k], s, t, n)

Texts   == Seq(LineRec) \cup {Unparsable}

-----------------------------------------------------------------------------
(* The types of the variables.                                               *)
Message == [what : {"text"}, text : Texts, base : Seq(LineRec)]
           \cup [what : {"renamed"}, id : Id, name : Name]

Entry   == [do : {"text"}, ops : Seq(OpSet)]
           \cup [do : {"renamed"}, id : Id, to : Name]
           \cup [do : {"deleted"}, id : Id]

IsElements(x) == DOMAIN x \subseteq Id /\ x \in [DOMAIN x -> ElementRec]

Read(els, E)  == [elements |-> els, edges |-> E, bodies |-> << >>]

JobOK(j) ==
    \/ j = Idle
    \/ /\ j = [pc |-> "check", ops |-> j.ops, text |-> j.text, base |-> j.base, read |-> j.read]
       /\ j.ops = DiffOps(j.read, j.text) /\ ~HasErrors(j.read, j.text)
       /\ IsModel(j.read) /\ OneParent(j.read) /\ j.text \in Seq(LineRec) /\ j.base \in Seq(LineRec)
    \/ /\ j = [pc |-> "write", ops |-> j.ops, seen |-> j.seen]
       /\ IsOps(j.ops) /\ Accepts(j.seen, j.ops)
    \/ j = [pc |-> "record", ops |-> j.ops] /\ j.ops \in Seq(OpSet)
    \/ j = [pc |-> "answer"]
    \/ j = [pc |-> "elements"]
    \/ j = [pc |-> "contains", elements |-> j.elements] /\ IsElements(j.elements)
    \/ /\ j = [pc |-> "install", elements |-> j.elements, edges |-> j.edges]
       /\ IsModel(Read(j.elements, j.edges)) /\ OneParent(Read(j.elements, j.edges))

TGraph  == Whole(graph) /\ DOMAIN graph.elements \subseteq used /\ used \subseteq Id

TCommit == commits \in Seq(Entry)

TSnap   == IsModel(snapshot) /\ OneParent(snapshot)

TJobs   == job = [h \in Handler |-> job[h]] /\ \A h \in Handler : JobOK(job[h])

TServer == toServer \in Seq(Message)

TEditor == toEditor \in Seq(Seq(LineRec))

TText   == text \in Texts /\ base \in Seq(LineRec)

TCanvas == canvas \in {Idle} \cup [pc : {"record", "notify"}, id : Id, name : Name]

TFlags  == open \in BOOLEAN /\ due \in BOOLEAN /\ shown \in BOOLEAN
           /\ crossed \in BOOLEAN /\ raced \in BOOLEAN
           /\ unrecorded \in BOOLEAN /\ unread \in BOOLEAN /\ stale \in BOOLEAN

TCounts == typed \in Nat /\ inserted \in Nat /\ renamed \in Nat /\ others \in Nat /\ lost \in Nat

TypeOK == /\ TGraph /\ TCommit /\ TSnap /\ TJobs /\ TServer /\ TEditor /\ TText /\ TCanvas /\ TFlags /\ TCounts

Replayed == Replay(First, commits)

-----------------------------------------------------------------------------
(* A commit is missing, or not in the order of the writes. *)
Apart == raced \/ unrecorded

(* What the replay of the commits gives, and what it lacks while a write is  *)
(* not recorded.                                                             *)
ReplayInv ==
    /\ Snap(Replayed)
    /\ ~Apart =>
          /\ ~Recording => Same(Replayed, graph)
          /\ canvas.pc = "record" =>
                /\ \A h \in Handler : job[h].pc # "record"
                /\ Same(SetName(Replayed, canvas.id, canvas.name), graph)
          /\ \A h \in Handler :
                job[h].pc = "record" =>
                   /\ canvas.pc # "record"
                   /\ \A g \in Handler : job[g].pc = "record" => g = h
                   /\ Same(GraphOpFold(Replayed, job[h].ops), graph)

(* Where the lines of an edited text u come from in t: all but x, of which   *)
(* only the anchor may.                                                      *)
EditFrom(f, t, u, x) ==
    /\ \A n \in DOMAIN u \ {x} : f[n] \in DOMAIN t /\ u[n].anchor = t[f[n]].anchor
    /\ \A m, n \in DOMAIN u \ {x} : f[m] = f[n] => m = n
    /\ x \in DOMAIN u => u[x].anchor \in {NoOne} \cup Anchors(t)

(* The lines that are new.                                                   *)
NewIn(t) == {n \in DOMAIN t : t[n].anchor = NoOne}

(* A text that was edited has the lines it had, or fewer, but for one.       *)
Edited(t, u, was, is) ==
    \E f, x : EditFrom(f, t, u, x) /\ is = (IF x \in NewIn(u) THEN was + 1 ELSE was)

(* A text has no anchor that its base has not: in the editor, under way, and *)
(* when it is checked.                                                       *)
AnchorInv ==
    /\ Anchors(text) \subseteq Anchors(base)
    /\ \A n \in DOMAIN toServer :
          toServer[n].what = "text" => Anchors(toServer[n].text) \subseteq Anchors(toServer[n].base)
    /\ \A h \in Handler :
          job[h].pc = "check" => Anchors(job[h].text) \subseteq Anchors(job[h].base)

(* A rename of i on the canvas that the server has not heard of.             *)
Awaited(i, c, q) ==
    \/ c # Idle /\ c.id = i
    \/ \E n \in DOMAIN q : q[n].what = "renamed" /\ q[n].id = i

(* The last rename the server will hear of gives the name the model has.     *)
Latest(c, q, g) ==
    /\ c # Idle => c.id \in DOMAIN g.elements /\ g.elements[c.id].name = c.name
    /\ \A n \in DOMAIN q :
          q[n].what = "renamed" =>
             \/ c # Idle /\ c.id = q[n].id
             \/ \E m \in DOMAIN q : m > n /\ q[m].what = "renamed" /\ q[m].id = q[n].id
             \/ g.elements[q[n].id].name = q[n].name

(* What was read of the model g is it, but for the names still to be heard.  *)
InStep(els, g, c, q) ==
    /\ DOMAIN els = DOMAIN g.elements
    /\ \A i \in DOMAIN els : /\ els[i].kind = g.elements[i].kind
                             /\ Awaited(i, c, q) \/ els[i].name = g.elements[i].name

InSync(s, g, c, q) == InStep(s.elements, g, c, q) /\ s.edges = ContainsOf(g)

(* One handler runs at a time, unless texts cross.                           *)
Solo == \A g, h \in Handler : (job[g] # Idle /\ job[h] # Idle) => g = h

Clear == ~crossed /\ ~stale

(* The names to be heard are the model's.                                    *)
NameInv == Latest(canvas, toServer, graph)

(* What a handler at each of its steps goes by.                              *)
Source(j, s, g, c, q) ==
    /\ j.pc \in {"check", "write"} => InSync(s, g, c, q)
    /\ j.pc = "check" => DOMAIN j.read.elements = DOMAIN g.elements
    /\ j.pc = "contains" => InStep(j.elements, g, c, q)
    /\ j.pc = "install" => InSync(Read(j.elements, j.edges), g, c, q)

(* The snapshot is in step with the model unless the edit is written and the *)
(* model not read again.                                                     *)
SourceInv ==
    /\ (Handler # {} /\ \A h \in Handler : job[h] = Idle) => InSync(snapshot, graph, canvas, toServer)
    /\ \A h \in Handler : Source(job[h], snapshot, graph, canvas, toServer)

TextIn(q)      == \E n \in DOMAIN q : q[n].what = "text"

LastText(q, t) ==
    \A n \in DOMAIN q :
        (q[n].what = "text" /\ \A m \in DOMAIN q : m > n => q[m].what # "text") => q[n].text = t

Taken(s, t)    == ~HasErrors(s, t) /\ DiffOps(s, t) = << >>

(* The text is under way to a handler, or with one, or refused, or what the  *)
(* server reads of the model; what is under way last is the text.            *)
AskInv ==
    /\ open => Handler # {}
    /\ open => \/ due \/ toEditor # << >> \/ TextIn(toServer) \/ shown
               \/ \E h \in Handler : job[h] # Idle
               \/ Taken(snapshot, text)
    /\ ~due => LastText(toServer, text)

Old == DOMAIN First.elements

(* The elements that a text's print has beyond the first model's, and the    *)
(* lines the text has that are of none.                                      *)
Count(t, b)  == Cardinality(Anchors(b) \ Old) + Cardinality(NewIn(t))

Creates(ops) == {k \in DOMAIN ops : ops[k].do = "create"}

(* The server knows of nothing that never was: every element it has read, or *)
(* is reading, there has been.                                               *)
KnownInv ==
    /\ DOMAIN snapshot.elements \subseteq used
    /\ \A h \in Handler :
          job[h].pc \in {"contains", "install"} => DOMAIN job[h].elements \subseteq used

(* What texts have made is where a handler at each of its steps looks for it.*)
Heard == ~crossed /\ ~unread

MadeIn(j, s, made) ==
    /\ j.pc \in {"check", "write"} => made \subseteq DOMAIN s.elements
    /\ j.pc = "check" => made \subseteq DOMAIN j.read.elements
    /\ j.pc \in {"contains", "install"} => made \subseteq DOMAIN j.elements

MadeInv ==
    /\ Made \subseteq DOMAIN graph.elements
    /\ (\A h \in Handler : job[h] = Idle) => Handler = {} \/ Made \subseteq DOMAIN snapshot.elements
    /\ \A h \in Handler : MadeIn(job[h], snapshot, Made)

(* What the check and the write of a text may still create.                  *)
Costs(j, u, k) ==
    /\ j.pc = "check" => Count(j.text, j.base) <= k
    /\ j.pc = "write" => Cardinality(u \ Old) + Cardinality(Creates(j.ops)) <= k

(* Nowhere is there more that is new than was typed.                         *)
CountInv ==
    /\ Cardinality(used \ Old) <= inserted
    /\ text # Unparsable => Count(text, base) <= inserted
    /\ \A n \in DOMAIN toServer :
          (toServer[n].what = "text" /\ toServer[n].text # Unparsable) =>
              Count(toServer[n].text, toServer[n].base) <= inserted
    /\ \A n \in DOMAIN toEditor : /\ Cardinality(Anchors(toEditor[n]) \ Old) <= inserted
                                  /\ NewIn(toEditor[n]) = {}
    /\ \A h \in Handler : Costs(job[h], used, inserted)

-----------------------------------------------------------------------------
(* What an accepted text makes of the model, op by op.                       *)
WithinIs(f, links, from, c) ==
    f = [n \in 0..c |-> IF n = 0 THEN {from} ELSE f[n - 1] \cup {l[2] : l \in {l \in links : l[1] \in f[n - 1]}}]

(* What each op of a text does, by the line it is of.                        *)
OpAt(op, t, n) ==
    /\ op.do \in {"create", "rename", "reparent"}
    /\ op.do = "create" <=> t[n].anchor = NoOne
    /\ op.id = RefOf(t, n)
    /\ op.do # "rename" => op.parent = RefOf(t, BlockOf(t, n))
    /\ op.do # "reparent" => op.name = t[n].name

(* After the k-th op nothing is left to do about where line n is.            *)
Placed(w, ops, k, n) == \A l \in DOMAIN ops : (w[l] = n /\ ops[l].do # "rename") => l <= k

(* The hierarchy that the check knows has such a line where the text has it. *)
PlacedIn(links, t, w, ops, k) ==
    /\ IsFiniteSet(links)
    /\ \A l \in links : l[2] # NoOne
    /\ \A n \in DOMAIN t : Placed(w, ops, k, n) =>
          \A l \in links : l[2] = RefOf(t, n) => l[1] = RefOf(t, BlockOf(t, n))

LinkIn(E, x, j) == \E e \in E : e.kind = "Contains" /\ e.source = x /\ e.target = j

(* After the k-th op nothing is left to do about the name of line n.         *)
Named(w, ops, k, n) == \A l \in DOMAIN ops : (w[l] = n /\ ops[l].do # "reparent") => l <= k

(* The model says of such lines what the text says.                          *)
Says(g, ids, t, w, ops, k) ==
    \A n \in DOMAIN t :
        /\ Named(w, ops, k, n) => /\ Real(ids, RefOf(t, n)) \in DOMAIN g.elements
                                  /\ g.elements[Real(ids, RefOf(t, n))].name = t[n].name
        /\ Placed(w, ops, k, n) =>
              \A p : Linked(g, p, Real(ids, RefOf(t, n))) <=>
                        (p = Real(ids, RefOf(t, BlockOf(t, n))) /\ p # NoOne)

(* The ids of a text's lines when the new ones have theirs.                  *)
RealIn(ids, t, s) ==
    /\ \A m, n \in DOMAIN t : Real(ids, RefOf(t, m)) = Real(ids, RefOf(t, n)) => m = n
    /\ \A n \in DOMAIN t : /\ t[n].anchor # NoOne => /\ Real(ids, RefOf(t, n)) = t[n].anchor
                                                     /\ t[n].anchor \in DOMAIN s.elements
                           /\ t[n].anchor = NoOne => /\ RefOf(t, n) \in DOMAIN ids
                                                     /\ Real(ids, RefOf(t, n)) = ids[RefOf(t, n)]
                                                     /\ Real(ids, RefOf(t, n)) \in Id \ used
    /\ Real(ids, NoOne) = NoOne

(* An op with its real ids fits the model that those before it leave.        *)
Fits(q, op, ids, g) ==
    /\ q.do = op.do
    /\ q.do = "rename" => IsRename(q) /\ q.name \in Name /\ q.id \in DOMAIN g.elements
    /\ q.do = "create" => IsCreate(q) /\ q.id \notin DOMAIN g.elements
    /\ q.do = "reparent" => IsReparent(q) /\ q.id \in DOMAIN g.elements
    /\ q.id = Real(ids, op.id)
    /\ q.do # "reparent" => q.name = op.name
    /\ q.do # "rename" => q.parent = Real(ids, op.parent)
    /\ q.do # "rename" => q.parent \in DOMAIN g.elements \cup {NoOne}

-----------------------------------------------------------------------------
(* What the entries of a diff of two snapshots make of the first.            *)
EntriesRun(f, b, S) ==
    /\ f[{}] = b
    /\ \A D \in SUBSET S : D # {} => \E x \in D : f[D] = ApplyDiff(f[D \ {x}], x)
    /\ ApplyEntries(b, S) = f[S]

EntriesFold(b, q) == FoldLeft(ApplyEntries, b, q)

EntriesFoldRun(f, b, q, c) ==
    /\ f[0] = b
    /\ \A k \in 1..c : f[k] = ApplyEntries(f[k - 1], q[k])
    /\ EntriesFold(b, q) = f[c]

(* The entries, each by its own name.                                        *)
RenamedTo(s, i)  == [do |-> "renamed", id |-> i, to |-> s.elements[i].name]

ActiveTo(s, i)   == [do |-> "active", id |-> i, on |-> s.elements[i].active]

OriginTo(s, i)   == [do |-> "origin", id |-> i, to |-> s.elements[i].origin]

CreatedAs(s, i)  == [do |-> "created", id |-> i, kind |-> s.elements[i].kind, name |-> s.elements[i].name]

DeletedIs(i)     == [do |-> "deleted", id |-> i]

RationaleTo(s, i)   == [do |-> "rationale", id |-> i, to |-> s.bodies[i].rationale]

PropertyTo(s, i, k) == [do |-> "property", id |-> i, key |-> k, to |-> s.bodies[i].properties[k]]

LinkedIs(e)      == [do |-> "linked", edge |-> e]

UnlinkedIs(e)    == [do |-> "unlinked", edge |-> e]

(* Of two snapshots, the elements that came, those that went and those both  *)
(* have.                                                                     *)
Came(old, new) == DOMAIN new.elements \ DOMAIN old.elements

Went(old, new) == DOMAIN old.elements \ DOMAIN new.elements

(* What the entries of D make of the elements.                               *)
NameAfter(old, new, D, i) ==
    IF i \in Differ(old, new, "name") /\ RenamedTo(new, i) \in D
    THEN new.elements[i].name ELSE old.elements[i].name

ActiveAfter(old, new, D, i) ==
    IF i \in Differ(old, new, "active") /\ ActiveTo(new, i) \in D
    THEN new.elements[i].active ELSE old.elements[i].active

OriginAfter(old, new, D, i) ==
    IF i \in Differ(old, new, "origin") /\ OriginTo(new, i) \in D
    THEN new.elements[i].origin ELSE old.elements[i].origin

ElementAfter(old, new, D, i) ==
    IF i \in DOMAIN old.elements
    THEN [kind |-> old.elements[i].kind, name |-> NameAfter(old, new, D, i),
          active |-> ActiveAfter(old, new, D, i), origin |-> OriginAfter(old, new, D, i)]
    ELSE Element(new.elements[i].kind, new.elements[i].name)

ThereAfter(old, new, D) ==
    DOMAIN old.elements \cup {i \in Came(old, new) : CreatedAs(new, i) \in D}

ElementsAfter(old, new, D) ==
    [i \in ThereAfter(old, new, D) |-> ElementAfter(old, new, D, i)]

ElementStage(old, new, D) ==
    [elements |-> ElementsAfter(old, new, D), edges |-> old.edges, bodies |-> old.bodies]

(* The elements of two snapshots, as the second has them if it does.         *)
Joined(old, new) ==
    [i \in DOMAIN old.elements \cup DOMAIN new.elements |->
        IF i \in DOMAIN new.elements THEN new.elements[i] ELSE old.elements[i]]

(* What is left when the elements of X go.                                   *)
LeftWithout(s, X) ==
    [elements |-> [i \in DOMAIN s.elements \ X |-> s.elements[i]],
     bodies   |-> [i \in DOMAIN s.bodies \ X |-> s.bodies[i]],
     edges    |-> {e \in s.edges : e.source \notin X /\ e.target \notin X}]

(* What the entries of D make of the bodies.                                 *)
KeysAfter(old, new, D, i) ==
    DOMAIN old.bodies[i].properties \cup {k \in ChangedKeys(old, new, i) : PropertyTo(new, i, k) \in D}

PropertyAfter(old, new, D, i, k) ==
    IF k \in ChangedKeys(old, new, i) /\ PropertyTo(new, i, k) \in D
    THEN new.bodies[i].properties[k] ELSE old.bodies[i].properties[k]

RationaleAfter(old, new, D, i) ==
    IF i \in Reworded(old, new) /\ RationaleTo(new, i) \in D
    THEN new.bodies[i].rationale ELSE old.bodies[i].rationale

BodyAfter(old, new, D, i) ==
    [rationale  |-> RationaleAfter(old, new, D, i),
     properties |-> [k \in KeysAfter(old, new, D, i) |-> PropertyAfter(old, new, D, i, k)]]

BodiesAfter(old, new, D) == [i \in BothBodies(old, new) |-> BodyAfter(old, new, D, i)]

BodyStage(s, old, new, D) ==
    [elements |-> s.elements, edges |-> s.edges, bodies |-> BodiesAfter(old, new, D)]

(* The bodies of the first, but for those of what went.                      *)
BodiesKept(s, old, new) ==
    /\ Snap(s)
    /\ s.bodies = [i \in DOMAIN old.bodies \ Went(old, new) |-> old.bodies[i]]

=============================================================================
