# Axioma platform: formal models

TLA+ models of the Axioma platform's API server (`src/apps/api`, Rust, axum), of its language server
(`src/apps/lsp`), and of the rules and notations they take from `src/packages`, checked with TLC on small
instances, with TLAPS proofs where an argument for every size pays. Line references are to the source tree next to this directory.

## 1. The system

One stateless API process serves HTTP requests on a tokio runtime. Its state lives in two stores, which
know nothing of each other: **Neo4j** (the live model graph: elements and typed edges) and **Postgres**
(element bodies, positions, import jobs, and the `versioning` tables: projects, branches, commits, audit
log, proposals, autonomy levels). A design-space *sidecar* (Python, gRPC), a fUML runtime (Java, gRPC),
an Ollama server and an object store are called out to. A language server and a web client are clients of
the API.

Almost every handler is a sequence of `await`ed store calls. There are no locks, no transactions across
calls (`import_elements_and_edges` and `apply_graph_ops` use one transaction for their *writes* only), no
compare-and-set on `head_commit_id` or on a proposal's status, and no retries. So what makes the system
hard is the same everywhere:

* **interleaving** - every `await` lets another request run: a check is stale when its write happens;
* **partial failure** - a call fails, a token is refused after the write, or the process stops: what has
  been written stays, what has not is never written;
* **two representations** - the live stores are `main`'s state, the commit chain is its history, and
  branches exist as history only.

### Components

| Component | State | Operations | What makes it correct | Modules |
|---|---|---|---|---|
| Versioning store, `record_commit` (`store/versioning.rs`, `main.rs`) | projects, branches (head, fork point), commits (parent, diff), audit rows | create project, record a commit after a live write, fork a branch, edit on a branch, resolve a snapshot | chains stay rooted; success means recorded; a diff is against its parent; history is lost only by a known race | `Versioning` |
| Snapshot diff and replay (`store/versioning.rs` 996-1274) | none | `compute_snapshot_diff`, `apply_diff` | replaying a diff reproduces the snapshot, as far as a diff can say what changed | `Snapshots` |
| Live graph (`store/neo4j.rs`, endpoints in `main.rs`, `traceability.rs`) | nodes by id and kind, edges | create/delete edge, create/delete element, import a batch, apply a text edit | no dangling edge, acyclic containment, one kind per id, legal endpoints, guards of deletions | `Topology` |
| Mode B proposals, autonomy (`mode_b.rs`, `autonomy.rs`) | proposals, autonomy level, audit log, contracts in bodies | propose, accept, reject, set level | each subsystem is merged or filed; a proposal is decided once; what people wrote is kept | `Proposals` |
| Document import (`document_import.rs`, `store/postgres.rs`) | job rows, a detached task, proposals | upload, pipeline stages, propose, accept | reviewers get whole jobs; settled is final; every job settles unless its task is lost; accepted means complete, once | `DocumentImport` |
| Architecture design spaces (`archspace.rs`, `cem-archspace`, `cem-core/archspace.rs`) | handles in a process cache and as rows, spaces in the sidecar's memory, proposed instances | define, decode, evaluate, generate, optimize, propose, accept | a handle means one design space across restarts of either process; what is accepted is materialized; nothing is encoded that is not declared | `Handles`, `Archspace`, `DesignSpace` |
| Bodies, interactions, choices, collections (`store/postgres.rs`, `interactions.rs`, `information.rs`, `archspace.rs`, `collections.rs`) | JSON bodies, message lists, saved queries, Member edges | edit a body, add a message, resolve a choice, freeze a query, delete an element | no lost message; choices agree with their constraints; commits replay to the bodies; a frozen collection is whole | `Bodies` |
| Reference fixtures (`main.rs` 1495-3325, `bin/seed_turbofan_scale.rs`) | a project, half made or whole | seed an empty database, seed a large model | the reference is whole once a server is up; its genesis commit says what was made | `TurbofanRef`, `Seeding` |
| Traceability queries (`traceability.rs`) | a cursor, with the client | bounded breadth-first search, pages | what it returns is reachability within its bounds; pages miss nothing and end | `Traversal` |
| Textual notation (`sysml-textual`) | none | print, parse, diff against a snapshot | a print reads back as itself; an edit of one line says so and no more | `Notation`, `TextDiff` |
| Language server, editor (`apps/lsp`, the web client's text panel) | the server's snapshot, texts under way in both directions, a timer | open, edit, rename on the canvas, apply, refresh | text and model agree when nothing is under way; what others did stands; a line makes one element | `TextSync` |
| Alf subset (`alf-lite`) | none | parse a program | a program is read as its grammar says, or refused | `Alf` |
| Well-formedness (`sysml-core`) | none | endpoint rules, containment, derived existence | what exists is what can be reached; every cycle is named | `Topology`, `Existence` |
| Parametrics (`parametrics.rs`) | none | interpolate a curve, evaluate a model | outputs are the solution of the formulas, in whatever order they are stored | `Parametrics` |
| Mode A, trade studies, export, authentication, layout, fUML runtime | - | - | - | not modelled, see section 7 |

How they interact: every mutation of the live graph or of a body ends in `record_commit`, so `Topology`,
`Proposals`, `DocumentImport`, `Archspace` and `Bodies` each end a handler with a step that stands for what
`Versioning` details (the imports of `import/reqif.rs` and `import/sysml_v2.rs` are the exception: they
record no commit). `accept_proposal` dispatches on a proposal's origin to Mode B, document import or design
spaces. `TextSync` composes the text's diff (`TextDiff`), the live graph, and the replay of its commits
(`Snapshots`). `propose` and `create_import_proposal` create branches that are never committed to.

`PROJECT.json` lists the hazards found while reading, each at the line where it bites, with the property
that watches it.

## 2. Plan

Done, in this order: `Versioning`, `Topology`, `Proposals`, `DocumentImport`, each with proofs; then
`Archspace` with the abstract specification `Handles`; `Bodies`; `Seeding`; `Traversal`; `Snapshots`,
`TextDiff`, `Notation` and `TextSync`; `Alf`, `Existence`, `DesignSpace` and `Parametrics`, which `Queries`
and `Answers` put to small inputs, as `Diffs` puts `Snapshots`; proofs of `Archspace`, with its refinement,
of `Proposals` and of the rest of `DocumentImport`; proofs of `Bodies`, of the rest of `Versioning`, of
`Traversal` and of `TextSync`; proofs of `Seeding`, of the replay of diffs, and of design spaces, curves and
models.

Left, by what it would add:

1. `History`, an abstract append-only log of accepted writes, which `Versioning` implements while no two
   writers overlap.
2. Mode A's suggestions and their acceptance, the parsers of ReqIF and SysML v2, and the translation of Alf
   programs to the runtime's messages.

Runs stay below three minutes.

## 3. The modules

Conventions common to all: a request is a process with a `pc` that names the store call it makes next; one
call is one action; a handler's early return sends it to `refused`, a failing call to `failed`. Operators
named `Fault...` stand beside the definition they corrupt and are used by nothing in the specification: they
are the mutants that show each property can fail. Sets called "a bound" in a CONSTANTS section only restrict
which requests a run contains. *History variables* (`published`, `missed`, `raced`, `crossed`, `stale`,
`steady`, ...) are read by properties only. They record that a check had been overtaken when its write
came: a property that says *unless missed* states what the code guarantees, exactly as far as it does.

### Versioning

State: the rows of `projects`, `branches` (`head`, `fork`) and `commits` (in insertion order; the position
stands for the UUID), the writes the live stores contain, the number of audit rows of each request. A write
is the request that makes it; a snapshot is a set of writes.

Actions follow the calls: `InsertProject`, `InsertMain` (two statements of `create_project`); `WriteLive`
(a mutating endpoint), `ReadMain`, `InsertCommit`, `AdvanceHead`, `RecordAudit` (`record_commit` and
`commit`); `EditBranch`, `ResolveStep` (one level of `resolve_snapshot`), `ReadLive` (the live graph as
base, when `main`'s head is reached), then the same commit; `ForkFromMain`, `ReadForkPoint`,
`ForkFromCommit`, `InsertBranch`; `Fail` at any call, which includes `resolve_actor` refusing the token
after the write. `unrecorded` is a history variable: the live writes that no head had recorded when an edit
found that its branch ends on `main`'s head, or that came before it read the live graph. Abstracted: what a diff entry says (`Snapshots`); the several reads of `build_snapshot`
are one.

### Topology

State: the kinds stored for each id (a node is merged by id *and* kind and no constraint makes ids
unique, so it is a set), the edges, the ids the server has minted, and for each request its payload, what
it read, and the working hierarchy of its batch check. Nine calls are modelled whole: `create_element`;
`create_edge` (source, target with endpoint rules, containment edges, write); `delete_edge` with the guard
of the last Flow edge; `delete_element` with the breach gate; `import_elements_and_edges` (kinds,
hierarchy, one step for each pair, one transaction); `apply_graph_ops` (elements, hierarchy, one step for
each operation with its temp ids, all errors collected, one transaction).

Three node kinds and three edge kinds stand for the enums: one acyclic, one guarded and restricted at both
ends, one restricted at its target. `WouldCycle` is the code's reachability test, written
without paths: `Above(E, c, p)` says that every set that holds `c` and is closed under containment holds `p`.
`missed` records why a write went ahead although what its request had read no longer held (`contains`,
`kind`, `batch`, `ends`, `flow`, `dependent`); `MCTopologyCycle` shows that the first exception is real.

### Proposals

State: which subsystems exist, which have a hazard, the autonomy row, the audit log, `main`'s head as a
number, each subsystem's body split into Mode B's contract and the rest, the origins, the proposals'
status. Actions: `Optimize` (a caller computes a candidate), `ReadLevel`, `ReadMain`, `Assess` (one
subsystem, hazard override before `decide`), `ApplyNext`/`WriteContract`/`MarkOrigin`/`Applied`
(`apply_candidate_to_main`), `RecordCommit`, `CreateBranch`, `CreateProposal`; `GetProposal`, `SetStatus`;
`ReadConfig`, `WriteConfig`, `WriteAudit`; and edits, deletions and hazards by others; `Fail`.

Three groups of calls are one action: the reads of `hazard_override`; `set_origin` with the Satisfy edges
of a subsystem (if the subsystem is gone the edge fails the request, and the contract stays as a row of no
element); the recording of a commit. The branch of the proposals is not modelled.

### DocumentImport

State: job rows (status, suggestions, drafts), the pipeline of each job (`task`), proposals, requirements
with bodies and commits. `Writes` and `After` are the pipeline's script: which status each stage writes and
what follows. `PipelineError` is a failing call at any stage, caught by `run_pipeline`, whose own write may
fail; `Die` is a panic in the extraction library or a client that hangs up before the task is spawned;
`Crash` stops every task and request of the process. Nothing is resumed. A call that fails may have had its
effect, if it is the answer that was lost (`MayHaveWritten`, `RequestError`); `decided` is a history variable,
the requests that wrote their verdict, answered or not.

### Handles and Archspace

`Handles` is what the endpoints promise: a handle is given once and stands for one definition for ever, a
request is answered from the definition of the handle it was asked about, and a fresh handle that comes
with an answer stands for the same definition. It knows no sidecar, no cache and no failure.

`Archspace` is the code: `Fetch` and `Define` (encode the subsystem's content, have the sidecar mint a
handle), `Persist` (row, cache, answer); for each use `Ask`, `Probe` (does the sidecar still have the
handle), `ReadRow`, `Redefine`, `KeepFresh` (`ensure_live_handle`), then the calls of the endpoint's
`Script` in order, each of the sidecar or of the definition; for `propose` `CreateBranch` and `File`; for
acceptance `GetProposal`, `UpsertElement`, `CheckLink` and `Link` (`create_edge` reads its ends and merges later,
which does nothing and reports nothing if an end is gone by then), `Record`, `SetStatus`. `RestartSidecar` empties the
sidecar's memory and `RestartApi` the cache, with every request under way. Contents are edited (`Edit`)
meanwhile, and subsystems and what was materialized deleted with their edges (`Delete`). A definition is a subsystem and the version of its content;
what encoding keeps of a content is `DesignSpace`. `Observed` maps this state to that of `Handles`:
`meaning` is the rows under the handles that clients have been told, `answer` what the calls of a request
that ended were computed from.

### Bodies

A row of `element_bodies` is its messages, the selected option, the resolution state, and the rest. `Flow`
lists each handler's calls, one action each; the actions are shared by the handlers that make the same
call (`Read`, `UpsertBody`, `RecordCommit` ...), and say what each changes. Eleven handlers: create an interaction,
an information element or a fragment, add a message, resolve a selection or a connection choice, edit a
body, drag, save and freeze a query, delete. `raced` holds the rows written from a copy older than
themselves, `missed` the choices whose constraint check was overtaken. The properties say what the handlers
give and no more: choices agree for a constraint between two different elements; commits replay to a body
if they came in the order of its writes (`CommittedInOrder`), which two handlers that write and then record
do not promise, and but for the parts that no commit names (`Unnamed`); and a frozen collection may itself be deleted, with its Member edges.

### TurbofanRef and Seeding

`TurbofanRef` is the fixture as data: for each function of `main.rs` that seeds, the calls it makes, in
order, with the elements, edges and properties they name, and what each adds to the genesis diff. `Seeding`
makes the calls, with the guards of `create_edge` (endpoint rules, containment, missing ends), the merge of
bodies and the silent bulk loaders of the script; a start may stop before some of them, and another start
follows. `stage` is where a start is, `genesis` what each recorded commit says. `Turn` takes calls of two
starts in one order only: they fill different projects. `ServerAssumption` is what the data of a server's
plan must be like for its calls to go through (`Sound`: each edge has its ends and is legal when it is made,
and what a property names is made) and for its commit to tell what they made (`Told`: single calls only, and
a property that was told is told again when it changes); TLC evaluates it on the reference's own plan.

### Traversal

One query for each element and direction, `Incoming` and `Outgoing`, then `Visit` of the neighbours sorted
and cut; `Start` finds the cursor, `Paginate` and `Hydrate` make the page. `Edit` deletes an edge or an element
between any two queries. Ids are positive numbers, which stand for strings and their order; 0 is no cursor. `steady` says that no edit met this traversal, `still` that none met any page.

### Snapshots, TextDiff, Notation and TextSync

`Snapshots` has `SnapshotDiff` and `ApplyDiff` entry by entry; a behaviour of `Diffs` compares one pair of
snapshots and replays the entries. `TextDiff` has the printer and the diff with
an element for a line; `Notation` has the characters: quoting and escaping, the scanner, and the recursive
parser.

`TextSync` puts them to work. The editor's text changes (`Retitle`, `Rekind`, `Indent`, `Cut`, `Copy`,
`Spoil`, `Insert`), is sent after 300 ms of rest (`Send`) and replaced by what the server pushes
(`Pushed`), which starts the timer again. The server handles a text (`HandleText`) or a rename it is told
of (`HandleRenamed`), with two handlers at a time that lose the processor at every await: `Check`, `Write`
and `Record` are the API's side of `apply_ops`, then `ReadElements`, `ReadContains` and `Install` refresh
the snapshot; a read that fails is taken for an empty one, as in the code, and a request may fail before its
write, between its write and its commit, or with its answer lost (`Lose`). The canvas renames (`CanvasWrite`,
`CanvasRecord`, `CanvasNotify`), and its request may fail or be refused, of which the page tells the server
nothing: it reports a refused rename like one that has landed, and a lost one not at all (`CanvasFails`).
Other clients rename and delete (`Other`). Five history variables say what the properties have to except:

* `crossed`: the server handled a text that came from another print than its snapshot's, or handled or wrote one
  before it had heard of a rename on the canvas, or handled anything while another handler ran;
* `raced`: a write fell between the check, the write and the commit of another;
* `unrecorded`: a request failed after its write and before its commit;
* `unread`: an element that a line has made (`Made`) is not in what the server has read, because the answer was lost, the
  elements could not be read, or another client has deleted it;
* `stale`: the server has missed a write or a part of what it read, or was told of a rename that was refused, since
  it last read the model as it is. Unlike the others it is taken back, by the next whole read.

### Alf, Existence, DesignSpace, Parametrics, Queries and Answers

Computations that keep nothing: the recursive-descent parser of `alf-lite` beside its grammar
(`ReadsTheGrammar`), the depth-first search for derived existence beside reachability, a subsystem's
design space beside what it may name, curves and models of formulas beside their solution. Each has its
property as an operator over any input. A behaviour of `Queries` or of `Answers` asks one question, and its
invariants are these properties, so that TLC evaluates them on every input of `MCQueries` and `MCAnswers`; one
run makes one query, asks one question or compares one pair of `MCDiffs`. `Queries` has the computations that
are recursive operators (`Notation`, `Alf`, `Existence`), `Answers` the others (`DesignSpace`,
`Parametrics`), which can be proved about. In `Parametrics` a formula adds what it reads, a number being
whole, so that what is computed shows what was read and when; the arithmetic of the code's expressions and
its rounding are left out.

## 4. Runs

| Run | Instance | Distinct states | What it shows |
|---|---|---|---|
| `versioning` | 5 requests (2 may write, 2 may fork, 2 edit branches, 1 may fail anywhere), main and 2 branch names | 1.2 M (with symmetry) | what the commit chain keeps under every interleaving |
| `topology` | 3 requests with 20 payloads, 4 starting graphs over 3 ids, 2 minted ids | 74 k | the rules of the graph and the guards of deletions |
| `topology_cycle` | 2 requests | - | the claim of `create_edge` that a race refutes |
| `proposals` | 1 proposer, 2 reviewers, 1 level setter, 1 other user, 2 subsystems, 3 levels | 670 k | merged or filed, decided once, nothing of others lost |
| `documents` | 1 document of up to 2 statements, 2 proposals, 2 reviewers, 2 failing calls, 1 crash | 114 k | acceptance, and that jobs settle |
| `archspace` | 1 definer, 1 user, 1 proposer, 1 reviewer that may fail, 2 subsystems, 3 handles, 2 restarts | 650 k | handles are durable; Archspace implements Handles; acceptance is materialized |
| `bodies` | 57 mixes of 4 requests, 2 of which may fail, over 5 elements and what requests create | 920 k | messages, choices, replay of bodies, frozen collections |
| `seeding` | 2 starts of the server with the whole reference, 1 of the script with 7 parts to a subsystem, stopped at any of 7 calls or never | 67 k | the reference and its genesis commit |
| `traversal` | 36 requests on 4 graphs of 4 elements, pages of 1, 1 edit | 63 k | exactness, pages |
| `textsync` | 2 elements, 4 ids, 3 names, 2 handlers, 2 events, 2 commits | 313 k | text and model, in both directions |
| `textsync_echo` | the same, 1 event, 3 commits | - | the claim of one transaction per rename |
| `queries` | 35 k texts, programs, graphs, pairs of snapshots, design spaces, curves and models | 35 k | the notation, the parser and derived existence against their references; diffs replay; design spaces are whole; physics is computed |

Why the bounds suffice. The races are between a read and a write of one request and a write of another;
two racing requests and a third that disturbs both reach each of them, and each property has a mutant that
TLC refutes on the same instance, so the instances do contain the cases. `versioning` has a branch of a
branch with an edit on each. `topology` needs three ids for a cycle closed by two edges and for a Flow loop
in which two deletions meet. In `proposals` the deviation equals the threshold, the boundary of `decide`.
`documents` needs two faults: one to fail a stage and one to fail the write of that failure. It has one
job, for jobs share nothing but the process that crashes. `archspace` needs two restarts: one to make a handle stale and
one between its redefinition and its use; `core` has nothing to encode. `seeding` stops (`StopAt`) at the
first call, inside each part of the plan, and around the commit. `traversal` has a budget (`MaxDepth` 2,
`MaxFanout` 3) that some requests exceed, and a star and a diamond in which fan-out and two ways to an
element meet. `textsync` has two `MaxEvents`, so that any two of typing, renaming, writes of others
and failing calls meet; three would be too many states, and one case needs them: a line typed, its answer lost, and an edit
that creates its element again, which is why `CreatedOnce` excepts `unread` (the theorem needs the exception, the run does not); `MaxCommits` cuts texts that undo each other for ever; `NewLines` has the one line
that may be typed. `MCQueries`, `MCDiffs` and `MCAnswers` list their inputs: names with quotes, backslashes and braces,
every program one token away from six that parse, every sequence of up to four edges on three elements, pairs
of snapshots of two elements, and so on.

Deadlock is not checked: the requests of an instance are finitely many, and a system whose requests have
all been answered stops.

Fairness. `DocumentImport` claims that jobs settle, under weak fairness of each job's pipeline: tokio polls
every task it holds, store calls return or fail, and calls of the model time out after 30 s
(`call_ollama`). `Traversal` claims that pages end, if the client asks for the next page as long as there
is one and each query returns. `TextSync` claims that editor and server come to rest, under weak fairness
of the timer, of the delivery of messages, of the canvas's own request and of each handler. Edits, errors,
lost calls, panics, crashes and requests are fair nowhere. The other modules have safety properties only: a
request there takes finitely many steps and waits for nobody.

## 5. What the runs found

Two runs refute a sentence of the repository, which `PROJECT.json` quotes:

* Two checked containment edges may close a cycle (`topology_cycle`, `AlwaysAcyclic`).
* A rename on the canvas may be undone by the text that was pushed before it, with a second transaction,
  and the two pushes may go on undoing each other (`textsync_echo`, `OneTransaction`).

Other limits of the code are the exceptions that the properties name:

* A change may be live with no commit: the commit comes after the live write, and the token is resolved in
  between (`CompletedIsRecorded` speaks of requests that succeed).
* Of two overlapping writers one commit leaves `main`'s chain (`HistoryLossOnlyByRace`); the branch-edit
  endpoint accepts `main`, whose chain then names a write that is not live (`MissesNothing`); a branch that
  ends on `main`'s head takes the live graph for it, which may hold writes that no commit of `main`'s history
  names, so the old values in its diff can be newer than its parent (`HoldsNothingElse` says which); old
  commits of `main` are replayed once its head has moved (`HeadNeverRevives`).
* An import that lists an id twice gives it two kinds (`batch` in `LegalUnlessMissed`).
* A commit that lands while `propose` assesses is merged over at L4, and a hazard that is added after the
  assessment does not stop the merge; an accept that stops between its write and the status can be
  repeated (`OthersPropertiesKept`, `DecidedOnce`).
* A model's empty `shallText` fails a whole import job.
* An accepted instance is put under the subsystem its client named, which need not be the one that the
  handle encodes, as a comment says (archspace.rs:1197; `AcceptedIsMaterialized` speaks of the former); and if
  the subsystem is deleted while an acceptance is under way, the element may end under none, and the
  proposal is marked accepted all the same (`Placed`).
* The genesis diff does not name every property that the seeding sets (`GenesisReplays` speaks of those it
  names); a start that stops half-way is never completed (`ReferenceIsWhole`).
* The commit of a resolved choice does not name the option, and those of a created interaction or fragment do
  not name what it was created with, so a replay has neither (`Unnamed` in `BodiesAreReplayable`).
* `compute_snapshot_diff` cannot express a new body, a removed property, a changed kind, or a property that is
  new and null; and its entry for a deleted element does not say that edges went too, so an edge that stays
  in the new snapshot is lost in the replay (`Expressible` in `DiffReplays`).
* A text that is handled or written while the server has not heard of a rename on the canvas, two handlers that
  run at once, and a text that is compared with another snapshot than it was printed from, leave text and model
  different at rest, with no diagnostics (`crossed` in `QuietIsInSync`), or undo what others did (`OthersStand` speaks
  of a text that is compared with its own print).
* What the server does not learn, the text does not say: a write of another client, one whose answer was lost, or what
  could not be read, until something makes the server read the model again (`stale` in `QuietIsInSync`).
* The page tells the server of a rename that was refused as if it had landed (page.tsx:1181-1187 says that it has;
  `handleRename` returns when the answer is an error): the text then says a name that the model has not (`stale` too).
* A text edit or a rename whose actor is not resolved, or whose commit fails, is live with no commit, so the
  chain of commits does not give the live model back (`unrecorded` in `ReplayIsLive`).
* A line whose element the server has not read is typed anew in the model by the next edit (`unread` in `CreatedOnce`).
* If the write of a job's AwaitingReview takes effect and its answer is lost, the error handler writes Failed over
  it, although the job may have been proposed by then (`SettledIsFinal` and `ProposedIsReviewed` except it).
* Elements may get blank names through the inspector or an import, which the text then prints and its own
  edits refuse (`Blank` in `TextIsTaken`); an element under two parents is printed twice (`TextDiff`).
* Selection choices that a constraint names are never variables of a design space, so such a constraint is
  not encoded, and is reported (`Encodable` in `DesignSpace`).
* If two formulas produce one symbol, the last in stored order counts (`Declared` in
  `ComputesTheSolution`).

## 6. Proofs

`VersioningProofs` proves for any set of requests, branch names and diff sizes, from `MainAssumption`,
`MayAssumption` and `EntriesAssumption`: `TypeCorrect`, `ChainsAreRooted`, `RecordIsComplete` and action
properties that follow from the same invariant. `ChainRooted` is not
inductive: a commit is inserted with a parent that its request read earlier, so one must know that this
parent was, and still is, a commit of the branch or its fork point. `IInv` adds, for each request, what it
is entitled to assume at its `pc` (`Reading`: the branch it read exists, what it saw was rooted, the commit
it inserted is in its target's chain; `Progress`: how many audit rows it has written) and that names without
a row have no head and no commits (`FreshRows`). One lemma for each action shows that the action preserves
`IInv`; only `InsertCommit`, `AdvanceHead` and `InsertBranch` take an argument, because only they change what
a chain consists of. `HistoryIsAppendOnly` (commits, branch rows with their fork points, audit rows and
live writes stay; only heads move) and `ResolveTerminates` (the recursion of `resolve_snapshot` goes down to
older commits) have no run of their own.

Two properties speak of whole histories, which are recursive functions. The commits are in the order of
their insertion and a parent is older than its child (`Forest`), so a recursion over parents is well-founded
and what must hold of every commit is proved by a least counterexample (`NatLeast`); `HistoryIs` and
`OwnChainIs` then give both functions their equations, and `HistoryStands` says that inserting a commit leaves
the history of every older one alone. On these:

* `DiffsAreAgainstParents`. `Collected` says where the writes of a history are while it is being resolved:
  collected already, still ahead at the commit the walk is at, in the live graph if `main` was reached, or
  written on `main` by a branch edit and never live. So at the insertion of the commit all are accounted for.
  The converse, `HoldsNothingElse`, is `ElseIInv`: `LiveIsMain` says that the commit of a live
  write, if it comes, is one of `main`; `Gathered` that every
  write a request has collected, or may still collect from the live graph, is `Accounted` for: in the history of
  the head it read, found without a commit, or committed by a writer that overtook it.
* `HistoryIsLostOnlyByRace`. A commit that was once a head of its branch and is no longer in its chain was
  passed over by a head whose chain parts from its own at a common parent (`ChainsPart`), and two commits
  with one parent are two writers who read the same head. `Shown` says that every parent was a head once.

The module also proves both properties of `Seeding`, for any number of starts, any plans of the servers that meet
`ServerAssumption`, any scripts and any places to stop; nothing in them uses `Turn`, so they hold however the
calls of the starts interleave. In `SeedInv`, `Standing` says who made which project, `Followed` that what the
calls before `next` asked for is there and that the diff tells it, and `RowBy` what a row holds after any number
of calls. `GenesisIsWhole` reads that off at the commit. For `ReferenceComesWhole`, `Sound` gives that no call of
a plan is refused, so a server that came up either made its project whole or found another: whose maker has come
up too, is at work, has stopped, or is a script.

The properties of `Topology` are all proved, for any requests, payloads, ids and starting graphs, from
`IdAssumption`, `ScriptAssumption` and `SeedsAssumption` (a batch numbers its temp ids apart; a starting
graph is one the endpoints could have made), in three steps:

* The invariant of the graph is `IInv`: types, no dangling edge, and `RequestKnows`: ids that
  a request read or computed were in use (`Taken`) and stay so. `TextKnows` says that each operation of a text
  edit that has passed its check resolves to such ids; without it the write could name a temp id. On top of
  it, `GateKnows` (what a deletion found when it read the graph) gives `LastFlowIsKept` and
  `BreachIsAcknowledged`.
* For the hierarchy it first shows `CheckIsExact`: on an acyclic hierarchy the check accepts an edge if and only
  if the hierarchy stays acyclic with it. It avoids paths and induction: `Acyclic` says that every non-empty
  set of elements has one with no parent in the set, `Above` quantifies over closed sets, and each direction
  exhibits such a set. Then `HierarchyIsAcyclic`: `FewerEdges` (a subgraph of an acyclic graph is acyclic) and
  `StaleCheckStands` (a check on a larger hierarchy stands for a smaller one) carry a check over the
  deletions that come before its write. For a text edit one needs to know what its working hierarchy is:
  acyclic, with every edge read except into elements moved (`KeepsRead`), and with the last parent given to
  each element (`KeepsMoves`); so the hierarchy after the write is part of it (`TextIsChecked`).
* Then `IdsHaveOneKind` and `EndsAreLegal`: text edits never share a minted id
  (`IdsAreUnique`), such an id has no element before the write (`Unborn`), so an element keeps its kind while
  it exists (`KindsStay`) and a legal edge stays legal.

`DocumentImportProofs` proves, for any documents, statements, proposals and requests and any bounds, from
`BoundsAssumption` and `NothingAssumption` (the value that stands for "none" is no status, row or member of
the constant sets), `TypeCorrect`, `ReviewedIsWhole`, `ProposalsAreReviewed`, `SettledStays`,
`AcceptanceIsComplete` and `RequirementsAreImportedOnce`. The invariant adds to the types what the code
knows by its place in a handler and nowhere stores: `StageKnows` says, for each job, which status and which artefacts go with the stage its task
is about to run (and that a task that has ended or was lost leaves the row as it is); `RequestKnows` says
what a request has read of a job or a proposal before it acts on it. `JobStep` reduces an action to the one
job it touches. That an accepted proposal's import is complete needs a second invariant on top, `AInv`:
`BatchKnows` says that what a reviewer's request has imported so far and what is left of its batch make up
the drafts of the proposal. `RequirementsAreImportedOnce` has a third, `DInv`: of a proposal that no two
reviewers decided at once, everyone who is deciding still finds it pending, whoever has decided left its
verdict in the status, and there is one of those at most (`RaceFree`); so a refused reviewer is the only kind
that comes later. `SettledStays` and `ProposalsAreReviewed` have one exception, which `StageKnows` lets through: when
the answer to the write of AwaitingReview is lost, the error handler (`catch`) runs on a job that clients may
have seen awaiting review, and proposed, and writes Failed over it.

`ProposalsProofs` proves, for any list of subsystems, requests, levels and deviations, from
`SubsystemsAssumption`, `NothingAssumption` and `MayAssumption`, all three properties of the run. `Knows`
says what a request has in hand at each call. `SubsystemsAreDisposed` adds `Disposes`: the subsystems to
assess, to merge, to file, merged and filed make up the list, each once. `ProposalsAreDecidedOnce`
adds `Reviewed`: of a proposal that no two reviewers decided at once, everyone who is deciding saw it
pending, and at most one has decided. `MergesKeepOthersProperties` follows from the types and the steps
that write a body.

`ArchspaceProofs` proves, for any subsystems, requests, versions, handles and restarts, from
`MayAssumption`, `BoundsAssumption`, `FailsAssumption` and `NothingAssumption`:

* `HandlesStayDurable`. `IInv` says what is under a handle in its three places, the row, the cache and the
  sidecar (`SpaceKnows`), that a handle which a request has minted and not yet kept is its own
  (`Unshared`), what a proposal was made of (`ProposalKnows`), and what a request may assume at each call
  (`Knows`): for instance that a request which serves has a handle whose row is the row of the handle it
  was sent, although the sidecar may have forgotten both since.
* `AcceptanceIsMaterialized`, with `AInv` on top: how far an acceptance has come (`Reached`), and that a
  proposal names a subsystem that there was (`ProposeKnows`).
* `SpacesComeWhole`, of `Answers` and for any models: the scope takes in the other end of every constraint
  (`ScopeReaches`), so a constraint between two bounded parameters is known to the encoding of either side
  (`BothSidesReached`), and what is encoded or skipped makes up the content (`NamesDeclared`).
* `PhysicsComesRight`, of `Answers`, for any curves and models, from `CurvesAssumption` and
  `ModelsAssumption` (a curve is a sequence of points of whole numbers; a model's children, and the ends of its
  edges, are elements). A curve: `Before` is a strict total order, so each point has a place of its own (`Places`) and
  `Samples` is a stable sort (`SamplesSort`); the first segment around x ends or starts at the first point at x,
  or spans its neighbours (`SegmentOf`, `CurvesFollowed`). A model: `Searched` is the invariant of Kahn's
  search after any number of pops: the degree of a formula counts its uses of what is not in the order yet,
  it is 0 just for those in the order or the queue, and a formula in the order comes after what it waits for.
  So the search ends with an order of all formulas (`Orders`), or with some that all wait for each other
  (`Stuck`, `OrderComes`). `Evaluated` then says, formula by formula along the order, that the scope is the inputs
  but for what was computed, and what a formula reads is never computed after it (`ReadsBefore`).
* `HandlesSurviveRestarts`: `Archspace` implements `Handles`. Initial states map to initial states; `Persist` is
  `Give`, `Ask` is `Ask`, the last call of an endpoint is `Answer` with the fresh handle, if there is one,
  and every other step, restarts among them, leaves the mapped state as it is.

`BodiesProofs` proves, for any requests, elements, constraints and mixes of calls, from `KindAssumption`,
`MixesAssumption`, `ConstraintsAssumption` and `NothingAssumption` (the value for "no row" is neither an id
nor a body, and an element made by a request is not one that was there), all four properties of the run from one invariant,
`BInv`. A handler writes back a whole row that it read earlier, so the invariant follows the copies:

* `CopyIsFresh`: a copy whose base is what the row has gone through until now is an edit of the row.
  `MadeOfNothing`, `Unborn` and `BlankAtFirst`: a new element's body is made of nothing, and nobody deals with
  an element before it is created, so its creator's write is an edit too. `WritersAre` and `Chained`: each
  writer past its write is among the writers of its row once, and while no
  write was stale (`raced`) each writer's copy is an edit of the copy before, and the row is the last one. So a
  message that was confirmed is in every later copy (`MessagesStand`).
* `Checked`: what a request that resolves a choice read of the constrained choices still holds when it writes,
  or the write is marked as missed (`ChoicesAgree`).
* `LinkedOrTodo` and `DeletedFirst`: each member that a freeze found is linked, still to be linked, or deleted
  (`FrozenCollectionsAreWhole`).
* `Committed`, `CreatedOnce` and `AllNumbered`: what each commit says is what its author's copy holds.
  `ReplayGivesTheBody` follows: the last commit that set a part was made by the last writer who changed it
  (`GreatestUpTo`), and the writers after it, none of whom changed that part, left it alone (`Unchanging`).

`TraversalProofs` proves, for any finite set of ids, kinds of edge, starting graphs, requests, page sizes and
edits, from `IdAssumption` (finitely many ids, none of which is 0), `PageAssumption` (a page has an element),
`AsksAssumption` and `GraphsAssumption` (what requests and starting graphs are made of), both safety properties
of the run.

* It starts from what sorting and cutting give: `OrderedIs` (the members of a set, each once and the smaller
  first, because their ranks are 0 to n - 1, `Ranks`), `FlattenIs`, `KeptIs` (the neighbours, unless cut),
  `LongerIs` (the queue after a visit) and `PaginateIs` (a page is a slice).
* `TraversalExact`. `SearchInv` says that the queue is in order of distance, with nothing more than one hop
  beyond its head (`Layered`), and, of a search that no edit met, that each element was found from one a hop
  nearer (`Attached`), that what was read is what the graph has (`HeardIs`), and that whatever has left the
  queue has all its neighbours known within a hop, unless the search was cut (`Closed`). When the queue is empty, the
  least distance at which `Ball` and the elements found could differ gives a contradiction.
* `PagesAreWhole`. Its first half holds however the graph is edited: `Given` says that what every search found and
  is still there was given, is on the page under way, or comes after the cursor; a cursor that is gone only
  starts over. For the second half, a search of one graph for one request is a deterministic walk
  (`After`), `Leads` says by closed sets where it comes, and `OneEnd` that it ends in one way. So without an
  edit all pages are slices of one list, and `Repeats` says how much of it was given.

`TextSyncProofs` proves about what `TextSyncInvariants` defines, for any finite set of ids, any names, kinds, lines to type, model at first, handlers
and bounds, from `IdAssumption`, `LinesAssumption` and `FirstAssumption` (the model at first has the
ends of its edges and one parent for each element), all five safety properties of the run. The folds of the code are
runs (`WriteSteps`, `CheckSteps`: a sequence of states, one for each op), so that `UpTo` can go from one op to the
next; `PrintIs` says what a print is, level by level, and `OpsAre` which line each op of a diff is of.

* `TypeCorrect`. The shapes include that the live model is whole, and stays so through every op (`WriteOpWhole`);
  that what a handler waits to check is the diff of what it read; and that what it waits to write was
  accepted.
* `ReplayedIsLive`. `ReplayInv`: while nobody raced and no write has lost its commit (`Apart`), the chain replays to the model but for the one write that
  is not recorded yet, and that write's ops give the rest. It needs the check: an accepted op names parents
  that are there, so the replay, which does not look, and the write, which does, come to the same (`SameOp`).
* `OnlyWhatChanged`. `AnchorInv`: a text names no element that the print it came from does not have; if that print is
  of what the handler read, its lines are named and placed as the elements there (`PrintAt`, from `PrintIs`).
* `TextIsApplied`. That the check takes the edit needs no path: as the ops come from the top of the text
  downwards, every line above the one whose turn it is has its place already (`PlacedIn`), so the elements that the line is
  in form a set closed under the links upwards that does not hold the line itself (`NotReached`). That the write leaves what the text
  says is `Says`: a line that no later op is about has its name and its parent in the model.
* `TextIsModel`. `Solo`: one handler runs at a time unless texts cross. `Clear` (not `crossed`, not `stale`)
  makes the rest deterministic: `NameInv` says what the server still has to hear of names, `SourceInv` that the
  snapshot is the model but for those names when no handler runs; a whole read that ends `stale` establishes both anew. `AskInv`, which holds of every state, says who is about to compare the
  text with the snapshot, unless it has been: the timer, a message, a handler, or nobody, and diagnostics are
  shown.
* `NoneTwice`. `MadeInv`: while nothing crossed and nothing is `unread`, what texts have made is in the model and in what
  the one handler at work, or the server at rest, goes by; `KnownInv` bounds the other side, and holds of every state. `CountInv`: the ids that were given, with those that the handler at work is about to give
  (`Costs`), are no more than the lines that were typed, and neither is what is new in any text under way.

* `DiffsRebuild`, of `Diffs` and for any two finite snapshots (`IsSnapshot`), however their sets of entries are
  listed. A fold over a set is a run through growing subsets (`EntriesSteps`), and what holds of each by
  `SubsetInduction` says where the replay is: elements renamed and added (`ElementsReplay`), taken away with their
  bodies and edges (`DeletedReplay`), bodies (`BodiesReplay`), edges (`LinkedReplay`, `UnlinkedReplay`).

Properties that are proved and that no run checks any more, because the theorem says it for every instance,
are `TypeOK` of four modules, `HistoryAppendOnly`, `ResolveDescends`, `OneKindUnlessMissed`,
`ReviewIsComplete`, `ProposedIsReviewed` and `SettledIsFinal`.

Only model-checked: what is recursive over data (`Notation`, `Alf` and `Existence`, which `Queries` puts to
inputs), about which the provers have no induction; that the plan of the reference meets `ServerAssumption`, which
is data; and liveness (`SettlesUnlessCrossed` and its like in
`DocumentImport` and `Traversal`), which is out of their reach.

## 7. Not modelled

* **Mode A** (`mode_a.rs`): stateless calls of a language model.
* **fUML runtime, control simulation, `alf_ir.rs`**: adapters around a vendored engine.
* **ReqIF and SysML v2 parsers**: they produce the batches that `Topology` imports.
* **Trade studies, the arithmetic of formulas**: floating-point.
* **Export, object store**: reads and formatting; one upload is in `Seeding`.
* **Authentication**: it names the actor; that it is asked after the write is in `Versioning`'s `Fail`.
* **Rules that are reported and never enforced**: cardinality, orphan actions, the compressor rules.
* **Web client, layout**: rendering, apart from the editor's timer and the canvas rename.
* Within modelled parts: the case of keywords and the places errors name (`Notation`, `Alf`), reading
  endpoints, the branch of a proposal, an acknowledgement that is lost after a write except in `DocumentImport` and `TextSync`,
  and more than one connection of the language server.
