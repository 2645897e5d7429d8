# A verification project for graphr

graphr is an MCP server that answers questions about a code change. A client
asks it to index a selection (two revisions of a worktree), polls the job, and
queries the snapshot the job published. The program parses sources into a graph
held in SQLite files, keeps those files in a cache that several servers share,
and reuses old images as seeds for new ones.

The modules here model the parts of `src/src/` in which several actors meet, a
long history matters, or a limit decides what an answer may claim. TLC checks
them on small instances, and TLAPS proves most of what TLC found to hold of the
concurrent parts for every instance.

## The system

| Part | State | Operations | What is hard | What makes it correct |
|---|---|---|---|---|
| Job registry (`job.rs`, `mcp.rs`) | next id, job map, active job of each workspace, thread handles; per job a mutex with stage and counters, and a flag | `start`, `status`, `cancel`, the reporter, `finish`, `close` | handler threads, a thread per job, the closing thread; two mutexes and a flag; a rendezvous; a spawn that fails | one job per workspace; polls never contradict each other; an end that is seen has freed the workspace; outcomes are honest; close leaves nothing running and returns |
| Snapshot cache and catalog (`workspace.rs`, driven by `index.rs`) | graph, review and manifest files; per process the verified and the rejected snapshots | `attach`, `reconcile`, `entries`, `pin_exact_graph`, `quarantine_graph`, `prepare_publication`, `publish_graph`, `publish` | no lock across processes: link without replace and rename only; crashes, cancellation, damaged files, stale catalogs | a manifest is on disk only with all it names; racing builds succeed; a build repairs what it finds and breaks nothing good; every build ends; what was completed can be queried |
| Build pipeline (`index.rs`, `job.rs`) | stage, counters, the shared file index, the progress lock | stages, reuse loop, parser threads, join, base graph, reports | parser threads and two rounds report to one job that drops what is out of order | each file is built exactly once; reports are in order and none is lost; an error of one thread fails the build |
| Graph images (`index.rs`, `store.rs`) | rows of each file, imported artifacts, resolutions, by content key | seed, `index_with`, `replace_evidence`, `resolve_scip`, seal | an image is the end of a chain of updates, some of which another selection made | an image is what its key says, however it came to be |
| Authorized roots, request resolution (`workspace.rs`) | none that changes | `AllowedRoots`, `resolve_request` | paths that escape | a worktree is inside a root |
| Review paging (`index.rs`) | a cache of rendered reviews; the place is in the client's cursor | first page, next page | boundaries inside of a hunk or a character, record and byte limits, eviction between two pages | pages together are the whole, once; a cursor is good for its review for ever and for nothing else |
| Changes and reviews (`store.rs`, `git.rs`) | none | hunks to symbols, neighbors, flows, cycles, risks, diagram, API difference | many limits, each with its own flag; positions between lines | what is called complete is; what is told is in the code |
| Queries (`store.rs`, `graph.rs`) | none | search, view, impact, path | limits of rows, nodes, hops and bytes | answers are exact, or marked |
| Pinned open (`pinned.rs`) | an override per thread | open a descriptor as a database | two opens at a time | a path opens its own descriptor |
| Reference resolution (`store.rs`, `index.rs`) | nodes with lookup keys, references, edges with counts, trait implementations, parents | resolve in memory, `apply_incremental`, `resolve_scip` | two implementations of one thing, one in memory and one in SQL; keys that follow from resolutions; dirty sets | an update gives what a full build gives, and never an image that the checks refuse |
| Git capture (`git.rs`) | none | capture sources, changes and evidence; run Git; read blobs | a worktree, index and `HEAD` that others change; a child process that hangs, floods or dies | a capture is of one state; an answer is the whole answer; calls end |
| Evidence (`evidence.rs`, `coverage.rs`, `index.rs`, `store.rs`) | imported rows of an image | capture a manifest, read reports, link outputs, review | reports that repeat or contradict themselves, generated files of generated files | rows are what the manifest and its reports say; a review claims no more |
| Names (`parse.rs`, `python.rs`, `cpp.rs`, `index.rs`) | none | from a call to the keys it is tried with | nested scopes, bases, shadowing, imports | the keys are those of what the language finds |
| JavaScript (`javascript.rs`), tree-sitter queries, SCIP decoding (`scip.rs`), schema (`schema.rs`), artifacts (`artifact.rs`) | none | text or bytes to rows | syntax | not modelled, see below |
| Server, command line (`mcp.rs`, `main.rs`) | connection | tools, limits | shutdown | in the job registry |

A client's `index` call goes through request resolution to the job registry,
whose worker thread runs `Engine::build_snapshot`: it attaches the catalog,
captures sources, selects a seed, indexes (with parser threads), resolves,
imports evidence, builds the base graph if the selection has one of its own,
and publishes. Reports go back through a callback to the job. Queries go from
a snapshot id to the catalog of the process and to a read-only image.

The hazards, each at its line and with the properties that watch it, are in
`PROJECT.json`.

## The modules

| Module | What it is |
|---|---|
| `JobRegistry` | `job.rs` at the grain of its critical sections |
| `WorkspaceJobs` | what the registry promises: one job at a time for a workspace, from idle to idle |
| `MCJobRegistry` | instances for TLC |
| `JobRegistryProofs` | proofs about `JobRegistry`, refinement included |
| `SnapshotCache` | the cache directory, the catalogs and the builders, one file system call or critical section a step |
| `MCSnapshotCache` | instances for TLC |
| `SnapshotCacheProofs` | proofs about `SnapshotCache` |
| `BuildProgress` | one build from its first report to its last, with the parser threads and the reporter |
| `GraphLineage` | which images seed which, and what an image inherits |
| `MCGraphLineage` | instances for TLC |
| `BuildProofs` | proofs about `BuildProgress` and `GraphLineage` |
| `MCBuild` | `GraphLineage` and `BuildProgress` for one run of TLC |
| `GraphResolution` | the rows of an image: a build from nothing, an update, a SCIP upgrade |
| `MCGraphResolution` | parsed files for TLC |
| `GraphResolutionProofs` | proofs about `GraphResolution` |
| `GitCapture` | one capture, question by question, while somebody else works in the worktree |
| `MCGitCapture` | instances for TLC |
| `GitCaptureProofs` | proofs about `GitCapture` |
| `GitChanges` | four answers of Git about one state, merged to the list of changes |
| `GitRun` | one run of Git: child, pipes, reading threads, limits, deadline, cancellation |
| `BlobReader` | a parser thread and the process it asks for blobs |
| `GitCalls` | `GitRun` and `BlobReader`, the two ways a process of Git is used |
| `GitCallsProofs` | proofs about `GitCalls` |
| `ChangeRoots` | from the lines of a patch to changed symbols |
| `ChangeFlow` | neighbors, flows and import cycles of changed symbols |
| `ChangeDiagram` | risks, the lines of flows, and the diagram; extends `ChangeFlow` |
| `ApiDiff` | the difference of two images |
| `EvidenceImport` | from a manifest and its reports to rows |
| `EvidenceReview` | what a review claims of these rows; extends `EvidenceImport` |
| `EvidenceProofs` | proofs about `EvidenceReview`, as `ReviewAnswers` instantiates it |
| `GraphWalks` | search, view, impact and path |
| `ReviewPages` | pages, cursors and the cache of rendered reviews |
| `ReviewAnswers` | what a reader of a review is told of: `GitChanges`, `EvidenceReview` and `ReviewPages`; extends `GitCalls` |
| `ReviewProofs` | proofs about the changes and the pages of `ReviewAnswers` |
| `CppNames`, `PythonNames`, `RustNames` | from a call in a file to the keys it is tried with |
| `ReviewInputs`, `EvidenceInputs`, `QueryInputs`, `NameInputs` | the inputs that TLC enumerates for them |
| `MCReview` | all parts of a review and the queries for one run of TLC; extends `ReviewAnswers` |
| `MCRustNames` | `RustNames` alone, for what the documents promise |

### JobRegistry

`start` holds the registry mutex from its first line until it pushes the
handle, so it is one step; its three outcomes are three actions
(`StartSpawned`, `StartSpawnFails`, `StartActive`). The message that lets the
new thread go is sent after the mutex is released, so `SendStart` is a step of
its own. `status` and `cancel` look the job up under the mutex and read it
afterwards under the job's own: `Lookup`, then `StatusRead` or `CancelStore`.
`finish` takes the registry mutex and reads the flag (`FinishDecide`), stores
the terminal state under the job's mutex (`FinishStore`), where a `status`
that looked the job up earlier can read it, and then frees the workspace and
lets go (`FinishRelease`). `close` takes flags and handles in one critical
section and joins afterwards. The registry has no closed flag, and neither has
the model: calls go on after `close`.

`request[j]` keeps the evidence manifest, which the worker's closure captures;
`RequestKey` leaves it out, because `JobRequestSummary` does. `answer` is the
reply of the call that returned last. It is history: no action reads it, and
the properties about clients are stated with it.

### SnapshotCache

A step is one call to the file system, with the validation of the bytes it
returned, or one critical section of the catalog. Loading a manifest is two
steps (`LoadManifest`, `CheckFiles`), quarantine is the check for a free name
and the rename (`QuarantineCheck`, `QuarantineRename`), publication is link and
read back for each file (`LinkReview` and `ReadReview`, `LinkHead` and
`OpenHead`, `CheckBase`, `LinkManifest`, `FinalRead` and `FinalCheck`).
Links never replace. An image is a number, so that two builds of the same
content give two images with one name and different checksums, as they do on
disk. `inspect_root`, which attaches without building, is a builder without a
target.

A crash ends all builders of a process and empties its catalog; it may come
between any two steps. A fault from outside damages a graph, overwrites a
review or a manifest, or deletes any of the files. `alone[b]` is history: no
one but b has moved since b started. The repair properties are stated for such
builds, because nobody promises them while others quarantine.

`SourceOf` names the snapshots that add evidence to another. Such a build starts
from the image of that snapshot and from nothing else (`Candidates`).
`ValidateSource` is `validate_evidence_source`: it asks the catalog for the source,
and if the catalog has rejected it as corrupt it quarantines its graph, with all
snapshots that use it, and the build fails (index.rs:209-220, 1043-1085). A source
that turns out to be damaged later is quarantined as any seed is, and then
the build fails too (`NeedsSource`, index.rs:392-397). `Rejection` tells apart why
an entry is rejected, since only `CacheCorrupt` has the first effect. So
`UndisturbedBuildRepairs` and `RacingBuildsSucceed` let an evidence build fail if
its source cannot be loaded or is not in the catalog, and
`RepairKeepsGoodSnapshots` excepts the snapshots that share the graph such a build
quarantines (`Forfeited`), which may be good if it is the source's review or base
that is not.

Left out: the private directory of a job (nobody else sees it), permissions and
ownership, the order of `fsync` calls, and damage that validation does not see.

### BuildProgress

`fate` says of every file of a round what becomes of it: reused, parsed,
skipped or an error. The reuse loop, which leaves the files that are not reused
in `pending`, the threads' `next.fetch_add`, the count and the report under
`progress_lock`, the join and the final report are actions. `Follows` is the
reporter's filter. The names end in `Progress` where `MCBuild` would else have
two of them. With a single pending file the code parses
on the building thread without the lock; that is a crew of one here. `Share` is
the number of files worth a thread, 4 in the code.

### GraphLineage

Builds come one at a time; how they race is the subject of `SnapshotCache`. A
file is a path and a version: two versions are equal when content key and parse
context are. `Apply` is `apply_incremental`: rows go by path. An image knows
which manifest its artifacts are from, and which calls are resolved by SCIP, by the
index of which manifest (`Resolution`); `Sound` is `require_evidence_invariants`.
An update that changes any file opens all of these calls again, one that changes
none returns before that (store.rs:6029), and `ResolveScip` gives targets only to
calls that are open. Indices disagree about every call they share, so that a target
kept from another manifest shows. Edges are in `GraphResolution`. Omitted
sources (global gaps) are not either: with them every update counts as a
change.

### GraphResolution

`GraphLineage` says which files an image has; this module says what its tables
make of them. A source is a parsed file, a constant with the rows it brings:
nodes with their lookup keys, references with ranked keys and perhaps an alias
they export, trait implementations. The program resolves in two ways.
`ResolveGraph` is `resolve` of `index.rs`, which works on the whole graph in
memory; `ResolveReferences`, `RefreshExportMethods`, `ResolveImplementations`
and `ReparentMethods` are the functions of `store.rs` of those names, which
work on rows in SQL. `FullBuild` and `ApplyIncremental` are the two branches of
`Store::index_with`, the second also that of `replace_evidence`; `ResolveScip`
is `resolve_scip_references`. A third time the program computes what references
should find when it checks a transaction (`CandidatesHold`), and refuses to
commit if they do not.

Every operation is one transaction on a private image, so it is one step. A
cancelled or failed transaction leaves nothing behind and is left out. `edges`
is a function from edges to support counts and `keys` is the table `node_keys`,
in which the keys of exported static methods come and go while references are
resolved. The order of the code is kept: exporters before consumers, all
references before the exported methods, those before implementations, parents
last. `Reuse` is a seed whose files are already those of the tree.

Left out: gaps, notes, modelled sites and the full-text table, which resolution
does not read, and the accounting of relation sites.

### GitCapture

A step asks one question about one path, in the order of `capture_snapshot`:
`HEAD`, a look at the index and a copy of it, the first digest (a listing of
what differs from the copy, then each of these files is read and hashed), a
second listing and the overlay of its files over the copy's blobs, the raw
inventory and the patches of changes, the untracked files, the second digest,
index and `HEAD` compared, requested inputs and layers, and the digest, index
and `HEAD` again. A pass goes through `todo` in the order of `Rank`; a listing
(`Listing`) hands what it found to the pass that reads it. Reading a file is two
steps (`LookAtFile`, then open, read and compare the version), between which it
may change. A file that is not there has the content `Absent`. The steps of
others are `Write`, `Remove`, `Stage`, `MoveHead` and the clock. Git compares
coarse times, as it does on disk, so that a file may be "racily clean", and
`Stage` smudges the entries that were; `same_file_version` compares stamps that
every write changes. The worlds a capture may begin in are those Git can leave
behind (`WellTimed`).

`SourceShown`, `ChangeShown` and `LayersShown` say what a capture of a still
state should show; `past` is the history of states that `CaptureIsOfOneState`
speaks of, and `returned` tells whether something was changed and changed back,
which a comment of the code excepts. `Report` is what the report of an artifact
says of its content. A path that is deleted by the patch and untracked has two
reports and `OneReport` compares them, as `merge_changes` does (git.rs:3922-3944): an
artifact taken out of the index is refused if it has turned from text to binary
or back (`TakenOut`), and accepted otherwise, since the reports of two texts, or of
two binary files, are equal. (Those that are too large for a diff have a report
of their own; contents have one size here.) An input that is evidence too is kept out
of every digest by the code, so that only `NothingIsTorn` tells of it.

### GitChanges, GitRun, BlobReader, GitCalls

`GitChanges` takes one state and gives the program the answers of Git about
it: the raw inventory, two patches with renames of Git's choice, and the
untracked files. The rest is `capture_target_changes` and `merge_changes` with
their cross checks, every one of which refuses the capture. In `GitRun` and
`BlobReader` the child may write, stop, exit and die at any time; the reading
threads, the poll loop, `join` and the deadline are those of the code. Output is
counted in buffers of the reading threads. A child that has died is told from one
that `shutdown` kills, since only the first can be the reason of a malformed
answer. `GitCalls` composes the two; a behaviour is one of one of them.

### ChangeRoots, ChangeFlow, ChangeDiagram, ApiDiff

Pure functions of an input: a behaviour picks one and computes its answer, in
as many steps as the code has functions. Positions in `ChangeRoots` are doubled,
because a deletion lies between two lines. `ChangeFlow` keeps the work lists of
the code with their budgets (`MeetSource`, `VisitTarget`), since the order in
which a budget runs out is what the properties are about; the properties compare
with closures. `ChangeDiagram` draws into the budget of nodes and bytes, which
are counted in nodes and edges.

### EvidenceImport, EvidenceReview

Digests are identities. `Import` checks the manifest against the files, reads
reports (`Total` is `add_count`), links outputs to the one inclusion that names
them, inserts rows and checks them as the transaction does. What is
charged against the limit of all bytes is a sequence (`Charges`), since
`charge_retained` charges an artifact once for each declaration; what is retained
is a set (`Artifacts`). One limit for a single artifact stands for those of generated files
and of reports (evidence.rs:13, 237), and the check that generated output is UTF-8
(198) is left out. Two inputs that are captured as declared are refused by
the checks: an output that is included only by another output (`Nested`), and an
output that is not parsed, as no single site includes it, and that is a file of the
image which had other bytes when it was captured (`Outdated`,
store.rs:2325-2329). `EvidenceReview` widens the lines asked about along links, pass
by pass (`Pass`), until nothing is added (`Expand`), and computes statuses and claims by the separate queries of the code.

### GraphWalks, ReviewPages

`GraphWalks` has the four queries, without the static gaps and the evidence that
`view` appends (store.rs:1027-1034); lines have widths and budgets are sums of
them. In `ReviewPages` a reader begins, continues with the cursor it was given,
or strays with a cursor of another review; `Render` is the part of a call that
runs without the lock of the cache, so that a review may be rendered twice, or
evicted between two pages. A byte is only known by whether it ends a line,
continues a character or begins a hunk or a file. `ReviewAnswers` instantiates
`ReviewPages` beside `GitChanges` and `EvidenceReview`, with what the code's
constants and types guarantee as its assumptions.

### CppNames, PythonNames, RustNames

A file is what the tree-sitter query captures of it; a call is resolved to a
list of keys by the functions of the parser. The properties say independently
what the language finds for the name, from declarations, scopes and bases.

## The runs

| Run | Instance | States | Shows |
|---|---|---|---|
| `JobCalls` | 2 handlers, 1 workspace, 2 selections, 2 jobs, reports with and without a rejected cache, symmetry | 2.4 M | type invariant, `OneJobPerWorkspace`, `EndedJobFreesWorkspace`, `AnswersNeverRegress`, `OutcomeIsHonest`, `CloseLeavesNothingRunning`, `EndIsFinal` |
| `JobLife` | 1 handler, 2 workspaces, 2 jobs, fair | 0.2 M | `ImplementsWorkspaceJobs`, `StartedJobsEnd`, `CloseEnds` |
| `JobEvidence` | 2 handlers, 1 manifest | violation | see findings |
| `CacheRepair` | 1 builder, 3 snapshots, one based on another's graph and one with evidence for it, 1 fault, 5 images, fair | 0.2 M | `UndisturbedBuildRepairs`, `RepairKeepsGoodSnapshots`, `BuildsEnd` |
| `CacheRecovery` | 2 processes, 1 snapshot with a base, crashes, cancellation, 1 fault, 3 images | 0.7 M | `PublicationIsAtomic`, `RacingBuildsSucceed` (before the fault; it says nothing of builds after one) |
| `Build` | 2 trees, 4 manifests, any chain of builds and losses; and 2 rounds, up to 3 files each and 4 in all, 2 threads, fair | 0.8 M | `ImagesHoldTheirFiles`, `EvidenceIsOfTheManifest`, `FilesAreDivided`, `EveryReportIsShown`, `BuildEnds` |
| `LineageBase` | the lineage alone | violation | see findings |
| `Resolution` | all 288 trees over 7 paths, two of them with two versions; 5 calls and imports, 1 implementation, a SCIP index | 609 (177 k transitions) | `NoBuildIsRefused`, `ReferencesAreThoseOfAFullBuild`, `ImplementationsAreThoseOfAFullBuild` |
| `ResolutionParents` | 2 C++ files | violation | see findings |
| `Capture` | 2 paths, 3 contents, 2 changes by others, 2 times | 2.2 M | `CaptureIsOfOneState`, `NothingIsTorn`, `QuietCaptureSucceeds` |
| `Review` | the inputs of `ReviewInputs`, `EvidenceInputs`, `QueryInputs` and `NameInputs`; 2 readers; fair | 0.4 M | `OneStateIsMerged`, `EveryChangeIsTold`, `CompleteMeansComplete`, `ChangedLinesAreTold`, `CompleteMeansExhaustive`, `CyclesAreReal`, `EvidenceIsTheManifests`, `ClaimsAreHonest`, `ReportIsHonest`, `QueriesAreExact`, `NamesAreScoped`, `PagesAreTheReview`, `AnswersAreGits`, `GitCallsEnd` |
| `RustCalls` | calls in a method | violation | see findings |

`Build` and `Review` put independent parts side by side: a behaviour is one of
one part, and the others' variables are idle.

Bounds. Two jobs of one workspace give every order of an end, a start that
finds the workspace busy or idle, and a close; two handlers let each call be
overtaken between its halves. Two workspaces are enough for the refinement,
which speaks of them one by one. In the cache every hazard is between two
actors and one name; two snapshots of which one's graph is the other's base are
the smallest sharing, a third adds evidence to the one that is shared, and one
snapshot with a base is the smallest race for two images. (Two processes that race with two snapshots and a fault are 9 M states
and not among the runs.) `MaxImages` counts the images a run may publish: three
leave room for a first build and a race, five for the three snapshots, a second
image of one and a repair. One fault is any damage to any file; several at a time
exceed what TLC can do with three snapshots and are left to the theorems,
which hold for any number. In `BuildProgress`, three files on two
threads have a thread that takes a second one; two rounds carry counters over.
The trees of the lineage share a path in two versions, have a path each of
their own, and one has a file where a manifest attests another version of it. The
manifests attest an output and an index, an index (two of them, that disagree), or
neither. Snapshots that are asked for (`Asked`) are each tree alone and with each
manifest, and each tree as a base, once of a source and once of an evidence
snapshot.
In `Resolution` every tree can follow every other, so a chain of two updates
already shows any pair of differences. The paths are chosen for the keys: two
modules of one name, which make a key missing, unique or ambiguous as they come
and go, one of them in two versions of which only one is a class; two barrels
that export what a module exports, or a class of their own; a caller whose
references go through a barrel, to a static method and twice to one target; and
C++ files, in which a type and a function share a key.

A capture asks everything of each path, and what it asks of one path can only
disagree with what it asks of another: two paths are enough, and so are two
changes by others, of which one may undo the other. Three contents are the base,
a change and a binary one; two times make a file racily clean or not. Inputs of
the pure parts are exhaustive families, small enough that every limit of the
model is met from below, at it and beyond: the limits are scaled down with them
(`ReviewPages` has an overhead of 1 in a context of 17 with 4, 3, 4, 3 and 4 for
the sections' first pages, where the code has 704 in 8192 with 1200, 1800,
1200, 1600 and 1400, and 2 cached reviews for 4; `GraphWalks` has budgets of 9
and 7 widths for bytes; `ChangeRoots` 3 roots). A family varies what one
property depends on and keeps the rest still.

Fairness. Threads run: weak fairness of every thread's next step. The registry
mutex is taken by weakly fair steps only in `JobLife`, where it is never held
for ever: between `FinishDecide` and `FinishRelease` nothing blocks. A build
returns because its loops are finite (`BuildsEnd` and `BuildEnds` say so of two
of them) and it polls the flag. In `GitRun` and `BlobReader` the caller, the
reading threads and the clock are fair, since the poll loop sleeps for a bounded
time; the child is not, and nobody has to cancel. A pipe is closed when the
child is gone, because Git is run so that it starts nothing that outlives it.
Nobody is obliged to call anything.

## Findings

* `JobEvidence`: an `index` call with an evidence manifest, made while the job
  of the same selection without one is active, is answered by that job; the
  manifest is never read. The request key has no field for it.
* `LineageBase`: a base graph may be seeded by an evidence image and keeps its
  imported artifacts under a source-only key. Two things follow in the model:
  the seal refuses a base whose tree does not have an output the artifacts
  attest, so the build fails; and where such an output is committed to the
  tree, the next import drops the committed file (`ImagesHoldTheirFiles` is
  stated under `OutputsAreNotSources` for this reason). The SCIP resolutions stay
  too: if that base is later the seed of an evidence image, and neither manifest
  attests an output, no file changes, nothing is opened again, and the targets of
  the other manifest's index remain in the image (store.rs:6029, 7227-7232).
  `EvidenceIsOfTheManifest` excepts exactly this; without the exception TLC finds a
  behaviour of 18 steps.
* `ResolutionParents`: an update looks at the parents of all methods of a type
  that came or went, and gives those of an ambiguous type to their files, also
  the C++ methods that are declared inside of their class. A build from nothing
  leaves those with the class. The parents of an image depend on its history:
  for the same files the key of the image is the same and its content is not.
  (Conversely, a node that is not a type but has the type's key makes the key
  ambiguous, and an update that adds it leaves parents as they were.)

* `RustCalls`: a bare call `f()` in a method of `T` is tried first as the item
  `T::f`, because the scope around a method is taken to be its type. If `T` has
  a member `f` the call gets an edge to it, where Rust finds the function of the
  module. The design says that an unproven target is never asserted.

## Observations

What else the models told, where no document says otherwise. The properties
leave these cases out by name, or are stated so that they hold.

The server and its images:

* `attach` drops from the catalog whatever its listing did not hold, also a
  snapshot that a job of the same process completed after the listing. Until
  another attach, queries for the completed id find nothing.
* A skipped file counts as parsed while files are indexed and not afterwards.
  The reporter drops the report in which the counter falls, and every later
  one, so that the job stays at `indexing` until its end.
* `run_git` never says "Git output exceeded its limit": a thread that overflows
  fails, and `join` reports it as unreadable before the status is looked at; so
  it does when a call is cancelled as well.

Capture and changes:

* A file that is replaced by identical bytes between `lstat` and open
  (git.rs:2469-2476) is captured as omitted, while all digests agree.
* An artifact taken out of the index that is still there, but has turned from
  text to a binary file or a link or back, is reported twice and differently, and
  the capture asks for a retry that cannot help (git.rs:3922-3930; `TakenOut` of
  `GitCapture`; that of `GitChanges` excepts every such path that is not text on
  both sides).

Reviews and queries:

* `changed_flow_roots` compares the number of roots with its limit by equality
  (store.rs:3110), and roots that are functions are added without comparing: a
  number past the limit is not flagged.
* `load_flow_neighbors` takes the least of each column of a dependency apart,
  so that path and line may be of two different rows.
* One root with many callers can use up the rows of `node_risk_counts`; later
  roots are then "no-static-test-path", and only the summary tells of it.
* `graph_diff` lists references that were not resolved in the base either, if
  they have a key of a removed symbol.
* `step_lines` (store.rs:8353) ends at a line that is too wide without the mark
  of an omission (`AllFit`). Supertypes beyond `DISPATCH_DEPTH` are not flagged.

Evidence:

* An output that only another declared output includes is linked and never
  parsed, and the import is refused by its own checks (`Nested`).
* A Coverage.py report in which two files outside of the worktree have a line in
  common is refused; the LLVM reader adds such lines up.
* `execution_mapping=complete` can stand beside a claim that is partial, when
  its lines reach out of the scope; `provenance_status` is complete with
  generated gaps below it.

Names:

* C++: an enum in the body of a method takes the place of its class in
  `collect_class_lookup` (cpp.rs:508-519). An empty one loses the bases of the
  class (`EmptyEnum`), another one makes it incomplete, which is careful.
* Python: two definitions of one path share their nested names (`OnePath`);
  `with ... as`, `except ... as`, comprehensions and `:=` bind nothing; a call
  in a default argument counts as inside of its function.
* Rust: functions nested in the caller, and items and imports of enclosing
  functions, are not looked at; a glob import in a function gives way to the
  module's items; an import of the module wins over a nearer nested function;
  methods of a local type with the name of a type of the module belong to the
  function; a call outside of any definition in an inline module has the scope
  of the file. A `use` in a function is always ambiguous, which is careful.

## The proofs

`JobRegistryProofs` proves every safety property of the registry that the runs
check, and the refinement, for any workspaces, clients, selections, reports and
number of jobs. The assumptions are those `JobRegistry` states about its
constants. None of the properties is inductive. The invariant `IInv` adds

* `FreshInv`: an id that was not given out is absent everywhere;
* `ThreadInv`: the phase of a job's thread, the job's state and the holder of
  the registry mutex go together;
* `OutcomeInv`: what `finish` decided follows from what the build returned;
* `ActiveInv`: the entry of a workspace is the one job whose thread occupies
  it, which `OneJobPerWorkspace` and `EndedJobFreesWorkspace` rest on;
* `HandleInv`: every running thread has its handle in the registry or among
  those being joined, and a job from before the last `close` has exited or is
  being joined, without which nothing follows about `close`;
* `ClientInv`: a call in progress, and an answer, is about a job in the map.

The step lemma has one lemma for each action (`SpawnLinks`, `ReportLinks`,
`StoreLinks`, ...), and the theorems follow from the invariant. `EndIsFinal` and
the refinement are proved from the invariant and a case split over actions; a
job is running from its registration to the store of its terminal state.

`BuildProofs` has two parts. About `GraphLineage` it proves
`ImagesHoldTheirFiles` and `EvidenceIsOfTheManifest`
for any trees, manifests and chain of seeds, from the assumptions that a tree
and a manifest have one file for a path. The invariant adds that an image never
has two files of one path (`apply_incremental` removes by path: with two, one
would survive), that published images passed the checks of their seal, that a
snapshot of the catalog has its image, and that the image under construction is
what its key says. `Inherited` says whose SCIP targets it may have
besides: those of a manifest without outputs, and in an evidence image only if its
own manifest has none either. `ApplyResult` is the lemma about the incremental update.

About `BuildProgress` it proves `FilesAreDivided` and `EveryReportIsShown` for any
number of files, rounds and parser threads. `PartsInv`: the numbers drawn from
`next` are with one thread each, about to be built or built. `CountInv`: each of
them is counted in `completed`, or in the hands of a thread that is yet to count
it or has failed; a thread that found nothing is gone, so that `next` passes the
end at most once per thread. When all have left without an error, the count is
the total, and with no file skipped the number of parsed files in the closing
report is what the threads counted. `SentInv` has the last report as a function
of the state: under the lock it is one file behind `completed`.

`SnapshotCacheProofs` proves all four safety properties of the cache for any
processes, builders and snapshots, and however snapshots share graphs and
reviews. `CacheAssumption` says that a snapshot's base graph is not its own, and
that a snapshot with evidence has the base and the review of its source, whose
graph is another and which has no evidence itself; the rest of it gives the
constants their types. Two
invariants are needed, because the properties speak of two situations.

* `CalmInv`, as long as no fault came from outside: files only appear, a
  manifest that is there is good, and what a builder has seen stays true, whoever
  else moves, crashes or is cancelled. `PublicationIsAtomic` and
  `RacingBuildsSucceed` follow.
* `AloneInv`, as long as one builder is alone: earlier faults may have left
  anything, but its catalog and its locals say exactly what is on disk (`Known`),
  at each of its steps. In particular a manifest that is left after `attach` is
  loadable or waits for quarantine, and when a graph is replaced every manifest
  that names it has been moved away. The source an evidence build has found
  stays as it is (`Adding`); one that cannot be loaded is moved away, and then the
  build fails (`AloneGivingUp`). `UndisturbedBuildRepairs` and
  `RepairKeepsGoodSnapshots` follow.

`LocalInv`, for the types, says which locals are set at which step.

`GitCaptureProofs` proves the three properties of a capture for any paths,
contents, worlds and calls.

* `PlaceInv`: how far the capture is, and what it has by then.
* `TimeInv`: neither Git's index nor the copy ever believes a file that differs
  (`WellTimed`: an entry with the time of its file and another content is as young
  as the index. A write gives the file the time of now, which no index is younger
  than, and `Stage`, which makes a younger index, smudges the entries this was
  true of). `Verdict` is the consequence: Git's listings are right about the
  moment at which they ask. It holds of the copy because the copy keeps the time
  of its index.
* `FoundInv`: what was found was there, hence `NothingIsTorn`.
* `QuietInv`: what each pass finds when nobody moves, hence
  `QuietCaptureSucceeds`. Its two exceptions are the code's. `InputsAreThere`: a
  requested input that is tracked and missing in the worktree is read as if it
  had gone meanwhile (git.rs:117-123). `TakenOut`: the two reports of an artifact
  taken out of the index differ (git.rs:3922-3944); the invariant says of each
  untracked artifact that its report is that of the file it still has.
* `StateInv`: there is a state `m` since the capture began, the one at the end of
  the first digest, such that all that was found about a path is what `m` shows,
  as long as the path holds what the first digest says of it (`Steady`). Nobody
  takes a path away from that and back without `returned`, so a path that the
  last digest finds as the first did was so all the time between (`Settled`), and
  `CaptureIsOfOneState` holds with `m`. `DigestInv` says what digests and
  listings are about; `FixedInv` is the simple case of a commit or index target.

`GraphResolutionProofs` proves that every image is the one its files determine.
What a tree says is defined without a history: `AllRows` (who holds a key,
exported methods included), `Finds` (what a reference finds) and
`FoundImplementations`. Three lemmas show that the resolver in memory, the
functions on rows and the check before a commit compute it; one pass over the
exporting references is enough since they look up no alias, and one refresh of
exported methods since exporting references do not look those up. The invariant
`IInv` then holds of builds, updates and SCIP upgrades: keys and implementations
are those of the tree, references too but for calls a SCIP index has resolved,
edges count the references and implementations that support them, and every
parent is in the image. An update looks again at all references but only at some
implementations; `EndsStay` proves that one it passes over keeps both ends: none
of its keys is of a node that came or went, of an alias that did, or of a
reference that looks one of them up. `NoUpdateIsRefused`, `UpdatesResolveAsBuilds` and
`UpdatesImplementAsBuilds` are about the properties of the run, and
`NothingDangles` says that nothing in an image refers to what is not in its files.
`ResolutionAssumption` states what the parser guarantees, and that keys of
exported methods are no other keys: a node and its parent are in one file
(javascript.rs:574), no node of a script has an owner (512, 580), so that a
static method is never moved to another parent, and what a module exports is
looked up by keys of modules and names (714-718, 773-850), never by the key of an
exported method, which only a call of a member has (1278-1279).

`GitCallsProofs` proves `AnswersAreGits` for any output, pipe, limits, exit codes
and works of parser threads, and any number of restarts of the reader. The
assumptions (`GitCallsAssumption`) are that a command writes to its two streams,
that limits are numbers, and that an object ID names one content. Of a run of Git:

* `NothingIsLost`: what the child wrote to a stream is in the pipe, read, or the
  one buffer that went over the limit;
* `ThreadsFollow`: a thread that ended saw the end of its pipe after the child was
  gone, and one that failed was over its limit;
* `CallerKnows`: how far the caller is, the status it has and the threads it has
  joined go together. So when it accepts the output it has joined both threads
  after they ended, nothing is in a pipe, and the output is whole.

Of the blob reader:

* `OneIsOpen`: only the youngest child can run, those before it are dead or killed;
* `OneIsAsked`: when nothing is asked the channel holds nothing but perhaps the
  end (`Quiet`), otherwise one request is out and what is in the channel answers it
  (`Expecting`). Without it a late answer to an earlier request could be taken for
  the present one, which is what the property excludes;
* `FilesAreTold`: what has been said of the files so far is right.

`ReviewProofs` proves `PagesAreTheReview` for any readers, reviews, texts, budgets
and size of the cache: page after page a reader sees each section from its start
to its end, nothing twice, nothing missing, and a cursor is refused for another
review. `ReviewAnswersAssumption` says what it rests on. Texts are UTF-8: from
any byte a character ends within `width` bytes. Every page has room for the header
and one character of each section: the code counts 704 bytes for a header, the
budgets of first pages are 1200 to 1800 bytes each, and a later page has 8192
for five sections (index.rs:40-46). And the mark of no value is no cursor, which
is about the model only.

* `Least` stands in for induction: a non-empty set of numbers has a least member.
  The end of a page, the last line that fits and the number of pages are defined
  by such members.
* `PageGrows` and `LimitHolds`: a page ends between two characters, goes further
  than it began, and holds no more records than its limit.
* `PagesFollow`: pages that follow each other and cover a section count what it
  has, since they cover sets of places that are apart.
* `AnswersInv`: what each reader has seen of a section is the section up to the
  offset of its cursor, in pages that follow each other (`ReadingHolds`); a call
  holds the cursor of the review it is about, however often that was rendered or
  evicted meanwhile (`CallHolds`); and what the cache has under a key is the
  review of the key (`RenderedHolds`). Without the last a reader could get the
  second page of another review.

It also proves the three properties of `GitChanges` for any paths, contents,
worktrees and modes, and for whatever pairs Git makes of deleted and added files.
`GitChangesAssumption` says that the paths are finitely many, since paths are
counted, that sources and unsafe paths are among them, and that the marks of what
is absent are no path, no entry, no input and no reason for an omission. Nothing
is assumed of which files are sources, vendored or semantic.

* `ChangesInv` is small: the result is what `MergeChanges` makes of an input that
  is one state (`InputHolds`). The work is in what that is.
* `NamedInPatch` and `OneRecord`: a path with a name is in exactly one record of
  the one patch it belongs to, be it alone or at an end of a rename.
* `RenamePairsAre` and `ToldIs`: the renames that both patches report are those
  told as one change (`Moves`), both ends in one scope and neither name
  unsafe. After coalescing, a change is such a rename or a path that is in none.
  `OneTells` follows: no path is told twice.
* `CountsAgree`, `SourcesAgree`, `CapturedAgrees` and `ArtifactsAgree`: the four
  comparisons that merge_changes refuses on hold of one state. The first is a
  bijection between records with line counts and the paths they are counted
  under; the last needs the exception `TakenOut`, a path that is both deleted
  from the index and untracked. Hence `OneStateMerged`.
* `AllFilesAre` and `AllRecordsAre`: which sources are read and which are recorded
  as gone, which with `OneTells` gives `ChangesAreTold`.
* `Accounted`: if the list calls itself complete, each change of it has its line
  counts, or an artifact that a diff shows in full. `CompleteIsComplete` follows
  path by path; type changes, boundaries, unsafe names and untracked files that
  cannot be read each have a lemma that says why a list with one is not complete.

`EvidenceProofs` proves `EvidenceIsTheManifests` and `ClaimsAreHonest` for any
manifests, files, reports, names and questions. The exception `Outdated` was found by
the proof; no input of the run had one until then. There are two steps, and the
invariant says that a result is the import of its input, or a review of that import
(`ImportInv`); the argument is about the rows.

* `InputsAreSound`, the first assumption: what is a vector in the code is a sequence,
  lines and hits are natural numbers (the branches of a report may have negative
  ones, as an exit of a Python file has), the files are finitely many, and the marks
  of no value and of a file outside of the worktree are neither a symbol nor a path.
  It is asked only of inputs that the manifest and the capture accept.
* `AsksAreSound`, the second: the symbol a reader views, and the symbols that changes
  affect, are in the image, and a view is asked without changes (`Store::view`,
  store.rs:1014-1022). TLC evaluates both on all of the inputs of `Review`.
* `OnlyOne`: an id that is stored was chosen from a set that it is alone in. This is
  what the checks on generators, inclusion sites and tests ask again.
* `FilesAreTheirs`: the file of a parsed output in the image is the captured one,
  because no parsed output is a path of the source image.
* `KeysAreOf`, `ExternalIsTold`: each key of a report has the path of one of its
  names, so that a region outside of the worktree is always accompanied by the count
  of external files and hence by a gap.
* Counters of one key are added up, and the sum is positive exactly if one of them
  is: a line is stored as not run only if nobody ran it.
* `GapsAre`, `GapsAreTold`: each row that has no symbol, no known test or no file has
  the gap that the checks look for.
* `LinksAreSound` and `CoverageIsSound` collect this for the two groups of checks;
  only the first has the exceptions.

For a review the rows are taken as they are and the argument goes on:

* `ExpandIs`: the passes over the links end. A pass that adds anything contains all
  the lines and symbols of a link that was not contained before, so there are at most
  as many as there are links, and `Expand` chooses a pass after which nothing changes.
* `LinksAreReached`: the links that the widened scope touches are closed under
  overlaps, and no smaller set that contains those touched at first is.
* `GapIsOf`: a gap row without a path is about a test or about a file that is not known,
  one with a path has lines, and one about a test that has lines is about the context of
  a region of the same run. From this, `ShownAreCounted`: the query that counts gaps and the one that lists them, which the
  code decides apart, select the same.
* `RegionIsComplete`, `BranchIsComplete`: a claim that is not complete has a gap that
  is counted, unless some of its lines are outside of what was asked.
  `RegionIsKnown`, `BranchIsKnown`: a claim that something was or was not observed is
  about lines that have a symbol.
* `ReviewIsHonest` collects this for one review, `ClaimsAreTheRows` for all.

`Total` and `FlattenSeq` recurse over a sequence. In place of induction their
lemmas take the least length at which the claim fails (`Recursion`).

Assumptions on constants are the `ASSUME`s of the modules, which TLC evaluates
for the instance of every run.

Model-checked only: liveness (`StartedJobsEnd`, `CloseEnds`, `BuildsEnd`,
`BuildEnds`, `GitCallsEnd`), which the prover has no rules for, and those invariants of
`Review` whose modules declare RECURSIVE operators, which the prover cannot take: the
work lists and closures behind `ChangedLinesAreTold`, `CompleteMeansExhaustive`,
`CyclesAreReal`, `ReportIsHonest` and `QueriesAreExact`, and the scopes behind
`NamesAreScoped`. They are compared with closures over exhaustive inputs instead.

## Not modelled

* JavaScript and TypeScript names (`javascript.rs`): planned. The barrels and
  exported methods they produce are in `GraphResolution`.
* The tree-sitter queries, and gaps and notes that parsers record: patterns over
  syntax trees of another project's parser.
* SCIP decoding (`scip.rs`): bytes with size limits; its effect on an image is
  in `GraphResolution` and `GraphLineage`.
* The schema, the full-text index and its ranking, and the text of answers.
* Authorized roots and request resolution (`workspace.rs`) and the pinned open
  (`pinned.rs`): small, planned.
* Artifact analyzers (`artifact.rs`): text to text; whether a change is shown as
  a diff or by an analyzer is in `GitChanges`.
* `fsync` and power loss, private job directories, and damage that validation
  does not see, such as an exact graph that no trusted entry names and that is
  adopted after a structural check (workspace.rs:711).
* In the modelled parts: unmerged paths, Cargo manifests and repository
  discovery in captures; columns and the order of lines in reviews.

## The plan

1. Done: the registry, the cache, the pipeline, the lineage of images, the
   resolution of their references, capture, evidence, changes, queries, paging
   and the names of three languages; proofs of all safety properties of the
   registry, the cache, the pipeline, the lineage, the resolution, the capture,
   the calls of Git, the changes, the evidence and the pages of a review.
2. Proofs about the other parts of `Review`, `ChangedLinesAreTold` first: their
   RECURSIVE operators would become recursive functions over sequences, as those of
   `EvidenceReview` did.
3. `ScriptNames` (`javascript.rs`), `PinnedOpen`, and request resolution.
4. A composition of `JobRegistry` and `SnapshotCache`: a job's outcome against
   what is on disk and in the catalog.
