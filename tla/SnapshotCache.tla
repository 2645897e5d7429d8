--------------------------- MODULE SnapshotCache ---------------------------
(***************************************************************************)
(* The on-disk snapshot cache of one repository and the catalogs of the    *)
(* server processes that use it (src/src/workspace.rs, driven by           *)
(* Engine::build_snapshot in src/src/index.rs).                            *)
(*                                                                         *)
(* The cache is three directories of content-named files: graph images,    *)
(* reviews and snapshot manifests.  No lock protects them: processes meet  *)
(* only in link-without-replace and rename.  A snapshot exists once its    *)
(* manifest is linked, after its graph and its review.  Each process keeps *)
(* a catalog in memory: the snapshots it has verified (loaded) and those   *)
(* it could not (rejected).                                                *)
(*                                                                         *)
(* A step is one file-system operation or one critical section of the      *)
(* catalog's locks, with the checks on the bytes it read; the two locks of *)
(* a catalog, taken one after the other, count as one.  An image is a      *)
(* number: every image built is a different file with a different          *)
(* checksum, and its damage shows when it is validated.  The private       *)
(* directory of a job is seen by nobody else and is left out.              *)
(***************************************************************************)
EXTENDS Naturals, FiniteSets

CONSTANTS
  Processes,  \* server processes with this repository
  Builders,   \* threads of those processes: index jobs, and inspect_root
  Host,       \* Host[b]: the process of builder b
  Snapshots,  \* snapshot ids
  Graphs,     \* graph image ids
  GraphOf,    \* GraphOf[s], BaseOf[s], ReviewOf[s]: the files snapshot s
  BaseOf,     \* is made of, by content key; BaseOf[s] may be NoValue
  Reviews,    \* review ids
  ReviewOf,
  SourceOf,   \* the snapshot whose graph s adds evidence to, or NoValue
  MaxImages,  \* bound on the images published
  MaxFaults,  \* bound on the files damaged or deleted from outside
  Junk,       \* the bytes of a manifest that does not parse
  NoValue     \* Rust's None

(* Why load_entry rejects a snapshot: CacheCorrupt, SnapshotIncomplete, or  *)
(* an error that no build repairs.                                         *)
Repairable == {"corrupt", "incomplete"}
Rejections == Repairable \union {"hard"}

ASSUME CacheAssumption ==
  /\ Host \in [Builders -> Processes]
  /\ GraphOf \in [Snapshots -> Graphs]
  /\ BaseOf \in [Snapshots -> Graphs \union {NoValue}]
  /\ ReviewOf \in [Snapshots -> Reviews]
  /\ \A s \in Snapshots : BaseOf[s] # GraphOf[s]
  /\ SourceOf \in [Snapshots -> Snapshots \union {NoValue}]
  /\ \A s \in Snapshots : SourceOf[s] # NoValue =>
       /\ SourceOf[SourceOf[s]] = NoValue
       /\ GraphOf[s] # GraphOf[SourceOf[s]]
       /\ BaseOf[s] = BaseOf[SourceOf[s]] /\ ReviewOf[s] = ReviewOf[SourceOf[s]]
  /\ MaxImages \in Nat /\ MaxFaults \in Nat
  /\ NoValue \notin Nat \union Graphs \union Snapshots \union Rejections
  /\ NoValue \notin [graph : Nat, base : Nat \union {NoValue}]
  /\ Junk \notin [graph : Nat, base : Nat \union {NoValue}] \union {NoValue}

Images == 1 .. MaxImages
Manifest == [graph : Images, base : Images \union {NoValue}]
Names ==
  [kind : {"graph"}, id : Graphs] \union [kind : {"review"}, id : Reviews]
    \union [kind : {"manifest"}, id : Snapshots]
ManifestName(s) == [kind |-> "manifest", id |-> s]
GraphName(g) == [kind |-> "graph", id |-> g]
ReviewName(r) == [kind |-> "review", id |-> r]

VARIABLES
  graphs,     \* the image each graph name is linked to, or NoValue
  damaged,    \* images whose bytes no longer validate
  reviews,    \* each review file: "absent", "good", or "bad" bytes
  manifests,  \* each manifest file: NoValue, Junk, or its checksums
  nextImage,  \* the next image to be published
  faults,     \* outside faults so far
  loaded,     \* catalog: verified snapshots of each process
  rejected,   \* catalog: rejected ones, and why
  job,        \* where each builder is, and its local variables
  alone       \* no other actor has moved since this builder started

fileVars == <<graphs, reviews, manifests>>
diskVars == <<fileVars, damaged, nextImage, faults>>
catalogVars == <<loaded, rejected>>
vars == <<diskVars, catalogVars, job, alone>>

Resting == {"idle", "completed", "failed", "cancelled"}
Steps ==
  {"list", "load", "check", "reconcile", "source", "prepare", "review", "sweep",
   "q_check", "q_rename", "q_forget", "affected", "evict",
   "entries", "pin", "seed", "base_link", "base_open",
   "review_link", "review_read", "graph_link", "graph_open", "base_check",
   "manifest_link", "final_read", "final_check"}
Entries == [snapshot : Snapshots, image : Images]

Idle ==
  [pc |-> "idle", target |-> NoValue, role |-> "head", ids |-> {}, unread |-> {},
   current |-> NoValue, held |-> NoValue, names |-> {}, back |-> "list",
   victim |-> NoValue, entries |-> {}, own |-> FALSE, exact |-> NoValue,
   base |-> NoValue, source |-> NoValue]

(* A builder's program counter and its local variables.                    *)
Locals ==
  [pc : Resting \union Steps, target : Snapshots \union {NoValue},
   role : {"head", "base"}, ids : SUBSET Snapshots, unread : SUBSET Snapshots,
   current : Snapshots \union Names \union {NoValue},
   held : Manifest \union {Junk, NoValue}, names : SUBSET Names, back : Steps,
   victim : Graphs \union {NoValue}, entries : SUBSET Entries, own : BOOLEAN,
   exact : Images \union {NoValue}, base : Images \union {NoValue},
   source : Images \union {NoValue}]

(* Type correctness: the disk, the catalogs and the builders' locals hold  *)
(* values of their kinds.                                                  *)
TypeOK ==
  /\ graphs \in [Graphs -> Images \union {NoValue}]
  /\ damaged \in SUBSET Images
  /\ reviews \in [Reviews -> {"absent", "good", "bad"}]
  /\ manifests \in [Snapshots -> Manifest \union {Junk, NoValue}]
  /\ nextImage \in 1 .. MaxImages + 1
  /\ faults \in 0 .. MaxFaults
  /\ loaded \in [Processes -> [Snapshots -> Manifest \union {NoValue}]]
  /\ rejected \in [Processes -> [Snapshots -> Rejections \union {NoValue}]]
  /\ job \in [Builders -> Locals]
  /\ alone \in [Builders -> BOOLEAN]

Init ==
  /\ graphs = [g \in Graphs |-> NoValue]
  /\ damaged = {}
  /\ reviews = [r \in Reviews |-> "absent"]
  /\ manifests = [s \in Snapshots |-> NoValue]
  /\ nextImage = 1
  /\ faults = 0
  /\ loaded = [p \in Processes |-> [s \in Snapshots |-> NoValue]]
  /\ rejected = [p \in Processes |-> [s \in Snapshots |-> NoValue]]
  /\ job = [b \in Builders |-> Idle]
  /\ alone = [b \in Builders |-> FALSE]

----------------------------------------------------------------------------
At(b, pc) == job[b].pc = pc
(* Builder b goes on with the locals l.                                    *)
Becomes(b, l) == job' = [job EXCEPT ![b] = l]
Goto(b, pc) == Becomes(b, [job[b] EXCEPT !.pc = pc])

(* A build or an inspection ends; its locals are gone.                     *)
Rest(b, how) == Becomes(b, [Idle EXCEPT !.pc = how, !.target = job[b].target])

Healthy(g, image) == graphs[g] = image /\ image # NoValue /\ image \notin damaged

(* What load_entry makes of manifest bytes m and the files they name.      *)
Loads(s, m) ==
  /\ m \in Manifest
  /\ reviews[ReviewOf[s]] = "good"
  /\ Healthy(GraphOf[s], m.graph)
  /\ BaseOf[s] # NoValue => Healthy(BaseOf[s], m.base)

(* ... and why it does not: a file that is missing before any is bad.      *)
Missing(s, m) ==
  /\ m \in Manifest
  /\ \/ reviews[ReviewOf[s]] = "absent"
     \/ /\ reviews[ReviewOf[s]] = "good"
        /\ \/ graphs[GraphOf[s]] = NoValue
           \/ /\ Healthy(GraphOf[s], m.graph)
              /\ BaseOf[s] # NoValue /\ graphs[BaseOf[s]] = NoValue
Rejection(s, m) == IF Missing(s, m) THEN "incomplete" ELSE "corrupt"

Accept(p, s, m) ==
  /\ loaded' = [loaded EXCEPT ![p][s] = m]
  /\ rejected' = [rejected EXCEPT ![p][s] = NoValue]

Reject(p, s, kind) ==
  /\ loaded' = [loaded EXCEPT ![p][s] = NoValue]
  /\ rejected' = [rejected EXCEPT ![p][s] = kind]

Forget(p, ids) ==
  /\ loaded' = [loaded EXCEPT ![p] = [s \in Snapshots |->
                                        IF s \in ids THEN NoValue ELSE @[s]]]
  /\ rejected' = [rejected EXCEPT ![p] = [s \in Snapshots |->
                                            IF s \in ids THEN NoValue ELSE @[s]]]

----------------------------------------------------------------------------
(* `attach`: read the directory, load every manifest in it, then drop from *)
(* the catalog what the directory did not hold when it was read.           *)
(* A snapshot belongs to one workspace, and a process has one job at a     *)
(* time for each (JobRegistry); inspections come at any time.              *)
Start(b, target) ==
  /\ job[b].pc \in Resting
  /\ \A c \in Builders :
       Host[c] = Host[b] /\ job[c].pc \notin Resting /\ target # NoValue
         => job[c].target # target
  /\ Becomes(b, [Idle EXCEPT !.pc = "list", !.target = target])
  /\ UNCHANGED <<diskVars, catalogVars>>

AfterLoad(unread) == IF unread = {} THEN "reconcile" ELSE "load"

List(b) ==
  /\ At(b, "list")
  /\ LET present == {s \in Snapshots : manifests[s] # NoValue} IN
       Becomes(b, [job[b] EXCEPT !.pc = AfterLoad(present),
                                 !.ids = present, !.unread = present])
  /\ UNCHANGED <<diskVars, catalogVars>>

(* load_entry opens the manifest; one that is gone is rejected with an     *)
(* error that is neither CacheCorrupt nor SnapshotIncomplete.              *)
LoadManifest(b, s) ==
  /\ At(b, "load")
  /\ s \in job[b].unread
  /\ IF manifests[s] = NoValue
       THEN /\ Reject(Host[b], s, "hard")
            /\ Becomes(b, [job[b] EXCEPT !.pc = AfterLoad(job[b].unread \ {s}),
                                         !.unread = @ \ {s}])
       ELSE /\ Becomes(b, [job[b] EXCEPT !.pc = "check", !.current = s,
                                         !.held = manifests[s]])
            /\ UNCHANGED catalogVars
  /\ UNCHANGED diskVars

(* ... then reads and validates the files it names.                        *)
CheckFiles(b) ==
  /\ At(b, "check")
  /\ LET s == job[b].current
         m == job[b].held
     IN  /\ IF Loads(s, m) THEN Accept(Host[b], s, m)
            ELSE Reject(Host[b], s, Rejection(s, m))
         /\ Becomes(b, [job[b] EXCEPT !.pc = AfterLoad(job[b].unread \ {s}),
                                      !.unread = @ \ {s}, !.current = NoValue,
                                      !.held = NoValue])
  /\ UNCHANGED diskVars

(* inspect_root attaches and returns; an index job goes on.                *)
Reconcile(b) ==
  /\ At(b, "reconcile")
  /\ Forget(Host[b], Snapshots \ job[b].ids)
  /\ IF job[b].target = NoValue
       THEN Rest(b, "completed")
       ELSE Becomes(b, [job[b] EXCEPT !.ids = {},
              !.pc = IF SourceOf[job[b].target] = NoValue THEN "prepare" ELSE "source"])
  /\ UNCHANGED diskVars

----------------------------------------------------------------------------
(* quarantine_name, for each of `names`: leave a name that is absent,      *)
(* rename one that exists; a rename that finds it gone fails the build.    *)
Quarantine(b, names, back) ==
  Becomes(b, [job[b] EXCEPT !.pc = IF names = {} THEN back ELSE "q_check",
                            !.names = names, !.back = back])

Exists(n) ==
  CASE n.kind = "graph" -> graphs[n.id] # NoValue
    [] n.kind = "review" -> reviews[n.id] # "absent"
    [] n.kind = "manifest" -> manifests[n.id] # NoValue

Unlink(n) ==
  /\ graphs' = [g \in Graphs |-> IF n = GraphName(g) THEN NoValue ELSE graphs[g]]
  /\ reviews' = [r \in Reviews |-> IF n = ReviewName(r) THEN "absent" ELSE reviews[r]]
  /\ manifests' = [s \in Snapshots |->
                     IF n = ManifestName(s) THEN NoValue ELSE manifests[s]]

(* prepare_publication and quarantine_rejected forget a rejected manifest  *)
(* once it is out of the way; the other callers only move names.           *)
Forgets(b, n) == n.kind = "manifest" /\ job[b].back \in {"review", "entries"}

NextName(b, rest) == IF rest = {} THEN job[b].back ELSE "q_check"

Quarantined(b, n) ==
  LET rest == job[b].names \ {n} IN
    IF Forgets(b, n)
      THEN Becomes(b, [job[b] EXCEPT !.pc = "q_forget", !.current = n, !.names = rest])
      ELSE Becomes(b, [job[b] EXCEPT !.pc = NextName(b, rest), !.current = NoValue,
                                     !.names = rest])

QuarantineCheck(b, n) ==
  /\ At(b, "q_check")
  /\ n \in job[b].names
  /\ IF Exists(n)
       THEN Becomes(b, [job[b] EXCEPT !.pc = "q_rename", !.current = n])
       ELSE Quarantined(b, n)
  /\ UNCHANGED <<diskVars, catalogVars>>

QuarantineRename(b) ==
  /\ At(b, "q_rename")
  /\ LET n == job[b].current IN
       IF Exists(n)
         THEN Unlink(n) /\ Quarantined(b, n)
         ELSE Rest(b, "failed") /\ UNCHANGED fileVars
  /\ UNCHANGED <<damaged, nextImage, faults, catalogVars>>

QuarantineForget(b) ==
  /\ At(b, "q_forget")
  /\ Forget(Host[b], {job[b].current.id})
  /\ Becomes(b, [job[b] EXCEPT !.pc = NextName(b, job[b].names), !.current = NoValue])
  /\ UNCHANGED diskVars

(* quarantine_graph: the graph's name, then the manifest names of the      *)
(* snapshots known to use it and of the one the caller names, then the     *)
(* catalog.                                                                *)
QuarantineGraph(b, g, requested, entries, source) ==
  Becomes(b, [job[b] EXCEPT !.pc = "q_check", !.names = {GraphName(g)},
                            !.back = "affected", !.victim = g, !.ids = {requested},
                            !.entries = entries, !.source = source])

(* validate_evidence_source: evidence is added to a snapshot the catalog   *)
(* holds.  One it rejected as corrupt loses its graph, and then the build  *)
(* fails as it does without that.                                          *)
ValidateSource(b) ==
  /\ At(b, "source")
  /\ LET s == SourceOf[job[b].target]
         entry == loaded[Host[b]][s]
     IN  CASE entry # NoValue ->
                Becomes(b, [job[b] EXCEPT !.pc = "prepare", !.source = entry.graph])
           [] entry = NoValue /\ rejected[Host[b]][s] = "corrupt" ->
                QuarantineGraph(b, GraphOf[s], s, {}, NoValue)
           [] OTHER -> Rest(b, "failed")
  /\ UNCHANGED <<diskVars, catalogVars>>

----------------------------------------------------------------------------
(* Mutant: whatever manifest the snapshot has is moved out of the way.     *)
PrepareAnyManifest(b) ==
  /\ At(b, "prepare")
  /\ IF rejected[Host[b]][job[b].target] = "hard"
       THEN Rest(b, "failed")
       ELSE Quarantine(b, {ManifestName(job[b].target)}, "review")
  /\ UNCHANGED <<diskVars, catalogVars>>

(* prepare_publication: a rejected manifest of this snapshot goes to       *)
(* quarantine, unless the rejection is of a kind a build does not repair.  *)
PrepareManifest(b) ==
  /\ At(b, "prepare")
  /\ LET s == job[b].target IN
       CASE rejected[Host[b]][s] = "hard" -> Rest(b, "failed")
         [] rejected[Host[b]][s] \in Repairable -> Quarantine(b, {ManifestName(s)}, "review")
         [] OTHER -> Goto(b, "review")
  /\ UNCHANGED <<diskVars, catalogVars>>

(* Mutant: a review file that is there is taken for good.                  *)
PrepareReviewTrusting(b) ==
  /\ At(b, "review")
  /\ Goto(b, "sweep")
  /\ UNCHANGED <<diskVars, catalogVars>>

(* ... and so does a review file that does not hold the review's bytes.    *)
PrepareReview(b) ==
  /\ At(b, "review")
  /\ LET r == ReviewOf[job[b].target] IN
       IF reviews[r] = "bad"
         THEN Quarantine(b, {ReviewName(r)}, "sweep")
         ELSE Goto(b, "sweep")
  /\ UNCHANGED <<diskVars, catalogVars>>

(* quarantine_rejected: the other rejected manifests of the repository.    *)
Sweep(b) ==
  /\ At(b, "sweep")
  /\ Quarantine(b, {ManifestName(s) : s \in {t \in Snapshots :
                      t # job[b].target /\ rejected[Host[b]][t] \in Repairable}},
                "entries")
  /\ UNCHANGED <<diskVars, catalogVars>>

----------------------------------------------------------------------------
(* The graph a build is after: first the snapshot's own, then its base's.  *)
Wanted(b) ==
  IF job[b].role = "head" THEN GraphOf[job[b].target] ELSE BaseOf[job[b].target]

(* What follows once the wanted graph is settled.                          *)
AfterHead(b) == IF BaseOf[job[b].target] = NoValue THEN "review_link" ELSE "entries"

Pinned(b, image) ==
  IF job[b].role = "head"
    THEN Becomes(b, [job[b] EXCEPT !.pc = AfterHead(b), !.role = "base",
                                   !.exact = image, !.entries = {}])
    ELSE Becomes(b, [job[b] EXCEPT !.pc = "review_link", !.base = image,
                                   !.entries = {}])

(* SnapshotCatalog::entries, whose descriptors outlive the catalog's.      *)
TakeEntries(b) ==
  /\ At(b, "entries")
  /\ LET catalog == loaded[Host[b]] IN
       Becomes(b, [job[b] EXCEPT !.pc = "pin",
           !.entries = {[snapshot |-> s, image |-> catalog[s].graph] :
                          s \in {t \in Snapshots : catalog[t] # NoValue}}])
  /\ UNCHANGED <<diskVars, catalogVars>>

Uses(s, g) == GraphOf[s] = g \/ BaseOf[s] = g

(* Mutant: every snapshot of the catalog is taken for a user of the graph. *)
QuarantineCatalog(b) ==
  /\ At(b, "affected")
  /\ LET ids == job[b].ids \union {s \in Snapshots : loaded[Host[b]][s] # NoValue}
     IN  Becomes(b, [job[b] EXCEPT !.pc = "q_check", !.ids = ids, !.back = "evict",
                                   !.names = {ManifestName(s) : s \in ids}])
  /\ UNCHANGED <<diskVars, catalogVars>>

QuarantineAffected(b) ==
  /\ At(b, "affected")
  /\ LET ids == job[b].ids \union
                  {s \in Snapshots : loaded[Host[b]][s] # NoValue /\ Uses(s, job[b].victim)}
     IN  Becomes(b, [job[b] EXCEPT !.pc = "q_check", !.ids = ids, !.back = "evict",
                                   !.names = {ManifestName(s) : s \in ids}])
  /\ UNCHANGED <<diskVars, catalogVars>>

(* A build that adds evidence starts from its source and nothing else.     *)
NeedsSource(b) == job[b].role = "head" /\ SourceOf[job[b].target] # NoValue

(* The end of quarantine_graph.  A build that has lost its source fails.   *)
Evict(b) ==
  /\ At(b, "evict")
  /\ loaded' = [loaded EXCEPT ![Host[b]] =
       [s \in Snapshots |-> IF Uses(s, job[b].victim) THEN NoValue ELSE @[s]]]
  /\ rejected' = [rejected EXCEPT ![Host[b]] =
       [s \in Snapshots |-> IF s \in job[b].ids THEN NoValue ELSE @[s]]]
  /\ IF NeedsSource(b) /\ job[b].source = NoValue
       THEN Rest(b, "failed")
       ELSE Becomes(b, [job[b] EXCEPT !.pc = "seed", !.ids = {}, !.victim = NoValue])
  /\ UNCHANGED diskVars

(* pin_exact_graph: no file of that name, build one; a file the catalog    *)
(* knows must still be that file; any other must validate.                 *)
PinExact(b) ==
  /\ At(b, "pin")
  /\ LET g == Wanted(b)
         known == {e.image : e \in {x \in job[b].entries : GraphOf[x.snapshot] = g}}
     IN  \/ /\ graphs[g] = NoValue
            /\ Goto(b, "seed")
         \/ /\ Healthy(g, graphs[g])
            /\ known \subseteq {graphs[g]}
            /\ Pinned(b, graphs[g])
         \/ /\ graphs[g] # NoValue
            /\ ~ (Healthy(g, graphs[g]) /\ known \subseteq {graphs[g]})
            /\ QuarantineGraph(b, g, job[b].target, job[b].entries, job[b].source)
  /\ UNCHANGED <<diskVars, catalogVars>>

(* The private image is built.                                             *)
Built(b) ==
  IF job[b].role = "head"
    THEN Becomes(b, [job[b] EXCEPT !.pc = AfterHead(b), !.role = "base",
                                   !.own = TRUE, !.entries = {}])
    ELSE Becomes(b, [job[b] EXCEPT !.pc = "base_link", !.entries = {}])

(* What a build may start from: the source it adds evidence to; else any   *)
(* entry of another graph, for a head only one without evidence.           *)
Candidates(b) ==
  IF NeedsSource(b)
  THEN {[snapshot |-> SourceOf[job[b].target], image |-> job[b].source]}
  ELSE {e \in job[b].entries :
          /\ GraphOf[e.snapshot] # Wanted(b)
          /\ job[b].role = "head" => SourceOf[e.snapshot] = NoValue}

(* Mutant: a candidate that failed is offered again.                       *)
SeedRepeating(b) ==
  /\ At(b, "seed")
  /\ \/ Candidates(b) = {} /\ Built(b)
     \/ \E e \in Candidates(b) :
          IF Healthy(GraphOf[e.snapshot], e.image)
            THEN Built(b)
            ELSE QuarantineGraph(b, GraphOf[e.snapshot], e.snapshot, job[b].entries, NoValue)
  /\ UNCHANGED <<diskVars, catalogVars>>

(* copy_first_seed: a candidate is copied if it is still the file it was   *)
(* and validates, and quarantined if not; without a candidate the build    *)
(* starts from nothing.  Then the image is built, in private.              *)
Seed(b) ==
  /\ At(b, "seed")
  /\ \/ Candidates(b) = {} /\ Built(b)
     \/ \E e \in Candidates(b) :
          IF Healthy(GraphOf[e.snapshot], e.image)
            THEN Built(b)
            ELSE QuarantineGraph(b, GraphOf[e.snapshot], e.snapshot,
                                 job[b].entries \ {e}, NoValue)
  /\ UNCHANGED <<diskVars, catalogVars>>

----------------------------------------------------------------------------
(* Mutant: rename instead of link, so that a concurrent winner is lost.    *)
LinkGraphReplacing(g) ==
  /\ nextImage \in Images
  /\ graphs' = [graphs EXCEPT ![g] = nextImage]
  /\ nextImage' = nextImage + 1

(* publish_no_replace of a graph image built in private: a name that is    *)
(* taken keeps its file, and the private image is dropped.                 *)
LinkGraph(g) ==
  IF graphs[g] # NoValue
    THEN UNCHANGED <<graphs, nextImage>>
    ELSE /\ nextImage \in Images
         /\ graphs' = [graphs EXCEPT ![g] = nextImage]
         /\ nextImage' = nextImage + 1

(* publish_graph, for the base: link, then open and validate what is there. *)
LinkBase(b) ==
  /\ At(b, "base_link")
  /\ LinkGraph(BaseOf[job[b].target])
  /\ Goto(b, "base_open")
  /\ UNCHANGED <<damaged, reviews, manifests, faults, catalogVars>>

OpenBase(b) ==
  /\ At(b, "base_open")
  /\ LET g == BaseOf[job[b].target] IN
       IF Healthy(g, graphs[g]) THEN Pinned(b, graphs[g]) ELSE Rest(b, "failed")
  /\ UNCHANGED <<diskVars, catalogVars>>

(* publish: review, graph and manifest in this order, each linked without  *)
(* replacing and then read back.                                           *)
LinkReview(b) ==
  /\ At(b, "review_link")
  /\ reviews' = [reviews EXCEPT ![ReviewOf[job[b].target]] =
                   IF @ = "absent" THEN "good" ELSE @]
  /\ Goto(b, "review_read")
  /\ UNCHANGED <<graphs, damaged, manifests, nextImage, faults, catalogVars>>

ReadReview(b) ==
  /\ At(b, "review_read")
  /\ IF reviews[ReviewOf[job[b].target]] # "good"
       THEN Rest(b, "failed")
       ELSE Goto(b, IF job[b].own THEN "graph_link" ELSE "graph_open")
  /\ UNCHANGED <<diskVars, catalogVars>>

LinkHead(b) ==
  /\ At(b, "graph_link")
  /\ LinkGraph(GraphOf[job[b].target])
  /\ Goto(b, "graph_open")
  /\ UNCHANGED <<damaged, reviews, manifests, faults, catalogVars>>

(* Mutant: the built image's checksum never reaches the manifest.          *)
OpenHeadUnrecorded(b) ==
  /\ At(b, "graph_open")
  /\ IF Healthy(GraphOf[job[b].target], graphs[GraphOf[job[b].target]])
       THEN Goto(b, "base_check")
       ELSE Rest(b, "failed")
  /\ UNCHANGED <<diskVars, catalogVars>>

(* A pinned graph must still be the file of that name; a built one may     *)
(* have lost to another build's.  Either must validate.                    *)
OpenHead(b) ==
  /\ At(b, "graph_open")
  /\ LET g == GraphOf[job[b].target] IN
       IF Healthy(g, graphs[g]) /\ job[b].exact \in {NoValue, graphs[g]}
         THEN Becomes(b, [job[b] EXCEPT !.pc = "base_check", !.exact = graphs[g]])
         ELSE Rest(b, "failed")
  /\ UNCHANGED <<diskVars, catalogVars>>

CheckBase(b) ==
  /\ At(b, "base_check")
  /\ LET g == BaseOf[job[b].target] IN
       IF g = NoValue \/ Healthy(g, job[b].base)
         THEN Goto(b, "manifest_link")
         ELSE Rest(b, "failed")
  /\ UNCHANGED <<diskVars, catalogVars>>

(* Mutant: losing the race for the manifest's name is an error.            *)
LinkManifestExclusive(b) ==
  /\ At(b, "manifest_link")
  /\ IF manifests[job[b].target] = NoValue
       THEN /\ manifests' = [manifests EXCEPT ![job[b].target] =
                               [graph |-> job[b].exact, base |-> job[b].base]]
            /\ Goto(b, "final_read")
       ELSE Rest(b, "failed") /\ UNCHANGED manifests
  /\ UNCHANGED <<graphs, damaged, reviews, nextImage, faults, catalogVars>>

(* The publication point: the manifest with the checksums just validated.  *)
LinkManifest(b) ==
  /\ At(b, "manifest_link")
  /\ manifests' = [manifests EXCEPT ![job[b].target] =
       IF @ = NoValue THEN [graph |-> job[b].exact, base |-> job[b].base] ELSE @]
  /\ Goto(b, "final_read")
  /\ UNCHANGED <<graphs, damaged, reviews, nextImage, faults, catalogVars>>

(* The load_entry that ends publish, and the catalog's new entry.          *)
FinalRead(b) ==
  /\ At(b, "final_read")
  /\ LET m == manifests[job[b].target] IN
       IF m = NoValue
         THEN Rest(b, "failed")
         ELSE Becomes(b, [job[b] EXCEPT !.pc = "final_check", !.held = m])
  /\ UNCHANGED <<diskVars, catalogVars>>

FinalCheck(b) ==
  /\ At(b, "final_check")
  /\ IF Loads(job[b].target, job[b].held)
       THEN Accept(Host[b], job[b].target, job[b].held) /\ Rest(b, "completed")
       ELSE Rest(b, "failed") /\ UNCHANGED catalogVars
  /\ UNCHANGED diskVars

(* The cancellation flag is polled while files are read and built; past    *)
(* the manifest's link it is not.                                          *)
Polls == {"list", "load", "check", "pin", "seed", "base_open", "review_link",
          "graph_open", "base_check"}

Cancel(b) ==
  /\ job[b].pc \in Polls
  /\ Rest(b, "cancelled")
  /\ UNCHANGED <<diskVars, catalogVars>>

----------------------------------------------------------------------------
(* A process dies: its builders and its catalog are gone, what it linked   *)
(* stays.                                                                  *)
Crash(p) ==
  /\ job' = [b \in Builders |-> IF Host[b] = p THEN Idle ELSE job[b]]
  /\ loaded' = [loaded EXCEPT ![p] = [s \in Snapshots |-> NoValue]]
  /\ rejected' = [rejected EXCEPT ![p] = [s \in Snapshots |-> NoValue]]
  /\ UNCHANGED diskVars

(* Something outside damages a file or deletes it.                         *)
DamageGraph(g) ==
  /\ graphs[g] # NoValue /\ graphs[g] \notin damaged
  /\ damaged' = damaged \union {graphs[g]}
  /\ UNCHANGED fileVars

Overwrite(n) ==
  /\ n.kind # "graph" /\ Exists(n)
  /\ reviews' = [r \in Reviews |-> IF n = ReviewName(r) THEN "bad" ELSE reviews[r]]
  /\ manifests' = [s \in Snapshots |-> IF n = ManifestName(s) THEN Junk ELSE manifests[s]]
  /\ UNCHANGED <<graphs, damaged>>

Delete(n) == Exists(n) /\ Unlink(n) /\ UNCHANGED damaged

Fault ==
  /\ faults < MaxFaults
  /\ faults' = faults + 1
  /\ \/ \E g \in Graphs : DamageGraph(g)
     \/ \E n \in Names : Overwrite(n) \/ Delete(n)
  /\ UNCHANGED <<nextImage, catalogVars, job>>

Attach(b) ==
  \/ List(b)
  \/ \E s \in Snapshots : LoadManifest(b, s)
  \/ CheckFiles(b)
  \/ Reconcile(b)
  \/ ValidateSource(b)

Prepare(b) ==
  \/ PrepareManifest(b)
  \/ PrepareReview(b)
  \/ Sweep(b)
  \/ \E n \in Names : QuarantineCheck(b, n)
  \/ QuarantineRename(b)
  \/ QuarantineForget(b)

Build(b) ==
  \/ TakeEntries(b) \/ PinExact(b) \/ Seed(b)
  \/ QuarantineAffected(b) \/ Evict(b)
  \/ LinkBase(b) \/ OpenBase(b)

Publish(b) ==
  \/ LinkReview(b) \/ ReadReview(b)
  \/ LinkHead(b) \/ OpenHead(b) \/ CheckBase(b)
  \/ LinkManifest(b) \/ FinalRead(b) \/ FinalCheck(b)

Step(b) == Attach(b) \/ Prepare(b) \/ Build(b) \/ Publish(b)

Moves(b) ==
  /\ Step(b)
  /\ alone' = [c \in Builders |-> c = b /\ alone[b]]

Next ==
  \/ \E b \in Builders, target \in Snapshots \union {NoValue} :
       /\ Start(b, target)
       /\ alone' = [c \in Builders |-> c = b]
  \/ \E b \in Builders : Moves(b)
  \/ \E b \in Builders :
       /\ Cancel(b)
       /\ alone' = [c \in Builders |-> c = b /\ alone[b]]
  \/ /\ Fault \/ \E p \in Processes : Crash(p)
     /\ alone' = [c \in Builders |-> FALSE]

Spec == Init /\ [][Next]_vars

(* A builder's thread runs; nobody has to index, cancel or crash.          *)
FairSpec == Spec /\ \A b \in Builders : WF_vars(Moves(b))

----------------------------------------------------------------------------
Loadable(s) == Loads(s, manifests[s])

(* Whatever the interleaving of builds in several processes, and wherever  *)
(* one of them crashes or is cancelled, a manifest is on disk only when    *)
(* every file it names is, with the checksums it records, and a catalog    *)
(* holds nothing but what is on disk.                                      *)
PublicationIsAtomic ==
  faults = 0 =>
    \A s \in Snapshots :
      /\ manifests[s] # NoValue => Loadable(s)
      /\ \A p \in Processes :
           loaded[p][s] # NoValue => loaded[p][s] = manifests[s] /\ Loadable(s)

(* The snapshot a builder adds evidence to.                                *)
Source(b) == IF job[b].target = NoValue THEN NoValue ELSE SourceOf[job[b].target]

(* Builds that race for the same names, or find what a crash left, all     *)
(* succeed: one links, the others take what is there.  Only one that adds  *)
(* evidence may fail, if its source snapshot is not in the catalog.        *)
RacingBuildsSucceed ==
  faults = 0 => \A b \in Builders : job[b].pc = "failed" => Source(b) # NoValue

(* A build during which nobody else moves repairs whatever it finds: a     *)
(* damaged or missing file from before it started fails it only where it   *)
(* adds evidence to a snapshot that cannot be loaded, and the snapshot it  *)
(* completes can be loaded.                                                *)
UndisturbedBuildRepairs ==
  \A b \in Builders : alone[b] =>
    /\ job[b].pc = "failed" => Source(b) # NoValue /\ ~ Loadable(Source(b))
    /\ job[b].pc = "completed" /\ job[b].target # NoValue => Loadable(job[b].target)

(* Repair takes away only what is broken: an undisturbed build never makes *)
(* a snapshot unloadable that could be loaded.  The exception is what      *)
(* validate_evidence_source does to a source that cannot be loaded, for    *)
(* whatever reason: its graph goes, with the snapshots that use it.        *)
Forfeited(b, s) ==
  /\ Source(b) # NoValue /\ ~ Loadable(Source(b))
  /\ Uses(s, GraphOf[Source(b)])
RepairKeepsGoodSnapshots ==
  [][\A b \in Builders, s \in Snapshots :
       alone'[b] /\ Loadable(s) /\ ~ Forfeited(b, s) => Loadable(s)']_vars

(* Every build ends, however often it has to quarantine what it finds:     *)
(* each graph it takes away is one it does not look at again.              *)
BuildsEnd == \A b \in Builders : job[b].pc \in Steps ~> job[b].pc \in Resting
============================================================================
