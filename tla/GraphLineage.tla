---------------------------- MODULE GraphLineage ----------------------------
(***************************************************************************)
(* What a graph image inherits.  A build rarely starts from nothing: it    *)
(* takes the image of its content key if the cache has one, and otherwise  *)
(* copies the image of another snapshot as a seed and updates it           *)
(* (Engine::build_snapshot, copy_first_seed and base_graph in              *)
(* src/src/index.rs; index_with, replace_evidence, resolve_scip and seal   *)
(* in src/src/store.rs).                                                   *)
(*                                                                         *)
(* A tree is the supported sources of a commit or a worktree, a set of     *)
(* [path, version].  An evidence manifest attests generated outputs, each  *)
(* included by a source of the tree, and SCIP indexes.  A file has at most *)
(* one call an index can resolve, and every index that names it names a    *)
(* target of its own.  One build runs at a time: how builds race for names *)
(* is the business of SnapshotCache.                                       *)
(***************************************************************************)
EXTENDS FiniteSets

CONSTANTS
  Trees,      \* tree ids
  Sources,    \* Sources[t]: the files of tree t, a set of [path, version]
  Manifests,  \* evidence manifests
  Generated,  \* Generated[m]: the outputs m attests, a set of [path, version]
  Indexed,    \* the manifests that name a SCIP index
  Scip,       \* Scip[m]: the files with a call the index of m resolves
  Asked,      \* the snapshots callers ask for
  NoValue     \* Rust's None

ASSUME LineageAssumption ==
  /\ NoValue \notin Trees \union Manifests
  /\ Indexed \subseteq Manifests
  /\ \A t \in Trees : IsFiniteSet(Sources[t])
  /\ \A m \in Manifests : IsFiniteSet(Generated[m])

(* A tree and a manifest have one file for a path.                         *)
OnePerPath(files) == \A f, g \in files : f.path = g.path => f = g

ASSUME PathsAssumption ==
  /\ \A t \in Trees : OnePerPath(Sources[t])
  /\ \A m \in Manifests : OnePerPath(Generated[m])

(* What identifies a snapshot, and the content key of its head's image.    *)
(* The key of a source image covers the tree only; that of an evidence     *)
(* image covers its source snapshot and its manifest.                      *)
Snapshots ==
  [head : Trees, base : Trees \union {NoValue}, manifest : Manifests \union {NoValue}]
ASSUME AskedAssumption == Asked \subseteq Snapshots
SourceKey(t) == [head |-> t, base |-> NoValue, manifest |-> NoValue]
HeadKey(s) == IF s.manifest = NoValue THEN SourceKey(s.head) ELSE s
SourceOf(s) == [s EXCEPT !.manifest = NoValue]
Keys == {HeadKey(s) : s \in Snapshots}

Files ==
  UNION ({Sources[t] : t \in Trees} \union {Generated[m] : m \in Manifests})

ASSUME ScipAssumption ==
  /\ Scip \in [Manifests -> SUBSET Files]
  /\ \A m \in Manifests \ Indexed : Scip[m] = {}

VARIABLES
  images,   \* the image published under each content key, or NoValue
  entries,  \* the snapshots in the catalog
  build,    \* the build under way: its step, its snapshot, its private image
  failed    \* the build that ended last failed

vars == <<images, entries, build, failed>>

(* A call whose resolution_source is 'scip': the file it is in, and the    *)
(* manifest whose index gave the target.                                   *)
Resolution == [file : Files, by : Manifests]

(* An image: the rows of its files, the manifest its imported artifacts    *)
(* come from, and the calls resolved by SCIP.                              *)
Image ==
  [files : SUBSET Files, artifacts : Manifests \union {NoValue}, scip : SUBSET Resolution]
ASSUME ImageAssumption == NoValue \notin Image

Empty == [files |-> {}, artifacts |-> NoValue, scip |-> {}]
Idle == [step |-> "idle", snapshot |-> NoValue, image |-> NoValue]

(* Every image and snapshot is one a build can produce.                    *)
TypeOK ==
  /\ images \in [Keys -> Image \union {NoValue}]
  /\ entries \in SUBSET Snapshots
  /\ build \in [step : {"idle", "head", "base", "publish"},
                snapshot : Snapshots \union {NoValue}, image : Image \union {NoValue}]
  /\ failed \in BOOLEAN

Init ==
  /\ images = [k \in Keys |-> NoValue]
  /\ entries = {}
  /\ build = Idle
  /\ failed = FALSE

----------------------------------------------------------------------------
Paths(files) == {f.path : f \in files}

(* Mutant: only what the new graph has no file for is removed.             *)
ApplyMissing(seed, kept, replaced) ==
  LET current == kept \union replaced
      removed == {f \in seed.files : f.path \notin Paths(current)}
      changed == removed # {} \/ replaced # {}
  IN  [files |-> (seed.files \ removed) \union replaced,
       artifacts |-> seed.artifacts, scip |-> IF changed THEN {} ELSE seed.scip]

(* apply_incremental: the new graph keeps the rows of some files and       *)
(* brings those of others.  Rows of a path it brings, or does not have at  *)
(* all, are removed; if anything changed every reference is pending again  *)
(* and resolved without SCIP.  (Trees without omitted sources: a global    *)
(* gap counts as a change too.)                                            *)
Apply(seed, kept, replaced) ==
  LET removed == {f \in seed.files : f.path \notin Paths(kept)}
      changed == removed # {} \/ replaced # {}
  IN  [files |-> (seed.files \ removed) \union replaced,
       artifacts |-> seed.artifacts, scip |-> IF changed THEN {} ELSE seed.scip]

(* Store::index_with over build_index: a file whose content key and        *)
(* context are those of the seed's keeps its rows, the others are parsed.  *)
(* The imported artifacts are not touched.                                 *)
IndexWith(seed, t) == Apply(seed, Sources[t] \intersect seed.files, Sources[t] \ seed.files)

AttestedOutputs(image) ==
  IF image.artifacts = NoValue THEN {} ELSE Generated[image.artifacts]

(* resolve_scip_references: the index of m resolves the calls it names     *)
(* that are still missing or ambiguous; one resolved already keeps its     *)
(* target, whoever gave it.                                                *)
ResolveScip(image, m) ==
  LET resolved == {r.file : r \in image.scip} IN
    image.scip \union
      {[file |-> f, by |-> m] : f \in (Scip[m] \intersect image.files) \ resolved}

(* Mutant: the artifacts of the seed stay.                                 *)
ReplaceEvidenceKeeping(seed, m) ==
  LET generated == Paths(AttestedOutputs(seed) \union Generated[m])
      image == Apply(seed, {f \in seed.files : f.path \notin generated}, Generated[m])
  IN  [image EXCEPT !.artifacts = IF @ = NoValue THEN m ELSE @,
                    !.scip = ResolveScip(image, m)]

(* Store::replace_evidence and resolve_scip: the outputs attested before   *)
(* go, those of m come, and so do its artifacts.  Only a change of the     *)
(* files takes resolutions of the seed away.                               *)
ReplaceEvidence(seed, m) ==
  LET generated == Paths(AttestedOutputs(seed) \union Generated[m])
      image == Apply(seed, {f \in seed.files : f.path \notin generated}, Generated[m])
  IN  [image EXCEPT !.artifacts = m, !.scip = ResolveScip(image, m)]

(* replace_evidence refuses an output that is also a source.               *)
Conflicts(seed, m) ==
  \E f \in seed.files :
    f.path \in Paths(Generated[m]) /\ f.path \notin Paths(AttestedOutputs(seed))

(* require_evidence_invariants: every attested output has its rows, and a  *)
(* call resolved by SCIP has an index, of whatever manifest, to show for   *)
(* it.                                                                     *)
Sound(image) ==
  /\ AttestedOutputs(image) \subseteq image.files
  /\ image.scip # {} => image.artifacts \in Indexed

----------------------------------------------------------------------------
Fail == build' = Idle /\ failed' = TRUE /\ UNCHANGED <<images, entries>>

(* A build of a selection.  One with evidence needs its source snapshot in *)
(* the catalog (validate_evidence_source); a base of the head's own tree   *)
(* is no base.                                                             *)
Start(s) ==
  /\ build.step = "idle"
  /\ s.base # s.head
  /\ s.manifest # NoValue => SourceOf(s) \in entries
  /\ build' = [step |-> "head", snapshot |-> s, image |-> NoValue]
  /\ failed' = FALSE
  /\ UNCHANGED <<images, entries>>

AfterHead(s) == IF s.base = NoValue THEN "publish" ELSE "base"

HeadBuilt(image) ==
  /\ build' = [build EXCEPT !.step = AfterHead(build.snapshot), !.image = image]
  /\ UNCHANGED <<images, entries, failed>>

HeadExact ==
  /\ build.step = "head"
  /\ images[HeadKey(build.snapshot)] # NoValue
  /\ HeadBuilt(NoValue)

(* A source-only head is seeded by any snapshot of another key without     *)
(* evidence, or starts from nothing when there is none.                    *)
HeadSource ==
  LET s == build.snapshot
      candidates == {e \in entries : e.manifest = NoValue /\ HeadKey(e) # HeadKey(s)}
  IN  /\ build.step = "head"
      /\ s.manifest = NoValue
      /\ images[HeadKey(s)] = NoValue
      /\ \/ candidates = {} /\ HeadBuilt(IndexWith(Empty, s.head))
         \/ \E e \in candidates : HeadBuilt(IndexWith(images[HeadKey(e)], s.head))

(* An evidence head is seeded by its source snapshot and nothing else.     *)
HeadEvidence ==
  LET s == build.snapshot
      seed == images[SourceKey(s.head)]
      image == ReplaceEvidence(seed, s.manifest)
  IN  /\ build.step = "head"
      /\ s.manifest # NoValue
      /\ images[HeadKey(s)] = NoValue
      /\ IF seed = NoValue \/ Conflicts(seed, s.manifest) \/ ~ Sound(image)
           THEN Fail
           ELSE HeadBuilt(image)

----------------------------------------------------------------------------
BaseReady(published) ==
  /\ build' = [build EXCEPT !.step = "publish"]
  /\ images' = published
  /\ UNCHANGED <<entries, failed>>

BaseExact ==
  /\ build.step = "base"
  /\ images[SourceKey(build.snapshot.base)] # NoValue
  /\ BaseReady(images)

(* A base is seeded by any snapshot of another key, sealed and published   *)
(* under the key of its tree.                                              *)
BaseSource ==
  LET key == SourceKey(build.snapshot.base)
      candidates == {e \in entries : HeadKey(e) # key}
      Seal(image) == IF Sound(image) THEN BaseReady([images EXCEPT ![key] = image]) ELSE Fail
  IN  /\ build.step = "base"
      /\ images[key] = NoValue
      /\ \/ candidates = {} /\ Seal(IndexWith(Empty, build.snapshot.base))
         \/ \E e \in candidates :
              Seal(IndexWith(images[HeadKey(e)], build.snapshot.base))

----------------------------------------------------------------------------
(* The head's image is sealed and published, then the snapshot.            *)
Publish ==
  LET s == build.snapshot IN
    /\ build.step = "publish"
    /\ IF build.image # NoValue /\ ~ Sound(build.image)
         THEN Fail
         ELSE /\ images' = [images EXCEPT ![HeadKey(s)] =
                              IF build.image = NoValue THEN @ ELSE build.image]
              /\ entries' = entries \union {s}
              /\ build' = Idle
              /\ failed' = FALSE

(* A graph file is lost between builds, and its snapshots with it.         *)
LoseGraph(k) ==
  /\ build.step = "idle"
  /\ images[k] # NoValue
  /\ images' = [images EXCEPT ![k] = NoValue]
  /\ entries' = {e \in entries : HeadKey(e) # k /\
                   (e.base # NoValue => SourceKey(e.base) # k)}
  /\ UNCHANGED <<build, failed>>

Next ==
  \/ \E s \in Asked : Start(s)
  \/ HeadExact \/ HeadSource \/ HeadEvidence
  \/ BaseExact \/ BaseSource
  \/ Publish
  \/ \E k \in Keys : LoseGraph(k)

Spec == Init /\ [][Next]_vars

----------------------------------------------------------------------------
(* No manifest attests, byte for byte, a source of some tree.              *)
OutputsAreNotSources ==
  \A t \in Trees, m \in Manifests : Sources[t] \intersect Generated[m] = {}

(* Whatever chain of seeds an image comes from, it has the files of its    *)
(* key and no others: those of the tree, and the outputs its own manifest  *)
(* attests.  (Where an output is also committed to some tree, an image     *)
(* that inherited its attestation, see SourceImagesCarryNoEvidence, makes  *)
(* the next import drop the committed file.)                               *)
ImagesHoldTheirFiles ==
  OutputsAreNotSources =>
    \A k \in Keys : images[k] # NoValue =>
      images[k].files = Sources[k.head] \union
                          (IF k.manifest = NoValue THEN {} ELSE Generated[k.manifest])

(* An evidence image attests the manifest of its key: its artifacts are    *)
(* those of the manifest, every call the manifest's index names is         *)
(* resolved, and by that index.  The exception is the one way another      *)
(* manifest's targets come down: through a source image that was a base    *)
(* seeded by an evidence image (SourceImagesCarryNoEvidence), and only if  *)
(* neither manifest attests an output, so that no import changed a file.   *)
EvidenceIsOfTheManifest ==
  \A k \in Keys : images[k] # NoValue /\ k.manifest # NoValue =>
    LET image == images[k]
        m == k.manifest
    IN  /\ image.artifacts = m
        /\ Scip[m] \intersect image.files \subseteq {r.file : r \in image.scip}
        /\ \A r \in image.scip :
             IF r.by = m
               THEN r.file \in Scip[m]
               ELSE Generated[m] = {} /\ (OutputsAreNotSources => Generated[r.by] = {})

(* index.rs:367-369: "Evidence images carry imported artifacts and SCIP    *)
(* resolutions that a source-only image must not inherit."                 *)
SourceImagesCarryNoEvidence ==
  \A k \in Keys : images[k] # NoValue /\ k.manifest = NoValue =>
    images[k].artifacts = NoValue /\ images[k].scip = {}
============================================================================
