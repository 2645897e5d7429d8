------------------------------ MODULE BuildProofs ------------------------------
(***************************************************************************)
(* What a build leaves and what it says while it runs: proofs about        *)
(* GraphLineage, for any trees, manifests and chain of seeds, and about    *)
(* BuildProgress, for any number of files, rounds and parser threads.      *)
(*                                                                         *)
(* The invariant of the lineage needs four facts beside the properties: a  *)
(* snapshot of the catalog has its image, a published image passed the     *)
(* checks of its seal, no image has two files of one path (otherwise an    *)
(* update that goes by paths would leave a stale one), and the image under *)
(* construction is what its key says.                                      *)
(*                                                                         *)
(* In the progress two things are counted.  The numbers drawn from the     *)
(* shared index are those of the first next - 1 pending files, and each is *)
(* with exactly one thread: about to be built, or built (PartsInv).  And   *)
(* every number drawn has been counted in completed, or is in the hands of *)
(* a thread that has yet to count it or has failed (CountInv), so that the *)
(* count reaches the total when all threads have left without an error,    *)
(* and the report that closes the round falls behind none of theirs.  The  *)
(* last report of the build is a function of where it is (SentInv); with   *)
(* progress_lock held, it is one file behind the counter.                  *)
(***************************************************************************)
EXTENDS GraphLineage, BuildProgress, FiniteSetTheorems, TLAPS

(***************************************************************************)
(* The lineage of the images.                                              *)
(***************************************************************************)
Expected(k) ==
  Sources[k.head] \union (IF k.manifest = NoValue THEN {} ELSE Generated[k.manifest])

(* A call resolved by SCIP is one its index names; an index other than     *)
(* that of the key comes from an image that lost nothing and gained        *)
(* nothing on the way.                                                     *)
Inherited(image, k) ==
  \A r \in image.scip :
    /\ r.file \in Scip[r.by]
    /\ r.by # k.manifest =>
         /\ OutputsAreNotSources => Generated[r.by] = {}
         /\ k.manifest # NoValue => Generated[k.manifest] = {}

(* What an image that goes by the key k holds.                             *)
Carries(image, k) ==
  /\ OnePerPath(image.files)
  /\ OutputsAreNotSources => image.files = Expected(k)
  /\ Inherited(image, k)
  /\ k.manifest # NoValue =>
       /\ image.artifacts = k.manifest
       /\ Scip[k.manifest] \intersect image.files \subseteq {r.file : r \in image.scip}

(* What an image must be to seed another.                                  *)
Seed(image) ==
  /\ OnePerPath(image.files)
  /\ \A r \in image.scip :
       /\ r.file \in Scip[r.by]
       /\ OutputsAreNotSources => Generated[r.by] \subseteq image.files

PublishedCarry ==
  \A k \in Keys : images[k] # NoValue => Carries(images[k], k) /\ Sound(images[k])

EntriesHaveImages == \A e \in entries : images[HeadKey(e)] # NoValue

(* Between the head's image and its publication.                           *)
BuildInv ==
  /\ build.step # "idle" => build.snapshot \in Snapshots
  /\ build.step = "base" => build.snapshot.base # NoValue
  /\ build.step \in {"base", "publish"} =>
       IF build.image = NoValue
         THEN images[HeadKey(build.snapshot)] # NoValue
         ELSE Carries(build.image, HeadKey(build.snapshot))

LineageInv == TypeOK /\ PublishedCarry /\ EntriesHaveImages /\ BuildInv

----------------------------------------------------------------------------
(* The key of a head is a key, with the head's tree and manifest.          *)
LEMMA HeadKeys ==
  ASSUME NEW s \in Snapshots
  PROVE  /\ HeadKey(s) \in Keys /\ HeadKey(s) \in Snapshots
         /\ HeadKey(s).head = s.head /\ HeadKey(s).manifest = s.manifest
BY DEF HeadKey, SourceKey, Keys, Snapshots

(* The key of a tree is a key, of an image without evidence.               *)
LEMMA SourceKeys ==
  ASSUME NEW t \in Trees
  PROVE  /\ SourceKey(t) \in Keys
         /\ SourceKey(t).head = t /\ SourceKey(t).manifest = NoValue
<1>1. SourceKey(t) \in Snapshots
  BY DEF SourceKey, Snapshots
<1>2. HeadKey(SourceKey(t)) = SourceKey(t)
  BY DEF HeadKey, SourceKey
<1>3. QED
  BY <1>1, <1>2 DEF Keys, SourceKey

(* A key is a snapshot, so its tree is a tree and its manifest a manifest. *)
LEMMA KeysAreSnapshots == Keys \subseteq Snapshots
BY HeadKeys DEF Keys

(* apply_incremental leaves exactly the kept files and the replaced ones.  *)
(* It removes by path, so this needs a seed with one file per path.        *)
LEMMA ApplyResult ==
  ASSUME NEW seed \in Image, OnePerPath(seed.files),
         NEW kept, kept \subseteq seed.files,
         NEW replaced, replaced \subseteq Files
  PROVE  /\ Apply(seed, kept, replaced) \in Image
         /\ Apply(seed, kept, replaced).files = kept \union replaced
         /\ Apply(seed, kept, replaced).artifacts = seed.artifacts
         /\ Apply(seed, kept, replaced).scip \subseteq seed.scip
         /\ Apply(seed, kept, replaced).scip # {} => replaced = {} /\ kept = seed.files
<1> DEFINE removed == {f \in seed.files : f.path \notin Paths(kept)}
           image == Apply(seed, kept, replaced)
<1>1. seed.files \ removed = kept
  BY DEF OnePerPath, Paths
<1>2. /\ image.files = (seed.files \ removed) \union replaced
      /\ image.artifacts = seed.artifacts
      /\ image.scip \subseteq seed.scip
      /\ image.scip # {} => removed = {} /\ replaced = {}
      /\ image \in [files : {image.files}, artifacts : {image.artifacts}, scip : {image.scip}]
  BY DEF Apply, Image
<1>3. image.files \subseteq Files
  BY <1>1, <1>2 DEF Image
<1> HIDE DEF removed, image
<1>4. image \in Image
  <2>1. seed.artifacts \in Manifests \union {NoValue} /\ seed.scip \in SUBSET Resolution
    BY DEF Image
  <2>2. image.scip \in SUBSET Resolution
    BY <1>2, <2>1
  <2>3. QED
    BY <1>2, <1>3, <2>1, <2>2 DEF Image
<1>5. QED
  BY <1>1, <1>2, <1>4 DEF image

(* An image that goes by a key can seed any other.                         *)
LEMMA CarriedIsSeed ==
  ASSUME NEW image \in Image, NEW k \in Keys, Carries(image, k)
  PROVE  Seed(image)
<1>1. ASSUME NEW r \in image.scip, OutputsAreNotSources PROVE Generated[r.by] \subseteq image.files
  <2>1. CASE r.by # k.manifest
    BY <1>1, <2>1 DEF Carries, Inherited
  <2>2. CASE r.by = k.manifest /\ k.manifest # NoValue
    BY <1>1, <2>2 DEF Carries, Expected
  <2>3. CASE r.by = k.manifest /\ k.manifest = NoValue
    BY <1>1, <2>3, LineageAssumption DEF Image, Resolution
  <2>4. QED
    BY <2>1, <2>2, <2>3
<1>2. QED
  BY <1>1 DEF Seed, Carries, Inherited

(* Indexing a tree from any seed gives the files of the tree.              *)
LEMMA IndexWithResult ==
  ASSUME NEW seed \in Image, Seed(seed), NEW t \in Trees
  PROVE  /\ IndexWith(seed, t) \in Image
         /\ IndexWith(seed, t).files = Sources[t]
         /\ Carries(IndexWith(seed, t), SourceKey(t))
<1>1. Sources[t] \subseteq Files
  BY DEF Files
<1>2. /\ IndexWith(seed, t) \in Image
      /\ IndexWith(seed, t).files = (Sources[t] \intersect seed.files) \union (Sources[t] \ seed.files)
      /\ IndexWith(seed, t).scip \subseteq seed.scip
      /\ IndexWith(seed, t).scip # {} => Sources[t] = seed.files
  <2> DEFINE kept == Sources[t] \intersect seed.files
             replaced == Sources[t] \ seed.files
  <2>1. kept \subseteq seed.files /\ replaced \subseteq Files
    BY <1>1
  <2>2. IndexWith(seed, t) = Apply(seed, kept, replaced)
    BY DEF IndexWith
  <2>3. replaced = {} /\ kept = seed.files => Sources[t] = seed.files
    OBVIOUS
  <2>4. OnePerPath(seed.files)
    BY DEF Seed
  <2> HIDE DEF kept, replaced
  <2>5. /\ Apply(seed, kept, replaced) \in Image
        /\ Apply(seed, kept, replaced).files = kept \union replaced
        /\ Apply(seed, kept, replaced).scip \subseteq seed.scip
        /\ Apply(seed, kept, replaced).scip # {} => replaced = {} /\ kept = seed.files
    BY <2>1, <2>4, ApplyResult, Zenon
  <2>6. Apply(seed, kept, replaced).scip # {} => Sources[t] = seed.files
    BY <2>3, <2>5
  <2> QED
    BY <2>2, <2>5, <2>6, Zenon DEF kept, replaced
<1>3. IndexWith(seed, t).files = Sources[t]
  BY <1>2
<1>4. Inherited(IndexWith(seed, t), SourceKey(t))
  <2>1. SUFFICES ASSUME NEW r \in IndexWith(seed, t).scip
                 PROVE  /\ r.file \in Scip[r.by]
                        /\ OutputsAreNotSources => Generated[r.by] = {}
    BY SourceKeys DEF Inherited
  <2>2. r \in seed.scip /\ Sources[t] = seed.files
    BY <1>2, <2>1
  <2>3. r.by \in Manifests
    BY <2>2 DEF Image, Resolution
  <2>4. r.file \in Scip[r.by] /\ (OutputsAreNotSources => Generated[r.by] \subseteq Sources[t])
    BY <2>2 DEF Seed
  <2>5. QED
    BY <2>3, <2>4 DEF OutputsAreNotSources
<1>5. QED
  BY <1>2, <1>3, <1>4, SourceKeys, PathsAssumption DEF Carries, Expected

(* An empty database is a seed too.                                        *)
LEMMA EmptySeed == Empty \in Image /\ Seed(Empty)
BY DEF Empty, Image, Seed, OnePerPath

(* Importing a manifest into the image of its source snapshot gives the    *)
(* tree's files and the manifest's, and no other manifest's artifacts.     *)
LEMMA ReplaceEvidenceResult ==
  ASSUME NEW s \in Snapshots, s.manifest # NoValue,
         NEW seed \in Image, Carries(seed, SourceKey(s.head)), Sound(seed),
         ~ Conflicts(seed, s.manifest)
  PROVE  /\ ReplaceEvidence(seed, s.manifest) \in Image
         /\ Carries(ReplaceEvidence(seed, s.manifest), s)
<1> DEFINE m == s.manifest
           old == AttestedOutputs(seed)
           kept == {f \in seed.files : f.path \notin Paths(old \union Generated[m])}
           applied == Apply(seed, kept, Generated[m])
           image == ReplaceEvidence(seed, m)
<1>1. m \in Manifests /\ s.head \in Trees
  BY DEF Snapshots
<1>2. Generated[m] \subseteq Files
  BY <1>1 DEF Files
<1>3. OnePerPath(seed.files)
  BY DEF Carries
<1>4. /\ applied \in Image /\ applied.files = kept \union Generated[m]
      /\ applied.scip \subseteq seed.scip
      /\ applied.scip # {} => Generated[m] = {}
  <2> DEFINE replaced == Generated[m]
  <2>1. kept \subseteq seed.files /\ replaced \subseteq Files
    BY <1>2
  <2>2. applied = Apply(seed, kept, replaced)
    OBVIOUS
  <2> HIDE DEF kept, replaced, applied
  <2>3. /\ Apply(seed, kept, replaced) \in Image
        /\ Apply(seed, kept, replaced).files = kept \union replaced
        /\ Apply(seed, kept, replaced).scip \subseteq seed.scip
        /\ Apply(seed, kept, replaced).scip # {} => replaced = {} /\ kept = seed.files
    BY <1>3, <2>1, ApplyResult, Zenon
  <2>4. QED
    BY <2>2, <2>3, Zenon DEF replaced
<1>5. image = [applied EXCEPT !.artifacts = m, !.scip = ResolveScip(applied, m)]
  BY DEF ReplaceEvidence
<1> HIDE DEF applied, image
<1>6. /\ image \in Image /\ image.files = applied.files /\ image.artifacts = m
      /\ image.scip = ResolveScip(applied, m)
  <2>1. Scip[m] \subseteq Files
    BY <1>1, ScipAssumption
  <2>2. ResolveScip(applied, m) \in SUBSET Resolution
    BY <1>1, <1>4, <2>1 DEF ResolveScip, Image, Resolution
  <2>3. QED
    BY <1>1, <1>4, <1>5, <2>2 DEF Image
<1>7. OnePerPath(kept \union Generated[m])
  <2>1. OnePerPath(Generated[m])
    BY <1>1, PathsAssumption
  <2>2. \A f \in kept, g \in Generated[m] : f.path # g.path
    BY DEF Paths
  <2>3. QED
    BY <1>3, <2>1, <2>2 DEF OnePerPath
<1>8. OutputsAreNotSources => kept = Sources[s.head]
  <2>1. SUFFICES ASSUME OutputsAreNotSources PROVE kept = Sources[s.head]
    OBVIOUS
  <2>2. seed.files = Sources[s.head]
    BY <1>1, <2>1, SourceKeys DEF Carries, Expected
  <2>3. old = {}
    <3>1. old \subseteq seed.files
      BY DEF Sound
    <3>2. seed.artifacts \in Manifests \union {NoValue}
      BY DEF Image
    <3>3. QED
      BY <1>1, <2>1, <2>2, <3>1, <3>2 DEF AttestedOutputs, OutputsAreNotSources
  <2>4. \A f \in seed.files : f.path \notin Paths(Generated[m])
    <3>1. Paths(old) = {}
      BY <2>3 DEF Paths
    <3>2. QED
      BY <3>1 DEF Conflicts
  <2>5. QED
    BY <2>2, <2>3, <2>4
<1>9. OutputsAreNotSources => image.files = Expected(s)
  BY <1>4, <1>6, <1>8 DEF Expected
<1>10. Scip[m] \intersect image.files \subseteq {r.file : r \in image.scip}
  <2>1. SUFFICES ASSUME NEW f \in Scip[m] \intersect applied.files
                 PROVE  \E r \in ResolveScip(applied, m) : r.file = f
    BY <1>6
  <2>2. CASE f \in {r.file : r \in applied.scip}
    BY <2>2 DEF ResolveScip
  <2>3. CASE f \notin {r.file : r \in applied.scip}
    <3>1. [file |-> f, by |-> m] \in ResolveScip(applied, m)
      BY <2>1, <2>3 DEF ResolveScip
    <3>2. QED
      BY <3>1
  <2>4. QED
    BY <2>2, <2>3
<1>11. Inherited(image, s)
  <2>1. SUFFICES ASSUME NEW r \in image.scip
                 PROVE  /\ r.file \in Scip[r.by]
                        /\ r.by # m =>
                             /\ OutputsAreNotSources => Generated[r.by] = {}
                             /\ Generated[m] = {}
    BY DEF Inherited
  <2>2. CASE r \in applied.scip
    <3>1. r \in seed.scip /\ Generated[m] = {}
      BY <1>4, <2>2
    <3>2. r.by # NoValue
      BY <3>1, LineageAssumption DEF Image, Resolution
    <3>3. QED
      BY <1>1, <3>1, <3>2, SourceKeys DEF Carries, Inherited
  <2>3. CASE r \notin applied.scip
    BY <1>6, <2>1, <2>3 DEF ResolveScip
  <2>4. QED
    BY <2>2, <2>3
<1>12. QED
  BY <1>4, <1>6, <1>7, <1>9, <1>10, <1>11 DEF Carries, image

----------------------------------------------------------------------------
(* The empty cache.                                                        *)
LEMMA InitInv == Init => LineageInv
<1> SUFFICES ASSUME Init PROVE LineageInv
  OBVIOUS
<1>1. /\ build.step = "idle" /\ build.image = NoValue
      /\ build \in [step : {"idle", "head", "base", "publish"},
                   snapshot : Snapshots \union {NoValue}, image : Image \union {NoValue}]
  BY DEF Init, Idle
<1>2. TypeOK
  BY <1>1 DEF Init, TypeOK
<1>3. \A k \in Keys : images[k] = NoValue
  BY DEF Init
<1>4. QED
  BY <1>1, <1>2, <1>3 DEF Init, LineageInv, PublishedCarry, EntriesHaveImages, BuildInv

(* A failed build leaves the cache as it was.                              *)
LEMMA FailInv == LineageInv /\ Fail => LineageInv'
<1> SUFFICES ASSUME LineageInv, Fail PROVE LineageInv'
  OBVIOUS
<1>1. /\ build'.step = "idle" /\ build'.image = NoValue
      /\ build' \in [step : {"idle", "head", "base", "publish"},
                    snapshot : Snapshots \union {NoValue}, image : Image \union {NoValue}]
  BY DEF Fail, Idle
<1>2. TypeOK'
  BY <1>1 DEF Fail, LineageInv, TypeOK
<1>3. QED
  BY <1>1, <1>2 DEF Fail, LineageInv, PublishedCarry, EntriesHaveImages, BuildInv

(* The image of a snapshot in the catalog can be a seed.                   *)
LEMMA Seeds ==
  ASSUME LineageInv, NEW e \in entries
  PROVE  images[HeadKey(e)] \in Image /\ Seed(images[HeadKey(e)])
<1>1. e \in Snapshots
  BY DEF LineageInv, TypeOK
<1>2. HeadKey(e) \in Keys
  BY <1>1, HeadKeys
<1>3. images[HeadKey(e)] # NoValue
  BY DEF LineageInv, EntriesHaveImages
<1>4. images[HeadKey(e)] \in Image /\ Carries(images[HeadKey(e)], HeadKey(e))
  BY <1>2, <1>3 DEF LineageInv, TypeOK, PublishedCarry
<1>5. QED
  BY <1>2, <1>4, CarriedIsSeed

----------------------------------------------------------------------------
(* A build starts.                                                         *)
LEMMA StartInv == ASSUME LineageInv, NEW s \in Snapshots, Start(s) PROVE LineageInv'
<1>1. build' = [step |-> "head", snapshot |-> s, image |-> NoValue]
  BY DEF Start
<1>2. TypeOK'
  <2>1. build' \in [step : {"idle", "head", "base", "publish"},
                   snapshot : Snapshots \union {NoValue}, image : Image \union {NoValue}]
    BY <1>1
  <2>2. QED
    BY <2>1 DEF Start, LineageInv, TypeOK
<1>3. QED
  BY <1>1, <1>2 DEF Start, LineageInv, PublishedCarry, EntriesHaveImages, BuildInv

(* A head that is what its key says goes on to the base or to publication. *)
LEMMA HeadBuiltInv ==
  ASSUME LineageInv, build.step = "head",
         NEW image \in Image, Carries(image, HeadKey(build.snapshot)), HeadBuilt(image)
  PROVE  LineageInv'
<1>1. build.snapshot \in Snapshots
  BY DEF LineageInv, BuildInv
<1>2. /\ build'.snapshot = build.snapshot /\ build'.image = image
      /\ build'.step = AfterHead(build.snapshot)
      /\ build' \in [step : {"idle", "head", "base", "publish"},
                    snapshot : Snapshots \union {NoValue}, image : Image \union {NoValue}]
  BY <1>1 DEF HeadBuilt, LineageInv, TypeOK, AfterHead
<1>3. TypeOK'
  BY <1>2 DEF HeadBuilt, LineageInv, TypeOK
<1>4. BuildInv'
  BY <1>1, <1>2, ImageAssumption DEF BuildInv, AfterHead
<1>5. QED
  BY <1>3, <1>4 DEF HeadBuilt, LineageInv, PublishedCarry, EntriesHaveImages

(* The head's image is in the cache.                                       *)
LEMMA HeadExactInv == LineageInv /\ HeadExact => LineageInv'
<1> SUFFICES ASSUME LineageInv, HeadExact PROVE LineageInv'
  OBVIOUS
<1>1. build.snapshot \in Snapshots
  BY DEF LineageInv, BuildInv, HeadExact
<1>2. /\ build'.snapshot = build.snapshot /\ build'.image = NoValue
      /\ build'.step = AfterHead(build.snapshot)
      /\ build' \in [step : {"idle", "head", "base", "publish"},
                    snapshot : Snapshots \union {NoValue}, image : Image \union {NoValue}]
  BY <1>1 DEF HeadExact, HeadBuilt, LineageInv, TypeOK, AfterHead
<1>3. TypeOK'
  BY <1>2 DEF HeadExact, HeadBuilt, LineageInv, TypeOK
<1>4. images' = images /\ images[HeadKey(build.snapshot)] # NoValue
  BY DEF HeadExact, HeadBuilt
<1>5. BuildInv'
  BY <1>1, <1>2, <1>4 DEF BuildInv, AfterHead
<1>6. QED
  BY <1>3, <1>5 DEF HeadExact, HeadBuilt, LineageInv, PublishedCarry, EntriesHaveImages

(* A source-only head is indexed from a seed or from nothing.              *)
LEMMA HeadSourceInv == LineageInv /\ HeadSource => LineageInv'
<1> SUFFICES ASSUME LineageInv, HeadSource PROVE LineageInv'
  OBVIOUS
<1> DEFINE s == build.snapshot
<1>1. s \in Snapshots /\ s.manifest = NoValue /\ build.step = "head"
  BY DEF LineageInv, BuildInv, HeadSource
<1>2. HeadKey(s) = SourceKey(s.head) /\ s.head \in Trees
  BY <1>1 DEF HeadKey, Snapshots
<1>3. PICK seed : seed \in Image /\ Seed(seed) /\ HeadBuilt(IndexWith(seed, s.head))
  <2>1. CASE HeadBuilt(IndexWith(Empty, s.head))
    BY <2>1, EmptySeed
  <2>2. CASE \E e \in entries : HeadBuilt(IndexWith(images[HeadKey(e)], s.head))
    BY <2>2, Seeds
  <2>3. QED
    BY <2>1, <2>2 DEF HeadSource
<1>4. /\ IndexWith(seed, s.head) \in Image
      /\ Carries(IndexWith(seed, s.head), HeadKey(s))
  BY <1>2, <1>3, IndexWithResult
<1>5. QED
  BY <1>1, <1>3, <1>4, HeadBuiltInv

(* An evidence head is its source snapshot's image with the manifest's     *)
(* evidence.                                                               *)
LEMMA HeadEvidenceInv == LineageInv /\ HeadEvidence => LineageInv'
<1> SUFFICES ASSUME LineageInv, HeadEvidence PROVE LineageInv'
  OBVIOUS
<1> DEFINE s == build.snapshot
           seed == images[SourceKey(s.head)]
           image == ReplaceEvidence(seed, s.manifest)
<1>1. s \in Snapshots /\ s.manifest # NoValue /\ build.step = "head"
  BY DEF LineageInv, BuildInv, HeadEvidence
<1>2. CASE Fail
  BY <1>2, FailInv
<1>3. CASE seed # NoValue /\ ~ Conflicts(seed, s.manifest) /\ HeadBuilt(image)
  <2>1. s.head \in Trees
    BY <1>1 DEF Snapshots
  <2>2. SourceKey(s.head) \in Keys
    BY <2>1, SourceKeys
  <2>3. seed \in Image /\ Carries(seed, SourceKey(s.head)) /\ Sound(seed)
    BY <1>3, <2>2 DEF LineageInv, TypeOK, PublishedCarry
  <2>4. image \in Image /\ Carries(image, s)
    BY <1>1, <1>3, <2>3, ReplaceEvidenceResult
  <2>5. HeadKey(s) = s
    BY <1>1 DEF HeadKey
  <2>6. QED
    BY <1>1, <1>3, <2>4, <2>5, HeadBuiltInv
<1>4. QED
  BY <1>2, <1>3 DEF HeadEvidence

----------------------------------------------------------------------------
(* A sealed image under a key it fits may be published.                    *)
LEMMA PublishedWith ==
  ASSUME LineageInv, NEW k \in Keys, NEW image \in Image, Carries(image, k), Sound(image),
         images' = [images EXCEPT ![k] = image]
  PROVE  /\ images' \in [Keys -> Image \union {NoValue}]
         /\ PublishedCarry'
         /\ \A j \in Keys : images[j] # NoValue => images'[j] # NoValue
         /\ images'[k] # NoValue
<1>1. images \in [Keys -> Image \union {NoValue}]
  BY DEF LineageInv, TypeOK
<1>2. \A j \in Keys : images'[j] = IF j = k THEN image ELSE images[j]
  BY <1>1
<1>3. image # NoValue
  BY ImageAssumption
<1>4. QED
  BY <1>1, <1>2, <1>3 DEF LineageInv, PublishedCarry

(* The base's image is in the cache.                                       *)
LEMMA BaseExactInv == LineageInv /\ BaseExact => LineageInv'
<1> SUFFICES ASSUME LineageInv, BaseExact PROVE LineageInv'
  OBVIOUS
<1>1. /\ build'.snapshot = build.snapshot /\ build'.image = build.image
      /\ build'.step = "publish" /\ images' = images /\ entries' = entries
  BY DEF BaseExact, BaseReady, LineageInv, TypeOK
<1>2. TypeOK'
  BY DEF BaseExact, BaseReady, LineageInv, TypeOK
<1>3. BuildInv'
  BY <1>1 DEF BaseExact, LineageInv, BuildInv
<1>4. QED
  BY <1>1, <1>2, <1>3 DEF LineageInv, PublishedCarry, EntriesHaveImages

(* The base is indexed, sealed and published.                              *)
LEMMA BaseSourceInv == LineageInv /\ BaseSource => LineageInv'
<1> SUFFICES ASSUME LineageInv, BaseSource PROVE LineageInv'
  OBVIOUS
<1> DEFINE s == build.snapshot
           key == SourceKey(s.base)
<1>1. s \in Snapshots /\ s.base \in Trees /\ build.step = "base"
  BY DEF LineageInv, BuildInv, BaseSource, Snapshots
<1>2. CASE Fail
  BY <1>2, FailInv
<1>3. ASSUME NEW seed \in Image, Seed(seed), Sound(IndexWith(seed, s.base)),
             BaseReady([images EXCEPT ![key] = IndexWith(seed, s.base)])
      PROVE  LineageInv'
  <2>1. /\ IndexWith(seed, s.base) \in Image
        /\ Carries(IndexWith(seed, s.base), key)
    BY <1>1, <1>3, IndexWithResult
  <2>2. key \in Keys
    BY <1>1, SourceKeys
  <2>3. images' = [images EXCEPT ![key] = IndexWith(seed, s.base)]
    BY <1>3 DEF BaseReady
  <2>4. /\ images' \in [Keys -> Image \union {NoValue}]
        /\ PublishedCarry'
        /\ \A j \in Keys : images[j] # NoValue => images'[j] # NoValue
    BY <1>3, <2>1, <2>2, <2>3, PublishedWith
  <2>5. /\ build'.snapshot = s /\ build'.image = build.image /\ build'.step = "publish"
        /\ build' \in [step : {"idle", "head", "base", "publish"},
                      snapshot : Snapshots \union {NoValue}, image : Image \union {NoValue}]
        /\ entries' = entries /\ failed' = failed
    BY <1>3 DEF BaseReady, LineageInv, TypeOK
  <2>6. TypeOK'
    BY <2>4, <2>5 DEF LineageInv, TypeOK
  <2>7. \A e \in Snapshots : HeadKey(e) \in Keys
    BY HeadKeys
  <2>8. EntriesHaveImages'
    BY <2>4, <2>5, <2>7 DEF LineageInv, TypeOK, EntriesHaveImages
  <2>9. BuildInv'
    BY <1>1, <2>4, <2>5, <2>7 DEF LineageInv, BuildInv
  <2>10. QED
    BY <2>4, <2>6, <2>8, <2>9 DEF LineageInv
<1>4. PICK seed : /\ seed \in Image /\ Seed(seed)
                  /\ IF Sound(IndexWith(seed, s.base))
                       THEN BaseReady([images EXCEPT ![key] = IndexWith(seed, s.base)])
                       ELSE Fail
  <2>1. CASE IF Sound(IndexWith(Empty, s.base))
               THEN BaseReady([images EXCEPT ![key] = IndexWith(Empty, s.base)])
               ELSE Fail
    BY <2>1, EmptySeed
  <2>2. CASE \E e \in entries :
               IF Sound(IndexWith(images[HeadKey(e)], s.base))
                 THEN BaseReady([images EXCEPT ![key] = IndexWith(images[HeadKey(e)], s.base)])
                 ELSE Fail
    BY <2>2, Seeds
  <2>3. QED
    BY <2>1, <2>2 DEF BaseSource
<1>5. QED
  BY <1>2, <1>3, <1>4

----------------------------------------------------------------------------
(* The head's image and the snapshot are published.                        *)
LEMMA PublishInv == LineageInv /\ Publish => LineageInv'
<1> SUFFICES ASSUME LineageInv, Publish PROVE LineageInv'
  OBVIOUS
<1> DEFINE s == build.snapshot
           key == HeadKey(s)
           image == IF build.image = NoValue THEN images[key] ELSE build.image
<1>1. s \in Snapshots /\ build.step = "publish"
  BY DEF LineageInv, BuildInv, Publish
<1>2. key \in Keys /\ \A e \in Snapshots : HeadKey(e) \in Keys
  BY <1>1, HeadKeys
<1>3. CASE Fail
  BY <1>3, FailInv
<1>4. CASE /\ build.image = NoValue \/ Sound(build.image)
           /\ images' = [images EXCEPT ![key] = image]
           /\ entries' = entries \union {s} /\ build' = Idle /\ failed' = FALSE
  <2>1. image \in Image /\ Carries(image, key) /\ Sound(image)
    BY <1>1, <1>2, <1>4 DEF LineageInv, TypeOK, PublishedCarry, BuildInv
  <2> HIDE DEF image, key
  <2>2. /\ images' \in [Keys -> Image \union {NoValue}]
        /\ PublishedCarry'
        /\ \A j \in Keys : images[j] # NoValue => images'[j] # NoValue
        /\ images'[key] # NoValue
    BY <1>2, <1>4, <2>1, PublishedWith
  <2>3. /\ build'.step = "idle" /\ build'.image = NoValue
        /\ build' \in [step : {"idle", "head", "base", "publish"},
                      snapshot : Snapshots \union {NoValue}, image : Image \union {NoValue}]
    BY <1>4 DEF Idle
  <2>4. TypeOK'
    BY <1>1, <1>4, <2>2, <2>3 DEF LineageInv, TypeOK
  <2>5. EntriesHaveImages'
    BY <1>2, <1>4, <2>2 DEF LineageInv, TypeOK, EntriesHaveImages, key
  <2>6. BuildInv'
    BY <2>3 DEF BuildInv
  <2>7. QED
    BY <2>2, <2>4, <2>5, <2>6 DEF LineageInv
<1>5. QED
  <2>1. images \in [Keys -> Image \union {NoValue}]
    BY DEF LineageInv, TypeOK
  <2>2. QED
    BY <1>3, <1>4, <2>1 DEF Publish

(* A graph is lost, and the snapshots that name it.                        *)
LEMMA LoseGraphInv == ASSUME LineageInv, NEW k \in Keys, LoseGraph(k) PROVE LineageInv'
<1>1. images \in [Keys -> Image \union {NoValue}] /\ entries \subseteq Snapshots
  BY DEF LineageInv, TypeOK
<1>2. /\ images' \in [Keys -> Image \union {NoValue}]
      /\ \A j \in Keys : images'[j] = IF j = k THEN NoValue ELSE images[j]
  BY <1>1 DEF LoseGraph
<1>3. \A e \in entries' : e \in entries /\ HeadKey(e) # k /\ HeadKey(e) \in Keys
  BY <1>1, HeadKeys DEF LoseGraph
<1>4. TypeOK'
  BY <1>1, <1>2, <1>3 DEF LoseGraph, LineageInv, TypeOK
<1>5. PublishedCarry'
  BY <1>2 DEF LineageInv, PublishedCarry
<1>6. EntriesHaveImages'
  BY <1>2, <1>3 DEF LineageInv, EntriesHaveImages
<1>7. BuildInv'
  BY DEF LoseGraph, LineageInv, BuildInv
<1>8. QED
  BY <1>4, <1>5, <1>6, <1>7 DEF LineageInv

(* Every step preserves the invariant.                                     *)
LEMMA StepInv == LineageInv /\ [Next]_vars => LineageInv'
<1> SUFFICES ASSUME LineageInv, [Next]_vars PROVE LineageInv'
  OBVIOUS
<1>1. ASSUME NEW s \in Asked, Start(s) PROVE LineageInv'
  BY <1>1, StartInv, AskedAssumption
<1>2. CASE HeadExact \/ HeadSource \/ HeadEvidence
  BY <1>2, HeadExactInv, HeadSourceInv, HeadEvidenceInv
<1>3. CASE BaseExact \/ BaseSource
  BY <1>3, BaseExactInv, BaseSourceInv
<1>4. CASE Publish
  BY <1>4, PublishInv
<1>5. ASSUME NEW k \in Keys, LoseGraph(k) PROVE LineageInv'
  BY <1>5, LoseGraphInv
<1>6. CASE UNCHANGED vars
  BY <1>6 DEF vars, LineageInv, TypeOK, PublishedCarry, EntriesHaveImages, BuildInv
<1>7. QED
  BY <1>1, <1>2, <1>3, <1>4, <1>5, <1>6 DEF Next

(* The invariant holds of every reachable state.                           *)
THEOREM LineageInvariant == Spec => []LineageInv
BY InitInv, StepInv, PTL DEF Spec

(* Every image and snapshot is one a build can produce.                    *)
THEOREM LineageIsTyped == Spec => []TypeOK
<1>1. LineageInv => TypeOK
  BY DEF LineageInv
<1>2. QED
  BY <1>1, LineageInvariant, PTL

(* An image has the files of its key and no others, for any chain of seeds *)
(* (index_with and replace_evidence in store.rs).                          *)
THEOREM FilesAreTheKeys == Spec => []ImagesHoldTheirFiles
<1>1. LineageInv => ImagesHoldTheirFiles
  BY DEF LineageInv, PublishedCarry, Carries, Expected, ImagesHoldTheirFiles
<1>2. QED
  BY <1>1, LineageInvariant, PTL

(* An evidence image has its own manifest's artifacts and all its          *)
(* resolutions, and another manifest's resolutions only if neither attests *)
(* an output (replace_evidence and resolve_scip_references in store.rs).   *)
THEOREM EvidenceIsOwn == Spec => []EvidenceIsOfTheManifest
<1>1. LineageInv => EvidenceIsOfTheManifest
  BY DEF LineageInv, PublishedCarry, Carries, Inherited, EvidenceIsOfTheManifest
<1>2. QED
  BY <1>1, LineageInvariant, PTL

(***************************************************************************)
(* The invariant.                                                          *)
(***************************************************************************)
(* The first n files of a row that are reused.                             *)
Reused(row, n) == {i \in 1 .. n : row[i] = "reused"}

(* Where a round is: what is left for the parser threads are the files the *)
(* loop has passed and not reused, each once.                              *)
LoopInv ==
  /\ phase \in {"captured", "seeded"} => round = 1
  /\ phase \in {"reuse", "parse", "joined"} =>
       /\ ~ exact[round]
       /\ reusing <= Total(round) + 1
       /\ phase # "reuse" => reusing = Total(round) + 1
       /\ {pending[k] : k \in 1 .. Len(pending)} =
            {i \in 1 .. reusing - 1 : fate[round][i] # "reused"}
       /\ \A j, k \in 1 .. Len(pending) : pending[j] = pending[k] => j = k
       /\ Len(pending) + Cardinality(Reused(fate[round], reusing - 1)) = reusing - 1

(* Threads move while they are joined; one that moves is of the crew.      *)
CrewInv ==
  /\ phase \in {"parse", "joined"} => crew # {}
  /\ phase = "joined" => \A w \in crew : worker[w] = "out"
  /\ \A w \in Workers :
       /\ worker[w] # "out" => w \in crew
       /\ phase # "parse" => worker[w] \in {"out", "error"}
       /\ (taken[w] # None) <=> (worker[w] = "build")
       /\ (lock = w) <=> (worker[w] = "report")
       /\ worker[w] = "report" => done[w] = completed

(* The files whose number in pending a thread has drawn.                   *)
Drawn == {pending[k] : k \in {j \in 1 .. Len(pending) : j < next}}
Parsing == phase \in {"parse", "joined"}

(* Each is with one thread, unless it has failed one.                      *)
PartsInv ==
  /\ \A v, w \in crew : v # w =>
       /\ parts[v] \intersect parts[w] = {}
       /\ taken[v] # None => taken[v] # taken[w] /\ taken[v] \notin parts[w]
  /\ Parsing => \A w \in crew :
       /\ parts[w] \subseteq Drawn
       /\ taken[w] # None => taken[w] \in Drawn
       /\ \A i \in parts[w] : fate[round][i] # "error"
       /\ worker[w] = "out" => next > Len(pending)
  /\ Parsing /\ (\A w \in crew : worker[w] # "error") =>
       Drawn \subseteq (UNION {parts[w] : w \in crew}) \union {taken[w] : w \in crew}

(* Every number drawn is counted, or with a thread.                        *)
InHand == {w \in crew : worker[w] \in {"build", "lock", "error"}}
Gone == {w \in crew : worker[w] = "out"}
CountInv ==
  Parsing =>
    /\ completed + Cardinality(InHand) =
         With(round, "reused") + (IF next <= Len(pending) THEN next - 1 ELSE Len(pending))
    /\ next - 1 <= Len(pending) + Cardinality(Gone)

(* What the build has said.                                                *)
Sums(stage) == Report(stage, sums.done, sums.done, sums.reused, sums.parsed)
Counted(d, reused) ==
  Report("indexing", sums.done + d, sums.done + Total(round), sums.reused + reused,
         sums.parsed + (d - reused))
Reported == IF lock = None THEN completed ELSE completed - 1
SentInv ==
  /\ phase = "captured" => sent = NoReport
  /\ phase = "seeded" => sent = Report("capturing", Total(1), Total(1), 0, 0)
  /\ phase \in {"captured", "seeded"} => sums = [done |-> 0, reused |-> 0, parsed |-> 0]
  /\ phase = "start" =>
       \/ /\ sent = Report("selecting_seed", 0, Total(round), 0, 0)
          /\ sums = [done |-> 0, reused |-> 0, parsed |-> 0]
       \/ sent = Sums("indexing")
  /\ phase = "reuse" =>
       sent = Counted(Cardinality(Reused(fate[round], reusing - 1)),
                      Cardinality(Reused(fate[round], reusing - 1)))
  /\ Parsing => /\ Reported >= With(round, "reused")
                /\ sent = Counted(Reported, With(round, "reused"))
  /\ phase = "indexed" => sent = Sums("indexing")
  /\ phase = "resolved" => sent = Sums("resolving_graph")
  /\ phase = "published" => sent = Sums("publishing")

IInv ==
  /\ TypesOfProgress /\ LoopInv /\ CrewInv /\ PartsInv /\ CountInv /\ SentInv
  /\ EveryReportIsShown


(***************************************************************************)
(* Files, and how many are reused.                                         *)
(***************************************************************************)

(* A round has files, each with what becomes of it.                        *)
LEMMA RowIs ==
  ASSUME TypesOfProgress, NEW r \in 1 .. Rounds
  PROVE  /\ Total(r) \in 0 .. MaxFiles
         /\ fate[r] \in [1 .. Total(r) -> Fates]
<1>1. fate[r] \in Rows
  BY DEF TypesOfProgress
<1>2. PICK n \in 0 .. MaxFiles : fate[r] \in [1 .. n -> Fates]
  BY <1>1 DEF Rows
<1>3. n \in Nat
  BY ProgressAssumption
<1>4. Len(fate[r]) = n
  BY <1>2, <1>3
<1> QED
  BY <1>2, <1>4 DEF Total

(* One file further, the count of reused ones is one more or the same.     *)
LEMMA ReusedIs ==
  ASSUME NEW row, NEW n \in Nat
  PROVE  /\ IsFiniteSet(Reused(row, n))
         /\ Cardinality(Reused(row, n)) \in 0 .. n
         /\ Cardinality(Reused(row, 0)) = 0
         /\ row[n + 1] = "reused" =>
              Cardinality(Reused(row, n + 1)) = Cardinality(Reused(row, n)) + 1
         /\ row[n + 1] # "reused" => Reused(row, n + 1) = Reused(row, n)
<1>1. IsFiniteSet(1 .. n) /\ Cardinality(1 .. n) = n
  BY FS_Interval
<1>2. Reused(row, n) \subseteq 1 .. n
  BY DEF Reused
<1>3. IsFiniteSet(Reused(row, n)) /\ Cardinality(Reused(row, n)) <= n
  BY <1>1, <1>2, FS_Subset
<1>4. Cardinality(Reused(row, n)) \in Nat
  BY <1>3, FS_CardinalityType
<1>5. Reused(row, 0) = {}
  BY DEF Reused
<1>6. Cardinality(Reused(row, 0)) = 0
  BY <1>5, FS_EmptySet
<1>7. ASSUME row[n + 1] = "reused"
      PROVE  Cardinality(Reused(row, n + 1)) = Cardinality(Reused(row, n)) + 1
  <2>1. Reused(row, n + 1) = Reused(row, n) \union {n + 1} /\ n + 1 \notin Reused(row, n)
    BY <1>7 DEF Reused
  <2> QED
    BY <1>3, <2>1, FS_AddElement
<1>8. row[n + 1] # "reused" => Reused(row, n + 1) = Reused(row, n)
  BY DEF Reused
<1> QED
  BY <1>3, <1>4, <1>6, <1>7, <1>8

(* The files reused by the end of the loop are all of them.                *)
LEMMA WithIs ==
  ASSUME TypesOfProgress, NEW r \in 1 .. Rounds
  PROVE  /\ With(r, "reused") = Cardinality(Reused(fate[r], Total(r)))
         /\ With(r, "reused") \in 0 .. Total(r)
<1>1. Total(r) \in Nat
  BY RowIs, ProgressAssumption
<1>2. With(r, "reused") = Cardinality(Reused(fate[r], Total(r)))
  BY DEF With, Reused
<1> QED
  BY <1>1, <1>2, ReusedIs

(***************************************************************************)
(* Reports.                                                                *)
(***************************************************************************)

(* JobReporter::report, field by field.                                    *)
LEMMA FollowsIs ==
  ASSUME NEW s \in Stages, NEW t \in Stages, NEW d, NEW n, NEW u, NEW p,
         NEW e, NEW m, NEW v, NEW q
  PROVE  Follows(Report(s, d, n, u, p), Report(t, e, m, v, q)) <=>
           /\ Rank[t] \in {Rank[s], Rank[s] + 1}
           /\ \/ s = "capturing" /\ t = "selecting_seed"
              \/ e >= d /\ m >= n /\ v >= u /\ q >= p
<1>1. /\ Report(s, d, n, u, p).stage = s /\ Report(t, e, m, v, q).stage = t
      /\ Report(s, d, n, u, p)["done"] = d /\ Report(t, e, m, v, q)["done"] = e
      /\ Report(s, d, n, u, p)["total"] = n /\ Report(t, e, m, v, q)["total"] = m
      /\ Report(s, d, n, u, p)["reused"] = u /\ Report(t, e, m, v, q)["reused"] = v
      /\ Report(s, d, n, u, p)["parsed"] = p /\ Report(t, e, m, v, q)["parsed"] = q
  BY DEF Report
<1> QED
  BY <1>1 DEF Follows

(* stage_rank.                                                             *)
LEMMA RankIs ==
  /\ Rank["capturing"] = 0 /\ Rank["selecting_seed"] = 1 /\ Rank["indexing"] = 2
  /\ Rank["resolving_graph"] = 3 /\ Rank["publishing"] = 4
BY DEF Rank, Stages

(* A report that follows the last one is shown, if that one was.           *)
LEMMA ReportIsShown ==
  ASSUME EveryReportIsShown, NEW r, Send(r), UNCHANGED inputVars,
         ~ Skips => Follows(sent, r)
  PROVE  EveryReportIsShown'
<1>1. sent' = r /\ shown' = IF Follows(shown, r) THEN r ELSE shown
  BY DEF Send
<1>2. Skips' = Skips
  BY DEF Skips, With, Total, inputVars
<1> QED
  BY <1>1, <1>2 DEF EveryReportIsShown

(* So it is when nothing is said.                                          *)
LEMMA SilenceIsShown ==
  ASSUME EveryReportIsShown, UNCHANGED <<inputVars, sent, shown>>
  PROVE  EveryReportIsShown'
<1>1. Skips' = Skips
  BY DEF Skips, With, Total, inputVars
<1> QED
  BY <1>1 DEF EveryReportIsShown


Reports == [stage : Stages, done : Nat, total : Nat, reused : Nat, parsed : Nat]

LEMMA FurtherSums ==
  ASSUME NEW d \in Nat, NEW c \in Nat, NEW total \in Nat, NEW reused \in Nat,
         NEW parsed \in Nat, NEW u \in Nat
  PROVE  /\ d + c >= d + (c - 1) /\ d + total >= d + total
         /\ reused + u >= reused + u
         /\ parsed + (c - u) >= parsed + ((c - 1) - u)
OBVIOUS

(* The sums one more file reused leaves no smaller.                        *)
LEMMA ReusedSums ==
  ASSUME NEW d \in Nat, NEW total \in Nat, NEW reused \in Nat, NEW parsed \in Nat, NEW c \in Nat
  PROVE  /\ d + (c + 1) >= d + c /\ d + total >= d + total
         /\ reused + (c + 1) >= reused + c /\ parsed >= parsed
OBVIOUS

(* A report of numbers is one.                                             *)
LEMMA ReportIsTyped ==
  ASSUME NEW s \in Stages, NEW d \in Nat, NEW n \in Nat, NEW u \in Nat, NEW p \in Nat
  PROVE  Report(s, d, n, u, p) \in Reports
  BY DEF Report, Reports

(* What is sent and shown is a report.                                     *)
LEMMA SendIsTyped ==
  ASSUME TypesOfProgress, NEW r \in Reports, Send(r)
  PROVE  sent' \in Reports /\ shown' \in Reports
  BY DEF Send, TypesOfProgress, Reports

(* Nothing changes for the threads while none of them works.               *)
LEMMA ThreadsRest ==
  ASSUME CrewInv, PartsInv, phase # "parse", phase' \notin {"parse", "joined"},
         UNCHANGED <<sharedVars, workerVars>>
  PROVE  CrewInv' /\ PartsInv' /\ CountInv'
<1>1. /\ crew' = crew /\ worker' = worker /\ taken' = taken /\ parts' = parts
      /\ lock' = lock /\ done' = done /\ completed' = completed
  BY DEF sharedVars, workerVars
<1>2. CrewInv'
  BY <1>1 DEF CrewInv
<1>3. PartsInv' /\ CountInv'
  BY <1>1 DEF PartsInv, CountInv, Parsing
<1> QED
  BY <1>2, <1>3

(* Of the types, a step of the building thread changes these.              *)
LEMMA BuilderTypes ==
  ASSUME TypesOfProgress, UNCHANGED <<inputVars, sharedVars, workerVars>>,
         phase' \in {"captured", "seeded", "start", "reuse", "spawn", "parse", "joined",
                     "indexed", "resolved", "published", "failed"},
         round' \in 1 .. Rounds, reusing' \in 1 .. MaxFiles + 1, pending' \in Seq(FileNumbers),
         sums' \in [done : Nat, reused : Nat, parsed : Nat], sent' \in Reports, shown' \in Reports
  PROVE  TypesOfProgress'
  BY DEF TypesOfProgress, inputVars, sharedVars, workerVars, Reports

(* A build that has not begun.                                             *)
LEMMA StartIsSound == InitProgress => IInv
<1> SUFFICES ASSUME InitProgress
             PROVE  IInv
  OBVIOUS
<1>1. TypesOfProgress
  <2>1. 1 \in 1 .. Rounds /\ 1 \in 1 .. MaxFiles + 1 /\ 1 \in 1 .. MaxFiles + Threads + 1
        /\ 0 \in 0 .. MaxFiles
    BY ProgressAssumption
  <2>2. NoReport \in Reports
    BY ReportIsTyped DEF NoReport, Stages
  <2>3. pending \in Seq(FileNumbers)
    BY DEF InitProgress
  <2> QED
    BY <2>1, <2>2, <2>3 DEF InitProgress, TypesOfProgress, Reports
<1>2. LoopInv
  BY DEF InitProgress, LoopInv
<1>3. CrewInv
  BY ProgressAssumption DEF InitProgress, CrewInv, Workers
<1>4. PartsInv /\ CountInv
  BY DEF InitProgress, PartsInv, CountInv, Parsing
<1>5. SentInv
  BY DEF InitProgress, SentInv, Parsing
<1>6. EveryReportIsShown
  BY DEF InitProgress, EveryReportIsShown
<1> QED
  BY <1>1, <1>2, <1>3, <1>4, <1>5, <1>6 DEF IInv

(* The steps of the building thread before the first round ...             *)
LEMMA CapturedIsSound ==
  ASSUME IInv, Captured
  PROVE  IInv'
<1> DEFINE r == Report("capturing", Total(1), Total(1), 0, 0)
<1>1. /\ phase = "captured" /\ phase' = "seeded" /\ round = 1 /\ round' = 1
      /\ reusing' = reusing /\ pending' = pending /\ sums' = sums
      /\ UNCHANGED <<inputVars, sharedVars, workerVars>> /\ Send(r)
  BY DEF Captured, IInv, LoopInv
<1>2. sent = NoReport /\ sent' = r
  BY <1>1 DEF IInv, SentInv, Send
<1>3. Total(1) \in Nat /\ Total(1)' = Total(1)
  BY <1>1, RowIs, ProgressAssumption DEF IInv, TypesOfProgress, Total, inputVars
<1>4. r \in Reports
  BY <1>3, ReportIsTyped DEF Stages
<1>5. TypesOfProgress'
  BY <1>1, <1>4, SendIsTyped, BuilderTypes DEF IInv, TypesOfProgress
<1>6. CrewInv' /\ PartsInv' /\ CountInv'
  BY <1>1, ThreadsRest DEF IInv
<1>7. LoopInv'
  BY <1>1 DEF LoopInv
<1>8. SentInv'
  BY <1>1, <1>2, <1>3 DEF SentInv, Parsing, IInv
<1>9. Follows(sent, r)
  BY <1>2, <1>3, FollowsIs DEF NoReport, Stages
<1>10. EveryReportIsShown'
  BY <1>1, <1>9, ReportIsShown DEF IInv
<1> QED
  BY <1>5, <1>6, <1>7, <1>8, <1>10 DEF IInv

LEMMA SeededIsSound ==
  ASSUME IInv, Seeded
  PROVE  IInv'
<1> DEFINE r == Report("selecting_seed", 0, Total(1), 0, 0)
<1>1. /\ phase = "seeded" /\ phase' = "start" /\ round = 1 /\ round' = 1
      /\ reusing' = reusing /\ pending' = pending /\ sums' = sums
      /\ UNCHANGED <<inputVars, sharedVars, workerVars>> /\ Send(r)
  BY DEF Seeded, IInv, LoopInv
<1>2. sent = Report("capturing", Total(1), Total(1), 0, 0) /\ sent' = r
  BY <1>1 DEF IInv, SentInv, Send
<1>3. Total(1) \in Nat /\ Total(1)' = Total(1)
  BY <1>1, RowIs, ProgressAssumption DEF IInv, TypesOfProgress, Total, inputVars
<1>4. r \in Reports
  BY <1>3, ReportIsTyped DEF Stages
<1>5. TypesOfProgress'
  BY <1>1, <1>4, SendIsTyped, BuilderTypes DEF IInv, TypesOfProgress
<1>6. CrewInv' /\ PartsInv' /\ CountInv'
  BY <1>1, ThreadsRest DEF IInv
<1>7. LoopInv'
  BY <1>1 DEF LoopInv
<1>8. SentInv'
  <2>1. sums = [done |-> 0, reused |-> 0, parsed |-> 0]
    BY <1>1 DEF IInv, SentInv
  <2>2. Total(round)' = Total(1)
    BY <1>1, <1>3 DEF Total
  <2> QED
    BY <1>1, <1>2, <2>1, <2>2 DEF SentInv, Parsing
<1>9. Follows(sent, r)
  BY <1>2, <1>3, RankIs, FollowsIs DEF Stages
<1>10. EveryReportIsShown'
  BY <1>1, <1>9, ReportIsShown DEF IInv
<1> QED
  BY <1>5, <1>6, <1>7, <1>8, <1>10 DEF IInv


(* Numbers of the round under way.                                         *)
LEMMA RoundIs ==
  ASSUME IInv
  PROVE  /\ round \in 1 .. Rounds
         /\ Total(round) \in 0 .. MaxFiles /\ Total(round) \in Nat
         /\ fate[round] \in [1 .. Total(round) -> Fates]
         /\ With(round, "reused") = Cardinality(Reused(fate[round], Total(round)))
         /\ With(round, "reused") \in 0 .. Total(round)
         /\ sums.done \in Nat /\ sums.reused \in Nat /\ sums.parsed \in Nat
         /\ reusing \in 1 .. MaxFiles + 1 /\ reusing \in Nat
         /\ Len(pending) \in Nat
<1>1. TypesOfProgress
  BY DEF IInv
<1>2. round \in 1 .. Rounds
  BY <1>1 DEF TypesOfProgress
<1>3. Total(round) \in 0 .. MaxFiles /\ Total(round) \in Nat
      /\ fate[round] \in [1 .. Total(round) -> Fates]
  BY <1>1, <1>2, RowIs, ProgressAssumption
<1>4. /\ With(round, "reused") = Cardinality(Reused(fate[round], Total(round)))
      /\ With(round, "reused") \in 0 .. Total(round)
  BY <1>1, <1>2, WithIs
<1>5. /\ sums.done \in Nat /\ sums.reused \in Nat /\ sums.parsed \in Nat
      /\ reusing \in 1 .. MaxFiles + 1 /\ reusing \in Nat /\ Len(pending) \in Nat
  BY <1>1, ProgressAssumption DEF TypesOfProgress
<1> QED
  BY <1>2, <1>3, <1>4, <1>5

(* The first report of a round follows what was said before.               *)
LEMMA FirstFollows ==
  ASSUME IInv, phase = "start", NEW e \in Nat, NEW v \in Nat
  PROVE  Follows(sent, Report("indexing", sums.done + e, sums.done + Total(round),
                              sums.reused + v, sums.parsed))
<1>1. /\ Total(round) \in Nat
      /\ sums.done \in Nat /\ sums.reused \in Nat /\ sums.parsed \in Nat
  BY RoundIs
<1>2. \/ /\ sent = Report("selecting_seed", 0, Total(round), 0, 0)
         /\ sums = [done |-> 0, reused |-> 0, parsed |-> 0]
      \/ sent = Report("indexing", sums.done, sums.done, sums.reused, sums.parsed)
  BY DEF IInv, SentInv, Sums
<1>3. CASE sent = Report("selecting_seed", 0, Total(round), 0, 0)
           /\ sums = [done |-> 0, reused |-> 0, parsed |-> 0]
  <2>1. sums.done = 0 /\ sums.reused = 0 /\ sums.parsed = 0
    BY <1>3
  <2> QED
    BY <1>1, <1>3, <2>1, RankIs, FollowsIs DEF Stages
<1>4. CASE sent = Report("indexing", sums.done, sums.done, sums.reused, sums.parsed)
  BY <1>1, <1>4, RankIs, FollowsIs DEF Stages
<1> QED
  BY <1>2, <1>3, <1>4

(* ... the start of a round, from the cache or not ...                     *)
LEMMA UseExactIsSound ==
  ASSUME IInv, UseExact
  PROVE  IInv'
<1> DEFINE r == Report("indexing", sums.done + Total(round), sums.done + Total(round),
                       sums.reused + Total(round), sums.parsed + 0)
<1>1. /\ phase = "start" /\ phase' = "indexed" /\ round' = round
      /\ reusing' = reusing /\ pending' = pending
      /\ sums' = [done |-> sums.done + Total(round), reused |-> sums.reused + Total(round),
                  parsed |-> sums.parsed]
      /\ UNCHANGED <<inputVars, sharedVars, workerVars>> /\ Send(r)
  BY DEF UseExact, Progress
<1>2. /\ Total(round) \in Nat /\ round \in 1 .. Rounds
      /\ sums.done \in Nat /\ sums.reused \in Nat /\ sums.parsed \in Nat
  BY RoundIs
<1>3. r = Report("indexing", sums.done + Total(round), sums.done + Total(round),
                 sums.reused + Total(round), sums.parsed)
  BY <1>2
<1>4. r \in Reports
  BY <1>2, <1>3, ReportIsTyped DEF Stages
<1>5. sent' = r
  BY <1>1 DEF Send
<1> HIDE DEF r
<1>6. TypesOfProgress'
  <2>1. sums' \in [done : Nat, reused : Nat, parsed : Nat]
    BY <1>1, <1>2
  <2> QED
    BY <1>1, <1>4, <2>1, SendIsTyped, BuilderTypes DEF IInv, TypesOfProgress
<1>7. CrewInv' /\ PartsInv' /\ CountInv'
  BY <1>1, ThreadsRest DEF IInv
<1>8. LoopInv'
  BY <1>1 DEF LoopInv
<1>9. SentInv'
  BY <1>1, <1>3, <1>5 DEF SentInv, Parsing, Sums
<1>10. Follows(sent, r)
  BY <1>1, <1>2, <1>3, FirstFollows
<1>11. EveryReportIsShown'
  BY <1>1, <1>10, ReportIsShown DEF IInv
<1> QED
  BY <1>6, <1>7, <1>8, <1>9, <1>11 DEF IInv

LEMMA StartIndexIsSound ==
  ASSUME IInv, StartIndex
  PROVE  IInv'
<1> DEFINE r == Report("indexing", sums.done + 0, sums.done + Total(round),
                       sums.reused + 0, sums.parsed + (0 - 0))
<1>1. /\ phase = "start" /\ phase' = "reuse" /\ round' = round /\ ~ exact[round]
      /\ reusing' = 1 /\ pending' = <<>> /\ sums' = sums
      /\ UNCHANGED <<inputVars, sharedVars, workerVars>> /\ Send(r)
  BY DEF StartIndex, IndexProgress, Progress
<1>2. /\ Total(round) \in Nat /\ round \in 1 .. Rounds
      /\ sums.done \in Nat /\ sums.reused \in Nat /\ sums.parsed \in Nat
  BY RoundIs
<1>3. r = Report("indexing", sums.done + 0, sums.done + Total(round), sums.reused + 0,
                 sums.parsed)
  BY <1>2
<1>4. r \in Reports
  BY <1>2, <1>3, ReportIsTyped DEF Stages
<1>5. sent' = r
  BY <1>1 DEF Send
<1>6. /\ fate' = fate /\ exact' = exact /\ Total(round)' = Total(round)
      /\ Cardinality(Reused(fate[round], 0)) = 0
  BY <1>1, ReusedIs DEF inputVars, Total
<1>7. TypesOfProgress'
  <2>1. 1 \in 1 .. MaxFiles + 1 /\ <<>> \in Seq(FileNumbers)
    BY ProgressAssumption
  <2> HIDE DEF r
  <2> QED
    BY <1>1, <1>2, <1>4, <2>1, SendIsTyped, BuilderTypes DEF IInv, TypesOfProgress
<1>8. CrewInv' /\ PartsInv' /\ CountInv'
  BY <1>1, ThreadsRest DEF IInv
<1>9. LoopInv'
  BY <1>1, <1>2, <1>6 DEF LoopInv
<1>10. SentInv'
  BY <1>1, <1>2, <1>5, <1>6 DEF SentInv, Parsing, Counted
<1>11. Follows(sent, r)
  BY <1>1, <1>2, <1>3, FirstFollows
<1>12. EveryReportIsShown'
  BY <1>1, <1>11, ReportIsShown DEF IInv
<1> QED
  BY <1>7, <1>8, <1>9, <1>10, <1>12 DEF IInv

(* The loop over the files passes one.                                     *)
LEMMA PendingGrows ==
  ASSUME NEW pend \in Seq(FileNumbers), NEW row, NEW i \in Nat \ {0},
         {pend[j] : j \in 1 .. Len(pend)} = {f \in 1 .. i - 1 : row[f] # "reused"},
         \A f, j \in 1 .. Len(pend) : pend[f] = pend[j] => f = j,
         i \in FileNumbers, row[i] # "reused"
  PROVE  LET more == Append(pend, i) IN
         /\ {more[j] : j \in 1 .. Len(more)} = {f \in 1 .. i : row[f] # "reused"}
         /\ \A f, j \in 1 .. Len(more) : more[f] = more[j] => f = j
<1> DEFINE more == Append(pend, i)
<1>1. PICK n \in Nat : n = Len(pend)
  OBVIOUS
<1>2. /\ Len(more) = n + 1 /\ more[n + 1] = i
      /\ \A j \in 1 .. n : more[j] = pend[j]
  BY <1>1
<1> HIDE DEF more
<1>3. \A j \in 1 .. n : pend[j] \in {f \in 1 .. i - 1 : row[f] # "reused"}
  BY <1>1
<1>4. \A j \in 1 .. n : pend[j] # i
  BY <1>3
<1>5. {more[j] : j \in 1 .. n + 1} = {pend[j] : j \in 1 .. n} \union {i}
  <2>1. \A j \in 1 .. n + 1 : more[j] \in {pend[l] : l \in 1 .. n} \union {i}
    BY <1>2
  <2>2. \A j \in 1 .. n : pend[j] \in {more[l] : l \in 1 .. n + 1}
    BY <1>2
  <2>3. i \in {more[l] : l \in 1 .. n + 1}
    BY <1>2
  <2>4. \A x : x \in {pend[l] : l \in 1 .. n} => x \in {more[l] : l \in 1 .. n + 1}
    BY <2>2
  <2>5. \A x : x \in {more[j] : j \in 1 .. n + 1} => x \in {pend[l] : l \in 1 .. n} \union {i}
    BY <2>1
  <2> HIDE DEF more
  <2> QED
    BY <2>3, <2>4, <2>5, Zenon
<1>6. {f \in 1 .. i : row[f] # "reused"} = {f \in 1 .. i - 1 : row[f] # "reused"} \union {i}
  OBVIOUS
<1>7. {more[j] : j \in 1 .. Len(more)} = {f \in 1 .. i : row[f] # "reused"}
  BY <1>1, <1>2, <1>5, <1>6
<1>8. \A f, j \in 1 .. n : more[f] = more[j] => f = j
  BY <1>1, <1>2
<1>9. \A f \in 1 .. n : more[f] # more[n + 1]
  BY <1>2, <1>4
<1>10. \A f, j \in 1 .. n + 1 : more[f] = more[j] => f = j
  BY <1>8, <1>9
<1> QED
  BY <1>2, <1>7, <1>10 DEF more

(* ... and the loop: a reused file is reported, another one is pending.    *)
LEMMA ReuseFileIsSound ==
  ASSUME IInv, ReuseFile
  PROVE  IInv'
<1>1. /\ phase = "reuse" /\ phase' = "reuse" /\ round' = round /\ reusing <= Total(round)
      /\ reusing' = reusing + 1 /\ sums' = sums
      /\ UNCHANGED <<inputVars, sharedVars, workerVars>>
  BY DEF ReuseFile
<1>2. /\ Total(round) \in 0 .. MaxFiles /\ Total(round) \in Nat /\ round \in 1 .. Rounds
      /\ sums.done \in Nat /\ sums.reused \in Nat /\ sums.parsed \in Nat
      /\ reusing \in Nat \ {0} /\ reusing - 1 \in Nat /\ MaxFiles \in Nat
      /\ Len(pending) \in Nat
  BY RoundIs, ProgressAssumption
<1>3. PICK k \in Nat : k = Cardinality(Reused(fate[round], reusing - 1))
  BY <1>2, ReusedIs
<1>4. /\ fate[round][reusing] = "reused" =>
           Cardinality(Reused(fate[round], reusing)) = k + 1
      /\ fate[round][reusing] # "reused" => Reused(fate[round], reusing) = Reused(fate[round], reusing - 1)
  <2>1. reusing - 1 + 1 = reusing
    BY <1>2
  <2> QED
    BY <1>2, <1>3, <2>1, ReusedIs
<1>5. /\ fate' = fate /\ exact' = exact /\ Total(round)' = Total(round)
      /\ (reusing - 1)' = reusing
  BY <1>1, <1>2 DEF inputVars, Total
<1>6. /\ ~ exact[round]
      /\ {pending[j] : j \in 1 .. Len(pending)} =
           {i \in 1 .. reusing - 1 : fate[round][i] # "reused"}
      /\ \A i, j \in 1 .. Len(pending) : pending[i] = pending[j] => i = j
      /\ Len(pending) + k = reusing - 1
      /\ sent = Counted(k, k)
  BY <1>1, <1>3 DEF IInv, LoopInv, SentInv
<1>7. pending \in Seq(FileNumbers) /\ reusing \in FileNumbers /\ reusing + 1 \in 1 .. MaxFiles + 1
  <2>1. pending \in Seq(FileNumbers)
    BY DEF IInv, TypesOfProgress
  <2>2. PICK n \in Nat, t \in 0 .. MaxFiles : n = reusing /\ t = Total(round) /\ n \in Nat \ {0}
    BY <1>2
  <2>3. n <= t
    BY <1>1, <2>2
  <2>4. n \in 1 .. MaxFiles /\ n + 1 \in 1 .. MaxFiles + 1
    BY <2>2, <2>3, ProgressAssumption
  <2> QED
    BY <2>1, <2>2, <2>4 DEF FileNumbers
<1>8. CrewInv' /\ PartsInv' /\ CountInv'
  BY <1>1, ThreadsRest DEF IInv
<1>9. sent \in Reports /\ shown \in Reports
  BY DEF IInv, TypesOfProgress, Reports
<1>10. PICK n \in Nat, t \in Nat : n = reusing /\ t = Total(round)
  BY <1>2
<1>11. reusing + 1 <= Total(round) + 1
  BY <1>1, <1>2
<1> DEFINE r == Report("indexing", sums.done + (k + 1), sums.done + Total(round),
                       sums.reused + (k + 1), sums.parsed + ((k + 1) - (k + 1)))
<1>12. CASE fate[round][reusing] = "reused"
  <2>1. Cardinality({i \in 1 .. reusing : fate[round][i] = "reused"}) = k + 1
    BY <1>4, <1>12 DEF Reused
  <2>2. Send(r) /\ pending' = pending
    BY <1>12, <2>1 DEF ReuseFile, IndexProgress, Progress
  <2>3. r = Report("indexing", sums.done + (k + 1), sums.done + Total(round),
                   sums.reused + (k + 1), sums.parsed)
    BY <1>2, <1>3
  <2>4. r \in Reports
    <3>1. "indexing" \in Stages /\ sums.done + (k + 1) \in Nat /\ sums.done + Total(round) \in Nat
/\ sums.reused + (k + 1) \in Nat
      <4>1. "indexing" \in Stages
        BY DEF Stages
      <4>2. sums.done \in Nat /\ sums.reused \in Nat /\ k + 1 \in Nat /\ Total(round) \in Nat
        BY <1>2
      <4> QED
        BY <4>1, <4>2
    <3> HIDE DEF r
    <3> QED
      BY <1>2, <2>3, <3>1, ReportIsTyped
  <2>5. sent' = r
    BY <2>2 DEF Send
  <2>6. LoopInv'
    <3>1. {i \in 1 .. reusing - 1 : fate[round][i] # "reused"} =
            {i \in 1 .. reusing : fate[round][i] # "reused"}
      BY <1>2, <1>12
    <3>2. Len(pending) + (k + 1) = reusing
      BY <1>2, <1>6
    <3>3. Cardinality(Reused(fate[round], reusing)) = k + 1
      BY <1>4, <1>12
    <3>4. Len(pending) + Cardinality(Reused(fate[round], reusing)) = reusing
      BY <3>2, <3>3
    <3> HIDE DEF r
    <3> QED
      BY <1>1, <1>5, <1>6, <1>11, <2>2, <3>1, <3>4 DEF LoopInv
  <2>7. SentInv'
    <3>1. Cardinality(Reused(fate[round], reusing)) = k + 1
      BY <1>4, <1>12
    <3> QED
      BY <1>1, <1>5, <2>5, <3>1 DEF SentInv, Parsing, Counted
  <2>8. Follows(sent, r)
    <3>1. sent = Report("indexing", sums.done + k, sums.done + Total(round), sums.reused + k,
                        sums.parsed)
      BY <1>2, <1>6 DEF Counted
    <3>2. /\ sums.done + (k + 1) >= sums.done + k
          /\ sums.done + Total(round) >= sums.done + Total(round)
          /\ sums.reused + (k + 1) >= sums.reused + k
          /\ sums.parsed >= sums.parsed
      BY <1>2, ReusedSums
    <3>3. "indexing" \in Stages /\ Rank["indexing"] = 2
      BY RankIs DEF Stages
    <3> HIDE DEF r
    <3> QED
      BY <2>3, <3>1, <3>2, <3>3, FollowsIs
  <2> HIDE DEF r
  <2>9. EveryReportIsShown'
    BY <1>1, <2>2, <2>8, ReportIsShown DEF IInv
  <2>10. TypesOfProgress'
    BY <1>1, <1>2, <1>7, <2>2, <2>4, SendIsTyped, BuilderTypes DEF IInv, TypesOfProgress
  <2> QED
    BY <1>8, <2>6, <2>7, <2>9, <2>10 DEF IInv
<1> HIDE DEF r
<1>13. CASE fate[round][reusing] # "reused"
  <2>1. pending' = Append(pending, reusing) /\ UNCHANGED <<sent, shown>>
    BY <1>13 DEF ReuseFile
  <2>2. pending' \in Seq(FileNumbers) /\ Len(pending') = Len(pending) + 1
    BY <1>7, <2>1
  <2>3. Cardinality(Reused(fate[round], reusing)) = k
    BY <1>3, <1>4, <1>13
  <2>4. LoopInv'
    <3>1. /\ {pending'[j] : j \in 1 .. Len(pending')} = {f \in 1 .. reusing : fate[round][f] # "reused"}
          /\ \A f, j \in 1 .. Len(pending') : pending'[f] = pending'[j] => f = j
      <4>1. LET more == Append(pending, reusing) IN
            /\ {more[j] : j \in 1 .. Len(more)} = {f \in 1 .. reusing : fate[round][f] # "reused"}
            /\ \A f, j \in 1 .. Len(more) : more[f] = more[j] => f = j
        BY <1>2, <1>6, <1>7, <1>13, PendingGrows
      <4> QED
        BY <2>1, <4>1
    <3>2. Len(pending') + k = reusing
      BY <1>2, <1>6, <2>2
    <3>3. Len(pending') + Cardinality(Reused(fate[round], reusing)) = reusing
      BY <2>3, <3>2
    <3> QED
      BY <1>1, <1>5, <1>6, <1>11, <3>1, <3>3 DEF LoopInv
  <2>5. SentInv'
    BY <1>1, <1>5, <1>6, <2>1, <2>3 DEF SentInv, Parsing, Counted
  <2>6. EveryReportIsShown'
    BY <1>1, <2>1, SilenceIsShown DEF IInv
  <2>7. TypesOfProgress'
    BY <1>1, <1>2, <1>7, <1>9, <2>1, <2>2, BuilderTypes DEF IInv, TypesOfProgress
  <2> QED
    BY <1>8, <2>4, <2>5, <2>6, <2>7 DEF IInv
<1> QED
  BY <1>12, <1>13

(***************************************************************************)
(* The parser threads.                                                     *)
(***************************************************************************)

(* At least one thread is spawned, and no more than there are.             *)
LEMMA CrewSizeIs ==
  ASSUME pending \in Seq(FileNumbers)
  PROVE  CrewSize \in 1 .. Threads
<1>1. Len(pending) \in Nat /\ Share \in Nat \ {0} /\ Threads \in Nat \ {0}
  BY ProgressAssumption
<1>2. PICK n \in Nat : n = Ceiling(Len(pending), Share)
  <2>1. Len(pending) + Share - 1 \in Nat
    BY <1>1
  <2>2. (Len(pending) + Share - 1) \div Share \in Nat
    BY <1>1, <2>1
  <2> QED
    BY <2>2 DEF Ceiling
<1> QED
  BY <1>1, <1>2 DEF CrewSize

LEMMA OneMoreInHand ==
  ASSUME NEW c \in Nat, NEW h \in Nat, NEW w \in Nat, NEW n \in Nat, NEW l \in Nat,
         n <= l, c + h = w + (IF n <= l THEN n - 1 ELSE l)
  PROVE  c + (h + 1) = w + (IF n + 1 <= l THEN n + 1 - 1 ELSE l)
OBVIOUS

(* Sets of threads, and the files of a round that parses.                  *)
LEMMA ParsingIs ==
  ASSUME IInv, Parsing
  PROVE  /\ crew \subseteq Workers /\ IsFiniteSet(crew) /\ Cardinality(crew) \in 0 .. Threads
         /\ InHand \subseteq crew /\ IsFiniteSet(InHand) /\ Cardinality(InHand) \in Nat
         /\ Gone \subseteq crew /\ IsFiniteSet(Gone) /\ Cardinality(Gone) \in 0 .. Cardinality(crew)
         /\ With(round, "reused") + Len(pending) = Total(round)
         /\ Len(pending) \in 0 .. MaxFiles
         /\ \A j \in 1 .. Len(pending) : pending[j] \in FileNumbers
         /\ {pending[j] : j \in 1 .. Len(pending)} = Unreused(round)
         /\ \A i, j \in 1 .. Len(pending) : pending[i] = pending[j] => i = j
         /\ completed \in Nat /\ next \in Nat \ {0}
<1>1. IsFiniteSet(Workers) /\ Cardinality(Workers) = Threads
  BY FS_Interval, ProgressAssumption DEF Workers
<1>2. crew \subseteq Workers
  BY DEF IInv, TypesOfProgress
<1>3. IsFiniteSet(crew) /\ Cardinality(crew) <= Threads /\ Cardinality(crew) \in Nat
  BY <1>1, <1>2, FS_Subset, FS_CardinalityType
<1>4. InHand \subseteq crew /\ Gone \subseteq crew
  BY DEF InHand, Gone
<1>5. /\ IsFiniteSet(InHand) /\ Cardinality(InHand) \in Nat
      /\ IsFiniteSet(Gone) /\ Cardinality(Gone) \in Nat /\ Cardinality(Gone) <= Cardinality(crew)
  BY <1>3, <1>4, FS_Subset, FS_CardinalityType
<1>6. /\ Total(round) \in 0 .. MaxFiles /\ Total(round) \in Nat
      /\ With(round, "reused") = Cardinality(Reused(fate[round], Total(round)))
      /\ With(round, "reused") \in 0 .. Total(round) /\ Len(pending) \in Nat
      /\ MaxFiles \in Nat
  BY RoundIs, ProgressAssumption
<1>7. /\ reusing = Total(round) + 1
      /\ {pending[j] : j \in 1 .. Len(pending)} =
           {i \in 1 .. reusing - 1 : fate[round][i] # "reused"}
      /\ \A i, j \in 1 .. Len(pending) : pending[i] = pending[j] => i = j
      /\ Len(pending) + Cardinality(Reused(fate[round], reusing - 1)) = reusing - 1
  BY DEF IInv, LoopInv, Parsing
<1>8. reusing - 1 = Total(round)
  BY <1>6, <1>7
<1>9. Len(pending) + With(round, "reused") = Total(round)
  BY <1>6, <1>7, <1>8
<1>10. {pending[j] : j \in 1 .. Len(pending)} = Unreused(round)
  BY <1>7, <1>8 DEF Unreused
<1>11. pending \in Seq(FileNumbers) /\ completed \in Nat /\ next \in Nat \ {0}
  BY ProgressAssumption DEF IInv, TypesOfProgress
<1>12. \A j \in 1 .. Len(pending) : pending[j] \in FileNumbers
  BY <1>11
<1>13. With(round, "reused") + Len(pending) = Total(round) /\ Len(pending) \in 0 .. MaxFiles
  BY <1>6, <1>9
<1> QED
  <2>1. /\ crew \subseteq Workers /\ IsFiniteSet(crew) /\ Cardinality(crew) \in 0 .. Threads
        /\ InHand \subseteq crew /\ IsFiniteSet(InHand) /\ Cardinality(InHand) \in Nat
        /\ Gone \subseteq crew /\ IsFiniteSet(Gone) /\ Cardinality(Gone) \in 0 .. Cardinality(crew)
    <3>1. Threads \in Nat
      BY ProgressAssumption
    <3> QED
      BY <1>2, <1>3, <1>4, <1>5, <3>1
  <2> QED
    BY <1>7, <1>10, <1>11, <1>12, <1>13, <2>1, Zenon

(* The threads start with nothing drawn and the reused files counted.      *)
LEMMA SpawnIsSound ==
  ASSUME IInv, Spawn
  PROVE  IInv'
<1>1. /\ phase = "reuse" /\ phase' = "parse" /\ reusing > Total(round)
      /\ round' = round /\ reusing' = reusing /\ pending' = pending /\ lock' = lock
      /\ taken' = taken /\ done' = done /\ sums' = sums /\ sent' = sent /\ shown' = shown
      /\ next' = 1 /\ completed' = With(round, "reused")
      /\ parts' = [w \in Workers |-> {}] /\ crew' = 1 .. CrewSize
      /\ worker' = [w \in Workers |-> IF w \in crew' THEN "take" ELSE "out"]
      /\ fate' = fate /\ exact' = exact
  BY DEF Spawn, inputVars
<1>2. /\ Total(round) \in 0 .. MaxFiles /\ Total(round) \in Nat /\ round \in 1 .. Rounds
      /\ With(round, "reused") = Cardinality(Reused(fate[round], Total(round)))
      /\ With(round, "reused") \in 0 .. Total(round)
      /\ reusing \in Nat /\ Len(pending) \in Nat /\ MaxFiles \in Nat
      /\ Threads \in Nat \ {0} /\ None \notin Nat
  BY RoundIs, ProgressAssumption
<1>3. Total(round)' = Total(round) /\ With(round, "reused")' = With(round, "reused")
  BY <1>1 DEF Total, With
<1>4. reusing = Total(round) + 1 /\ reusing - 1 = Total(round)
  BY <1>1, <1>2 DEF IInv, LoopInv
<1>5. CrewSize \in 1 .. Threads
  BY CrewSizeIs DEF IInv, TypesOfProgress
<1>6. crew' \subseteq Workers /\ crew' # {}
  BY <1>1, <1>2, <1>5 DEF Workers
<1>7. \A w \in Workers : /\ worker[w] \in {"out", "error"}
                         /\ taken[w] = None /\ lock # w
  BY <1>1 DEF IInv, CrewInv
<1>8. lock = None
  BY <1>7 DEF IInv, TypesOfProgress
<1>9. \A w \in Workers : worker'[w] = IF w \in crew' THEN "take" ELSE "out"
  BY <1>1
<1>10. TypesOfProgress'
  <2>1. worker' \in [Workers -> {"out", "take", "build", "lock", "report", "error"}]
    BY <1>1
  <2>2. parts' \in [Workers -> SUBSET FileNumbers]
    BY <1>1
  <2>3. next' \in 1 .. MaxFiles + Threads + 1 /\ completed' \in 0 .. MaxFiles
    BY <1>1, <1>2
  <2> QED
    BY <1>1, <1>6, <2>1, <2>2, <2>3 DEF IInv, TypesOfProgress
<1>11. LoopInv'
  BY <1>1, <1>3, <1>4 DEF IInv, LoopInv
<1>12. CrewInv'
  BY <1>1, <1>2, <1>6, <1>7, <1>8, <1>9 DEF CrewInv
<1>13. Drawn' = {}
  BY <1>1, <1>2 DEF Drawn
<1>14. PartsInv'
  <2>1. \A w \in crew' : parts'[w] = {} /\ taken'[w] = None /\ worker'[w] = "take"
    BY <1>1, <1>6, <1>7, <1>9
  <2> QED
    BY <1>13, <2>1 DEF PartsInv
<1>15. CountInv'
  <2>1. InHand' = {} /\ Gone' = {}
    BY <1>6, <1>9 DEF InHand, Gone
  <2>2. Cardinality({}) = 0
    BY FS_EmptySet
  <2> QED
    BY <1>1, <1>2, <1>3, <2>1, <2>2 DEF CountInv
<1>16. SentInv'
  <2>1. sent = Counted(With(round, "reused"), With(round, "reused"))
    BY <1>1, <1>2, <1>4 DEF IInv, SentInv
  <2>2. Reported' = With(round, "reused")
    BY <1>1, <1>8 DEF Reported
  <2> QED
    BY <1>1, <1>2, <1>3, <2>1, <2>2 DEF SentInv, Parsing, Counted
<1>17. EveryReportIsShown'
  BY <1>1, SilenceIsShown DEF IInv, inputVars
<1> QED
  BY <1>10, <1>11, <1>12, <1>14, <1>15, <1>16, <1>17 DEF IInv

(* A step of a thread, for what does not depend on which.                  *)
LEMMA ThreadIs ==
  ASSUME IInv, NEW w \in Workers, worker[w] \notin {"out", "error"}
  PROVE  w \in crew /\ phase = "parse" /\ Parsing
<1>1. w \in crew /\ phase = "parse"
  BY DEF IInv, CrewInv
<1> QED
  BY <1>1 DEF Parsing

(* A thread changes nothing of the round.                                  *)
LEMMA ThreadKeepsRound ==
  ASSUME IInv, phase = "parse", UNCHANGED <<inputVars, roundVars, sums>>
  PROVE  /\ LoopInv' /\ Parsing' /\ phase' = "parse" /\ round' = round /\ fate' = fate
         /\ pending' = pending /\ Total(round)' = Total(round)
         /\ With(round, "reused")' = With(round, "reused")
<1>1. /\ phase' = "parse" /\ round' = round /\ fate' = fate /\ exact' = exact
      /\ pending' = pending /\ reusing' = reusing
  BY DEF inputVars, roundVars
<1>2. Total(round)' = Total(round) /\ With(round, "reused")' = With(round, "reused")
  BY <1>1 DEF Total, With
<1>3. LoopInv'
  BY <1>1, <1>2 DEF IInv, LoopInv
<1> QED
  BY <1>1, <1>2, <1>3 DEF Parsing

(* Nothing is said by a step that changes neither the counter nor the lock. *)
LEMMA ThreadIsSilent ==
  ASSUME IInv, phase = "parse", UNCHANGED <<inputVars, roundVars, sums, completed, lock, sent, shown>>
  PROVE  SentInv' /\ EveryReportIsShown'
<1>1. /\ phase' = "parse" /\ round' = round /\ Total(round)' = Total(round)
      /\ With(round, "reused")' = With(round, "reused")
  BY ThreadKeepsRound
<1>2. Reported' = Reported
  BY DEF Reported
<1>3. /\ Reported >= With(round, "reused")
      /\ sent = Counted(Reported, With(round, "reused"))
  BY DEF IInv, SentInv, Parsing
<1>4. SentInv'
  BY <1>1, <1>2, <1>3 DEF SentInv, Parsing, Counted
<1>5. EveryReportIsShown'
  BY SilenceIsShown DEF IInv
<1> QED
  BY <1>4, <1>5

(* A number is drawn once.  When there is none, the thread is gone, and at *)
(* most one number per thread is drawn in vain.                            *)
LEMMA TakeIsSound ==
  ASSUME IInv, NEW w \in Workers, Take(w)
  PROVE  IInv'
<1>1. /\ worker[w] = "take" /\ next' = next + 1
      /\ UNCHANGED <<inputVars, roundVars, completed, lock, crew, done, parts, sums, sent, shown>>
  BY DEF Take
<1>2. w \in crew /\ phase = "parse" /\ Parsing
  BY <1>1, ThreadIs
<1>3. /\ LoopInv' /\ Parsing' /\ phase' = "parse" /\ round' = round /\ fate' = fate
      /\ pending' = pending /\ Total(round)' = Total(round)
      /\ With(round, "reused")' = With(round, "reused")
  BY <1>1, <1>2, ThreadKeepsRound
<1>4. SentInv' /\ EveryReportIsShown'
  BY <1>1, <1>2, ThreadIsSilent
<1>5. /\ crew \subseteq Workers /\ IsFiniteSet(crew) /\ Cardinality(crew) \in 0 .. Threads
      /\ IsFiniteSet(InHand) /\ Cardinality(InHand) \in Nat
      /\ Gone \subseteq crew /\ IsFiniteSet(Gone) /\ Cardinality(Gone) \in 0 .. Cardinality(crew)
      /\ Len(pending) \in 0 .. MaxFiles
      /\ \A j \in 1 .. Len(pending) : pending[j] \in FileNumbers
      /\ \A i, j \in 1 .. Len(pending) : pending[i] = pending[j] => i = j
      /\ completed \in Nat /\ next \in Nat \ {0}
  BY <1>2, ParsingIs
<1>6. MaxFiles \in Nat /\ Threads \in Nat /\ Len(pending) \in Nat /\ None \notin Nat
      /\ With(round, "reused") \in Nat
  <2>1. With(round, "reused") \in 0 .. Total(round) /\ Total(round) \in Nat
    BY RoundIs
  <2> QED
    BY <1>5, <2>1, ProgressAssumption
<1>7. /\ completed + Cardinality(InHand) =
           With(round, "reused") + (IF next <= Len(pending) THEN next - 1 ELSE Len(pending))
      /\ next - 1 <= Len(pending) + Cardinality(Gone)
  BY <1>2 DEF IInv, CountInv
<1>8. next' \in 1 .. MaxFiles + Threads + 1
  <2>1. w \notin Gone
    BY <1>1 DEF Gone
  <2>2. Gone # crew
    BY <1>2, <2>1
  <2>3. Cardinality(Gone) # Cardinality(crew)
    BY <1>5, <2>2, FS_Subset
  <2>4. Cardinality(Gone) + 1 <= Threads
    BY <1>5, <1>6, <2>3
  <2> QED
    BY <1>1, <1>5, <1>6, <1>7, <2>4
<1>9. /\ taken \in [Workers -> FileNumbers \union {None}]
      /\ worker \in [Workers -> {"out", "take", "build", "lock", "report", "error"}]
  BY DEF IInv, TypesOfProgress
<1>10. CASE next <= Len(pending)
  <2>1. PICK f : f = pending[next]
    OBVIOUS
  <2>2. taken' = [taken EXCEPT ![w] = f] /\ worker' = [worker EXCEPT ![w] = "build"]
    BY <1>10, <2>1 DEF Take
  <2>3. f \in FileNumbers /\ f # None
    BY <1>5, <1>6, <1>10, <2>1 DEF FileNumbers
  <2>4. /\ \A v \in Workers : taken'[v] = IF v = w THEN f ELSE taken[v]
        /\ \A v \in Workers : worker'[v] = IF v = w THEN "build" ELSE worker[v]
    BY <1>9, <2>2
  <2>5. TypesOfProgress'
    <3>1. taken' \in [Workers -> FileNumbers \union {None}]
      BY <1>9, <2>2, <2>3
    <3>2. worker' \in [Workers -> {"out", "take", "build", "lock", "report", "error"}]
      BY <1>9, <2>2
    <3> QED
      BY <1>1, <1>8, <3>1, <3>2 DEF IInv, TypesOfProgress, inputVars, roundVars
  <2>6. CrewInv'
    BY <1>1, <1>2, <1>3, <2>3, <2>4 DEF IInv, CrewInv
  <2>7. Drawn' = Drawn \union {f} /\ f \notin Drawn
    <3>1. {j \in 1 .. Len(pending) : j < next + 1} = {j \in 1 .. Len(pending) : j < next} \union {next}
      BY <1>5, <1>6, <1>10
    <3>2. Drawn' = {pending[j] : j \in {l \in 1 .. Len(pending) : l < next + 1}}
      BY <1>1, <1>3 DEF Drawn
    <3>3. \A j \in 1 .. Len(pending) : j < next => pending[j] # f
      BY <1>5, <1>6, <1>10, <2>1
    <3> QED
      BY <2>1, <3>1, <3>2, <3>3 DEF Drawn
  <2>8. PartsInv'
    <3>1. /\ \A v, u \in crew : v # u =>
                /\ parts[v] \intersect parts[u] = {}
                /\ taken[v] # None => taken[v] # taken[u] /\ taken[v] \notin parts[u]
          /\ \A v \in crew : /\ parts[v] \subseteq Drawn
                             /\ taken[v] # None => taken[v] \in Drawn
                             /\ \A i \in parts[v] : fate[round][i] # "error"
                             /\ worker[v] = "out" => next > Len(pending)
          /\ (\A v \in crew : worker[v] # "error") =>
               Drawn \subseteq (UNION {parts[v] : v \in crew}) \union {taken[v] : v \in crew}
      BY <1>2 DEF IInv, PartsInv
    <3>2. crew' = crew /\ parts' = parts
      BY <1>1
    <3>3. \A v \in crew : /\ taken'[v] = IF v = w THEN f ELSE taken[v]
                          /\ worker'[v] = IF v = w THEN "build" ELSE worker[v]
      BY <1>5, <2>4
    <3>4. taken[w] = None
      BY <1>1 DEF IInv, CrewInv
    <3>5. \A v, u \in crew : v # u =>
            /\ parts[v] \intersect parts[u] = {}
            /\ taken'[v] # None => taken'[v] # taken'[u] /\ taken'[v] \notin parts[u]
      <4>1. TAKE v, u \in crew
      <4>2. HAVE v # u
      <4>3. parts[v] \intersect parts[u] = {}
        BY <3>1, <4>2
      <4>4. CASE v = w
        BY <2>3, <2>7, <3>1, <3>3, <4>2, <4>3, <4>4
      <4>5. CASE u = w
        BY <2>3, <2>7, <3>1, <3>3, <4>2, <4>3, <4>5
      <4>6. CASE v # w /\ u # w
        BY <3>1, <3>3, <4>2, <4>6
      <4> QED
        BY <4>4, <4>5, <4>6
    <3>6. \A v \in crew : /\ parts[v] \subseteq Drawn \union {f}
                          /\ taken'[v] # None => taken'[v] \in Drawn \union {f}
                          /\ \A i \in parts[v] : fate[round][i] # "error"
                          /\ worker'[v] = "out" => next + 1 > Len(pending)
      BY <1>5, <1>6, <1>10, <3>1, <3>3
    <3>7. (\A v \in crew : worker'[v] # "error") =>
            Drawn \union {f} \subseteq (UNION {parts[v] : v \in crew}) \union {taken'[v] : v \in crew}
      <4>1. SUFFICES ASSUME \A v \in crew : worker'[v] # "error", NEW i \in Drawn \union {f}
                     PROVE  i \in (UNION {parts[v] : v \in crew}) \union {taken'[v] : v \in crew}
        OBVIOUS
      <4>2. CASE i = f
        <5>1. taken'[w] = i
          BY <1>2, <3>3, <4>2
        <5> QED
          BY <1>2, <5>1
      <4>3. CASE i \in Drawn /\ i # f
        <5>1. \A v \in crew : worker[v] # "error"
          BY <1>1, <3>3, <4>1
        <5>2. i \in (UNION {parts[v] : v \in crew}) \union {taken[v] : v \in crew}
          BY <3>1, <4>3, <5>1
        <5>3. ASSUME NEW v \in crew, i = taken[v]
              PROVE  i \in {taken'[u] : u \in crew}
          <6>1. i \in FileNumbers /\ i # None
            BY <1>5, <1>6, <4>3 DEF Drawn, FileNumbers
          <6>2. v # w
            BY <3>4, <5>3, <6>1
          <6> QED
            BY <3>3, <5>3, <6>2
        <5>4. CASE i \in UNION {parts[v] : v \in crew}
          BY <5>4
        <5>5. CASE i \in {taken[v] : v \in crew}
          <6>1. PICK v \in crew : i = taken[v]
            BY <5>5
          <6>2. i \in {taken'[u] : u \in crew}
            BY <5>3, <6>1
          <6> QED
            BY <6>2
        <5> QED
          BY <5>2, <5>4, <5>5
      <4> QED
        BY <4>1, <4>2, <4>3
    <3> QED
      BY <1>1, <1>3, <2>7, <3>2, <3>5, <3>6, <3>7 DEF PartsInv
  <2>9. CountInv'
    <3>1. InHand' = InHand \union {w} /\ w \notin InHand
      BY <1>1, <1>2, <1>5, <2>4 DEF InHand
    <3>2. Gone' = Gone
      BY <1>1, <1>2, <1>5, <2>4 DEF Gone
    <3>3. Cardinality(InHand') = Cardinality(InHand) + 1
      BY <1>5, <3>1, FS_AddElement
    <3>4. completed + (Cardinality(InHand) + 1) =
            With(round, "reused") + (IF next + 1 <= Len(pending) THEN next + 1 - 1 ELSE Len(pending))
      BY <1>5, <1>6, <1>7, <1>10, OneMoreInHand
    <3>5. next + 1 - 1 <= Len(pending) + Cardinality(Gone)
      BY <1>5, <1>6, <1>10
    <3>6. completed' = completed /\ next' = next + 1 /\ Len(pending') = Len(pending)
      BY <1>1, <1>3
    <3>7. /\ completed' + Cardinality(InHand') = With(round, "reused")'
               + (IF next' <= Len(pending') THEN next' - 1 ELSE Len(pending'))
          /\ next' - 1 <= Len(pending') + Cardinality(Gone')
      BY <1>3, <1>5, <1>6, <3>2, <3>3, <3>4, <3>5, <3>6
    <3> QED
      BY <3>7 DEF CountInv
  <2> QED
    BY <1>3, <1>4, <2>5, <2>6, <2>8, <2>9 DEF IInv
<1>11. CASE ~ (next <= Len(pending))
  <2>1. taken' = taken /\ worker' = [worker EXCEPT ![w] = "out"]
    BY <1>11 DEF Take
  <2>2. \A v \in Workers : worker'[v] = IF v = w THEN "out" ELSE worker[v]
    BY <1>9, <2>1
  <2>3. TypesOfProgress'
    <3>1. worker' \in [Workers -> {"out", "take", "build", "lock", "report", "error"}]
      BY <1>9, <2>1
    <3> QED
      BY <1>1, <1>8, <2>1, <3>1 DEF IInv, TypesOfProgress, inputVars, roundVars
  <2>4. CrewInv'
    BY <1>1, <1>2, <1>3, <2>1, <2>2 DEF IInv, CrewInv
  <2>5. Drawn' = Drawn
    <3>1. {j \in 1 .. Len(pending) : j < next + 1} = {j \in 1 .. Len(pending) : j < next}
      BY <1>5, <1>6, <1>11
    <3> QED
      BY <1>1, <1>3, <3>1 DEF Drawn
  <2>6. PartsInv'
    <3>1. next + 1 > Len(pending)
      BY <1>5, <1>6, <1>11
    <3>2. \A v \in crew : worker'[v] # "error" => worker[v] # "error"
      BY <1>5, <2>2, <1>1
    <3>3. crew' = crew /\ parts' = parts
      BY <1>1
    <3> QED
      BY <1>1, <1>2, <1>3, <2>1, <2>5, <3>1, <3>2, <3>3 DEF IInv, PartsInv
  <2>7. CountInv'
    <3>1. InHand' = InHand
      BY <1>1, <1>5, <2>2 DEF InHand
    <3>2. Gone' = Gone \union {w} /\ w \notin Gone
      BY <1>1, <1>2, <1>5, <2>2 DEF Gone
    <3>3. Cardinality(Gone') = Cardinality(Gone) + 1
      BY <1>5, <3>2, FS_AddElement
    <3>4. completed + Cardinality(InHand) =
            With(round, "reused") + (IF next + 1 <= Len(pending) THEN next + 1 - 1 ELSE Len(pending))
      BY <1>5, <1>6, <1>7, <1>11
    <3>5. next + 1 - 1 <= Len(pending) + (Cardinality(Gone) + 1)
      BY <1>5, <1>6, <1>7
    <3>6. completed' = completed /\ next' = next + 1 /\ Len(pending') = Len(pending)
      BY <1>1, <1>3
    <3>7. /\ completed' + Cardinality(InHand') = With(round, "reused")'
               + (IF next' <= Len(pending') THEN next' - 1 ELSE Len(pending'))
          /\ next' - 1 <= Len(pending') + Cardinality(Gone')
      BY <1>3, <1>5, <1>6, <3>1, <3>3, <3>4, <3>5, <3>6
    <3> QED
      BY <3>7 DEF CountInv
  <2> QED
    BY <1>3, <1>4, <2>3, <2>4, <2>6, <2>7 DEF IInv
<1> QED
  BY <1>10, <1>11

(* What a thread that moves a file it has drawn leaves alone.              *)
LEMMA DrawnStays ==
  ASSUME UNCHANGED <<next, pending>>
  PROVE  Drawn' = Drawn
  BY DEF Drawn

(* A file passes from what the thread works on to what it has built, or    *)
(* fails it.                                                               *)
LEMMA BuildFileIsSound ==
  ASSUME IInv, NEW w \in Workers, BuildFile(w)
  PROVE  IInv'
<1>1. /\ worker[w] = "build" /\ taken' = [taken EXCEPT ![w] = None]
      /\ UNCHANGED <<inputVars, roundVars, sharedVars, crew, done, sums, sent, shown>>
  BY DEF BuildFile
<1>2. w \in crew /\ phase = "parse" /\ Parsing
  BY <1>1, ThreadIs
<1>3. /\ LoopInv' /\ Parsing' /\ phase' = "parse" /\ round' = round /\ fate' = fate
      /\ pending' = pending /\ Total(round)' = Total(round)
      /\ With(round, "reused")' = With(round, "reused")
  BY <1>1, <1>2, ThreadKeepsRound
<1>4. next' = next /\ completed' = completed /\ lock' = lock
  BY <1>1 DEF sharedVars
<1>5. SentInv' /\ EveryReportIsShown'
  BY <1>1, <1>2, <1>4, ThreadIsSilent
<1>6. /\ taken \in [Workers -> FileNumbers \union {None}]
      /\ worker \in [Workers -> {"out", "take", "build", "lock", "report", "error"}]
      /\ parts \in [Workers -> SUBSET FileNumbers] /\ crew \subseteq Workers
  BY DEF IInv, TypesOfProgress
<1>7. PICK i : i = taken[w]
  OBVIOUS
<1>8. i \in FileNumbers /\ i # None
  BY <1>1, <1>6, <1>7 DEF IInv, CrewInv
<1>9. \A v \in Workers : taken'[v] = IF v = w THEN None ELSE taken[v]
  BY <1>1, <1>6
<1>10. /\ \A v, u \in crew : v # u =>
             /\ parts[v] \intersect parts[u] = {}
             /\ taken[v] # None => taken[v] # taken[u] /\ taken[v] \notin parts[u]
       /\ \A v \in crew : /\ parts[v] \subseteq Drawn
                          /\ taken[v] # None => taken[v] \in Drawn
                          /\ \A j \in parts[v] : fate[round][j] # "error"
                          /\ worker[v] = "out" => next > Len(pending)
       /\ (\A v \in crew : worker[v] # "error") =>
            Drawn \subseteq (UNION {parts[v] : v \in crew}) \union {taken[v] : v \in crew}
  BY <1>2 DEF IInv, PartsInv
<1>11. crew' = crew /\ Drawn' = Drawn
  BY <1>1, <1>3, <1>4, DrawnStays
<1>12. \A s \in {"error", "lock"} : worker' = [worker EXCEPT ![w] = s] =>
         /\ \A v \in Workers : worker'[v] = IF v = w THEN s ELSE worker[v]
         /\ worker' \in [Workers -> {"out", "take", "build", "lock", "report", "error"}]
         /\ CrewInv' /\ CountInv'
  <2>1. SUFFICES ASSUME NEW s \in {"error", "lock"}, worker' = [worker EXCEPT ![w] = s]
                 PROVE  /\ \A v \in Workers : worker'[v] = IF v = w THEN s ELSE worker[v]
                        /\ worker' \in [Workers -> {"out", "take", "build", "lock", "report", "error"}]
                        /\ CrewInv' /\ CountInv'
    OBVIOUS
  <2>2. /\ \A v \in Workers : worker'[v] = IF v = w THEN s ELSE worker[v]
        /\ worker' \in [Workers -> {"out", "take", "build", "lock", "report", "error"}]
    BY <1>6, <2>1
  <2>3. CrewInv'
    <3>1. done' = done /\ s # "report" /\ s # "build" /\ s # "out"
      BY <1>1
    <3> QED
      BY <1>1, <1>2, <1>3, <1>4, <1>9, <1>11, <2>2, <3>1 DEF IInv, CrewInv
  <2>4. CountInv'
    <3>1. InHand' = InHand /\ Gone' = Gone
      BY <1>1, <1>6, <1>11, <2>2 DEF InHand, Gone
    <3> QED
      BY <1>2, <1>3, <1>4, <3>1 DEF IInv, CountInv
  <2> QED
    BY <2>2, <2>3, <2>4
<1>13. taken' \in [Workers -> FileNumbers \union {None}]
  BY <1>1, <1>6
<1>14. CASE fate[round][i] = "error"
  <2>1. worker' = [worker EXCEPT ![w] = "error"] /\ parts' = parts
    BY <1>7, <1>14 DEF BuildFile
  <2>2. /\ \A v \in Workers : worker'[v] = IF v = w THEN "error" ELSE worker[v]
        /\ worker' \in [Workers -> {"out", "take", "build", "lock", "report", "error"}]
        /\ CrewInv' /\ CountInv'
    BY <1>12, <2>1
  <2>3. TypesOfProgress'
    BY <1>1, <1>13, <2>1, <2>2 DEF IInv, TypesOfProgress, inputVars, roundVars, sharedVars
  <2>4. PartsInv'
    <3>1. \A v \in crew : /\ taken'[v] = IF v = w THEN None ELSE taken[v]
                          /\ worker'[v] = IF v = w THEN "error" ELSE worker[v]
      BY <1>6, <1>9, <2>2
    <3>2. \A v, u \in crew : v # u =>
            /\ parts[v] \intersect parts[u] = {}
            /\ taken'[v] # None => taken'[v] # taken'[u] /\ taken'[v] \notin parts[u]
      BY <1>10, <3>1
    <3>3. \A v \in crew : /\ parts[v] \subseteq Drawn
                          /\ taken'[v] # None => taken'[v] \in Drawn
                          /\ \A j \in parts[v] : fate[round][j] # "error"
                          /\ worker'[v] = "out" => next > Len(pending)
      BY <1>10, <3>1
    <3>4. ~ (\A v \in crew : worker'[v] # "error")
      BY <1>2, <3>1
    <3> QED
      BY <1>3, <1>4, <1>11, <2>1, <3>2, <3>3, <3>4 DEF PartsInv
  <2> QED
    BY <1>3, <1>5, <2>2, <2>3, <2>4 DEF IInv
<1>15. CASE fate[round][i] # "error"
  <2>1. worker' = [worker EXCEPT ![w] = "lock"] /\ parts' = [parts EXCEPT ![w] = @ \union {i}]
    BY <1>7, <1>15 DEF BuildFile
  <2>2. /\ \A v \in Workers : worker'[v] = IF v = w THEN "lock" ELSE worker[v]
        /\ worker' \in [Workers -> {"out", "take", "build", "lock", "report", "error"}]
        /\ CrewInv' /\ CountInv'
    BY <1>12, <2>1
  <2>3. /\ \A v \in Workers : parts'[v] = IF v = w THEN parts[v] \union {i} ELSE parts[v]
        /\ parts' \in [Workers -> SUBSET FileNumbers]
    BY <1>6, <1>8, <2>1
  <2>4. TypesOfProgress'
    BY <1>1, <1>13, <2>2, <2>3 DEF IInv, TypesOfProgress, inputVars, roundVars, sharedVars
  <2>5. PartsInv'
    <3>1. \A v \in crew : /\ taken'[v] = IF v = w THEN None ELSE taken[v]
                          /\ worker'[v] = IF v = w THEN "lock" ELSE worker[v]
                          /\ parts'[v] = IF v = w THEN parts[v] \union {i} ELSE parts[v]
      BY <1>6, <1>9, <2>2, <2>3
    <3>2. \A v, u \in crew : v # u =>
            /\ parts'[v] \intersect parts'[u] = {}
            /\ taken'[v] # None => taken'[v] # taken'[u] /\ taken'[v] \notin parts'[u]
      <4>1. TAKE v, u \in crew
      <4>2. HAVE v # u
      <4>3. CASE v = w
        BY <1>7, <1>8, <1>10, <3>1, <4>2, <4>3
      <4>4. CASE u = w
        <5>1. /\ parts[v] \intersect parts[w] = {} /\ i \notin parts[v]
              /\ taken[v] # None => taken[v] # i /\ taken[v] \notin parts[w]
          BY <1>2, <1>7, <1>8, <1>10, <4>2, <4>4
        <5>2. /\ parts'[v] = parts[v] /\ taken'[v] = taken[v]
              /\ parts'[w] = parts[w] \union {i} /\ taken'[w] = None
          BY <1>2, <3>1, <4>2, <4>4
        <5> QED
          BY <4>4, <5>1, <5>2
      <4>5. CASE v # w /\ u # w
        BY <1>10, <3>1, <4>2, <4>5
      <4> QED
        BY <4>3, <4>4, <4>5
    <3>3. \A v \in crew : /\ parts'[v] \subseteq Drawn
                          /\ taken'[v] # None => taken'[v] \in Drawn
                          /\ \A j \in parts'[v] : fate[round][j] # "error"
                          /\ worker'[v] = "out" => next > Len(pending)
      <4>1. i \in Drawn
        BY <1>2, <1>7, <1>8, <1>10
      <4>2. TAKE v \in crew
      <4>3. CASE v = w
        <5>1. /\ parts'[w] = parts[w] \union {i} /\ taken'[w] = None /\ worker'[w] = "lock"
          BY <1>2, <3>1
        <5>2. parts[w] \subseteq Drawn /\ \A j \in parts[w] : fate[round][j] # "error"
          BY <1>2, <1>10
        <5> QED
          BY <1>15, <4>1, <4>3, <5>1, <5>2
      <4>4. CASE v # w
        BY <1>10, <3>1, <4>4
      <4> QED
        BY <4>3, <4>4
    <3>4. (\A v \in crew : worker'[v] # "error") =>
            Drawn \subseteq (UNION {parts'[v] : v \in crew}) \union {taken'[v] : v \in crew}
      <4>1. SUFFICES ASSUME \A v \in crew : worker'[v] # "error", NEW j \in Drawn
                     PROVE  j \in (UNION {parts'[v] : v \in crew}) \union {taken'[v] : v \in crew}
        OBVIOUS
      <4>2. \A v \in crew : worker[v] # "error"
        BY <1>1, <3>1, <4>1
      <4>3. j \in (UNION {parts[v] : v \in crew}) \union {taken[v] : v \in crew}
        BY <1>10, <4>2
      <4>4. CASE j \in UNION {parts[v] : v \in crew}
        <5>1. PICK v \in crew : j \in parts[v]
          BY <4>4
        <5>2. j \in parts'[v]
          BY <3>1, <5>1
        <5> QED
          BY <5>2
      <4>5. CASE j \in {taken[v] : v \in crew}
        <5>1. PICK v \in crew : j = taken[v]
          BY <4>5
        <5>2. CASE v = w
          <6>1. j \in parts'[w]
            BY <1>2, <1>7, <3>1, <5>1, <5>2
          <6> QED
            BY <1>2, <6>1
        <5>3. CASE v # w
          <6>1. j = taken'[v]
            BY <3>1, <5>1, <5>3
          <6> QED
            BY <6>1
        <5> QED
          BY <5>2, <5>3
      <4> QED
        BY <4>3, <4>4, <4>5
    <3> QED
      BY <1>3, <1>4, <1>11, <3>2, <3>3, <3>4 DEF PartsInv
  <2> QED
    BY <1>3, <1>5, <2>2, <2>4, <2>5 DEF IInv
<1> QED
  BY <1>14, <1>15

(* The counter, under the lock: the file is no longer in hand.             *)
LEMMA CountIsSound ==
  ASSUME IInv, NEW w \in Workers, Count(w)
  PROVE  IInv'
<1>1. /\ worker[w] = "lock" /\ lock = None /\ lock' = w /\ completed' = completed + 1
      /\ done' = [done EXCEPT ![w] = completed + 1]
      /\ worker' = [worker EXCEPT ![w] = "report"]
      /\ UNCHANGED <<inputVars, roundVars, next, crew, taken, parts, sums, sent, shown>>
  BY DEF Count
<1>2. w \in crew /\ phase = "parse" /\ Parsing
  BY <1>1, ThreadIs
<1>3. /\ LoopInv' /\ Parsing' /\ phase' = "parse" /\ round' = round /\ fate' = fate
      /\ pending' = pending /\ Total(round)' = Total(round)
      /\ With(round, "reused")' = With(round, "reused")
  BY <1>1, <1>2, ThreadKeepsRound
<1>4. /\ crew \subseteq Workers /\ IsFiniteSet(InHand) /\ Cardinality(InHand) \in Nat
      /\ With(round, "reused") + Len(pending) = Total(round)
      /\ Len(pending) \in Nat /\ completed \in Nat /\ next \in Nat \ {0}
  BY <1>2, ParsingIs
<1>5. /\ Total(round) \in 0 .. MaxFiles /\ MaxFiles \in Nat /\ With(round, "reused") \in Nat
      /\ None \notin Workers
  BY RoundIs, ProgressAssumption DEF Workers
<1>6. /\ worker \in [Workers -> {"out", "take", "build", "lock", "report", "error"}]
      /\ done \in [Workers -> 0 .. MaxFiles]
  BY DEF IInv, TypesOfProgress
<1>7. \A v \in Workers : /\ worker'[v] = IF v = w THEN "report" ELSE worker[v]
                         /\ done'[v] = IF v = w THEN completed + 1 ELSE done[v]
  BY <1>1, <1>6
<1>8. /\ completed + Cardinality(InHand) =
           With(round, "reused") + (IF next <= Len(pending) THEN next - 1 ELSE Len(pending))
      /\ next - 1 <= Len(pending) + Cardinality(Gone)
  BY <1>2 DEF IInv, CountInv
<1>9. /\ w \in InHand /\ InHand' = InHand \ {w} /\ Gone' = Gone
  BY <1>1, <1>2, <1>4, <1>7 DEF InHand, Gone
<1>10. Cardinality(InHand') = Cardinality(InHand) - 1
  BY <1>4, <1>9, FS_RemoveElement
<1>11. Cardinality(InHand) >= 1
  <2>1. Cardinality(InHand') \in Nat
    <3>1. IsFiniteSet(InHand')
      BY <1>4, <1>9, FS_RemoveElement
    <3> QED
      BY <3>1, FS_CardinalityType
  <2> QED
    BY <1>4, <1>10, <2>1
<1>12. completed + 1 \in 0 .. MaxFiles
  BY <1>4, <1>5, <1>8, <1>11
<1>13. TypesOfProgress'
  <2>1. done' \in [Workers -> 0 .. MaxFiles]
    BY <1>1, <1>6, <1>12
  <2>2. worker' \in [Workers -> {"out", "take", "build", "lock", "report", "error"}]
    BY <1>1, <1>6
  <2> QED
    BY <1>1, <1>12, <2>1, <2>2 DEF IInv, TypesOfProgress, inputVars, roundVars
<1>14. CrewInv'
  BY <1>1, <1>2, <1>3, <1>5, <1>7 DEF IInv, CrewInv
<1>15. PartsInv'
  <2>1. Drawn' = Drawn /\ crew' = crew /\ parts' = parts /\ taken' = taken /\ next' = next
    BY <1>1, <1>3, DrawnStays
  <2>2. \A v \in crew : /\ worker'[v] # "error" <=> worker[v] # "error"
                        /\ worker'[v] = "out" <=> worker[v] = "out"
    BY <1>1, <1>4, <1>7
  <2> QED
    BY <1>2, <1>3, <2>1, <2>2 DEF IInv, PartsInv
<1>16. CountInv'
  <2>1. /\ completed + 1 + (Cardinality(InHand) - 1) =
             With(round, "reused") + (IF next <= Len(pending) THEN next - 1 ELSE Len(pending))
    BY <1>4, <1>8
  <2>2. /\ completed' + Cardinality(InHand') = With(round, "reused")'
             + (IF next' <= Len(pending') THEN next' - 1 ELSE Len(pending'))
        /\ next' - 1 <= Len(pending') + Cardinality(Gone')
    BY <1>1, <1>3, <1>4, <1>5, <1>8, <1>9, <1>10, <2>1
  <2> QED
    BY <2>2 DEF CountInv
<1>17. SentInv'
  <2>1. Reported = completed /\ Reported' = completed
    BY <1>1, <1>4, <1>5 DEF Reported
  <2>2. completed >= With(round, "reused") /\ sent = Counted(completed, With(round, "reused"))
    BY <1>2, <2>1 DEF IInv, SentInv
  <2> QED
    BY <1>1, <1>3, <2>1, <2>2 DEF SentInv, Counted
<1>18. EveryReportIsShown'
  BY <1>1, SilenceIsShown DEF IInv
<1> QED
  BY <1>3, <1>13, <1>14, <1>15, <1>16, <1>17, <1>18 DEF IInv

(* The lock is held since the count was taken, so that no other thread has *)
(* counted or reported since.                                              *)
LEMMA ReportFileIsSound ==
  ASSUME IInv, NEW w \in Workers, ReportFile(w)
  PROVE  IInv'
<1>1. /\ worker[w] = "report" /\ IndexProgress(done[w], With(round, "reused")) /\ lock' = None
      /\ worker' = [worker EXCEPT ![w] = "take"]
      /\ UNCHANGED <<inputVars, roundVars, next, completed, crew, taken, done, parts, sums>>
  BY DEF ReportFile
<1>2. w \in crew /\ phase = "parse" /\ Parsing
  BY <1>1, ThreadIs
<1>3. /\ LoopInv' /\ Parsing' /\ phase' = "parse" /\ round' = round /\ fate' = fate
      /\ pending' = pending /\ Total(round)' = Total(round)
      /\ With(round, "reused")' = With(round, "reused")
  BY <1>1, <1>2, ThreadKeepsRound
<1>4. crew \subseteq Workers /\ completed \in Nat /\ Len(pending) \in Nat
  BY <1>2, ParsingIs
<1>5. /\ Total(round) \in Nat /\ With(round, "reused") \in Nat
      /\ sums.done \in Nat /\ sums.reused \in Nat /\ sums.parsed \in Nat
      /\ None \notin Workers
  BY RoundIs, ProgressAssumption DEF Workers
<1>6. lock = w /\ done[w] = completed
  BY <1>1 DEF IInv, CrewInv
<1>7. worker \in [Workers -> {"out", "take", "build", "lock", "report", "error"}]
  BY DEF IInv, TypesOfProgress
<1>8. \A v \in Workers : worker'[v] = IF v = w THEN "take" ELSE worker[v]
  BY <1>1, <1>7
<1>9. PICK u \in Nat : u = With(round, "reused")
  BY <1>5
<1> DEFINE r == Report("indexing", sums.done + completed, sums.done + Total(round),
                       sums.reused + u, sums.parsed + (completed - u))
<1>10. Send(r)
  BY <1>1, <1>6, <1>9 DEF IndexProgress, Progress
<1>11. completed - 1 \in Nat /\ completed - 1 >= u
       /\ sent = Report("indexing", sums.done + (completed - 1), sums.done + Total(round),
                        sums.reused + u, sums.parsed + ((completed - 1) - u))
  <2>1. Reported = completed - 1
    BY <1>5, <1>6 DEF Reported
  <2> QED
    BY <1>2, <1>4, <1>9, <2>1 DEF IInv, SentInv, Counted
<1>12. r \in Reports
  <2>1. completed - u \in Nat /\ sums.parsed + (completed - u) \in Nat
    <3>1. completed - u \in Nat
      BY <1>4, <1>9, <1>11
    <3> QED
      BY <1>5, <3>1
  <2>2. "indexing" \in Stages /\ sums.done + completed \in Nat /\ sums.done + Total(round) \in Nat
        /\ sums.reused + u \in Nat
    BY <1>4, <1>5, <1>9 DEF Stages
  <2> QED
    BY <2>1, <2>2, ReportIsTyped
<1>13. Follows(sent, r)
  <2>1. /\ sums.done + completed >= sums.done + (completed - 1)
        /\ sums.done + Total(round) >= sums.done + Total(round)
        /\ sums.reused + u >= sums.reused + u
        /\ sums.parsed + (completed - u) >= sums.parsed + ((completed - 1) - u)
    BY <1>4, <1>5, <1>9, FurtherSums
  <2>2. "indexing" \in Stages /\ Rank["indexing"] = 2
    BY RankIs DEF Stages
  <2> QED
    BY <1>11, <2>1, <2>2, FollowsIs
<1>14. sent' = r
  BY <1>10 DEF Send
<1>15. SentInv'
  <2>1. Reported' = completed
    BY <1>1 DEF Reported
  <2>2. completed >= u
    BY <1>4, <1>11
  <2> QED
    BY <1>1, <1>3, <1>9, <1>14, <2>1, <2>2 DEF SentInv, Counted
<1> HIDE DEF r
<1>16. EveryReportIsShown'
  BY <1>1, <1>10, <1>13, ReportIsShown DEF IInv
<1>17. TypesOfProgress'
  <2>1. sent' \in Reports /\ shown' \in Reports
    BY <1>10, <1>12, SendIsTyped DEF IInv
  <2>2. worker' \in [Workers -> {"out", "take", "build", "lock", "report", "error"}]
    BY <1>1, <1>7
  <2> QED
    BY <1>1, <2>1, <2>2 DEF IInv, TypesOfProgress, inputVars, roundVars, Reports
<1>18. CrewInv'
  BY <1>1, <1>2, <1>3, <1>5, <1>6, <1>8 DEF IInv, CrewInv
<1>19. PartsInv'
  <2>1. Drawn' = Drawn /\ crew' = crew /\ parts' = parts /\ taken' = taken /\ next' = next
    BY <1>1, <1>3, DrawnStays
  <2>2. \A v \in crew : /\ worker'[v] # "error" <=> worker[v] # "error"
                        /\ worker'[v] = "out" <=> worker[v] = "out"
    BY <1>1, <1>4, <1>8
  <2> QED
    BY <1>2, <1>3, <2>1, <2>2 DEF IInv, PartsInv
<1>20. CountInv'
  <2>1. InHand' = InHand /\ Gone' = Gone
    BY <1>1, <1>4, <1>8 DEF InHand, Gone
  <2> QED
    BY <1>1, <1>2, <1>3, <2>1 DEF IInv, CountInv
<1> QED
  BY <1>3, <1>15, <1>16, <1>17, <1>18, <1>19, <1>20 DEF IInv

(***************************************************************************)
(* The threads are joined, and the round is over.                          *)
(***************************************************************************)

(* An error ends the build; without one every thread is out.               *)
LEMMA JoinIsSound ==
  ASSUME IInv, Join
  PROVE  IInv'
<1>1. /\ phase = "parse" /\ \A w \in crew : worker[w] \in {"out", "error"}
      /\ phase' = IF \E w \in crew : worker[w] = "error" THEN "failed" ELSE "joined"
      /\ round' = round /\ reusing' = reusing /\ pending' = pending
      /\ UNCHANGED <<inputVars, sharedVars, workerVars, sums, sent, shown>>
  BY DEF Join
<1>2. /\ fate' = fate /\ exact' = exact /\ next' = next /\ completed' = completed /\ lock' = lock
      /\ crew' = crew /\ worker' = worker /\ taken' = taken /\ done' = done /\ parts' = parts
      /\ sums' = sums /\ sent' = sent /\ shown' = shown
  BY <1>1 DEF inputVars, sharedVars, workerVars
<1>3. /\ Total(round)' = Total(round) /\ With(round, "reused")' = With(round, "reused")
      /\ Drawn' = Drawn /\ InHand' = InHand /\ Gone' = Gone /\ Reported' = Reported
  BY <1>1, <1>2 DEF Total, With, Drawn, InHand, Gone, Reported
<1>4. phase' \in {"failed", "joined"} /\ Parsing
  BY <1>1 DEF Parsing
<1>5. TypesOfProgress'
  BY <1>1, <1>2, <1>4 DEF IInv, TypesOfProgress
<1>6. LoopInv'
  BY <1>1, <1>2, <1>3, <1>4 DEF IInv, LoopInv
<1>7. CrewInv'
  <2>1. \A w \in Workers : worker[w] \in {"out", "error"}
    BY <1>1 DEF IInv, CrewInv
  <2>2. phase' = "joined" => \A w \in crew : worker[w] = "out"
    BY <1>1
  <2> QED
    BY <1>1, <1>2, <1>4, <2>1, <2>2 DEF IInv, CrewInv
<1>8. PartsInv'
  BY <1>1, <1>2, <1>3, <1>4 DEF IInv, PartsInv
<1>9. CountInv'
  BY <1>1, <1>2, <1>3, <1>4 DEF IInv, CountInv
<1>10. SentInv'
  BY <1>1, <1>2, <1>3, <1>4 DEF IInv, SentInv, Parsing, Counted
<1>11. EveryReportIsShown'
  BY <1>1, <1>2, SilenceIsShown DEF IInv
<1> QED
  BY <1>5, <1>6, <1>7, <1>8, <1>9, <1>10, <1>11 DEF IInv

(* Joined without an error, the threads have built what was not reused.    *)
LEMMA AllIsBuilt ==
  ASSUME IInv, phase = "joined"
  PROVE  /\ UNION {parts[w] : w \in crew} = Unreused(round)
         /\ \A i \in Unreused(round) : fate[round][i] # "error"
         /\ completed = Total(round) /\ lock = None
<1>1. Parsing /\ phase # "parse" /\ phase \in {"parse", "joined"}
  BY DEF Parsing
<1>2. /\ crew # {} /\ \A w \in crew : worker[w] = "out"
      /\ \A w \in Workers : /\ worker[w] \in {"out", "error"}
                            /\ taken[w] = None /\ lock # w
  BY <1>1 DEF IInv, CrewInv
<1>3. /\ crew \subseteq Workers /\ {pending[j] : j \in 1 .. Len(pending)} = Unreused(round)
      /\ With(round, "reused") + Len(pending) = Total(round)
      /\ completed \in Nat /\ Len(pending) \in Nat /\ next \in Nat
      /\ \A j \in 1 .. Len(pending) : pending[j] \in FileNumbers
  BY <1>1, ParsingIs
<1>4. /\ \A w \in crew : /\ parts[w] \subseteq Drawn
                         /\ \A i \in parts[w] : fate[round][i] # "error"
                         /\ worker[w] = "out" => next > Len(pending)
      /\ (\A w \in crew : worker[w] # "error") =>
           Drawn \subseteq (UNION {parts[w] : w \in crew}) \union {taken[w] : w \in crew}
  BY <1>1 DEF IInv, PartsInv
<1>5. next > Len(pending)
  BY <1>2, <1>4
<1>6. Drawn = Unreused(round)
  <2>1. {j \in 1 .. Len(pending) : j < next} = 1 .. Len(pending)
    BY <1>3, <1>5
  <2> QED
    BY <1>3, <2>1 DEF Drawn
<1>7. UNION {parts[w] : w \in crew} \subseteq Drawn
  BY <1>4
<1>8. Drawn \subseteq UNION {parts[w] : w \in crew}
  <2>1. Drawn \subseteq (UNION {parts[w] : w \in crew}) \union {taken[w] : w \in crew}
    BY <1>2, <1>4
  <2>2. \A w \in crew : taken[w] = None
    BY <1>2, <1>3
  <2>3. None \notin Drawn
    BY <1>3, ProgressAssumption DEF Drawn, FileNumbers
  <2>4. \A i \in {taken[w] : w \in crew} : i = None
    BY <2>2
  <2> QED
    BY <2>1, <2>3, <2>4
<1>9. UNION {parts[w] : w \in crew} = Unreused(round)
  BY <1>6, <1>7, <1>8
<1>10. \A i \in Unreused(round) : fate[round][i] # "error"
  BY <1>4, <1>9
<1>11. lock = None
  BY <1>2 DEF IInv, TypesOfProgress
<1>12. completed = Total(round)
  <2>1. InHand = {}
    BY <1>2 DEF InHand
  <2>2. Cardinality(InHand) = 0
    BY <2>1, FS_EmptySet
  <2>3. completed + Cardinality(InHand) =
          With(round, "reused") + (IF next <= Len(pending) THEN next - 1 ELSE Len(pending))
    BY <1>1 DEF IInv, CountInv
  <2>4. With(round, "reused") \in Nat
    BY RoundIs
  <2> QED
    BY <1>3, <1>5, <2>2, <2>3, <2>4
<1> QED
  BY <1>9, <1>10, <1>11, <1>12

(* A round that skips no file parses what it does not reuse.               *)
LEMMA WhatIsNotReusedIsParsed ==
  ASSUME IInv, phase = "joined"
  PROVE  LET parsed == Cardinality({i \in UNION {parts[w] : w \in crew} : fate[round][i] = "parsed"})
         IN  /\ parsed \in Nat
             /\ ~ Skips => parsed = Total(round) - With(round, "reused")
<1>1. /\ UNION {parts[w] : w \in crew} = Unreused(round)
      /\ \A i \in Unreused(round) : fate[round][i] # "error"
  BY AllIsBuilt
<1>2. /\ round \in 1 .. Rounds /\ Total(round) \in Nat
      /\ fate[round] \in [1 .. Total(round) -> Fates]
      /\ With(round, "reused") = Cardinality(Reused(fate[round], Total(round)))
  BY RoundIs
<1>3. IsFiniteSet(1 .. Total(round)) /\ Cardinality(1 .. Total(round)) = Total(round)
  BY <1>2, FS_Interval
<1> DEFINE built == {i \in Unreused(round) : fate[round][i] = "parsed"}
<1>4. IsFiniteSet(built) /\ Cardinality(built) \in Nat
  <2>1. built \subseteq 1 .. Total(round)
    BY DEF Unreused
  <2> QED
    BY <1>3, <2>1, FS_Subset, FS_CardinalityType
<1>5. ASSUME ~ Skips
      PROVE  Cardinality(built) = Total(round) - With(round, "reused")
  <2>1. ~ exact[round]
    BY DEF IInv, LoopInv
  <2>2. With(round, "skipped") = 0
    <3>1. IsFiniteSet({i \in 1 .. Total(round) : fate[round][i] = "skipped"})
      BY <1>3, FS_Subset
    <3>2. With(round, "skipped") \in Nat
      BY <3>1, FS_CardinalityType DEF With
    <3>3. ~ (With(round, "skipped") > 0)
      BY <1>2, <1>5, <2>1 DEF Skips
    <3> QED
      BY <3>2, <3>3
  <2>3. {i \in 1 .. Total(round) : fate[round][i] = "skipped"} = {}
    <3>1. IsFiniteSet({i \in 1 .. Total(round) : fate[round][i] = "skipped"})
      BY <1>3, FS_Subset
    <3> QED
      BY <2>2, <3>1, FS_EmptySet DEF With
  <2>4. built = (1 .. Total(round)) \ Reused(fate[round], Total(round))
    <3>1. \A i \in 1 .. Total(round) :
            fate[round][i] \in {"reused", "parsed", "skipped", "error"} /\ fate[round][i] # "skipped"
      BY <1>2, <2>3 DEF Fates
    <3> QED
      BY <1>1, <3>1 DEF Unreused, Reused
  <2>5. Reused(fate[round], Total(round)) \subseteq 1 .. Total(round)
    BY DEF Reused
  <2>6. (1 .. Total(round)) \intersect Reused(fate[round], Total(round)) =
          Reused(fate[round], Total(round))
    BY <2>5
  <2>7. Cardinality((1 .. Total(round)) \ Reused(fate[round], Total(round))) =
          Cardinality(1 .. Total(round)) - Cardinality(Reused(fate[round], Total(round)))
    <3>1. Cardinality((1 .. Total(round)) \ Reused(fate[round], Total(round))) =
            Cardinality(1 .. Total(round))
              - Cardinality((1 .. Total(round)) \intersect Reused(fate[round], Total(round)))
      BY <1>3, FS_Difference, Zenon
    <3> QED
      BY <2>6, <3>1, Zenon
  <2> HIDE DEF built
  <2> QED
    BY <1>2, <1>3, <2>4, <2>7
<1> QED
  BY <1>1, <1>4, <1>5

(* The report that closes a round repeats the count of the last thread.    *)
LEMMA FinishRoundIsSound ==
  ASSUME IInv, FinishRound
  PROVE  IInv'
<1>1. PICK p : p = Cardinality({i \in UNION {parts[w] : w \in crew} : fate[round][i] = "parsed"})
  OBVIOUS
<1>2. /\ Total(round) \in Nat /\ With(round, "reused") \in Nat
      /\ sums.done \in Nat /\ sums.reused \in Nat /\ sums.parsed \in Nat
  BY RoundIs
<1>3. PICK t \in Nat, u \in Nat : t = Total(round) /\ u = With(round, "reused")
  BY <1>2
<1> DEFINE r == Report("indexing", sums.done + t, sums.done + t, sums.reused + u,
                       sums.parsed + p)
<1>4. /\ phase = "joined" /\ phase' = "indexed" /\ round' = round
      /\ reusing' = reusing /\ pending' = pending /\ Send(r)
      /\ sums' = [done |-> sums.done + t, reused |-> sums.reused + u, parsed |-> sums.parsed + p]
      /\ UNCHANGED <<inputVars, sharedVars, workerVars>>
  BY <1>1, <1>3 DEF FinishRound, Progress
<1>5. p \in Nat /\ (~ Skips => p = t - u)
  BY <1>1, <1>3, <1>4, WhatIsNotReusedIsParsed
<1>6. sent = Report("indexing", sums.done + t, sums.done + t, sums.reused + u,
                    sums.parsed + (t - u))
  <2>1. completed = t /\ lock = None
    BY <1>3, <1>4, AllIsBuilt
  <2>2. Reported = t
    BY <2>1 DEF Reported
  <2> QED
    BY <1>3, <1>4, <2>2 DEF IInv, SentInv, Parsing, Counted
<1>7. r \in Reports
  <2>1. /\ "indexing" \in Stages /\ sums.done + t \in Nat /\ sums.reused + u \in Nat
        /\ sums.parsed + p \in Nat
    BY <1>2, <1>3, <1>5 DEF Stages
  <2> QED
    BY <2>1, ReportIsTyped
<1>8. ~ Skips => Follows(sent, r)
  <2>1. ASSUME ~ Skips
        PROVE  Follows(sent, r)
    <3>1. /\ sums.done + t >= sums.done + t /\ sums.reused + u >= sums.reused + u
          /\ sums.parsed + p >= sums.parsed + (t - u)
      BY <1>2, <1>3, <1>5, <2>1
    <3>2. "indexing" \in Stages /\ Rank["indexing"] = 2
      BY RankIs DEF Stages
    <3> QED
      BY <1>6, <3>1, <3>2, FollowsIs
  <2> QED
    BY <2>1
<1>9. sent' = r
  BY <1>4 DEF Send
<1>10. SentInv'
  BY <1>4, <1>9 DEF SentInv, Parsing, Sums
<1> HIDE DEF r
<1>11. TypesOfProgress'
  <2>1. sums' \in [done : Nat, reused : Nat, parsed : Nat]
    BY <1>2, <1>3, <1>4, <1>5
  <2> QED
    BY <1>4, <1>7, <2>1, SendIsTyped, BuilderTypes DEF IInv, TypesOfProgress
<1>12. CrewInv' /\ PartsInv' /\ CountInv'
  BY <1>4, ThreadsRest DEF IInv
<1>13. LoopInv'
  BY <1>4 DEF LoopInv
<1>14. EveryReportIsShown'
  BY <1>4, <1>8, ReportIsShown DEF IInv
<1> QED
  BY <1>10, <1>11, <1>12, <1>13, <1>14 DEF IInv

(* The base continues where the head ended.                                *)
LEMMA NextRoundIsSound ==
  ASSUME IInv, NextRound
  PROVE  IInv'
<1>1. /\ phase = "indexed" /\ phase' = "start" /\ round < Rounds /\ round' = round + 1
      /\ reusing' = reusing /\ pending' = pending /\ sums' = sums
      /\ sent' = sent /\ shown' = shown
      /\ UNCHANGED <<inputVars, sharedVars, workerVars>>
  BY DEF NextRound
<1>2. round' \in 1 .. Rounds
  BY <1>1, RoundIs, ProgressAssumption
<1>3. TypesOfProgress'
  BY <1>1, <1>2, BuilderTypes DEF IInv, TypesOfProgress, Reports
<1>4. CrewInv' /\ PartsInv' /\ CountInv'
  BY <1>1, ThreadsRest DEF IInv
<1>5. LoopInv'
  BY <1>1 DEF LoopInv
<1>6. SentInv'
  BY <1>1 DEF IInv, SentInv, Parsing, Sums
<1>7. EveryReportIsShown'
  BY <1>1, SilenceIsShown DEF IInv
<1> QED
  BY <1>3, <1>4, <1>5, <1>6, <1>7 DEF IInv

(* The last two reports name the stage and repeat the counters.            *)
LEMMA LastReportsAreSound ==
  ASSUME IInv, ResolveGraph \/ Published
  PROVE  IInv'
<1>1. PICK s, t \in Stages :
        /\ sent = Sums(s) /\ Send(Sums(t)) /\ Rank[t] = Rank[s] + 1
        /\ \/ phase = "indexed" /\ phase' = "resolved" /\ t = "resolving_graph"
           \/ phase = "resolved" /\ phase' = "published" /\ t = "publishing"
  <2>1. CASE ResolveGraph
    BY <2>1, RankIs DEF ResolveGraph, Sums, IInv, SentInv, Stages
  <2>2. CASE Published
    BY <2>2, RankIs DEF Published, Sums, IInv, SentInv, Stages
  <2> QED
    BY <2>1, <2>2
<1>2. /\ round' = round /\ reusing' = reusing /\ pending' = pending /\ sums' = sums
      /\ UNCHANGED <<inputVars, sharedVars, workerVars>>
  BY DEF ResolveGraph, Published
<1>3. sums.done \in Nat /\ sums.reused \in Nat /\ sums.parsed \in Nat /\ round \in 1 .. Rounds
  BY RoundIs
<1>4. sent' = Sums(t)
  BY <1>1 DEF Send
<1>5. Sums(t) \in Reports
  BY <1>3, ReportIsTyped DEF Sums
<1>6. Follows(sent, Sums(t))
  <2>1. sums.done >= sums.done /\ sums.reused >= sums.reused /\ sums.parsed >= sums.parsed
    BY <1>3
  <2> QED
    BY <1>1, <2>1, FollowsIs DEF Sums
<1>7. TypesOfProgress'
  BY <1>1, <1>2, <1>3, <1>5, SendIsTyped, BuilderTypes DEF IInv, TypesOfProgress
<1>8. CrewInv' /\ PartsInv' /\ CountInv'
  BY <1>1, <1>2, ThreadsRest DEF IInv
<1>9. LoopInv'
  BY <1>1 DEF LoopInv
<1>10. SentInv'
  BY <1>1, <1>2, <1>4 DEF SentInv, Parsing, Sums
<1>11. EveryReportIsShown'
  BY <1>1, <1>2, <1>6, ReportIsShown DEF IInv
<1> QED
  BY <1>7, <1>8, <1>9, <1>10, <1>11 DEF IInv

----------------------------------------------------------------------------
(* The step.                                                               *)
LEMMA RestIsSound ==
  ASSUME IInv, UNCHANGED progressVars
  PROVE  IInv'
<1>1. /\ fate' = fate /\ exact' = exact /\ phase' = phase /\ round' = round
      /\ reusing' = reusing /\ pending' = pending /\ crew' = crew /\ next' = next
      /\ completed' = completed /\ lock' = lock /\ worker' = worker /\ taken' = taken
      /\ done' = done /\ parts' = parts /\ sums' = sums /\ sent' = sent /\ shown' = shown
  BY DEF progressVars, inputVars, roundVars, sharedVars, workerVars
<1>2. TypesOfProgress' /\ LoopInv' /\ CrewInv'
  <2>1. TypesOfProgress'
    BY <1>1 DEF IInv, TypesOfProgress
  <2>2. LoopInv'
    BY <1>1 DEF IInv, LoopInv, Total
  <2>3. CrewInv'
    BY <1>1 DEF IInv, CrewInv
  <2> QED
    BY <2>1, <2>2, <2>3
<1>3. PartsInv'
  <2>1. PartsInv
    BY DEF IInv
  <2>2. Drawn' = Drawn /\ Parsing' = Parsing
    BY <1>1, Zenon DEF Drawn, Parsing
  <2> QED
    BY <1>1, <2>1, <2>2 DEF PartsInv
<1>4. CountInv'
  BY <1>1 DEF IInv, CountInv, Parsing, InHand, Gone, With, Total
<1>5. SentInv'
  BY <1>1 DEF IInv, SentInv, Parsing, Counted, Sums, Reported, With, Total
<1>6. EveryReportIsShown'
  BY <1>1, SilenceIsShown DEF IInv, inputVars
<1> QED
  BY <1>2, <1>3, <1>4, <1>5, <1>6 DEF IInv

(* Every step.                                                             *)
LEMMA StepIsSound == IInv /\ [NextProgress]_progressVars => IInv'
<1> SUFFICES ASSUME IInv, [NextProgress]_progressVars
             PROVE  IInv'
  OBVIOUS
<1>1. CASE Builder
  BY <1>1, CapturedIsSound, SeededIsSound, UseExactIsSound, StartIndexIsSound, ReuseFileIsSound,
     SpawnIsSound, JoinIsSound, FinishRoundIsSound, NextRoundIsSound, LastReportsAreSound
     DEF Builder
<1>2. CASE \E w \in Workers : Parser(w)
  BY <1>2, TakeIsSound, BuildFileIsSound, CountIsSound, ReportFileIsSound DEF Parser
<1>3. CASE Ended \/ UNCHANGED progressVars
  BY <1>3, RestIsSound DEF Ended
<1> QED
  BY <1>1, <1>2, <1>3 DEF NextProgress

(* The invariant holds throughout a build.                                 *)
THEOREM BuildInvariant == SpecProgress => []IInv
<1>1. InitProgress => IInv
  BY StartIsSound
<1>2. IInv /\ [NextProgress]_progressVars => IInv'
  BY StepIsSound
<1> QED
  BY <1>1, <1>2, PTL DEF SpecProgress

(* The counters, indices and reports of a build stay within what its files *)
(* and threads allow: next passes the end once per thread, no more.        *)
THEOREM ProgressIsTyped == SpecProgress => []TypesOfProgress
<1>1. IInv => TypesOfProgress
  BY DEF IInv
<1> QED
  BY <1>1, BuildInvariant, PTL

(* pending.get(next.fetch_add(1)): whatever the threads do, no file is     *)
(* built by two of them, and when they have been joined without an error   *)
(* every file that was not reused is built.                                *)
THEOREM FilesAreDividedAmongThreads == SpecProgress => []FilesAreDivided
<1>1. IInv => FilesAreDivided
  <2> SUFFICES ASSUME IInv
               PROVE  FilesAreDivided
    OBVIOUS
  <2>1. phase = "joined" => UNION {parts[w] : w \in crew} = Unreused(round)
    BY AllIsBuilt
  <2> QED
    BY <2>1 DEF IInv, PartsInv, FilesAreDivided
<1> QED
  BY <1>1, BuildInvariant, PTL

(* JobReporter drops no report of a build that skips no file, from one     *)
(* stage, thread or round to the next.                                     *)
THEOREM ReportsAreKept == SpecProgress => []EveryReportIsShown
<1>1. IInv => EveryReportIsShown
  BY DEF IInv
<1> QED
  BY <1>1, BuildInvariant, PTL

============================================================================
