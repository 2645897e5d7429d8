--------------------------- MODULE GitCaptureProofs ---------------------------
(***************************************************************************)
(* What a capture of GitCapture promises, for any paths, contents, worlds  *)
(* and calls, however often others write, stage and commit meanwhile.      *)
(*                                                                         *)
(* Four invariants carry the proofs.  PlaceInv says how far a capture is,  *)
(* TimeInv that Git's verdicts on files are right (Verdict), FoundInv that *)
(* what was found was there.  StateInv is about the world m at the end of  *)
(* the first digest: as long as a path holds what this digest says of it,  *)
(* all that was found about the path since is what m shows.  Nobody can    *)
(* change a path away from the digest and back without returned becoming   *)
(* TRUE, so that the last digest makes m the state that was captured.      *)
(***************************************************************************)
EXTENDS GitCapture, TLAPS

(***************************************************************************)
(* How far a capture is.                                                   *)
(***************************************************************************)
WorktreePasses ==
  {"list", "hash", "overlayList", "overlayRead", "inventory", "patch", "otherList",
   "otherRead"}
ChangePasses == WorktreePasses \ {"list", "hash"}
LastPasses == {"artifacts", "artifact", "layers"}
Reads == {"hash", "overlayRead", "otherRead", "artifact"}

PlaceInv ==
  /\ result = "running" <=> at # "done"
  /\ at \in {"head", "index", "copy"} => taken = 0 /\ capture = Nothing
  /\ at \in {"index", "copy"} => call.target # "commit"
  /\ at \in WorktreePasses \union {"artifact"} => call.target = "worktree"
  /\ at \in {"list", "hash"} => taken \in 0 .. 2
  /\ at # "hash" => digest = Unhashed
  /\ at \in ChangePasses => taken = 1
  /\ at \in {"currentIndex", "currentHead"} => call.target # "commit" /\ taken \in {2, 3}
  /\ at \in LastPasses => taken = IF call.target = "commit" THEN 0 ELSE 2
  /\ result = "done" => taken = IF call.target = "commit" THEN 0 ELSE 3
  /\ at \in {"artifacts", "artifact"} => todo \subseteq call.requested
  /\ at = "artifacts" => mark = NoValue

(* Copy and capture are there.                                             *)
Alive == result \in {"running", "done"} /\ at \notin {"head", "index", "copy"}
Copied == Alive /\ call.target # "commit"
InWorktree == Alive /\ call.target = "worktree"

(* What is known of a path.                                                *)
Overlaid(p) ==
  /\ taken # 0
  /\ at = "overlayList" => p \notin todo \union listed
  /\ at = "overlayRead" => p \notin todo
Inventoried(p) ==
  /\ taken # 0 /\ at \notin {"overlayList", "overlayRead"}
  /\ at = "inventory" => p \notin todo
ArtifactsTaken == at = "layers" \/ taken = 3 \/ (taken = 2 /\ at \in {"list", "hash"})
                    \/ result = "done"
ArtifactKnown(p) ==
  p \in call.requested /\ (ArtifactsTaken \/ (at \in {"artifacts", "artifact"} /\ p \notin todo))
LayersKnown(p) ==
  \/ at = "layers" /\ p \notin todo
  \/ taken = 3 \/ (taken = 2 /\ at \in {"list", "hash"}) \/ result = "done"

(***************************************************************************)
(* Git's clock.                                                            *)
(***************************************************************************)
TimeInv ==
  /\ clock >= 1 /\ world.indexTime <= clock /\ copy.time <= clock
  /\ WellTimed(world.index, world.indexTime, world.work)
  /\ WellTimed(copy.index, copy.time, world.work)
  /\ \A p \in Paths : world.work[p].stamp <= moves

(***************************************************************************)
(* What was found was there.                                               *)
(***************************************************************************)
IsCopy(w) == \A p \in Paths : Blob(w.index, p) = Blob(copy.index, p)

FoundInv ==
  /\ world \in past
  /\ Copied => \E w \in past : IsCopy(w)
  /\ Copied => \E w \in past : w.head = HeadOid
  /\ at \in {"index", "copy"} => \E w \in past : w.head = HeadOid
  /\ \A p \in Paths :
       /\ capture.sources[p] # Absent => WasThere(p, capture.sources[p])
       /\ capture.artifacts[p] # NoValue => WasThere(p, capture.artifacts[p])
       /\ Alive /\ ArtifactKnown(p) => capture.artifacts[p] # NoValue

(***************************************************************************)
(* A capture that nobody disturbs.                                         *)
(***************************************************************************)
Differs(p) ==
  /\ p \notin call.evidence
  /\ \/ Blob(world.index, p) # Absent /\ ContentOf(world.work, p) # Blob(world.index, p)
     \/ call.untracked /\ Untracked(world.index, world.work, p)
Dirt(p) == IF Differs(p) THEN ContentOf(world.work, p) ELSE NoValue
StatusThen(p) ==
  Status(BaseTree[p],
         IF Blob(world.index, p) # Absent THEN ContentOf(world.work, p) ELSE Absent)

QuietInv ==
  /\ at = "copy" => mark = world.indexStamp
  /\ at \in {"index", "copy"} \/ Copied => world.head = HeadOid
  /\ Copied => IsCopy(world)
  /\ at \in Reads /\ mark # NoValue => \A p \in Paths : First(p) => mark = Version(p)
  /\ at = "list" => \A p \in Paths : p \in listed <=> p \notin todo /\ Differs(p)
  /\ at = "hash" =>
       \A p \in Paths : IF p \in todo THEN Differs(p) /\ digest[p] = NoValue
                        ELSE digest[p] = Dirt(p)
  /\ InWorktree /\ taken # 0 => \A p \in Paths : first[p] = Dirt(p)
  /\ at \in ChangePasses =>
       \A p \in Paths :
         /\ Inventoried(p) => capture.inventory[p] = StatusThen(p)
         /\ at \in {"otherList", "otherRead"} \/ (at = "patch" /\ p \notin todo)
              => capture.patch[p] = StatusThen(p)
  /\ at = "artifact" /\ InputsAreThere =>
       \A p \in Paths : First(p) => ContentOf(world.work, p) # Absent
  /\ InputsAreThere /\ ~ TakenOut => result # "changed"

(* The untracked paths found are those there are, and so are their reports. *)
OthersInv ==
  /\ \A p \in capture.untracked :
       IsUntracked(world, p) /\ capture.reports[p] = Report(ContentOf(world.work, p))
  /\ at = "otherList" => \A p \in listed : IsUntracked(world, p)
  /\ at = "otherRead" => \A p \in todo : IsUntracked(world, p)

(***************************************************************************)
(* The state that is captured.                                             *)
(***************************************************************************)

(* What a digest says of a path, if the digest is about it.                *)
Hashed(d, p) == IF d[p] = NoValue THEN Blob(copy.index, p) ELSE d[p]
Says(p) == Hashed(first, p)
Watched(p) == Blob(copy.index, p) # Absent \/ (call.untracked /\ p \notin call.evidence)
Passed(p) ==
  \/ at = "list" /\ p \notin todo \union listed
  \/ at = "hash" /\ p \notin todo
Seen(p, c) == \E w \in past : ContentOf(w.work, p) = c

(* A path that no digest is about is not listed or read either.            *)
UnwatchedInv(p) ==
  ~ Watched(p) =>
    /\ digest[p] = NoValue /\ (taken # 0 => first[p] = NoValue)
    /\ p \notin listed /\ (at \in {"hash", "overlayRead", "otherRead"} => p \notin todo)
    /\ at = "artifact" /\ First(p) => p \in call.evidence
SeenInv(p) ==
  Watched(p) =>
    /\ taken # 0 => Seen(p, Says(p))
    /\ taken = 0 /\ Passed(p) => Seen(p, Hashed(digest, p))
    /\ taken = 0 /\ at = "hash" /\ First(p) /\ mark = 0 => Seen(p, Absent)
UnreadInv(p) ==
  /\ p \in call.evidence => Blob(copy.index, p) = Absent
  /\ p \notin Sources => capture.sources[p] = Absent
  /\ p \in Sources /\ ~ Overlaid(p) => capture.sources[p] = Blob(copy.index, p)
  /\ taken = 0 \/ at \in ChangePasses \ {"otherRead"} => p \notin capture.untracked

Digested(p) == UnwatchedInv(p) /\ SeenInv(p) /\ UnreadInv(p)
DigestInv == InWorktree => \A p \in Paths : Digested(p)

(* What the capture should say of a path that held c.                      *)
SourceOf(p, c) ==
  p \in Sources =>
    \/ capture.sources[p] = IF c \in Binary THEN Absent ELSE c
    \/ c \in Binary /\ capture.sources[p] = c
StatusOf(p, c) ==
  capture.inventory[p] = Status(BaseTree[p], IF Blob(copy.index, p) = Absent THEN Absent ELSE c)
OtherIs(p, c) ==
  call.untracked /\ p \notin call.evidence /\ Blob(copy.index, p) = Absent /\ c # Absent
OthersOf(p, c) ==
  CASE at \in {"overlayList", "overlayRead", "inventory", "patch"} -> TRUE
    [] at = "otherList" -> p \in listed <=> p \notin todo /\ OtherIs(p, c)
    [] at = "otherRead" -> p \in todo \union capture.untracked <=> OtherIs(p, c)
    [] OTHER -> p \in capture.untracked <=> OtherIs(p, c)
LayersFor(p, c) ==
  (IF HeadTree[p] # BaseTree[p] THEN {"committed"} ELSE {})
    \union (IF IndexAt(p) # HeadTree[p] THEN {"staged"} ELSE {})
    \union (IF call.target = "worktree" /\ Blob(copy.index, p) # Absent /\ c # Blob(copy.index, p)
            THEN {"unstaged"} ELSE {})
    \union (IF p \in capture.untracked THEN {"untracked"} ELSE {})

(* All that was found about the path says so.                              *)
Tells(p, c) ==
  /\ Overlaid(p) => SourceOf(p, c)
  /\ Inventoried(p) => StatusOf(p, c)
  /\ OthersOf(p, c)
  /\ ArtifactKnown(p) /\ p \notin call.evidence => capture.artifacts[p] = c
  /\ LayersKnown(p) => capture.layers[p] = IF Changed(p) THEN LayersFor(p, c) ELSE {}
MarkTells(p, c) ==
  at \in Reads /\ First(p) /\ mark # NoValue =>
    IF mark = 0 THEN c = Absent ELSE Version(p) = mark

(* The path is as it was, so far as a digest can tell.                     *)
Steady(p) == Watched(p) => ContentOf(world.work, p) = Says(p)
(* The last digest has found the path as it was.                           *)
Settled(p) ==
  \/ taken = 3
  \/ taken = 2 /\ Passed(p) /\ Hashed(digest, p) = Says(p)
  \/ taken = 2 /\ at = "hash" /\ First(p) /\ mark = 0 /\ Says(p) = Absent

AgreesOn(m, p) ==
  (Watched(p) => ContentOf(m.work, p) = Says(p)) /\ Tells(p, Says(p))

IsOf(m) ==
  /\ \A p \in Paths :
       /\ Steady(p) \/ Settled(p) => AgreesOn(m, p)
       /\ Steady(p) /\ Watched(p) => MarkTells(p, Says(p))
       /\ \/ Blob(world.index, p) = Blob(copy.index, p)
          \/ taken = 3 /\ at \in {"currentHead", "done"}
          => Blob(m.index, p) = Blob(copy.index, p)
  /\ world.head = HeadOid \/ result = "done" => m.head = HeadOid

(* The other targets are read at once: the commit, or the copy.            *)
Fixed(p) ==
  /\ capture.sources[p] = IF p \in Sources THEN IndexAt(p) ELSE Absent
  /\ capture.inventory[p] = Status(BaseTree[p], IndexAt(p))
  /\ p \notin capture.untracked
  /\ ArtifactKnown(p) => capture.artifacts[p] = IndexAt(p)
  /\ LayersKnown(p) => capture.layers[p] = IF Changed(p) THEN LayersFor(p, Absent) ELSE {}
FixedInv == Alive /\ call.target # "worktree" => \A p \in Paths : Fixed(p)

StateInv ==
  /\ InWorktree /\ taken # 0 /\ ~ returned => \E m \in past : IsOf(m)
  /\ Alive /\ call.target = "index" /\ ~ returned =>
       \E m \in past :
         /\ IsCopy(m)
         /\ world.head = HeadOid \/ result = "done" => m.head = HeadOid

(***************************************************************************)
(* Git's verdicts and the parts of a capture.                              *)
(***************************************************************************)

(* Git takes a tracked path for modified if its file holds something else. *)
LEMMA Verdict ==
  ASSUME NEW index \in [Paths -> Entry], NEW time \in Times,
         NEW work \in [Paths -> File], NEW p \in Paths,
         WellTimed(index, time, work)
  PROVE  Modified(index, time, work, p)
           <=> Blob(index, p) # Absent /\ ContentOf(work, p) # Blob(index, p)
<1>1. index[p].time \in Nat /\ work[p].time \in Nat /\ time \in Nat
  BY CaptureAssumption DEF Entry, File, Times
<1> QED
  BY <1>1 DEF WellTimed, Modified, Blob, ContentOf

(* So git diff shows the file of a tracked path.                           *)
LEMMA NewSideIs ==
  ASSUME NEW index \in [Paths -> Entry], NEW time \in Times,
         NEW work \in [Paths -> File], NEW p \in Paths,
         WellTimed(index, time, work)
  PROVE  NewSide(index, time, work, p)
           = IF Blob(index, p) = Absent THEN Absent ELSE ContentOf(work, p)
BY Verdict DEF NewSide

LEMMA StatusType ==
  ASSUME NEW old, NEW new
  PROVE  Status(old, new) \in Statuses
BY DEF Status, Statuses

(* What is found of one path changes nothing else of the capture.          *)
LEMMA SetSource ==
  ASSUME NEW c \in Captures, NEW p \in Paths, NEW x \in Held, NEW d,
         d = [c EXCEPT !.sources[p] = x]
  PROVE  /\ d \in Captures /\ d.sources = [c.sources EXCEPT ![p] = x]
         /\ d.inventory = c.inventory /\ d.patch = c.patch /\ d.untracked = c.untracked
         /\ d.reports = c.reports /\ d.artifacts = c.artifacts /\ d.layers = c.layers
BY DEF Captures
LEMMA SetInventory ==
  ASSUME NEW c \in Captures, NEW p \in Paths, NEW x \in Statuses, NEW d,
         d = [c EXCEPT !.inventory[p] = x]
  PROVE  /\ d \in Captures /\ d.inventory = [c.inventory EXCEPT ![p] = x]
         /\ d.sources = c.sources /\ d.patch = c.patch /\ d.untracked = c.untracked
         /\ d.reports = c.reports /\ d.artifacts = c.artifacts /\ d.layers = c.layers
BY DEF Captures
LEMMA SetPatch ==
  ASSUME NEW c \in Captures, NEW p \in Paths, NEW x \in Statuses, NEW d,
         d = [c EXCEPT !.patch[p] = x]
  PROVE  /\ d \in Captures /\ d.patch = [c.patch EXCEPT ![p] = x]
         /\ d.sources = c.sources /\ d.inventory = c.inventory /\ d.untracked = c.untracked
         /\ d.reports = c.reports /\ d.artifacts = c.artifacts /\ d.layers = c.layers
BY DEF Captures
LEMMA SetArtifact ==
  ASSUME NEW c \in Captures, NEW p \in Paths, NEW x \in Contents, NEW d,
         d = [c EXCEPT !.artifacts[p] = x]
  PROVE  /\ d \in Captures /\ d.artifacts = [c.artifacts EXCEPT ![p] = x]
         /\ d.sources = c.sources /\ d.inventory = c.inventory /\ d.patch = c.patch
         /\ d.untracked = c.untracked /\ d.reports = c.reports /\ d.layers = c.layers
BY DEF Captures
LEMMA SetLayers ==
  ASSUME NEW c \in Captures, NEW p \in Paths, NEW x \in SUBSET Layers, NEW d,
         d = [c EXCEPT !.layers[p] = x]
  PROVE  /\ d \in Captures /\ d.layers = [c.layers EXCEPT ![p] = x]
         /\ d.sources = c.sources /\ d.inventory = c.inventory /\ d.patch = c.patch
         /\ d.untracked = c.untracked /\ d.reports = c.reports /\ d.artifacts = c.artifacts
BY DEF Captures
LEMMA CaptureFields ==
  ASSUME NEW c \in Captures
  PROVE  /\ c.sources \in [Paths -> Held] /\ c.inventory \in [Paths -> Statuses]
         /\ c.patch \in [Paths -> Statuses] /\ c.untracked \subseteq Paths
         /\ c.reports \in [Paths -> Forms \union {NoValue}]
         /\ c.artifacts \in [Paths -> Contents \union {NoValue}]
         /\ c.layers \in [Paths -> SUBSET Layers]
BY DEF Captures
LEMMA ReportType ==
  ASSUME NEW content
  PROVE  Report(content) \in Forms
BY DEF Report, Forms
LEMMA NothingFound ==
  /\ Nothing \in Captures /\ NoIndex \in Copies
  /\ Unhashed \in [Paths -> Held \union {NoValue}]
<1>1. Nothing \in Captures
  BY DEF Nothing, Captures, Held, Statuses
<1>2. NoIndex \in Copies
  BY CaptureAssumption DEF NoIndex, Copies, NoEntry, Entry, Held, Times
<1> QED
  BY <1>1, <1>2 DEF Unhashed

(* A pass visits one path at a time.                                       *)
LEMMA OneIsFirst ==
  ASSUME NEW p \in Paths, NEW q \in Paths, First(p), First(q)
  PROVE  p = q
BY CaptureAssumption DEF First

(* The world's parts.                                                      *)
LEMMA WorldFields ==
  ASSUME NEW w \in World
  PROVE  /\ w.head \in Heads /\ w.index \in [Paths -> Entry] /\ w.work \in [Paths -> File]
         /\ w.indexTime \in Times /\ w.indexStamp \in 0 .. MaxMoves
         /\ \A p \in Paths : /\ Blob(w.index, p) \in Held /\ ContentOf(w.work, p) \in Held
                             /\ w.work[p].time \in Times /\ w.work[p].stamp \in 0 .. MaxMoves
                             /\ w.index[p].time \in Times
BY DEF World, Entry, File, Blob, ContentOf
LEMMA CopyFields ==
  ASSUME NEW c \in Copies
  PROVE  /\ c.index \in [Paths -> Entry] /\ c.time \in Times
         /\ \A p \in Paths : Blob(c.index, p) \in Held /\ c.index[p].time \in Times
BY DEF Copies, Entry, Blob

(***************************************************************************)
(* What others do.                                                         *)
(***************************************************************************)
LEMMA WorldWritten ==
  ASSUME NEW w \in World, NEW p \in Paths, NEW f \in File, NEW v,
         v = [w EXCEPT !.work[p] = f]
  PROVE  /\ v \in World /\ v.work = [w.work EXCEPT ![p] = f]
         /\ v.head = w.head /\ v.index = w.index
         /\ v.indexTime = w.indexTime /\ v.indexStamp = w.indexStamp
BY DEF World
LEMMA WorldStaged ==
  ASSUME NEW w \in World, NEW i \in [Paths -> Entry], NEW t \in Times,
         NEW s \in 0 .. MaxMoves, NEW v,
         v = [w EXCEPT !.index = i, !.indexTime = t, !.indexStamp = s]
  PROVE  /\ v \in World /\ v.index = i /\ v.indexTime = t /\ v.indexStamp = s
         /\ v.head = w.head /\ v.work = w.work
BY DEF World
LEMMA WorldMoved ==
  ASSUME NEW w \in World, NEW h \in Heads, NEW v, v = [w EXCEPT !.head = h]
  PROVE  /\ v \in World /\ v.head = h /\ v.index = w.index /\ v.work = w.work
         /\ v.indexTime = w.indexTime /\ v.indexStamp = w.indexStamp
BY DEF World

(* One move of somebody else.                                              *)
Written(w, p) ==
  \E f \in File :
    /\ w = [world EXCEPT !.work[p] = f]
    /\ f.stamp <= moves + 1 /\ (f.content # Absent => f.time = clock)
StagedIndex(p) == [q \in Paths |-> IF q = p THEN Staged(q) ELSE Smudged(q)]
StagedWorld(p) ==
  [world EXCEPT !.index = StagedIndex(p), !.indexTime = clock, !.indexStamp = moves + 1]

LEMMA StagedType ==
  ASSUME TypeOK, NEW p \in Paths
  PROVE  StagedIndex(p) \in [Paths -> Entry]
<1> SUFFICES ASSUME NEW q \in Paths
             PROVE  Staged(q) \in Entry /\ Smudged(q) \in Entry
  BY DEF StagedIndex
<1>1. /\ world.index[q] \in Entry /\ Blob(world.index, q) \in Held
      /\ ContentOf(world.work, q) \in Held /\ world.work[q].time \in Times
  BY WorldFields DEF TypeOK
<1>2. 0 \in Times
  BY CaptureAssumption DEF Times
<1>3. NoEntry \in Entry
  BY <1>2 DEF NoEntry, Entry, Held
<1>4. Staged(q) \in Entry
  BY <1>1, <1>3 DEF Staged, Entry
<1>5. Smudged(q) \in Entry
  BY <1>1, <1>2 DEF Smudged, Entry
<1> QED
  BY <1>4, <1>5

(* What a step of others may be.                                           *)
LEMMA OthersDo ==
  ASSUME TypeOK, Others
  PROVE  \/ Tick
         \/ \E p \in Paths, w \in World : Written(w, p) /\ Move(w)
         \/ \E p \in Paths : StagedWorld(p) \in World /\ Move(StagedWorld(p))
         \/ \E h \in Heads, w \in World : w = [world EXCEPT !.head = h] /\ Move(w)
<1>0. /\ world \in World /\ clock \in Times /\ moves \in 0 .. MaxMoves /\ MaxMoves \in Nat
      /\ 0 \in Times
  BY CaptureAssumption DEF TypeOK, Times
<1>1. ASSUME NEW p \in Paths, NEW c \in Contents, Write(p, c)
      PROVE  \E w \in World : Written(w, p) /\ Move(w)
  <2> DEFINE f == [content |-> c, time |-> clock, stamp |-> moves + 1]
             w == [world EXCEPT !.work[p] = f]
  <2>1. Move(w)
    BY <1>1 DEF Write
  <2>2. moves < MaxMoves
    BY <2>1 DEF Move
  <2>3. f \in File
    BY <1>0, <2>2 DEF File, Held
  <2>4. w \in World
    BY <1>0, <2>3, WorldWritten
  <2>5. f.stamp <= moves + 1 /\ (f.content # Absent => f.time = clock)
    BY <1>0
  <2>6. Written(w, p)
    <3> HIDE DEF f
    <3> QED
      BY <2>3, <2>5 DEF Written
  <2> QED
    BY <2>1, <2>4, <2>6
<1>2. ASSUME NEW p \in Paths, Remove(p)
      PROVE  \E w \in World : Written(w, p) /\ Move(w)
  <2> DEFINE w == [world EXCEPT !.work[p] = NoFile]
  <2>1. Move(w)
    BY <1>2 DEF Remove
  <2>3. NoFile \in File
    BY <1>0 DEF NoFile, File, Held
  <2>4. w \in World
    BY <1>0, <2>3, WorldWritten
  <2>5. NoFile.stamp <= moves + 1 /\ (NoFile.content # Absent => NoFile.time = clock)
    BY <1>0 DEF NoFile
  <2>6. Written(w, p)
    BY <2>3, <2>5 DEF Written
  <2> QED
    BY <2>1, <2>4, <2>6
<1>3. ASSUME NEW p \in Paths, Stage(p)
      PROVE  StagedWorld(p) \in World /\ Move(StagedWorld(p))
  <2>1. Move(StagedWorld(p))
    BY <1>3 DEF Stage, StagedWorld, StagedIndex
  <2>2. moves < MaxMoves
    BY <2>1 DEF Move
  <2>3. moves + 1 \in 0 .. MaxMoves
    BY <1>0, <2>2
  <2>4. StagedIndex(p) \in [Paths -> Entry]
    BY StagedType
  <2>5. StagedWorld(p) \in World
    BY <1>0, <2>3, <2>4 DEF StagedWorld, World
  <2> QED
    BY <2>1, <2>5
<1>4. ASSUME NEW h \in Heads, MoveHead(h)
      PROVE  \E w \in World : w = [world EXCEPT !.head = h] /\ Move(w)
  BY <1>0, <1>4, WorldMoved DEF MoveHead
<1> QED
  BY <1>1, <1>2, <1>3, <1>4 DEF Others

(* What a capture sees of it.  As long as nothing returned, the world is   *)
(* again what it was at some time only where it has not changed.           *)
Keeps(w) ==
  \A v \in past :
    /\ v.head = w.head => world.head = w.head
    /\ \A p \in Paths :
         /\ Blob(v.index, p) = Blob(w.index, p) => Blob(world.index, p) = Blob(w.index, p)
         /\ ContentOf(v.work, p) = ContentOf(w.work, p) => world.work[p] = w.work[p]
Disturbs ==
  /\ result = "running"
  /\ UNCHANGED <<call, at, todo, listed, mark, copy, digest, first, taken, capture, result>>
  /\ world' \in World /\ past' = past \union {world'}
  /\ clock' \in Times /\ moves' \in 0 .. MaxMoves /\ returned' \in BOOLEAN
  /\ moves' = 0 => moves = 0 /\ world' = world
  /\ ~ returned' => ~ returned /\ Keeps(world')

LEMMA OthersDisturb ==
  ASSUME TypeOK, world \in past, Others
  PROVE  Disturbs
<1>0. /\ world \in World /\ clock \in Times /\ moves \in 0 .. MaxMoves /\ MaxMoves \in Nat
      /\ MaxTime \in Nat /\ returned \in BOOLEAN
  BY CaptureAssumption DEF TypeOK
<1>1. CASE Tick
  <2>1. clock' \in Times
    BY <1>0, <1>1 DEF Tick, Times
  <2>2. /\ result = "running" /\ world' = world /\ moves' = moves /\ returned' = returned
        /\ past' = past
        /\ UNCHANGED <<call, at, todo, listed, mark, copy, digest, first, taken, capture,
                       result>>
    BY <1>1 DEF Tick, scanVars, digestVars
  <2>3. Keeps(world)
    BY DEF Keeps
  <2> QED
    BY <1>0, <2>1, <2>2, <2>3 DEF Disturbs
<1>2. ASSUME NEW w \in World, Move(w)
      PROVE  Disturbs
  <2>1. /\ result = "running" /\ world' = w /\ past' = past \union {w}
        /\ returned' = (returned \/ Returns(w))
        /\ UNCHANGED <<clock, call, at, todo, listed, mark, copy, digest, first, taken,
                       capture, result>>
    BY <1>2 DEF Move, scanVars, digestVars
  <2>2. moves < MaxMoves /\ moves' = moves + 1
    BY <1>2 DEF Move
  <2>3. moves' \in 0 .. MaxMoves /\ moves' # 0
    BY <1>0, <2>2
  <2>4. ~ Returns(w) => Keeps(w)
    BY DEF Returns, Keeps
  <2>5. returned' \in BOOLEAN
    BY <1>0, <2>1 DEF Returns
  <2> QED
    BY <1>0, <2>1, <2>3, <2>4, <2>5 DEF Disturbs
<1> QED
  BY <1>1, <1>2, OthersDo

(***************************************************************************)
(* Types, and how far a capture is.                                        *)
(***************************************************************************)

(* A capture that fails keeps nothing.                                     *)
Failing ==
  /\ result = "running"
  /\ \E e \in Results \ {"running", "done"} : Fail(e)
  /\ UNCHANGED <<world, clock, moves, returned, past, call>>

LEMMA FailingPlaces ==
  ASSUME TypeOK, Failing
  PROVE  TypeOK' /\ PlaceInv'
<1>1. /\ result' \in Results \ {"running", "done"} /\ at' = "done"
      /\ todo' = {} /\ listed' = {} /\ mark' = NoValue /\ copy' = NoIndex
      /\ digest' = Unhashed /\ first' = Unhashed /\ taken' = 0 /\ capture' = Nothing
      /\ UNCHANGED <<world, clock, moves, returned, past, call>>
  BY DEF Failing, Fail
<1>2. TypeOK'
  BY <1>1, NothingFound DEF TypeOK, Passes
<1>3. PlaceInv'
  BY <1>1 DEF PlaceInv, WorktreePasses, ChangePasses, LastPasses, Results
<1> QED
  BY <1>2, <1>3

(* The steps of a capture that fail.                                       *)
LEMMA CancelFails ==
  ASSUME Cancel
  PROVE  Failing
BY DEF Cancel, Failing, Results, worldVars

LEMMA DisturbsPlaces ==
  ASSUME TypeOK, PlaceInv, Disturbs
  PROVE  TypeOK' /\ PlaceInv'
<1>1. /\ UNCHANGED <<call, at, todo, listed, mark, copy, digest, first, taken, capture, result>>
      /\ world' \in World /\ past' = past \union {world'}
      /\ clock' \in Times /\ moves' \in 0 .. MaxMoves /\ returned' \in BOOLEAN
  BY DEF Disturbs
<1>2. TypeOK'
  BY <1>1 DEF TypeOK
<1>3. PlaceInv'
  BY <1>1 DEF PlaceInv
<1> QED
  BY <1>2, <1>3

(* The types of what a step of the capture may change.                     *)
ScanType ==
  /\ at \in Passes /\ todo \subseteq Paths /\ listed \subseteq Paths
  /\ mark \in (0 .. MaxMoves + 1) \union {NoValue}
HoldType ==
  /\ copy \in Copies
  /\ digest \in [Paths -> Held \union {NoValue}]
  /\ first \in [Paths -> Held \union {NoValue}] /\ taken \in 0 .. 3
  /\ capture \in Captures /\ result \in Results

LEMMA CaptureTypes ==
  ASSUME TypeOK, UNCHANGED <<world, clock, moves, returned, past, call>>,
         ScanType', HoldType'
  PROVE  TypeOK'
BY DEF TypeOK, ScanType, HoldType

LEMMA CaptureTyped ==
  ASSUME TypeOK
  PROVE  ScanType /\ HoldType /\ call \in Calls /\ world \in World
BY DEF TypeOK, ScanType, HoldType

LEMMA CallFields ==
  ASSUME NEW c \in Calls
  PROVE  /\ c.target \in {"commit", "index", "worktree"} /\ c.untracked \in BOOLEAN
         /\ c.evidence \subseteq Paths /\ c.requested \subseteq Paths
         /\ c.target # "worktree" => ~ c.untracked
BY CaptureAssumption

(* The contents a step may find.                                           *)
LEMMA BytesType ==
  ASSUME TypeOK, NEW p \in Paths, mark # NoValue, SameFileVersion(p)
  PROVE  /\ Bytes(p) = ContentOf(world.work, p) /\ Bytes(p) \in Held
         /\ mark # 0 => Bytes(p) \in Contents
<1>1. ContentOf(world.work, p) \in Held
  BY WorldFields DEF TypeOK
<1> QED
  BY <1>1 DEF SameFileVersion, Bytes, Version, Held

LEMMA VersionType ==
  ASSUME TypeOK, NEW p \in Paths
  PROVE  /\ Version(p) \in 0 .. MaxMoves + 1
         /\ Version(p) = 0 <=> ContentOf(world.work, p) = Absent
<1>1. world.work[p].stamp \in 0 .. MaxMoves
  BY WorldFields DEF TypeOK
<1>2. MaxMoves \in Nat
  BY CaptureAssumption
<1> QED
  BY <1>1, <1>2 DEF Version

LEMMA StatusNowType ==
  ASSUME NEW p
  PROVE  StatusNow(p) \in Statuses
BY StatusType DEF StatusNow

LEMMA LayersType ==
  ASSUME NEW p
  PROVE  LayersOf(p) \in SUBSET Layers
BY DEF LayersOf, Layers

LEMMA TreesType ==
  ASSUME TypeOK
  PROVE  /\ IndexBlobs(world) \in Tree /\ CopyOfIndex \in Copies
         /\ \A p \in Paths : IndexBlobs(world)[p] = Blob(world.index, p)
         /\ \A p \in Paths : Blob(CopyOfIndex.index, p) = Blob(world.index, p)
         /\ CopyOfIndex.index = world.index /\ CopyOfIndex.time = world.indexTime
<1>1. /\ world.index \in [Paths -> Entry] /\ world.indexTime \in Times
      /\ \A p \in Paths : Blob(world.index, p) \in Held
  BY WorldFields DEF TypeOK
<1>2. IndexBlobs(world) \in Tree
  BY <1>1 DEF IndexBlobs, Tree
<1> QED
  BY <1>1, <1>2 DEF IndexBlobs, CopyOfIndex, Copies

LEMMA ReadTreeIs ==
  ASSUME capture = Nothing, NEW tree \in Tree, ReadTree(tree)
  PROVE  /\ capture' \in Captures
         /\ capture'.sources = Blobs(tree) /\ capture'.inventory = Changes(tree)
         /\ capture'.untracked = {} /\ capture'.artifacts = Nothing.artifacts
<1>1. Blobs(tree) \in [Paths -> Held] /\ Changes(tree) \in [Paths -> Statuses]
  BY StatusType DEF Blobs, Changes, Tree, Held
<1>2. Nothing \in Captures /\ Nothing.untracked = {}
  BY NothingFound DEF Nothing
<1> HIDE DEF Nothing
<1> QED
  BY <1>1, <1>2 DEF ReadTree, Captures

LEMMA ReadSourcesIs ==
  ASSUME capture = Nothing, NEW tree \in Tree,
         capture' = [capture EXCEPT !.sources = Blobs(tree)]
  PROVE  /\ capture' \in Captures
         /\ capture'.sources = Blobs(tree) /\ capture'.untracked = {}
         /\ capture'.artifacts = Nothing.artifacts
<1>1. Blobs(tree) \in [Paths -> Held]
  BY DEF Blobs, Tree, Held
<1>2. Nothing \in Captures /\ Nothing.untracked = {}
  BY NothingFound DEF Nothing
<1> QED
  BY <1>1, <1>2 DEF Captures

(* What a step of a capture keeps.                                         *)
Kept == UNCHANGED <<world, clock, moves, returned, past, call>>

LEMMA SkipTypes ==
  ASSUME TypeOK, NEW p, Skip(p)
  PROVE  ScanType'
BY DEF TypeOK, Skip, ScanType

LEMMA EnterTypes ==
  ASSUME NEW pass \in Passes, NEW paths \in SUBSET Paths, Enter(pass, paths)
  PROVE  ScanType'
BY DEF Enter, ScanType

LEMMA ProceedTypes ==
  ASSUME TypeOK, NEW p, NEW pass \in Passes, NEW paths \in SUBSET Paths,
         Proceed(p, pass, paths)
  PROVE  ScanType' /\ at' \in {at, pass}
BY EnterTypes DEF TypeOK, Proceed, ScanType, Enter

(* A listing.                                                              *)
LEMMA ListingPlaces ==
  ASSUME TypeOK, PlaceInv, NEW p \in Paths, NEW found,
         \/ Listing(p, "list", "hash", found)
         \/ Listing(p, "overlayList", "overlayRead", found)
         \/ Listing(p, "otherList", "otherRead", found)
  PROVE  TypeOK' /\ PlaceInv'
<1>1. /\ Kept /\ UNCHANGED <<copy, digest, first, taken, capture, result>>
      /\ result = "running"
      /\ \/ at' = at
         \/ at = "list" /\ at' = "hash"
         \/ at = "overlayList" /\ at' = "overlayRead"
         \/ at = "otherList" /\ at' = "otherRead"
      /\ at \in {"list", "overlayList", "otherList"}
  BY DEF Listing, Kept, worldVars, digestVars, Running, Enter
<1>2. ScanType'
  <2>1. listed \union (IF found THEN {p} ELSE {}) \subseteq Paths
    BY DEF TypeOK
  <2>2. todo \subseteq Paths /\ mark \in (0 .. MaxMoves + 1) \union {NoValue} /\ at \in Passes
    BY DEF TypeOK
  <2> QED
    BY <2>1, <2>2, <1>1 DEF Listing, ScanType, Enter, Passes
<1>3. HoldType'
  BY <1>1, CaptureTyped DEF HoldType
<1>4. TypeOK'
  BY <1>1, <1>2, <1>3, CaptureTypes DEF Kept
<1>5. PlaceInv'
  BY <1>1 DEF PlaceInv, Kept, WorktreePasses, ChangePasses, LastPasses
<1> QED
  BY <1>4, <1>5

LEMMA LookPlaces ==
  ASSUME TypeOK, PlaceInv, NEW p \in Paths, LookAtFile(p)
  PROVE  TypeOK' /\ PlaceInv'
<1>1. /\ Kept /\ UNCHANGED <<at, todo, listed, copy, digest, first, taken, capture, result>>
      /\ mark' = Version(p) /\ at # "artifacts"
  BY DEF LookAtFile, Look, Kept, worldVars, digestVars, Reading, Running
<1>2. ScanType'
  BY <1>1, VersionType, CaptureTyped DEF ScanType
<1>3. HoldType'
  BY <1>1, CaptureTyped DEF HoldType
<1>4. TypeOK'
  BY <1>1, <1>2, <1>3, CaptureTypes DEF Kept
<1>5. PlaceInv'
  BY <1>1 DEF PlaceInv, Kept
<1> QED
  BY <1>4, <1>5

LEMMA HashFilePlaces ==
  ASSUME TypeOK, PlaceInv, NEW p \in Paths, HashFile(p)
  PROVE  Failing \/ (TypeOK' /\ PlaceInv')
<1>1. CASE mark # 0 /\ ~ SameFileVersion(p)
  BY <1>1 DEF HashFile, Failing, Results, worldVars, Reading, Running
<1>2. CASE mark = 0 \/ SameFileVersion(p)
  <2>1. /\ Kept /\ Skip(p) /\ UNCHANGED <<copy, first, taken, capture, result>>
        /\ digest' = [digest EXCEPT ![p] = IF mark = 0 THEN Absent ELSE Bytes(p)]
        /\ mark # NoValue /\ at = "hash"
    BY <1>2 DEF HashFile, Kept, worldVars, Reading, Running
  <2>2. ScanType'
    BY <2>1, SkipTypes
  <2>3. HoldType'
    BY <2>1, <1>2, BytesType, CaptureTyped DEF HoldType, Held
  <2>4. TypeOK'
    BY <2>1, <2>2, <2>3, CaptureTypes DEF Kept
  <2>5. PlaceInv'
    BY <2>1 DEF PlaceInv, Kept, Skip
  <2> QED
    BY <2>4, <2>5
<1> QED
  BY <1>1, <1>2

LEMMA EndDigestPlaces ==
  ASSUME TypeOK, PlaceInv, EndDigest
  PROVE  Failing \/ (TypeOK' /\ PlaceInv')
<1>1. CASE taken # 0 /\ digest # first
  BY <1>1 DEF EndDigest, Failing, Results, worldVars, Running
<1>2. CASE ~ (taken # 0 /\ digest # first)
  <2>1. /\ Kept /\ UNCHANGED <<copy, capture, result>> /\ digest' = Unhashed
        /\ taken' = taken + 1 /\ at = "hash" /\ result = "running"
        /\ \/ taken = 0 /\ first' = digest /\ Enter("overlayList", Paths)
           \/ taken # 0 /\ first' = first /\ Enter("currentIndex", {})
    BY <1>2 DEF EndDigest, Kept, worldVars, Running
  <2>2. taken \in 0 .. 2 /\ call.target = "worktree"
    BY <2>1 DEF PlaceInv, WorktreePasses
  <2>3. ScanType'
    BY <2>1, EnterTypes DEF Passes
  <2>4. HoldType'
    BY <2>1, <2>2, NothingFound, CaptureTyped DEF HoldType
  <2>5. TypeOK'
    BY <2>1, <2>3, <2>4, CaptureTypes DEF Kept
  <2>6. PlaceInv'
    BY <2>1, <2>2 DEF PlaceInv, Kept, Enter, WorktreePasses, ChangePasses, LastPasses
  <2> QED
    BY <2>5, <2>6
<1> QED
  BY <1>1, <1>2

(* A step that finds something of a path and leaves it, or its pass.       *)
LEMMA OverlayFilePlaces ==
  ASSUME TypeOK, PlaceInv, NEW p \in Paths, OverlayFile(p)
  PROVE  Failing \/ (TypeOK' /\ PlaceInv')
<1>1. /\ Kept /\ result = "running" /\ at = "overlayRead" /\ mark # NoValue
      /\ \/ Fail("changed")
         \/ Skip(p) /\ UNCHANGED <<copy, digestVars, capture, result>>
         \/ Overlay(p, Absent)
         \/ SameFileVersion(p) /\ Overlay(p, IF Bytes(p) \in Binary THEN Absent ELSE Bytes(p))
  BY DEF OverlayFile, Kept, worldVars, Reading, Running
<1>2. CASE Fail("changed")
  BY <1>1, <1>2 DEF Failing, Results, Kept
<1>3. ASSUME NEW x \in Held, Overlay(p, x)
      PROVE  TypeOK' /\ PlaceInv'
  <2>1. /\ capture' = [capture EXCEPT !.sources[p] = x]
        /\ Skip(p) /\ UNCHANGED <<copy, digest, first, taken, result>>
    BY <1>3 DEF Overlay, digestVars
  <2>2. capture' \in Captures
    BY <2>1, SetSource, CaptureTyped DEF HoldType
  <2>3. ScanType' /\ HoldType'
    BY <2>1, <2>2, SkipTypes, CaptureTyped DEF HoldType
  <2>4. TypeOK'
    BY <1>1, <2>3, CaptureTypes DEF Kept
  <2>5. PlaceInv'
    BY <1>1, <2>1 DEF PlaceInv, Kept, Skip
  <2> QED
    BY <2>4, <2>5
<1>4. CASE Skip(p) /\ UNCHANGED <<copy, digestVars, capture, result>>
  <2>1. ScanType' /\ HoldType'
    BY <1>4, SkipTypes, CaptureTyped DEF HoldType, digestVars
  <2>2. TypeOK'
    BY <1>1, <2>1, CaptureTypes DEF Kept
  <2>3. PlaceInv'
    BY <1>1, <1>4 DEF PlaceInv, Kept, Skip, digestVars
  <2> QED
    BY <2>2, <2>3
<1>5. Absent \in Held
  BY DEF Held
<1>6. SameFileVersion(p) => (IF Bytes(p) \in Binary THEN Absent ELSE Bytes(p)) \in Held
  BY <1>1, <1>5, BytesType
<1> QED
  BY <1>1, <1>2, <1>3, <1>4, <1>5, <1>6

LEMMA EndOverlayPlaces ==
  ASSUME TypeOK, PlaceInv, EndOverlay
  PROVE  TypeOK' /\ PlaceInv'
<1>1. /\ Kept /\ Enter("inventory", Paths) /\ at = "overlayRead" /\ result = "running"
      /\ UNCHANGED <<copy, digest, first, taken, capture, result>>
  BY DEF EndOverlay, Kept, worldVars, digestVars, Running
<1>2. ScanType' /\ HoldType'
  BY <1>1, EnterTypes, CaptureTyped DEF HoldType, Passes
<1>3. TypeOK'
  BY <1>1, <1>2, CaptureTypes DEF Kept
<1>4. PlaceInv'
  BY <1>1 DEF PlaceInv, Kept, Enter, WorktreePasses, ChangePasses, LastPasses
<1> QED
  BY <1>3, <1>4

LEMMA DiffInventoryPlaces ==
  ASSUME TypeOK, PlaceInv, NEW p \in Paths, DiffInventory(p)
  PROVE  TypeOK' /\ PlaceInv'
<1>1. /\ Kept /\ Proceed(p, "patch", Paths) /\ at = "inventory" /\ result = "running"
      /\ capture' = [capture EXCEPT !.inventory[p] = StatusNow(p)]
      /\ UNCHANGED <<copy, digest, first, taken, result>>
  BY DEF DiffInventory, Kept, worldVars, digestVars, Running
<1>2. ScanType' /\ at' \in {"inventory", "patch"}
  BY <1>1, ProceedTypes DEF Passes
<1>3. capture' \in Captures
  BY <1>1, SetInventory, StatusNowType, CaptureTyped DEF HoldType
<1>4. HoldType'
  BY <1>1, <1>3, CaptureTyped DEF HoldType
<1>5. TypeOK'
  BY <1>1, <1>2, <1>4, CaptureTypes DEF Kept
<1>6. PlaceInv'
  BY <1>1, <1>2 DEF PlaceInv, Kept, WorktreePasses, ChangePasses, LastPasses
<1> QED
  BY <1>5, <1>6

LEMMA DiffPatchPlaces ==
  ASSUME TypeOK, PlaceInv, NEW p \in Paths, DiffPatch(p)
  PROVE  TypeOK' /\ PlaceInv'
<1>1. /\ Kept /\ at = "patch" /\ result = "running"
      /\ Proceed(p, "otherList", Paths) \/ Proceed(p, "otherRead", {})
      /\ capture' = [capture EXCEPT !.patch[p] = StatusNow(p)]
      /\ UNCHANGED <<copy, digest, first, taken, result>>
  BY DEF DiffPatch, Kept, worldVars, digestVars, Running
<1>2. ScanType' /\ at' \in {"patch", "otherList", "otherRead"}
  BY <1>1, ProceedTypes DEF Passes
<1>3. capture' \in Captures
  BY <1>1, SetPatch, StatusNowType, CaptureTyped DEF HoldType
<1>4. HoldType'
  BY <1>1, <1>3, CaptureTyped DEF HoldType
<1>5. TypeOK'
  BY <1>1, <1>2, <1>4, CaptureTypes DEF Kept
<1>6. PlaceInv'
  BY <1>1, <1>2 DEF PlaceInv, Kept, WorktreePasses, ChangePasses, LastPasses
<1> QED
  BY <1>5, <1>6

LEMMA ReadOtherPlaces ==
  ASSUME TypeOK, PlaceInv, NEW p \in Paths, ReadOther(p)
  PROVE  Failing \/ (TypeOK' /\ PlaceInv')
<1>1. CASE ~ SameFileVersion(p)
  BY <1>1 DEF ReadOther, Failing, Results, worldVars, Reading, Running
<1>2. CASE SameFileVersion(p)
  <2>1. /\ Kept /\ Skip(p) /\ at = "otherRead" /\ result = "running"
        /\ capture' = [capture EXCEPT !.untracked = @ \union {p},
                                      !.reports[p] = Report(Bytes(p))]
        /\ UNCHANGED <<copy, digest, first, taken, result>>
    BY <1>2 DEF ReadOther, Kept, worldVars, digestVars, Reading, Running
  <2>2. capture' \in Captures
    <3>1. capture \in Captures /\ Report(Bytes(p)) \in Forms
      BY ReportType, CaptureTyped DEF HoldType
    <3> QED
      BY <2>1, <3>1 DEF Captures
  <2>3. ScanType' /\ HoldType'
    BY <2>1, <2>2, SkipTypes, CaptureTyped DEF HoldType
  <2>4. TypeOK'
    BY <2>1, <2>3, CaptureTypes DEF Kept
  <2>5. PlaceInv'
    BY <2>1 DEF PlaceInv, Kept, Skip
  <2> QED
    BY <2>4, <2>5
<1> QED
  BY <1>1, <1>2

LEMMA MergePlaces ==
  ASSUME TypeOK, PlaceInv, MergeChanges
  PROVE  Failing \/ (TypeOK' /\ PlaceInv')
<1>1. CASE \E p \in Paths : ~ Agrees(p)
  BY <1>1 DEF MergeChanges, Failing, Results, worldVars, Running
<1>2. CASE ~ \E p \in Paths : ~ Agrees(p)
  <2>1. /\ Kept /\ Enter("list", Paths) /\ at = "otherRead" /\ result = "running"
        /\ UNCHANGED <<copy, digest, first, taken, capture, result>>
    BY <1>2 DEF MergeChanges, Kept, worldVars, digestVars, Running
  <2>2. ScanType' /\ HoldType'
    BY <2>1, EnterTypes, CaptureTyped DEF HoldType, Passes
  <2>3. TypeOK'
    BY <2>1, <2>2, CaptureTypes DEF Kept
  <2>4. digest = Unhashed
    BY <2>1 DEF PlaceInv, ChangePasses
  <2>5. PlaceInv'
    BY <2>1, <2>4 DEF PlaceInv, Kept, Enter, WorktreePasses, ChangePasses, LastPasses
  <2> QED
    BY <2>3, <2>5
<1> QED
  BY <1>1, <1>2

LEMMA CompareIndexPlaces ==
  ASSUME TypeOK, PlaceInv, CompareIndex
  PROVE  Failing \/ (TypeOK' /\ PlaceInv')
<1>1. CASE \E p \in Paths : Blob(world.index, p) # Blob(copy.index, p)
  BY <1>1 DEF CompareIndex, Failing, Results, worldVars, Running
<1>2. CASE ~ \E p \in Paths : Blob(world.index, p) # Blob(copy.index, p)
  <2>1. /\ Kept /\ Enter("currentHead", {}) /\ at = "currentIndex" /\ result = "running"
        /\ UNCHANGED <<copy, digest, first, taken, capture, result>>
    BY <1>2 DEF CompareIndex, Kept, worldVars, digestVars, Running
  <2>2. ScanType' /\ HoldType'
    BY <2>1, EnterTypes, CaptureTyped DEF HoldType, Passes
  <2>3. TypeOK'
    BY <2>1, <2>2, CaptureTypes DEF Kept
  <2>4. PlaceInv'
    BY <2>1 DEF PlaceInv, Kept, Enter, WorktreePasses, ChangePasses, LastPasses
  <2> QED
    BY <2>3, <2>4
<1> QED
  BY <1>1, <1>2

LEMMA CompareHeadPlaces ==
  ASSUME TypeOK, PlaceInv, CompareHead
  PROVE  Failing \/ (TypeOK' /\ PlaceInv')
<1>1. CASE world.head # HeadOid
  BY <1>1 DEF CompareHead, Failing, Results, worldVars, Running
<1>2. CASE world.head = HeadOid
  <2>1. /\ Kept /\ at = "currentHead" /\ result = "running"
        /\ \/ taken = 3 /\ Enter("done", {}) /\ result' = "done"
           \/ taken # 3 /\ Enter("artifacts", call.requested) /\ result' = result
        /\ UNCHANGED <<copy, digest, first, taken, capture>>
    BY <1>2 DEF CompareHead, Kept, worldVars, digestVars, Running
  <2>2. call.requested \in SUBSET Paths
    BY CaptureTyped, CallFields
  <2>3. ScanType' /\ HoldType'
    BY <2>1, <2>2, EnterTypes, CaptureTyped DEF HoldType, Passes, Results
  <2>4. TypeOK'
    BY <2>1, <2>3, CaptureTypes DEF Kept
  <2>5. PlaceInv'
    BY <2>1 DEF PlaceInv, Kept, Enter, WorktreePasses, ChangePasses, LastPasses
  <2> QED
    BY <2>4, <2>5
<1> QED
  BY <1>1, <1>2

LEMMA SelectArtifactPlaces ==
  ASSUME TypeOK, PlaceInv, NEW p \in Paths, SelectArtifact(p)
  PROVE  Failing \/ (TypeOK' /\ PlaceInv')
<1>0. at = "artifacts" /\ result = "running" /\ Kept
  BY DEF SelectArtifact, Reading, Running, Kept, worldVars
<1>1. CASE WorktreeSelects(p)
  <2>1. /\ at' = "artifact" /\ call.target = "worktree"
        /\ UNCHANGED <<todo, listed, mark, copy, digest, first, taken, capture, result>>
    BY <1>1 DEF SelectArtifact, WorktreeSelects, digestVars
  <2>2. ScanType' /\ HoldType'
    BY <2>1, CaptureTyped DEF HoldType, ScanType, Passes
  <2>3. TypeOK'
    BY <1>0, <2>2, CaptureTypes DEF Kept
  <2>4. PlaceInv'
    BY <1>0, <2>1 DEF PlaceInv, Kept, WorktreePasses, ChangePasses, LastPasses
  <2> QED
    BY <2>3, <2>4
<1>2. CASE ~ WorktreeSelects(p)
  <2> DEFINE x == IF call.target = "commit" THEN HeadTree[p] ELSE Blob(copy.index, p)
  <2>1. KeepArtifact(p, x)
    BY <1>2 DEF SelectArtifact
  <2>2. x \in Held
    BY CaptureAssumption, CopyFields, CaptureTyped DEF Tree, HoldType
  <2>3. CASE x = Absent
    BY <1>0, <2>1, <2>3 DEF KeepArtifact, Failing, Results, Kept
  <2>4. CASE x # Absent
    <3>1. /\ capture' = [capture EXCEPT !.artifacts[p] = x]
          /\ Skip(p) /\ UNCHANGED <<copy, digest, first, taken, result>>
      BY <2>1, <2>4 DEF KeepArtifact, digestVars
    <3>2. capture' \in Captures
      <4> HIDE DEF x
      <4> QED
        BY <3>1, <2>2, <2>4, SetArtifact, CaptureTyped DEF HoldType, Held
    <3>3. ScanType' /\ HoldType'
      BY <3>1, <3>2, SkipTypes, CaptureTyped DEF HoldType
    <3>4. TypeOK'
      BY <1>0, <3>3, CaptureTypes DEF Kept
    <3>5. PlaceInv'
      BY <1>0, <3>1 DEF PlaceInv, Kept, Skip
    <3> QED
      BY <3>4, <3>5
  <2> QED
    BY <2>3, <2>4
<1> QED
  BY <1>1, <1>2

LEMMA ReadArtifactPlaces ==
  ASSUME TypeOK, PlaceInv, NEW p \in Paths, ReadArtifact(p)
  PROVE  Failing \/ (TypeOK' /\ PlaceInv')
<1>1. CASE mark = 0 \/ ~ SameFileVersion(p)
  BY <1>1 DEF ReadArtifact, Failing, Results, worldVars, Reading, Running
<1>2. CASE ~ (mark = 0 \/ ~ SameFileVersion(p))
  <2>1. /\ Kept /\ at = "artifact" /\ result = "running" /\ mark # NoValue
        /\ capture' = [capture EXCEPT !.artifacts[p] = Bytes(p)]
        /\ at' = "artifacts" /\ todo' = todo \ {p} /\ mark' = NoValue
        /\ UNCHANGED <<listed, copy, digest, first, taken, result>>
    BY <1>2 DEF ReadArtifact, Kept, worldVars, digestVars, Reading, Running
  <2>2. capture' \in Captures
    BY <2>1, <1>2, BytesType, SetArtifact, CaptureTyped DEF HoldType
  <2>3. ScanType' /\ HoldType'
    BY <2>1, <2>2, CaptureTyped DEF HoldType, ScanType, Passes
  <2>4. TypeOK'
    BY <2>1, <2>3, CaptureTypes DEF Kept
  <2>5. PlaceInv'
    BY <2>1 DEF PlaceInv, Kept, WorktreePasses, ChangePasses, LastPasses
  <2> QED
    BY <2>4, <2>5
<1> QED
  BY <1>1, <1>2

LEMMA EndArtifactsPlaces ==
  ASSUME TypeOK, PlaceInv, EndArtifacts
  PROVE  TypeOK' /\ PlaceInv'
<1>1. /\ Kept /\ Enter("layers", Paths) /\ at = "artifacts" /\ result = "running"
      /\ UNCHANGED <<copy, digest, first, taken, capture, result>>
  BY DEF EndArtifacts, Kept, worldVars, digestVars, Running
<1>2. ScanType' /\ HoldType'
  BY <1>1, EnterTypes, CaptureTyped DEF HoldType, Passes
<1>3. TypeOK'
  BY <1>1, <1>2, CaptureTypes DEF Kept
<1>4. PlaceInv'
  BY <1>1 DEF PlaceInv, Kept, Enter, WorktreePasses, ChangePasses, LastPasses
<1> QED
  BY <1>3, <1>4

(* The layers of one path, and what comes after the last.                  *)
LayersAfter(p) ==
  \/ todo # {p} /\ at' = at /\ todo' = todo \ {p} /\ UNCHANGED <<listed, mark, taken, result>>
  \/ /\ todo = {p} /\ call.target = "worktree"
     /\ Enter("list", Paths) /\ UNCHANGED <<taken, result>>
  \/ /\ todo = {p} /\ call.target = "index"
     /\ Enter("currentIndex", {}) /\ taken' = taken + 1 /\ UNCHANGED result
  \/ /\ todo = {p} /\ call.target = "commit"
     /\ Enter("done", {}) /\ result' = "done" /\ UNCHANGED taken

LEMMA DiffLayersPlaces ==
  ASSUME TypeOK, PlaceInv, NEW p \in Paths, DiffLayers(p)
  PROVE  TypeOK' /\ PlaceInv'
<1>1. /\ Kept /\ at = "layers" /\ result = "running" /\ LayersAfter(p)
      /\ capture' = [capture EXCEPT !.layers[p] = IF Changed(p) THEN LayersOf(p) ELSE {}]
      /\ UNCHANGED <<copy, digest, first>>
  BY DEF DiffLayers, Kept, worldVars, Running, LayersAfter
<1>2. taken = IF call.target = "commit" THEN 0 ELSE 2
  BY <1>1 DEF PlaceInv, LastPasses
<1>3. capture' \in Captures
  <2>1. (IF Changed(p) THEN LayersOf(p) ELSE {}) \in SUBSET Layers
    BY LayersType
  <2> QED
    BY <1>1, <2>1, SetLayers, CaptureTyped DEF HoldType
<1>4. ScanType'
  BY <1>1, EnterTypes, CaptureTyped DEF LayersAfter, ScanType, Passes
<1>5. HoldType'
  BY <1>1, <1>2, <1>3, CaptureTyped DEF HoldType, LayersAfter, Results
<1>6. TypeOK'
  BY <1>1, <1>4, <1>5, CaptureTypes DEF Kept
<1>7. PlaceInv'
  BY <1>1, <1>2 DEF PlaceInv, Kept, Enter, LayersAfter, WorktreePasses, ChangePasses, LastPasses
<1> QED
  BY <1>6, <1>7

(* The beginning.                                                          *)
LEMMA ResolveHeadPlaces ==
  ASSUME TypeOK, PlaceInv, ResolveHead
  PROVE  Failing \/ (TypeOK' /\ PlaceInv')
<1>0. at = "head" /\ result = "running" /\ Kept /\ taken = 0 /\ capture = Nothing
  BY DEF ResolveHead, Running, Kept, worldVars, PlaceInv
<1>1. CASE Fail("parameters") \/ Fail("mismatch")
  BY <1>0, <1>1 DEF Failing, Results, Kept
<1>2. CASE /\ call.target = "commit" /\ ReadTree(HeadTree) /\ Enter("artifacts", call.requested)
           /\ UNCHANGED <<copy, digestVars, result>>
  <2>1. capture' \in Captures
    BY <1>0, <1>2, ReadTreeIs, CaptureAssumption
  <2>2. call.requested \in SUBSET Paths
    BY CaptureTyped, CallFields
  <2>3. ScanType' /\ HoldType'
    BY <1>2, <2>1, <2>2, EnterTypes, CaptureTyped DEF HoldType, Passes, digestVars
  <2>4. TypeOK'
    BY <1>0, <2>3, CaptureTypes DEF Kept
  <2>5. PlaceInv'
    BY <1>0, <1>2 DEF PlaceInv, Kept, Enter, digestVars, WorktreePasses, ChangePasses, LastPasses
  <2> QED
    BY <2>4, <2>5
<1>3. CASE /\ call.target # "commit" /\ Enter("index", {})
           /\ UNCHANGED <<copy, digestVars, capture, result>>
  <2>1. ScanType' /\ HoldType'
    BY <1>3, EnterTypes, CaptureTyped DEF HoldType, Passes, digestVars
  <2>2. TypeOK'
    BY <1>0, <2>1, CaptureTypes DEF Kept
  <2>3. PlaceInv'
    BY <1>0, <1>3 DEF PlaceInv, Kept, Enter, digestVars, WorktreePasses, ChangePasses, LastPasses
  <2> QED
    BY <2>2, <2>3
<1> QED
  BY <1>1, <1>2, <1>3 DEF ResolveHead

LEMMA LookAtIndexPlaces ==
  ASSUME TypeOK, PlaceInv, LookAtIndex
  PROVE  TypeOK' /\ PlaceInv'
<1>1. /\ Kept /\ at = "index" /\ at' = "copy" /\ mark' = world.indexStamp
      /\ UNCHANGED <<todo, listed, copy, digest, first, taken, capture, result>>
  BY DEF LookAtIndex, Kept, worldVars, digestVars, Running
<1>2. world.indexStamp \in 0 .. MaxMoves + 1
  <2>1. world.indexStamp \in 0 .. MaxMoves /\ MaxMoves \in Nat
    BY WorldFields, CaptureTyped, CaptureAssumption
  <2> QED
    BY <2>1
<1>3. ScanType' /\ HoldType'
  BY <1>1, <1>2, CaptureTyped DEF HoldType, ScanType, Passes
<1>4. TypeOK'
  BY <1>1, <1>3, CaptureTypes DEF Kept
<1>5. PlaceInv'
  BY <1>1 DEF PlaceInv, Kept, WorktreePasses, ChangePasses, LastPasses
<1> QED
  BY <1>4, <1>5

LEMMA CopyIndexPlaces ==
  ASSUME TypeOK, PlaceInv, CopyIndex
  PROVE  Failing \/ (TypeOK' /\ PlaceInv')
<1>0. /\ at = "copy" /\ result = "running" /\ Kept /\ taken = 0 /\ capture = Nothing
      /\ call.target # "commit"
  BY DEF CopyIndex, Running, Kept, worldVars, PlaceInv
<1>1. CASE Fail("parameters") \/ Fail("changed")
  BY <1>0, <1>1 DEF Failing, Results, Kept
<1>2. CASE /\ copy' = CopyOfIndex /\ UNCHANGED <<digest, first, result>>
           /\ call.target = "index" /\ ReadTree(IndexBlobs(world)) /\ taken' = 2
           /\ Enter("currentIndex", {})
  <2>1. capture' \in Captures
    BY <1>0, <1>2, ReadTreeIs, TreesType
  <2>2. ScanType' /\ HoldType'
    BY <1>2, <2>1, EnterTypes, TreesType, CaptureTyped DEF HoldType, Passes
  <2>3. TypeOK'
    BY <1>0, <2>2, CaptureTypes DEF Kept
  <2>4. PlaceInv'
    BY <1>0, <1>2 DEF PlaceInv, Kept, Enter, WorktreePasses, ChangePasses, LastPasses
  <2> QED
    BY <2>3, <2>4
<1>3. CASE /\ copy' = CopyOfIndex /\ UNCHANGED <<digest, first, result>>
           /\ call.target # "index" /\ Enter("list", Paths) /\ taken' = taken
           /\ capture' = [capture EXCEPT !.sources = Blobs(IndexBlobs(world))]
  <2>0. call.target = "worktree"
    BY <1>0, <1>3, CallFields, CaptureTyped
  <2>1. capture' \in Captures
    BY <1>0, <1>3, ReadSourcesIs, TreesType
  <2>2. ScanType' /\ HoldType'
    BY <1>3, <2>1, EnterTypes, TreesType, CaptureTyped DEF HoldType, Passes
  <2>3. TypeOK'
    BY <1>0, <2>2, CaptureTypes DEF Kept
  <2>4. PlaceInv'
    BY <1>0, <1>3, <2>0 DEF PlaceInv, Kept, Enter, WorktreePasses, ChangePasses, LastPasses
  <2> QED
    BY <2>3, <2>4
<1> QED
  BY <1>1, <1>2, <1>3 DEF CopyIndex

(* The kinds of steps there are.                                           *)
LEMMA NextDoes ==
  ASSUME [Next]_vars
  PROVE  \/ UNCHANGED vars \/ Others \/ Cancel
         \/ ResolveHead \/ LookAtIndex \/ CopyIndex \/ EndDigest \/ EndOverlay
         \/ MergeChanges \/ CompareIndex \/ CompareHead \/ EndArtifacts
         \/ \E p \in Paths :
              \/ ListDirty(p) \/ LookAtFile(p) \/ HashFile(p) \/ ListOverlay(p)
              \/ OverlayFile(p) \/ DiffInventory(p) \/ DiffPatch(p) \/ ListOthers(p)
              \/ ReadOther(p) \/ SelectArtifact(p) \/ ReadArtifact(p) \/ DiffLayers(p)
BY DEF Next, Capture, VisitPath, Ended

LEMMA VarsKept ==
  ASSUME UNCHANGED vars
  PROVE  /\ UNCHANGED <<world, clock, moves, returned, past, call, at, todo, listed, mark>>
         /\ UNCHANGED <<copy, digest, first, taken, capture, result>>
BY DEF vars, worldVars, scanVars, digestVars

LEMMA PlacesStep ==
  ASSUME TypeOK, PlaceInv, world \in past, [Next]_vars
  PROVE  TypeOK' /\ PlaceInv'
<1>1. CASE UNCHANGED vars
  <2>1. TypeOK'
    BY <1>1, VarsKept DEF TypeOK
  <2>2. PlaceInv'
    BY <1>1, VarsKept DEF PlaceInv
  <2> QED
    BY <2>1, <2>2
<1>2. CASE Others
  BY <1>2, OthersDisturb, DisturbsPlaces
<1>3. CASE Cancel \/ Failing
  BY <1>3, CancelFails, FailingPlaces
<1>4. CASE \/ ResolveHead \/ LookAtIndex \/ CopyIndex \/ EndDigest \/ EndOverlay
           \/ MergeChanges \/ CompareIndex \/ CompareHead \/ EndArtifacts
  BY <1>3, <1>4, ResolveHeadPlaces, LookAtIndexPlaces, CopyIndexPlaces, EndDigestPlaces,
     EndOverlayPlaces, MergePlaces, CompareIndexPlaces, CompareHeadPlaces, EndArtifactsPlaces
<1>5. ASSUME NEW p \in Paths, ListDirty(p) \/ ListOverlay(p) \/ ListOthers(p)
      PROVE  TypeOK' /\ PlaceInv'
  BY <1>5, ListingPlaces DEF ListDirty, ListOverlay, ListOthers
<1>6. ASSUME NEW p \in Paths,
             \/ LookAtFile(p) \/ HashFile(p) \/ OverlayFile(p) \/ DiffInventory(p)
             \/ DiffPatch(p) \/ ReadOther(p) \/ SelectArtifact(p) \/ ReadArtifact(p)
             \/ DiffLayers(p)
      PROVE  TypeOK' /\ PlaceInv'
  BY <1>3, <1>6, LookPlaces, HashFilePlaces, OverlayFilePlaces, DiffInventoryPlaces,
     DiffPatchPlaces, ReadOtherPlaces, SelectArtifactPlaces, ReadArtifactPlaces,
     DiffLayersPlaces
<1> QED
  BY <1>1, <1>2, <1>3, <1>4, <1>5, <1>6, NextDoes

(* Only one step changes the copy.                                         *)
LEMMA CopyKept ==
  ASSUME \/ ResolveHead \/ LookAtIndex \/ EndDigest \/ EndOverlay
         \/ MergeChanges \/ CompareIndex \/ CompareHead \/ EndArtifacts
         \/ \E p \in Paths :
              \/ ListDirty(p) \/ LookAtFile(p) \/ HashFile(p) \/ ListOverlay(p)
              \/ OverlayFile(p) \/ DiffInventory(p) \/ DiffPatch(p) \/ ListOthers(p)
              \/ ReadOther(p) \/ SelectArtifact(p) \/ ReadArtifact(p) \/ DiffLayers(p)
  PROVE  Kept /\ (copy' = copy \/ Failing)
<1> USE DEF Failing, Results, Kept, worldVars, Running, Reading
<1>1. CASE ResolveHead
  BY <1>1 DEF ResolveHead
<1>2. CASE LookAtIndex \/ EndOverlay \/ EndArtifacts
  BY <1>2 DEF LookAtIndex, EndOverlay, EndArtifacts
<1>3. CASE EndDigest
  BY <1>3 DEF EndDigest
<1>4. CASE MergeChanges
  BY <1>4 DEF MergeChanges
<1>5. CASE CompareIndex \/ CompareHead
  BY <1>5 DEF CompareIndex, CompareHead
<1>6. ASSUME NEW p \in Paths, ListDirty(p) \/ ListOverlay(p) \/ ListOthers(p)
      PROVE  Kept /\ copy' = copy
  BY <1>6 DEF ListDirty, ListOverlay, ListOthers, Listing
<1>7. ASSUME NEW p \in Paths,
             LookAtFile(p) \/ DiffInventory(p) \/ DiffPatch(p) \/ DiffLayers(p)
      PROVE  Kept /\ copy' = copy
  BY <1>7 DEF LookAtFile, Look, DiffInventory, DiffPatch, DiffLayers
<1>8. ASSUME NEW p \in Paths, HashFile(p) \/ ReadOther(p) \/ ReadArtifact(p)
      PROVE  Kept /\ (copy' = copy \/ Failing)
  BY <1>8 DEF HashFile, ReadOther, ReadArtifact
<1>9. ASSUME NEW p \in Paths, OverlayFile(p)
      PROVE  Kept /\ (copy' = copy \/ Failing)
  BY <1>9 DEF OverlayFile, Overlay
<1>10. ASSUME NEW p \in Paths, SelectArtifact(p)
       PROVE  Kept /\ (copy' = copy \/ Failing)
  BY <1>10 DEF SelectArtifact, KeepArtifact
<1> HIDE DEF Failing, Kept
<1> QED
  BY <1>1, <1>2, <1>3, <1>4, <1>5, <1>6, <1>7, <1>8, <1>9, <1>10

(***************************************************************************)
(* Git's clock.                                                            *)
(***************************************************************************)
LEMMA StagedTimes ==
  ASSUME TypeOK, TimeInv, NEW p \in Paths
  PROVE  WellTimed(StagedIndex(p), clock, world.work)
<1> SUFFICES ASSUME NEW q \in Paths,
                    Blob(StagedIndex(p), q) # Absent, ContentOf(world.work, q) # Absent,
                    ContentOf(world.work, q) # Blob(StagedIndex(p), q),
                    world.work[q].time = StagedIndex(p)[q].time
             PROVE  FALSE
  BY DEF WellTimed, TimeInv
<1>1. world.work[q].time >= 1 /\ world.work[q].time \in Times
  BY WorldFields DEF TypeOK, TimeInv, WellTimed
<1>2. CASE q = p
  BY <1>2 DEF StagedIndex, Staged, Blob, ContentOf
<1>3. CASE q # p
  <2>1. StagedIndex(p)[q] = Smudged(q)
    BY <1>3 DEF StagedIndex
  <2>2. Modified(world.index, world.indexTime, world.work, q)
          <=> Blob(world.index, q) # Absent
              /\ ContentOf(world.work, q) # Blob(world.index, q)
    BY Verdict, WorldFields DEF TypeOK, TimeInv
  <2>3. CASE Modified(world.index, world.indexTime, world.work, q)
    <3>1. StagedIndex(p)[q].time = 0
      BY <2>1, <2>3 DEF Smudged
    <3> QED
      BY <1>1, <3>1
  <2>4. CASE ~ Modified(world.index, world.indexTime, world.work, q)
    BY <2>1, <2>2, <2>4 DEF Smudged, Blob
  <2> QED
    BY <2>3, <2>4
<1> QED
  BY <1>2, <1>3

LEMMA WrittenTimes ==
  ASSUME TypeOK, TimeInv, NEW index, NEW time \in Times, WellTimed(index, time, world.work),
         time <= clock, NEW p \in Paths, NEW w \in World, Written(w, p)
  PROVE  /\ WellTimed(index, time, w.work)
         /\ \A q \in Paths : w.work[q].stamp <= moves + 1
         /\ w.index = world.index /\ w.indexTime = world.indexTime
<1>1. PICK f \in File : /\ w = [world EXCEPT !.work[p] = f]
                        /\ f.stamp <= moves + 1 /\ (f.content # Absent => f.time = clock)
  BY DEF Written
<1>2. /\ world \in World /\ clock \in Nat /\ clock >= 1 /\ moves \in Nat
      /\ \A q \in Paths : world.work[q].stamp \in Nat /\ world.work[q].stamp <= moves
      /\ \A q \in Paths : world.work[q].time \in Nat
      /\ time \in Nat
  BY WorldFields DEF TypeOK, TimeInv, Times
<1>3. /\ w.work = [world.work EXCEPT ![p] = f] /\ w.index = world.index
      /\ w.indexTime = world.indexTime
  BY <1>1, <1>2, WorldWritten
<1>4. world.work \in [Paths -> File]
  BY <1>2, WorldFields
<1>5. \A q \in Paths : w.work[q] = IF q = p THEN f ELSE world.work[q]
  BY <1>3, <1>4
<1>6. f.stamp \in Nat /\ f.time \in Nat
  BY DEF File, Times
<1>7. ASSUME NEW q \in Paths
      PROVE  w.work[q].stamp <= moves + 1
  <2>1. CASE q = p
    BY <1>1, <1>5, <2>1
  <2>2. CASE q # p
    <3>1. w.work[q].stamp = world.work[q].stamp
      BY <1>5, <2>2
    <3>2. world.work[q].stamp \in Nat /\ world.work[q].stamp <= moves
      BY <1>2
    <3> QED
      BY <1>2, <3>1, <3>2
  <2> QED
    BY <2>1, <2>2
<1>8. WellTimed(index, time, w.work)
  <2> SUFFICES ASSUME NEW q \in Paths
               PROVE  /\ ContentOf(w.work, q) # Absent => w.work[q].time >= 1
                      /\ /\ Blob(index, q) # Absent /\ ContentOf(w.work, q) # Absent
                         /\ ContentOf(w.work, q) # Blob(index, q)
                         /\ w.work[q].time = index[q].time
                         => index[q].time >= time
    BY DEF WellTimed
  <2>1. CASE q = p
    BY <1>1, <1>2, <1>5, <2>1 DEF ContentOf
  <2>2. CASE q # p
    BY <1>5, <2>2 DEF WellTimed, ContentOf
  <2> QED
    BY <2>1, <2>2
<1> QED
  BY <1>3, <1>7, <1>8

LEMMA TimeStep ==
  ASSUME TypeOK, PlaceInv, TimeInv, [Next]_vars
  PROVE  TimeInv'
<1>0. /\ world \in World /\ clock \in Nat /\ clock >= 1 /\ moves \in Nat
      /\ world.indexTime \in Times /\ copy.time \in Times /\ Times \subseteq Nat
      /\ \A q \in Paths : world.work[q].stamp \in Nat /\ world.work[q].stamp <= moves
  BY WorldFields, CopyFields DEF TypeOK, TimeInv, Times
<1>1. CASE UNCHANGED vars \/ (Kept /\ copy' = copy)
  BY <1>1, VarsKept DEF TimeInv, Kept
<1>2. CASE Tick
  <2>1. clock' = clock + 1 /\ UNCHANGED <<world, moves, copy>>
    BY <1>2 DEF Tick
  <2>2. world.indexTime \in Nat /\ copy.time \in Nat
    BY <1>0
  <2>3. world.indexTime <= clock /\ copy.time <= clock
    BY DEF TimeInv
  <2>4. clock' >= 1 /\ world.indexTime <= clock' /\ copy.time <= clock'
    BY <1>0, <2>1, <2>2, <2>3
  <2> QED
    BY <2>1, <2>4 DEF TimeInv
<1>3. ASSUME NEW p \in Paths, NEW w \in World, Written(w, p), Move(w)
      PROVE  TimeInv'
  <2>1. world' = w /\ moves' = moves + 1 /\ UNCHANGED <<clock, copy>>
    BY <1>3 DEF Move
  <2>2. /\ WellTimed(world.index, world.indexTime, w.work)
        /\ \A q \in Paths : w.work[q].stamp <= moves + 1
        /\ w.index = world.index /\ w.indexTime = world.indexTime
    <3>1. WellTimed(world.index, world.indexTime, world.work) /\ world.indexTime <= clock
      BY DEF TimeInv
    <3>2. world.indexTime \in Times
      BY <1>0
    <3> QED
      BY <1>3, <3>1, <3>2, WrittenTimes
  <2>3. WellTimed(copy.index, copy.time, w.work)
    <3>1. WellTimed(copy.index, copy.time, world.work) /\ copy.time <= clock
      BY DEF TimeInv
    <3>2. copy.time \in Times
      BY <1>0
    <3> QED
      BY <1>3, <3>1, <3>2, WrittenTimes
  <2> QED
    BY <2>1, <2>2, <2>3 DEF TimeInv
<1>4. ASSUME NEW p \in Paths, StagedWorld(p) \in World, Move(StagedWorld(p))
      PROVE  TimeInv'
  <2>1. world' = StagedWorld(p) /\ moves' = moves + 1 /\ UNCHANGED <<clock, copy>>
    BY <1>4 DEF Move
  <2>2. /\ world'.index = StagedIndex(p) /\ world'.indexTime = clock
        /\ world'.work = world.work
    BY <1>0, <2>1 DEF StagedWorld, World
  <2>3. \A q \in Paths : world.work[q].stamp <= moves + 1
    BY <1>0
  <2>4. WellTimed(StagedIndex(p), clock, world.work)
    BY StagedTimes
  <2> QED
    BY <1>0, <2>1, <2>2, <2>3, <2>4 DEF TimeInv
<1>5. ASSUME NEW h \in Heads, NEW w \in World, w = [world EXCEPT !.head = h], Move(w)
      PROVE  TimeInv'
  <2>1. world' = w /\ moves' = moves + 1 /\ UNCHANGED <<clock, copy>>
    BY <1>5 DEF Move
  <2>2. w.index = world.index /\ w.work = world.work /\ w.indexTime = world.indexTime
    BY <1>0, <1>5, WorldMoved
  <2>3. \A q \in Paths : world.work[q].stamp <= moves + 1
    BY <1>0
  <2> QED
    BY <2>1, <2>2, <2>3 DEF TimeInv
<1>6. CASE Failing
  <2>1. copy' = NoIndex /\ UNCHANGED <<world, clock, moves>>
    BY <1>6 DEF Failing, Fail
  <2>2. NoIndex.time = 0 /\ \A p \in Paths : Blob(NoIndex.index, p) = Absent
    BY DEF NoIndex, NoEntry, Blob
  <2>3. WellTimed(NoIndex.index, NoIndex.time, world.work)
    BY <2>2 DEF TimeInv, WellTimed
  <2> QED
    BY <1>0, <2>1, <2>2, <2>3 DEF TimeInv
<1>7. CASE CopyIndex
  <2>1. Kept /\ (copy' = CopyOfIndex \/ Failing)
    BY <1>7 DEF CopyIndex, Failing, Results, Kept, worldVars, Running
  <2>2. CASE copy' = CopyOfIndex
    BY <2>1, <2>2, TreesType DEF TimeInv, Kept
  <2> QED
    BY <1>6, <2>1, <2>2
<1>8. CASE Cancel
  BY <1>6, <1>8, CancelFails
<1>9. CASE Others
  BY <1>2, <1>3, <1>4, <1>5, <1>9, OthersDo
<1> QED
  BY <1>1, <1>6, <1>7, <1>8, <1>9, NextDoes, CopyKept

(***************************************************************************)
(* What each step does when it does not fail.                              *)
(***************************************************************************)
Held3 == UNCHANGED <<digest, first, taken>>
Left(p) ==
  /\ at' = at /\ todo' = todo \ {p} /\ listed' = listed /\ mark' = NoValue
Entered(pass, paths) ==
  /\ at' = pass /\ todo' = paths /\ listed' = {} /\ mark' = NoValue

LEMMA ListingDoes ==
  ASSUME NEW p \in Paths, NEW pass, NEW next, NEW found \in BOOLEAN,
         Listing(p, pass, next, found)
  PROVE  /\ Kept /\ Held3 /\ UNCHANGED <<copy, capture, result>>
         /\ at = pass /\ result = "running" /\ First(p)
         /\ \/ /\ todo # {p} /\ at' = pass /\ todo' = todo \ {p} /\ mark' = mark
               /\ listed' = listed \union (IF found THEN {p} ELSE {})
            \/ /\ todo = {p}
               /\ Entered(next, listed \union (IF found THEN {p} ELSE {}))
BY DEF Listing, Kept, Held3, worldVars, digestVars, Running, Enter, Entered

LEMMA LookDoes ==
  ASSUME NEW p \in Paths, LookAtFile(p)
  PROVE  /\ Kept /\ Held3 /\ UNCHANGED <<at, todo, listed, copy, capture, result>>
         /\ at \in Reads /\ result = "running" /\ First(p)
         /\ mark = NoValue /\ mark' = Version(p)
BY DEF LookAtFile, Look, Kept, Held3, worldVars, digestVars, Reading, Running, Reads

LEMMA HashFileDoes ==
  ASSUME TypeOK, NEW p \in Paths, HashFile(p)
  PROVE  \/ Failing /\ mark # 0 /\ ~ SameFileVersion(p)
         \/ /\ Kept /\ Left(p) /\ UNCHANGED <<copy, first, taken, capture, result>>
            /\ at = "hash" /\ result = "running" /\ First(p) /\ mark # NoValue
            /\ mark = 0 \/ Version(p) = mark
            /\ digest' = [digest EXCEPT
                 ![p] = IF mark = 0 THEN Absent ELSE ContentOf(world.work, p)]
<1>1. /\ Kept /\ at = "hash" /\ result = "running" /\ First(p) /\ mark # NoValue
  BY DEF HashFile, Kept, worldVars, Reading, Running
<1>2. CASE mark # 0 /\ ~ SameFileVersion(p)
  BY <1>1, <1>2 DEF HashFile, Failing, Results, Kept
<1>3. CASE mark = 0 \/ SameFileVersion(p)
  <2>1. /\ digest' = [digest EXCEPT ![p] = IF mark = 0 THEN Absent ELSE Bytes(p)]
        /\ Left(p) /\ UNCHANGED <<copy, first, taken, capture, result>>
    BY <1>3 DEF HashFile, Skip, Left
  <2>2. mark # 0 => Bytes(p) = ContentOf(world.work, p)
    BY <1>1, <1>3, BytesType
  <2> QED
    BY <1>1, <1>3, <2>1, <2>2 DEF SameFileVersion
<1> QED
  BY <1>2, <1>3

LEMMA EndDigestDoes ==
  ASSUME EndDigest
  PROVE  \/ Failing /\ taken # 0 /\ digest # first
         \/ /\ Kept /\ UNCHANGED <<copy, capture, result>> /\ digest' = Unhashed
            /\ at = "hash" /\ result = "running" /\ todo = {} /\ taken' = taken + 1
            /\ \/ taken = 0 /\ first' = digest /\ Entered("overlayList", Paths)
               \/ /\ taken # 0 /\ digest = first /\ first' = first
                  /\ Entered("currentIndex", {})
BY DEF EndDigest, Kept, worldVars, Running, Failing, Results, Enter, Entered

LEMMA OverlayFileDoes ==
  ASSUME TypeOK, NEW p \in Paths, OverlayFile(p)
  PROVE  \/ Failing /\ mark # 0 /\ ~ SameFileVersion(p)
         \/ /\ Kept /\ Left(p) /\ Held3 /\ UNCHANGED <<copy, result>>
            /\ at = "overlayRead" /\ result = "running" /\ First(p) /\ mark # NoValue
            /\ \/ p \notin Sources /\ capture' = capture
               \/ /\ p \in Sources
                  /\ \E x \in Held :
                       /\ capture' = [capture EXCEPT !.sources[p] = x]
                       /\ \/ (mark = 0 \/ Version(p) # mark) /\ x = Absent
                          \/ /\ mark # 0 /\ Version(p) = mark
                             /\ x = IF ContentOf(world.work, p) \in Binary THEN Absent
                                    ELSE ContentOf(world.work, p)
<1>1. Kept /\ at = "overlayRead" /\ result = "running" /\ First(p) /\ mark # NoValue
  BY DEF OverlayFile, Kept, worldVars, Reading, Running
<1>2. CASE Fail("changed") /\ mark # 0 /\ ~ SameFileVersion(p)
  BY <1>1, <1>2 DEF Failing, Results, Kept
<1>3. CASE /\ p \notin Sources /\ Skip(p)
           /\ UNCHANGED <<copy, digestVars, capture, result>>
  BY <1>1, <1>3 DEF Skip, Left, Held3, digestVars
<1>4. CASE p \in Sources /\ (mark = 0 \/ ~ SameFileVersion(p)) /\ Overlay(p, Absent)
  <2>1. Absent \in Held
    BY DEF Held
  <2> QED
    BY <1>1, <1>4, <2>1 DEF Overlay, Skip, Left, Held3, digestVars, SameFileVersion
<1>5. CASE /\ p \in Sources /\ mark # 0 /\ SameFileVersion(p)
           /\ Overlay(p, IF Bytes(p) \in Binary THEN Absent ELSE Bytes(p))
  <2>1. Bytes(p) = ContentOf(world.work, p) /\ Bytes(p) \in Held /\ Absent \in Held
    BY <1>1, <1>5, BytesType DEF Held
  <2> QED
    BY <1>1, <1>5, <2>1 DEF Overlay, Skip, Left, Held3, digestVars, SameFileVersion
<1> QED
  BY <1>2, <1>3, <1>4, <1>5 DEF OverlayFile

LEMMA EndOverlayDoes ==
  ASSUME EndOverlay
  PROVE  /\ Kept /\ Entered("inventory", Paths) /\ Held3
         /\ UNCHANGED <<copy, capture, result>>
         /\ at = "overlayRead" /\ result = "running" /\ todo = {}
BY DEF EndOverlay, Kept, worldVars, Held3, digestVars, Running, Enter, Entered

LEMMA DiffInventoryDoes ==
  ASSUME NEW p \in Paths, DiffInventory(p)
  PROVE  /\ Kept /\ Held3 /\ UNCHANGED <<copy, result>>
         /\ at = "inventory" /\ result = "running" /\ First(p)
         /\ capture' = [capture EXCEPT !.inventory[p] = StatusNow(p)]
         /\ \/ todo # {p} /\ Left(p)
            \/ todo = {p} /\ Entered("patch", Paths)
BY DEF DiffInventory, Kept, worldVars, Held3, digestVars, Running, Proceed, Enter, Entered, Left

LEMMA DiffPatchDoes ==
  ASSUME NEW p \in Paths, DiffPatch(p)
  PROVE  /\ Kept /\ Held3 /\ UNCHANGED <<copy, result>>
         /\ at = "patch" /\ result = "running" /\ First(p)
         /\ capture' = [capture EXCEPT !.patch[p] = StatusNow(p)]
         /\ \/ todo # {p} /\ Left(p)
            \/ todo = {p} /\ call.untracked /\ Entered("otherList", Paths)
            \/ todo = {p} /\ ~ call.untracked /\ Entered("otherRead", {})
BY DEF DiffPatch, Kept, worldVars, Held3, digestVars, Running, Proceed, Enter, Entered, Left

LEMMA ReadOtherDoes ==
  ASSUME TypeOK, NEW p \in Paths, ReadOther(p)
  PROVE  \/ Failing /\ Version(p) # mark
         \/ /\ Kept /\ Held3 /\ Left(p) /\ UNCHANGED <<copy, result>>
            /\ at = "otherRead" /\ result = "running" /\ First(p) /\ mark # NoValue
            /\ Version(p) = mark
            /\ capture'.untracked = capture.untracked \union {p}
            /\ capture'.reports
                 = [capture.reports EXCEPT ![p] = Report(ContentOf(world.work, p))]
            /\ capture'.sources = capture.sources
            /\ capture'.inventory = capture.inventory /\ capture'.patch = capture.patch
            /\ capture'.artifacts = capture.artifacts /\ capture'.layers = capture.layers
<1>1. Kept /\ at = "otherRead" /\ result = "running" /\ First(p) /\ mark # NoValue
  BY DEF ReadOther, Kept, worldVars, Reading, Running
<1>2. CASE ~ SameFileVersion(p)
  BY <1>1, <1>2 DEF ReadOther, Failing, Results, Kept, SameFileVersion
<1>3. CASE SameFileVersion(p)
  <2>1. Bytes(p) = ContentOf(world.work, p) /\ capture \in Captures
    BY <1>1, <1>3, BytesType DEF TypeOK
  <2>2. /\ Held3 /\ Left(p) /\ UNCHANGED <<copy, result>>
        /\ capture' = [capture EXCEPT !.untracked = @ \union {p},
                                      !.reports[p] = Report(ContentOf(world.work, p))]
    BY <1>3, <2>1 DEF ReadOther, Held3, digestVars, Skip, Left
  <2>3. /\ capture'.untracked = capture.untracked \union {p}
        /\ capture'.reports
             = [capture.reports EXCEPT ![p] = Report(ContentOf(world.work, p))]
        /\ capture'.sources = capture.sources
        /\ capture'.inventory = capture.inventory /\ capture'.patch = capture.patch
        /\ capture'.artifacts = capture.artifacts /\ capture'.layers = capture.layers
    BY <2>1, <2>2 DEF Captures
  <2> QED
    BY <1>1, <1>3, <2>2, <2>3 DEF SameFileVersion
<1> QED
  BY <1>2, <1>3

LEMMA MergeDoes ==
  ASSUME MergeChanges
  PROVE  \/ Failing /\ \E p \in Paths : ~ Agrees(p)
         \/ /\ Kept /\ Held3 /\ Entered("list", Paths) /\ UNCHANGED <<copy, capture, result>>
            /\ at = "otherRead" /\ result = "running" /\ todo = {}
BY DEF MergeChanges, Kept, worldVars, Held3, digestVars, Running, Enter, Entered, Failing,
       Results

LEMMA CompareIndexDoes ==
  ASSUME CompareIndex
  PROVE  \/ Failing /\ ~ IsCopy(world)
         \/ /\ Kept /\ Held3 /\ Entered("currentHead", {}) /\ UNCHANGED <<copy, capture, result>>
            /\ at = "currentIndex" /\ result = "running" /\ IsCopy(world)
BY DEF CompareIndex, Kept, worldVars, Held3, digestVars, Running, Enter, Entered, Failing,
       Results, IsCopy

LEMMA CompareHeadDoes ==
  ASSUME CompareHead
  PROVE  \/ Failing /\ world.head # HeadOid
         \/ /\ Kept /\ Held3 /\ UNCHANGED <<copy, capture>>
            /\ at = "currentHead" /\ result = "running" /\ world.head = HeadOid
            /\ \/ taken = 3 /\ Entered("done", {}) /\ result' = "done"
               \/ taken # 3 /\ Entered("artifacts", call.requested) /\ result' = "running"
BY DEF CompareHead, Kept, worldVars, Held3, digestVars, Running, Enter, Entered, Failing,
       Results

LEMMA SelectArtifactDoes ==
  ASSUME TypeOK, NEW p \in Paths, SelectArtifact(p)
  PROVE  \/ Failing /\ result' = "parameters"
         \/ /\ Kept /\ Held3 /\ UNCHANGED <<copy, result>>
            /\ at = "artifacts" /\ result = "running" /\ First(p)
            /\ \/ /\ WorktreeSelects(p) /\ at' = "artifact"
                  /\ UNCHANGED <<todo, listed, mark, capture>>
               \/ /\ ~ WorktreeSelects(p) /\ Left(p)
                  /\ IndexAt(p) \in Contents
                  /\ capture' = [capture EXCEPT !.artifacts[p] = IndexAt(p)]
<1>1. Kept /\ at = "artifacts" /\ result = "running" /\ First(p)
  BY DEF SelectArtifact, Kept, worldVars, Reading, Running
<1>2. CASE WorktreeSelects(p)
  BY <1>1, <1>2 DEF SelectArtifact, Held3, digestVars
<1>3. CASE ~ WorktreeSelects(p)
  <2>1. KeepArtifact(p, IndexAt(p))
    BY <1>3 DEF SelectArtifact, IndexAt
  <2>2. IndexAt(p) \in Held
    BY CaptureAssumption, CopyFields, CaptureTyped DEF Tree, HoldType, IndexAt
  <2>3. CASE IndexAt(p) = Absent
    BY <1>1, <2>1, <2>3 DEF KeepArtifact, Failing, Results, Kept, Fail
  <2>4. CASE IndexAt(p) # Absent
    BY <1>1, <1>3, <2>1, <2>2, <2>4 DEF KeepArtifact, Skip, Left, Held3, digestVars, Held
  <2> QED
    BY <2>3, <2>4
<1> QED
  BY <1>2, <1>3

LEMMA ReadArtifactDoes ==
  ASSUME TypeOK, NEW p \in Paths, ReadArtifact(p)
  PROVE  \/ Failing /\ (mark = 0 \/ Version(p) # mark)
         \/ /\ Kept /\ Held3 /\ UNCHANGED <<listed, copy, result>>
            /\ at = "artifact" /\ result = "running" /\ First(p)
            /\ mark # NoValue /\ mark # 0 /\ Version(p) = mark
            /\ ContentOf(world.work, p) \in Contents
            /\ capture' = [capture EXCEPT !.artifacts[p] = ContentOf(world.work, p)]
            /\ at' = "artifacts" /\ todo' = todo \ {p} /\ mark' = NoValue
<1>1. Kept /\ at = "artifact" /\ result = "running" /\ First(p) /\ mark # NoValue
  BY DEF ReadArtifact, Kept, worldVars, Reading, Running
<1>2. CASE mark = 0 \/ ~ SameFileVersion(p)
  BY <1>1, <1>2 DEF ReadArtifact, Failing, Results, Kept, SameFileVersion
<1>3. CASE mark # 0 /\ SameFileVersion(p)
  <2>1. Bytes(p) = ContentOf(world.work, p) /\ Bytes(p) \in Contents
    BY <1>1, <1>3, BytesType
  <2> QED
    BY <1>1, <1>3, <2>1 DEF ReadArtifact, Held3, digestVars, SameFileVersion
<1> QED
  BY <1>2, <1>3

LEMMA EndArtifactsDoes ==
  ASSUME EndArtifacts
  PROVE  /\ Kept /\ Held3 /\ Entered("layers", Paths) /\ UNCHANGED <<copy, capture, result>>
         /\ at = "artifacts" /\ result = "running" /\ todo = {}
BY DEF EndArtifacts, Kept, worldVars, Held3, digestVars, Running, Enter, Entered

LEMMA DiffLayersDoes ==
  ASSUME NEW p \in Paths, DiffLayers(p)
  PROVE  /\ Kept /\ UNCHANGED <<copy, digest, first>>
         /\ at = "layers" /\ result = "running" /\ First(p)
         /\ capture' = [capture EXCEPT !.layers[p] = IF Changed(p) THEN LayersOf(p) ELSE {}]
         /\ \/ todo # {p} /\ at' = at /\ todo' = todo \ {p}
               /\ UNCHANGED <<listed, mark, taken, result>>
            \/ /\ todo = {p} /\ call.target = "worktree"
               /\ Entered("list", Paths) /\ UNCHANGED <<taken, result>>
            \/ /\ todo = {p} /\ call.target = "index"
               /\ Entered("currentIndex", {}) /\ taken' = taken + 1 /\ UNCHANGED result
            \/ /\ todo = {p} /\ call.target = "commit"
               /\ Entered("done", {}) /\ result' = "done" /\ UNCHANGED taken
BY DEF DiffLayers, Kept, worldVars, Running, Enter, Entered

LEMMA ResolveHeadDoes ==
  ASSUME ResolveHead
  PROVE  \/ Failing /\ result' # "changed"
         \/ /\ Kept /\ Held3 /\ UNCHANGED <<copy, result>> /\ at = "head" /\ result = "running"
            /\ \/ /\ call.target = "commit" /\ ReadTree(HeadTree)
                  /\ Entered("artifacts", call.requested)
               \/ /\ call.target # "commit" /\ world.head = HeadOid
                  /\ capture' = capture /\ Entered("index", {})
BY DEF ResolveHead, Kept, worldVars, Held3, digestVars, Running, Enter, Entered, Failing, Fail,
       Results

LEMMA LookAtIndexDoes ==
  ASSUME LookAtIndex
  PROVE  /\ Kept /\ Held3 /\ UNCHANGED <<todo, listed, copy, capture, result>>
         /\ at = "index" /\ at' = "copy" /\ mark' = world.indexStamp /\ result = "running"
BY DEF LookAtIndex, Kept, worldVars, Held3, digestVars, Running

LEMMA CopyIndexDoes ==
  ASSUME CopyIndex
  PROVE  \/ Failing /\ (world.indexStamp # mark \/ result' = "parameters")
         \/ /\ Kept /\ at = "copy" /\ copy' = CopyOfIndex /\ UNCHANGED <<digest, first, result>>
            /\ result = "running"
            /\ ~ TracksEvidence(IndexBlobs(world))
            /\ \/ /\ call.target = "index" /\ ReadTree(IndexBlobs(world)) /\ taken' = 2
                  /\ Entered("currentIndex", {})
               \/ /\ call.target # "index" /\ taken' = taken /\ Entered("list", Paths)
                  /\ capture' = [capture EXCEPT !.sources = Blobs(IndexBlobs(world))]
<1>1. Kept /\ at = "copy" /\ result = "running"
  BY DEF CopyIndex, Kept, worldVars, Running
<1>2. CASE world.indexStamp # mark
  BY <1>1, <1>2 DEF CopyIndex, Failing, Results, Kept
<1>3. CASE world.indexStamp = mark /\ TracksEvidence(IndexBlobs(world))
  <2>1. Fail("parameters")
    BY <1>3 DEF CopyIndex
  <2> QED
    BY <1>1, <2>1 DEF Failing, Results, Kept, Fail
<1>4. CASE world.indexStamp = mark /\ ~ TracksEvidence(IndexBlobs(world))
  <2>1. /\ copy' = CopyOfIndex /\ UNCHANGED <<digest, first, result>>
        /\ \/ /\ call.target = "index" /\ ReadTree(IndexBlobs(world)) /\ taken' = 2
              /\ Enter("currentIndex", {})
           \/ /\ call.target # "index" /\ taken' = taken /\ Enter("list", Paths)
              /\ capture' = [capture EXCEPT !.sources = Blobs(IndexBlobs(world))]
    BY <1>4 DEF CopyIndex
  <2> QED
    BY <1>1, <1>4, <2>1 DEF Enter, Entered
<1> QED
  BY <1>2, <1>3, <1>4

(***************************************************************************)
(* What was found was there.                                               *)
(***************************************************************************)
LEMMA ThereStill ==
  ASSUME past \subseteq past', NEW p, NEW c, WasThere(p, c)
  PROVE  WasThere(p, c)'
BY DEF WasThere

(* A step that leaves world and copy alone and finds only what was there.  *)
LEMMA FoundKept ==
  ASSUME FoundInv, Kept, copy' = copy,
         Copied' => Copied \/ (at \in {"index", "copy"} /\ \E w \in past : IsCopy(w)),
         at' \in {"index", "copy"} => at \in {"index", "copy"} \/ Copied,
         \A p \in Paths :
           \/ capture'.sources[p] \in {Absent, capture.sources[p]}
           \/ WasThere(p, capture'.sources[p]),
         \A p \in Paths :
           \/ capture'.artifacts[p] = capture.artifacts[p]
           \/ capture'.artifacts[p] # NoValue /\ WasThere(p, capture'.artifacts[p]),
         \A p \in Paths :
           (Alive /\ ArtifactKnown(p))' =>
             (Alive /\ ArtifactKnown(p)) \/ capture'.artifacts[p] # NoValue
  PROVE  FoundInv'
<1>1. UNCHANGED <<world, past, call>>
  BY DEF Kept
<1>2. world' \in past'
  BY <1>1 DEF FoundInv
<1>3. Copied' => (\E w \in past : IsCopy(w))'
  BY <1>1 DEF FoundInv, IsCopy
<1>4. Copied' \/ at' \in {"index", "copy"} => (\E w \in past : w.head = HeadOid)'
  BY <1>1 DEF FoundInv
<1>5. ASSUME NEW p \in Paths
      PROVE  /\ (capture.sources[p] # Absent => WasThere(p, capture.sources[p]))'
             /\ (capture.artifacts[p] # NoValue => WasThere(p, capture.artifacts[p]))'
             /\ (Alive /\ ArtifactKnown(p) => capture.artifacts[p] # NoValue)'
  BY <1>1 DEF FoundInv, WasThere
<1> QED
  BY <1>2, <1>3, <1>4, <1>5 DEF FoundInv

(* When an artifact becomes known.                                         *)
LEMMA KnownLater ==
  ASSUME TypeOK, PlaceInv, NEW p \in Paths, UNCHANGED call,
         result = "running", (Alive /\ ArtifactKnown(p))',
         at \notin {"head", "index", "copy"},
         \/ at' = at /\ todo \subseteq todo' /\ taken' = taken
         \/ at' = at /\ taken' = taken /\ at \notin {"artifacts", "artifact"}
         \/ at = "hash" /\ taken' = taken + 1 /\ at' \in {"overlayList", "currentIndex"}
         \/ at \in ChangePasses /\ at' \in WorktreePasses /\ taken' = taken
         \/ at \in {"list", "hash"} /\ at' \in {"list", "hash"} /\ taken' = taken
         \/ at = "currentIndex" /\ at' = "currentHead" /\ taken' = taken
         \/ at = "currentHead" /\ at' = "done" /\ taken = 3 /\ taken' = taken
         \/ at = "currentHead" /\ at' = "artifacts" /\ todo' = call.requested
            /\ taken # 3 /\ taken' = taken
         \/ at = "artifacts" /\ todo = {} /\ at' = "layers" /\ taken' = taken
         \/ at = "layers",
         result' \in {"running", "done"}, result' = "done" => at' = "done"
  PROVE  Alive /\ ArtifactKnown(p)
<1>1. /\ taken \in 0 .. 3 /\ p \in call.requested
      /\ at' = "done" \/ result' = "running"
  BY DEF TypeOK, ArtifactKnown, Alive
<1> USE DEF PlaceInv, ArtifactKnown, ArtifactsTaken, Alive, ChangePasses, WorktreePasses,
            LastPasses
<1>2. CASE at' = at
  BY <1>1, <1>2
<1>3. CASE at = "hash" /\ taken' = taken + 1 /\ at' \in {"overlayList", "currentIndex"}
  BY <1>1, <1>3
<1>4. CASE at \in ChangePasses /\ at' \in WorktreePasses /\ taken' = taken
  BY <1>1, <1>4
<1>5. CASE at \in {"list", "hash"} /\ at' \in {"list", "hash"} /\ taken' = taken
  BY <1>1, <1>5
<1>6. CASE at = "currentIndex" /\ at' = "currentHead" /\ taken' = taken
  BY <1>1, <1>6
<1>7. CASE at = "currentHead" /\ at' \in {"done", "artifacts"}
  BY <1>1, <1>7
<1>8. CASE at = "artifacts" /\ todo = {} /\ at' = "layers" /\ taken' = taken
  BY <1>1, <1>8
<1>9. CASE at = "layers"
  BY <1>1, <1>9
<1> QED
  BY <1>2, <1>3, <1>4, <1>5, <1>6, <1>7, <1>8, <1>9

LEMMA FoundStep ==
  ASSUME TypeOK, PlaceInv, TimeInv, FoundInv, [Next]_vars, TypeOK', PlaceInv'
  PROVE  FoundInv'
<1>0. /\ world \in past /\ capture \in Captures /\ world \in World /\ copy \in Copies
      /\ \A p \in Paths : WasThere(p, ContentOf(world.work, p))
      /\ \A p \in Paths : Copied => WasThere(p, Blob(copy.index, p))
      /\ \A p \in Paths : WasThere(p, HeadTree[p])
      /\ \A p \in Paths : Alive => WasThere(p, IndexAt(p))
  BY DEF FoundInv, TypeOK, WasThere, IsCopy, IndexAt, Copied, Alive
<1>a. \A p \in Paths : /\ capture.sources[p] \in {Absent, capture.sources[p]}
                       /\ capture.artifacts[p] = capture.artifacts[p]
  OBVIOUS
<1>1. CASE UNCHANGED vars
  BY <1>1, VarsKept DEF FoundInv, Copied, Alive, IsCopy, ArtifactKnown, ArtifactsTaken, WasThere
<1>2. CASE Disturbs
  <2>1. /\ past' = past \union {world'}
        /\ UNCHANGED <<call, at, todo, listed, mark, copy, digest, first, taken, capture,
                       result>>
    BY <1>2 DEF Disturbs
  <2>2. world' \in past' /\ past \subseteq past'
    BY <2>1
  <2>3. Copied' => (\E w \in past : IsCopy(w))'
    BY <2>1, <2>2 DEF FoundInv, IsCopy, Copied, Alive
  <2>4. Copied' \/ at' \in {"index", "copy"} => (\E w \in past : w.head = HeadOid)'
    BY <2>1, <2>2 DEF FoundInv, Copied, Alive
  <2>5. ASSUME NEW p \in Paths
        PROVE  /\ (capture.sources[p] # Absent => WasThere(p, capture.sources[p]))'
               /\ (capture.artifacts[p] # NoValue => WasThere(p, capture.artifacts[p]))'
               /\ (Alive /\ ArtifactKnown(p) => capture.artifacts[p] # NoValue)'
    <3>1. PICK s, a : s = capture.sources[p] /\ a = capture.artifacts[p]
      OBVIOUS
    <3>2. (s # Absent => WasThere(p, s)) /\ (a # NoValue => WasThere(p, a))
      BY <3>1 DEF FoundInv
    <3>3. (s # Absent => WasThere(p, s)') /\ (a # NoValue => WasThere(p, a)')
      BY <2>2, <3>2, ThereStill
    <3>4. s = capture'.sources[p] /\ a = capture'.artifacts[p]
      BY <2>1, <3>1
    <3>5. (Alive /\ ArtifactKnown(p))' = (Alive /\ ArtifactKnown(p))
      BY <2>1 DEF Alive, ArtifactKnown, ArtifactsTaken
    <3> QED
      BY <2>1, <3>1, <3>3, <3>4, <3>5 DEF FoundInv, WasThere
  <2> QED
    BY <2>2, <2>3, <2>4, <2>5 DEF FoundInv
<1>3. CASE Failing
  <2>1. /\ UNCHANGED <<world, past, call>> /\ capture' = Nothing /\ at' = "done"
        /\ result' \notin {"running", "done"}
    BY <1>3 DEF Failing, Fail
  <2>2. \A p \in Paths : Nothing.sources[p] = Absent /\ Nothing.artifacts[p] = NoValue
    BY DEF Nothing
  <2> QED
    BY <2>1, <2>2 DEF FoundInv, Copied, Alive
<1>4. CASE Cancel
  BY <1>3, <1>4, CancelFails
<1>5. CASE ResolveHead
  <2>1. CASE Failing
    BY <1>3, <2>1
  <2>2. CASE /\ Kept /\ UNCHANGED <<copy, result>> /\ at = "head" /\ result = "running"
             /\ call.target = "commit" /\ ReadTree(HeadTree) /\ Held3
             /\ Entered("artifacts", call.requested)
    <3>1. capture'.sources = Blobs(HeadTree) /\ capture'.artifacts = Nothing.artifacts
      BY <2>2, ReadTreeIs, CaptureAssumption DEF PlaceInv
    <3>2. \A p \in Paths : capture'.sources[p] \in {Absent, HeadTree[p]}
      BY <3>1 DEF Blobs
    <3>3. \A p \in Paths : capture'.artifacts[p] = NoValue
      BY <3>1 DEF Nothing
    <3>4. ~ Copied'
      BY <2>2 DEF Copied, Kept
    <3>5. taken = 0 /\ at' = "artifacts" /\ todo' = call.requested /\ taken' = taken
          /\ result' = "running" /\ UNCHANGED <<world, past, call>>
      BY <2>2 DEF PlaceInv, Held3, Entered, Kept
    <3>6. \A p \in Paths : ~ ArtifactKnown(p)'
      BY <3>5 DEF ArtifactKnown, ArtifactsTaken
    <3>7. \A p \in Paths : (capture.sources[p] # Absent => WasThere(p, capture.sources[p]))'
      BY <1>0, <3>2, <3>5 DEF WasThere
    <3> QED
      BY <3>3, <3>4, <3>5, <3>6, <3>7 DEF FoundInv
  <2>3. CASE /\ Kept /\ UNCHANGED <<copy, result>> /\ at = "head" /\ result = "running"
             /\ call.target # "commit" /\ world.head = HeadOid /\ Held3
             /\ capture' = capture /\ Entered("index", {})
    <3>1. at' = "index" /\ UNCHANGED <<world, past, call>> /\ capture = Nothing
      BY <2>3 DEF Entered, Kept, PlaceInv
    <3>2. \A p \in Paths : Nothing.sources[p] = Absent /\ Nothing.artifacts[p] = NoValue
      BY DEF Nothing
    <3> QED
      BY <1>0, <2>3, <3>1, <3>2 DEF FoundInv, Copied, Alive
  <2> QED
    BY <1>5, <2>1, <2>2, <2>3, ResolveHeadDoes
<1>6. CASE LookAtIndex
  <2>1. /\ Kept /\ UNCHANGED <<copy, capture, result>> /\ at = "index" /\ at' = "copy"
    BY <1>6, LookAtIndexDoes
  <2>2. ~ Copied' /\ ~ Alive'
    BY <2>1 DEF Copied, Alive
  <2> QED
    BY <1>a, <2>1, <2>2, FoundKept
<1>7. CASE CopyIndex
  <2>1. CASE Failing
    BY <1>3, <2>1
  <2>2. CASE ~ Failing
    <3>1. /\ Kept /\ at = "copy" /\ copy' = CopyOfIndex /\ UNCHANGED <<digest, first, result>>
          /\ result = "running"
          /\ \/ /\ call.target = "index" /\ ReadTree(IndexBlobs(world)) /\ taken' = 2
                /\ Entered("currentIndex", {})
             \/ /\ call.target # "index" /\ taken' = taken /\ Entered("list", Paths)
                /\ capture' = [capture EXCEPT !.sources = Blobs(IndexBlobs(world))]
      BY <1>7, <2>2, CopyIndexDoes
    <3>2. /\ capture'.sources = Blobs(IndexBlobs(world))
          /\ capture'.artifacts = Nothing.artifacts
      BY <3>1, ReadTreeIs, ReadSourcesIs, TreesType DEF PlaceInv
    <3>3. \A p \in Paths : capture'.sources[p] \in {Absent, Blob(world.index, p)}
      BY <3>2, TreesType DEF Blobs
    <3>4. \A p \in Paths : capture'.artifacts[p] = NoValue
      BY <3>2 DEF Nothing
    <3>5. /\ UNCHANGED <<world, past, call>> /\ taken = 0 /\ result' = "running"
          /\ \/ at' = "currentIndex" /\ taken' = 2
             \/ at' = "list" /\ taken' = 0
      BY <3>1 DEF Kept, Entered, PlaceInv
    <3>6. \A p \in Paths : Blob(copy'.index, p) = Blob(world.index, p)
      BY <3>1, TreesType
    <3>7. IsCopy(world)'
      BY <3>5, <3>6 DEF IsCopy
    <3>8. \A p \in Paths : ~ ArtifactKnown(p)'
      BY <3>5 DEF ArtifactKnown, ArtifactsTaken
    <3>9. \A p \in Paths : WasThere(p, Blob(world.index, p))
      BY <1>0 DEF WasThere
    <3>10. \A p \in Paths : (capture.sources[p] # Absent => WasThere(p, capture.sources[p]))'
      BY <3>3, <3>5, <3>9 DEF WasThere
    <3>11. (\E w \in past : IsCopy(w))' /\ (\E w \in past : w.head = HeadOid)' /\ (world \in past)'
      BY <1>0, <3>1, <3>5, <3>7 DEF FoundInv
    <3> QED
      BY <3>4, <3>8, <3>10, <3>11 DEF FoundInv
  <2> QED
    BY <2>1, <2>2
<1>8. ASSUME NEW p \in Paths, NEW pass, NEW next, NEW found \in BOOLEAN,
             Listing(p, pass, next, found),
             <<pass, next>> \in {<<"list", "hash">>, <<"overlayList", "overlayRead">>,
                                 <<"otherList", "otherRead">>}
      PROVE  FoundInv'
  <2>1. /\ Kept /\ UNCHANGED <<copy, capture, result, taken>> /\ at = pass
        /\ at' \in {pass, next} /\ result = "running"
    BY <1>8, ListingDoes DEF Held3, Entered
  <2>2. Copied' => Copied
    BY <1>8, <2>1 DEF Copied, Alive, Kept
  <2>3. at' \notin {"index", "copy"}
    BY <1>8, <2>1
  <2>4. \A q \in Paths : (Alive /\ ArtifactKnown(q))' => Alive /\ ArtifactKnown(q)
    BY <1>8, <2>1 DEF Alive, ArtifactKnown, ArtifactsTaken, Kept
  <2> QED
    BY <1>a, <2>1, <2>2, <2>3, <2>4, FoundKept
<1>9. ASSUME NEW p \in Paths, LookAtFile(p)
      PROVE  FoundInv'
  <2>1. Kept /\ UNCHANGED <<at, todo, taken, copy, capture, result>>
    BY <1>9, LookDoes DEF Held3
  <2> QED
    BY <1>a, <2>1, FoundKept DEF Copied, Alive, ArtifactKnown, ArtifactsTaken, Kept
<1>10. ASSUME NEW p \in Paths, HashFile(p), ~ Failing
       PROVE  FoundInv'
  <2>1. Kept /\ UNCHANGED <<at, taken, copy, capture, result>> /\ at = "hash"
    BY <1>10, HashFileDoes DEF Left
  <2> QED
    BY <1>a, <2>1, FoundKept DEF Copied, Alive, ArtifactKnown, ArtifactsTaken, Kept
<1>11. ASSUME EndDigest \/ EndOverlay \/ MergeChanges \/ CompareIndex \/ CompareHead \/ EndArtifacts,
              ~ Failing
       PROVE  FoundInv'
  <2>1. /\ Kept /\ UNCHANGED <<copy, capture>> /\ result = "running"
        /\ result' \in {"running", "done"} /\ (result' = "done" => at' = "done")
        /\ \/ at = "hash" /\ taken' = taken + 1 /\ at' \in {"overlayList", "currentIndex"}
           \/ at \in ChangePasses /\ at' \in WorktreePasses /\ taken' = taken
           \/ at = "currentIndex" /\ at' = "currentHead" /\ taken' = taken
           \/ at = "currentHead" /\ at' = "done" /\ taken = 3 /\ taken' = taken
           \/ at = "currentHead" /\ at' = "artifacts" /\ todo' = call.requested
              /\ taken # 3 /\ taken' = taken
           \/ at = "artifacts" /\ todo = {} /\ at' = "layers" /\ taken' = taken
    BY <1>11, EndDigestDoes, EndOverlayDoes, MergeDoes, CompareIndexDoes, CompareHeadDoes,
       EndArtifactsDoes DEF Held3, Entered, ChangePasses, WorktreePasses
  <2>2. Copied' => Copied
    BY <2>1 DEF Copied, Alive, Kept, ChangePasses, WorktreePasses
  <2>3. at' \notin {"index", "copy"} /\ at \notin {"head", "index", "copy"}
    BY <2>1 DEF ChangePasses, WorktreePasses
  <2>4. \A q \in Paths : (Alive /\ ArtifactKnown(q))' => Alive /\ ArtifactKnown(q)
    BY <2>1, <2>3, KnownLater DEF Kept
  <2> QED
    BY <1>a, <2>1, <2>2, <2>3, <2>4, FoundKept
<1>12. ASSUME NEW p \in Paths, OverlayFile(p), ~ Failing
       PROVE  FoundInv'
  <2>1. /\ Kept /\ UNCHANGED <<at, taken, copy, result>> /\ at = "overlayRead"
        /\ capture' = capture \/ \E x \in Held :
             /\ capture' = [capture EXCEPT !.sources[p] = x]
             /\ x \in {Absent, ContentOf(world.work, p)}
    BY <1>12, OverlayFileDoes DEF Left, Held3
  <2>2. /\ capture'.artifacts = capture.artifacts
        /\ \A q \in Paths : \/ capture'.sources[q] \in {Absent, capture.sources[q]}
                            \/ capture'.sources[q] = ContentOf(world.work, q)
    BY <1>0, <2>1, SetSource, CaptureFields
  <2>3. \A q \in Paths : \/ capture'.sources[q] \in {Absent, capture.sources[q]}
                         \/ WasThere(q, capture'.sources[q])
    BY <1>0, <2>2
  <2> QED
    BY <2>1, <2>2, <2>3, FoundKept DEF Copied, Alive, ArtifactKnown, ArtifactsTaken, Kept
<1>13. ASSUME NEW p \in Paths, DiffInventory(p) \/ DiffPatch(p) \/ ReadOther(p) \/ DiffLayers(p),
              ~ Failing
       PROVE  FoundInv'
  <2>1. capture'.sources = capture.sources /\ capture'.artifacts = capture.artifacts
    <3>1. CASE DiffInventory(p)
      <4>1. PICK x \in Statuses : capture' = [capture EXCEPT !.inventory[p] = x]
        BY <3>1, DiffInventoryDoes, StatusNowType
      <4> QED
        BY <1>0, <4>1, SetInventory
    <3>2. CASE DiffPatch(p)
      <4>1. PICK x \in Statuses : capture' = [capture EXCEPT !.patch[p] = x]
        BY <3>2, DiffPatchDoes, StatusNowType
      <4> QED
        BY <1>0, <4>1, SetPatch
    <3>3. CASE ReadOther(p)
      BY <1>0, <1>13, <3>3, ReadOtherDoes
    <3>4. CASE DiffLayers(p)
      <4>1. PICK x \in SUBSET Layers : capture' = [capture EXCEPT !.layers[p] = x]
        BY <3>4, DiffLayersDoes, LayersType
      <4> QED
        BY <1>0, <4>1, SetLayers
    <3> QED
      BY <1>13, <3>1, <3>2, <3>3, <3>4
  <2>2. /\ Kept /\ copy' = copy /\ result = "running" /\ result' \in {"running", "done"}
        /\ result' = "done" => at' = "done"
        /\ \/ at \in ChangePasses /\ at' \in ChangePasses /\ taken' = taken
           \/ at = "layers" /\ at' \in {"layers", "list", "currentIndex", "done"}
    BY <1>13, DiffInventoryDoes, DiffPatchDoes, ReadOtherDoes, DiffLayersDoes
       DEF Left, Entered, Held3, ChangePasses, WorktreePasses
  <2>3. Copied' => Copied
    BY <2>2 DEF Copied, Alive, Kept, ChangePasses, WorktreePasses
  <2>4. at' \notin {"index", "copy"} /\ at \notin {"head", "index", "copy"}
    BY <2>2 DEF ChangePasses, WorktreePasses
  <2>5. \A q \in Paths : (Alive /\ ArtifactKnown(q))' => Alive /\ ArtifactKnown(q)
    BY <2>2, <2>4, KnownLater DEF Kept, ChangePasses
  <2> QED
    BY <2>1, <2>2, <2>3, <2>4, <2>5, FoundKept
<1>14. ASSUME NEW p \in Paths, SelectArtifact(p) \/ ReadArtifact(p), ~ Failing
       PROVE  FoundInv'
  <2>1. /\ Kept /\ UNCHANGED <<copy, result, taken>> /\ result = "running"
        /\ at \in {"artifacts", "artifact"} /\ at' \in {"artifacts", "artifact"}
        /\ \/ capture' = capture /\ todo' = todo
           \/ /\ todo' = todo \ {p}
              /\ \E x \in Contents : /\ capture' = [capture EXCEPT !.artifacts[p] = x]
                                     /\ x \in {IndexAt(p), ContentOf(world.work, p)}
    BY <1>14, SelectArtifactDoes, ReadArtifactDoes DEF Held3, Left
  <2>2. Alive
    BY <2>1 DEF Alive
  <2>3. CASE capture' = capture /\ todo' = todo
    <3>1. \A q \in Paths : (Alive /\ ArtifactKnown(q))' => Alive /\ ArtifactKnown(q)
      BY <2>1, <2>2, <2>3 DEF ArtifactKnown, ArtifactsTaken, Kept
    <3> QED
      BY <1>a, <2>1, <2>2, <2>3, <3>1, FoundKept DEF Copied, Alive, Kept
  <2>4. ASSUME NEW x \in Contents, capture' = [capture EXCEPT !.artifacts[p] = x],
               x \in {IndexAt(p), ContentOf(world.work, p)}, todo' = todo \ {p}
        PROVE  FoundInv'
    <3>1. /\ capture'.sources = capture.sources
          /\ \A q \in Paths : capture'.artifacts[q] = IF q = p THEN x ELSE capture.artifacts[q]
      BY <1>0, <2>4, SetArtifact, CaptureFields
    <3>2. WasThere(p, x) /\ x # NoValue
      BY <1>0, <2>2, <2>4, CaptureAssumption DEF Held
    <3>3. \A q \in Paths :
            \/ capture'.artifacts[q] = capture.artifacts[q]
            \/ capture'.artifacts[q] # NoValue /\ WasThere(q, capture'.artifacts[q])
      BY <3>1, <3>2
    <3>4. \A q \in Paths : (Alive /\ ArtifactKnown(q))' =>
                             (Alive /\ ArtifactKnown(q)) \/ capture'.artifacts[q] # NoValue
      BY <2>1, <2>2, <2>4, <3>1, <3>2 DEF ArtifactKnown, ArtifactsTaken, Kept
    <3> QED
      BY <2>1, <2>2, <3>1, <3>3, <3>4, FoundKept DEF Copied, Alive, Kept
  <2> QED
    BY <2>1, <2>3, <2>4
<1>15. CASE Others
  BY <1>0, <1>2, <1>15, OthersDisturb
<1>16. ASSUME NEW p \in Paths, ListDirty(p) \/ ListOverlay(p) \/ ListOthers(p)
       PROVE  FoundInv'
  <2>1. Lists(p) \in BOOLEAN /\ ListsUntracked(p) \in BOOLEAN
    BY DEF Lists, ListsUntracked
  <2>2. CASE ListDirty(p)
    BY <1>8, <2>1, <2>2 DEF ListDirty
  <2>3. CASE ListOverlay(p)
    BY <1>8, <2>1, <2>3 DEF ListOverlay
  <2>4. CASE ListOthers(p)
    BY <1>8, <2>1, <2>4 DEF ListOthers
  <2> QED
    BY <1>16, <2>2, <2>3, <2>4
<1> QED
  BY <1>1, <1>3, <1>4, <1>5, <1>6, <1>7, <1>9, <1>10, <1>11, <1>12, <1>13, <1>14, <1>15, <1>16,
     NextDoes

(***************************************************************************)
(* The first theorems.                                                     *)
(***************************************************************************)
Sound == TypeOK /\ PlaceInv /\ TimeInv /\ FoundInv

LEMMA SoundInit ==
  ASSUME Init
  PROVE  Sound
<1>0. /\ world \in World /\ call \in Calls /\ clock \in Times \ {0} /\ Begins(world)
      /\ moves = 0 /\ returned = FALSE /\ past = {world} /\ at = "head" /\ todo = {}
      /\ listed = {} /\ mark = NoValue /\ copy = NoIndex /\ digest = Unhashed
      /\ first = Unhashed /\ taken = 0 /\ capture = Nothing /\ result = "running"
  BY CaptureAssumption DEF Init
<1>1. MaxMoves \in Nat /\ MaxTime \in Nat
  BY CaptureAssumption
<1>2. TypeOK
  <2>1. moves \in 0 .. MaxMoves /\ taken \in 0 .. 3
    BY <1>0, <1>1
  <2>5. world \in World /\ call \in Calls /\ clock \in Times /\ returned \in BOOLEAN
    <3>1. returned \in BOOLEAN
      BY <1>0
    <3>2. clock \in Times
      BY <1>0
    <3> QED
      BY <1>0, <3>1, <3>2
  <2>4. /\ past \subseteq World /\ todo \subseteq Paths /\ listed \subseteq Paths
        /\ mark \in (0 .. MaxMoves + 1) \union {NoValue}
    BY <1>0
  <2>2. at \in Passes /\ result \in Results
    BY <1>0 DEF Passes, Results
  <2>3. /\ copy \in Copies /\ capture \in Captures
        /\ digest \in [Paths -> Held \union {NoValue}]
        /\ first \in [Paths -> Held \union {NoValue}]
    BY <1>0, NothingFound
  <2> QED
    BY <2>1, <2>2, <2>3, <2>4, <2>5 DEF TypeOK
<1>3. PlaceInv
  BY <1>0 DEF PlaceInv, WorktreePasses, ChangePasses, LastPasses
<1>4. TimeInv
  <2>1. clock \in Nat /\ clock >= 1
    BY <1>0, <1>1 DEF Times
  <2>2. /\ WellTimed(world.index, world.indexTime, world.work) /\ world.indexTime <= clock
        /\ \A p \in Paths : world.work[p].stamp = 0
    BY <1>0 DEF Begins
  <2>3. NoIndex.time = 0 /\ \A p \in Paths : Blob(NoIndex.index, p) = Absent
    BY DEF NoIndex, NoEntry, Blob
  <2>4. WellTimed(NoIndex.index, NoIndex.time, world.work)
    BY <2>2, <2>3 DEF WellTimed
  <2> QED
    BY <1>0, <2>1, <2>2, <2>3, <2>4 DEF TimeInv
<1>5. FoundInv
  <2>1. \A p \in Paths : Nothing.sources[p] = Absent /\ Nothing.artifacts[p] = NoValue
    BY DEF Nothing
  <2> QED
    BY <1>0, <2>1 DEF FoundInv, Copied, Alive
<1> QED
  BY <1>2, <1>3, <1>4, <1>5 DEF Sound

LEMMA SoundStep ==
  ASSUME Sound, [Next]_vars
  PROVE  Sound'
<1>1. TypeOK' /\ PlaceInv'
  BY PlacesStep DEF Sound, FoundInv
<1>2. TimeInv'
  BY TimeStep DEF Sound
<1>3. FoundInv'
  BY <1>1, FoundStep DEF Sound
<1> QED
  BY <1>1, <1>2, <1>3 DEF Sound

THEOREM SoundHolds == Spec => []Sound
BY SoundInit, SoundStep, PTL DEF Spec

(* Variables keep their types in every behaviour of a capture.             *)
THEOREM CaptureTypesHold == Spec => []TypeOK
<1>1. Sound => TypeOK
  BY DEF Sound
<1> QED
  BY <1>1, SoundHolds, PTL

(* Whatever others do meanwhile, every source and every requested input of *)
(* a successful capture was there, in one piece, while it ran              *)
(* (read_regular_file, capture_evidence_file).                             *)
THEOREM FindsAreWhole == Spec => []NothingIsTorn
<1>1. Sound => NothingIsTorn
  <2> SUFFICES ASSUME Sound, result = "done", NEW p \in Paths
               PROVE  /\ capture.sources[p] # Absent => WasThere(p, capture.sources[p])
                      /\ p \in call.requested => WasThere(p, capture.artifacts[p])
    BY DEF NothingIsTorn
  <2>1. at = "done"
    BY DEF Sound, PlaceInv
  <2>2. Alive /\ ArtifactsTaken
    BY <2>1 DEF Alive, ArtifactsTaken
  <2>3. p \in call.requested => ArtifactKnown(p)
    BY <2>2 DEF ArtifactKnown
  <2> QED
    BY <2>2, <2>3 DEF Sound, FoundInv
<1> QED
  BY <1>1, SoundHolds, PTL

(***************************************************************************)
(* A capture that nobody disturbs.                                         *)
(***************************************************************************)

(* What a pass compares with depends on world and call only.               *)
LEMMA QuietSame ==
  ASSUME Kept
  PROVE  /\ InputsAreThere' = InputsAreThere /\ TakenOut' = TakenOut
         /\ \A p \in Paths : /\ Differs(p)' <=> Differs(p)
                             /\ Dirt(p)' = Dirt(p) /\ StatusThen(p)' = StatusThen(p)
                             /\ Version(p)' = Version(p)
                             /\ ContentOf(world.work, p)' = ContentOf(world.work, p)
BY DEF Kept, InputsAreThere, TakenOut, IsUntracked, Differs, Dirt, StatusThen, Version,
       Untracked, ContentOf, Blob

LEMMA QuietKept ==
  ASSUME Kept, result' # "changed", at' # "copy",
         at' = "index" \/ Copied' => world.head = HeadOid,
         (Copied => IsCopy(world))',
         at' \in Reads /\ mark' # NoValue =>
           \A p \in Paths : First(p)' => mark' = Version(p),
         at' = "list" => \A p \in Paths : p \in listed' <=> p \notin todo' /\ Differs(p),
         at' = "hash" =>
           \A p \in Paths : IF p \in todo' THEN Differs(p) /\ digest'[p] = NoValue
                            ELSE digest'[p] = Dirt(p),
         InWorktree' /\ taken' # 0 => \A p \in Paths : first'[p] = Dirt(p),
         at' \in ChangePasses =>
           \A p \in Paths :
             /\ Inventoried(p)' => capture'.inventory[p] = StatusThen(p)
             /\ at' \in {"otherList", "otherRead"} \/ (at' = "patch" /\ p \notin todo')
                  => capture'.patch[p] = StatusThen(p),
         at' = "artifact" /\ InputsAreThere =>
           \A p \in Paths : First(p)' => ContentOf(world.work, p) # Absent
  PROVE  QuietInv'
<1>1. /\ UNCHANGED <<world, call>> /\ InputsAreThere' = InputsAreThere
      /\ \A p \in Paths : /\ Differs(p)' <=> Differs(p)
                          /\ Dirt(p)' = Dirt(p) /\ StatusThen(p)' = StatusThen(p)
                          /\ Version(p)' = Version(p)
                          /\ ContentOf(world.work, p)' = ContentOf(world.work, p)
  BY QuietSame DEF Kept
<1>2. (at \in Reads /\ mark # NoValue => \A p \in Paths : First(p) => mark = Version(p))'
  BY <1>1
<1>3. /\ (at = "list" => \A p \in Paths : p \in listed <=> p \notin todo /\ Differs(p))'
      /\ (at = "hash" =>
            \A p \in Paths : IF p \in todo THEN Differs(p) /\ digest[p] = NoValue
                             ELSE digest[p] = Dirt(p))'
      /\ (InWorktree /\ taken # 0 => \A p \in Paths : first[p] = Dirt(p))'
  BY <1>1
<1>4. (at \in ChangePasses =>
         \A p \in Paths :
           /\ Inventoried(p) => capture.inventory[p] = StatusThen(p)
           /\ at \in {"otherList", "otherRead"} \/ (at = "patch" /\ p \notin todo)
                => capture.patch[p] = StatusThen(p))'
  BY <1>1
<1>5. (at = "artifact" /\ InputsAreThere =>
         \A p \in Paths : First(p) => ContentOf(world.work, p) # Absent)'
  BY <1>1
<1> QED
  BY <1>1, <1>2, <1>3, <1>4, <1>5 DEF QuietInv

(* A failure that does not ask for another try.                            *)
LEMMA QuietFails ==
  ASSUME Failing, InputsAreThere /\ ~ TakenOut => result' # "changed"
  PROVE  QuietInv'
<1>1. /\ at' = "done" /\ mark' = NoValue /\ taken' = 0 /\ result' \notin {"running", "done"}
      /\ InputsAreThere' = InputsAreThere /\ TakenOut' = TakenOut
  BY QuietSame DEF Failing, Fail, Kept
<1>2. ~ Copied' /\ ~ InWorktree'
  BY <1>1 DEF Copied, InWorktree, Alive
<1> QED
  BY <1>1, <1>2 DEF QuietInv, ChangePasses, WorktreePasses

(* While nobody disturbs it, Git's answers are those of the copy.          *)
LEMMA QuietAnswers ==
  ASSUME TypeOK, TimeInv, IsCopy(world), NEW p \in Paths
  PROVE  /\ Lists(p) <=> Differs(p)
         /\ StatusNow(p) = StatusThen(p)
         /\ Modified(copy.index, copy.time, world.work, p) => Blob(world.index, p) # Absent
<1>1. /\ copy.index \in [Paths -> Entry] /\ copy.time \in Times
      /\ world.work \in [Paths -> File]
  BY CopyFields, WorldFields DEF TypeOK
<1>2. WellTimed(copy.index, copy.time, world.work)
  BY DEF TimeInv
<1>3. Blob(world.index, p) = Blob(copy.index, p)
  BY DEF IsCopy
<1>4. Modified(copy.index, copy.time, world.work, p)
        <=> Blob(copy.index, p) # Absent
            /\ ContentOf(world.work, p) # Blob(copy.index, p)
  BY <1>1, <1>2, Verdict
<1>5. NewSide(copy.index, copy.time, world.work, p)
        = IF Blob(copy.index, p) = Absent THEN Absent ELSE ContentOf(world.work, p)
  BY <1>1, <1>2, NewSideIs
<1>6. Lists(p) <=> Differs(p)
  BY <1>3, <1>4 DEF Lists, Differs, Untracked
<1>7. StatusNow(p) = StatusThen(p)
  BY <1>3, <1>5 DEF StatusNow, StatusThen
<1> QED
  BY <1>3, <1>4, <1>6, <1>7

LEMMA QuietListed ==
  ASSUME Sound, QuietInv, NEW p \in Paths, NEW pass, NEW next, NEW found \in BOOLEAN,
         Listing(p, pass, next, found),
         <<pass, next>> \in {<<"list", "hash">>, <<"overlayList", "overlayRead">>,
                             <<"otherList", "otherRead">>},
         pass = "list" => found = Lists(p)
  PROVE  QuietInv'
<1>1. \/ pass = "list" /\ next = "hash" /\ found = Lists(p)
      \/ pass = "overlayList" /\ next = "overlayRead"
      \/ pass = "otherList" /\ next = "otherRead"
  OBVIOUS
<1>2. /\ Kept /\ Held3 /\ UNCHANGED <<copy, capture, result>>
      /\ at = pass /\ result = "running" /\ First(p)
      /\ \/ /\ todo # {p} /\ at' = pass /\ todo' = todo \ {p} /\ mark' = mark
            /\ listed' = listed \union (IF found THEN {p} ELSE {})
         \/ /\ todo = {p}
            /\ Entered(next, listed \union (IF found THEN {p} ELSE {}))
  BY DEF Listing, Kept, Held3, worldVars, digestVars, Running, Enter, Entered
<1>3. /\ Copied /\ InWorktree /\ UNCHANGED <<world, call, first, taken, digest>>
      /\ world.head = HeadOid /\ IsCopy(world)
  BY <1>1, <1>2 DEF Kept, Held3, Copied, InWorktree, Alive, Sound, PlaceInv, WorktreePasses,
                    QuietInv
<1>4. (Copied => IsCopy(world))'
  BY <1>2, <1>3 DEF IsCopy
<1>4a. Lists(p) <=> Differs(p)
  BY <1>3, QuietAnswers DEF Sound
<1>5. ASSUME at' = "list", NEW q \in Paths
      PROVE  q \in listed' <=> q \notin todo' /\ Differs(q)
  <2>1. /\ at = "list" /\ todo' = todo \ {p} /\ p \in todo
        /\ listed' = listed \union (IF Lists(p) THEN {p} ELSE {})
    BY <1>1, <1>2, <1>5 DEF Entered, First
  <2>2. q \in listed <=> q \notin todo /\ Differs(q)
    BY <2>1, <1>5 DEF QuietInv
  <2> QED
    BY <1>4a, <2>1, <2>2
<1>6. ASSUME at' = "hash", NEW q \in Paths
      PROVE  IF q \in todo' THEN Differs(q) /\ digest'[q] = NoValue ELSE digest'[q] = Dirt(q)
  <2>1. /\ at = "list" /\ todo = {p} /\ digest' = digest /\ digest = Unhashed
        /\ todo' = listed \union (IF Lists(p) THEN {p} ELSE {})
    BY <1>1, <1>2, <1>3, <1>6 DEF Entered, Sound, PlaceInv
  <2>2. q \in listed <=> q \notin todo /\ Differs(q)
    BY <2>1, <1>6 DEF QuietInv
  <2>3. digest'[q] = NoValue
    BY <2>1, <1>6 DEF Unhashed
  <2>4. q \in todo' <=> Differs(q)
    BY <1>4a, <2>1, <2>2
  <2> QED
    BY <2>3, <2>4 DEF Dirt
<1>7. at' \in Reads /\ mark' # NoValue => \A q \in Paths : First(q)' => mark' = Version(q)
  BY <1>1, <1>2 DEF Reads, Entered
<1>8. InWorktree' /\ taken' # 0 => \A q \in Paths : first'[q] = Dirt(q)
  BY <1>3 DEF QuietInv
<1>9. ASSUME at' \in ChangePasses, NEW q \in Paths
      PROVE  /\ Inventoried(q)' => capture'.inventory[q] = StatusThen(q)
             /\ at' \in {"otherList", "otherRead"} \/ (at' = "patch" /\ q \notin todo')
                  => capture'.patch[q] = StatusThen(q)
  <2>1. CASE at' \in {"overlayList", "overlayRead"}
    BY <2>1 DEF Inventoried
  <2>2. CASE at' \in {"otherList", "otherRead"}
    <3>1. at = "otherList"
      BY <1>1, <1>2, <2>2 DEF Entered
    <3>2. taken # 0
      BY <3>1, <1>3 DEF Sound, PlaceInv, ChangePasses, WorktreePasses
    <3>3. /\ Inventoried(q) => capture.inventory[q] = StatusThen(q)
          /\ capture.patch[q] = StatusThen(q)
      BY <3>1, <1>9 DEF QuietInv, ChangePasses, WorktreePasses
    <3> QED
      BY <1>2, <3>1, <3>2, <3>3 DEF Inventoried
  <2> QED
    BY <1>1, <1>2, <1>9, <2>1, <2>2 DEF Entered, ChangePasses, WorktreePasses
<1>10. result' # "changed" /\ at' \notin {"copy", "artifact", "index"}
  BY <1>1, <1>2 DEF Entered
<1> QED
  BY <1>2, <1>3, <1>4, <1>5, <1>6, <1>7, <1>8, <1>9, <1>10, QuietKept

LEMMA QuietListing ==
  ASSUME Sound, QuietInv, NEW p \in Paths, ListDirty(p) \/ ListOverlay(p) \/ ListOthers(p)
  PROVE  QuietInv'
<1>1. Lists(p) \in BOOLEAN /\ ListsUntracked(p) \in BOOLEAN
  BY DEF Lists, ListsUntracked
<1>2. CASE ListDirty(p)
  BY <1>1, <1>2, QuietListed DEF ListDirty
<1>3. CASE ListOverlay(p)
  BY <1>1, <1>3, QuietListed DEF ListOverlay
<1>4. CASE ListOthers(p)
  BY <1>1, <1>4, QuietListed DEF ListOthers
<1> QED
  BY <1>2, <1>3, <1>4

(* What a step knows that leaves the copy alone.                           *)
LEMMA QuietCopied ==
  ASSUME QuietInv, Kept, copy' = copy, result = "running", at \notin {"head", "index", "copy"}
  PROVE  /\ call.target # "commit" => Copied /\ world.head = HeadOid /\ IsCopy(world)
         /\ call.target = "worktree" => InWorktree
         /\ Copied' => world.head = HeadOid
         /\ (Copied => IsCopy(world))'
         /\ InWorktree' /\ taken # 0 => \A p \in Paths : first[p] = Dirt(p)
<1>1. call.target # "commit" => Copied /\ world.head = HeadOid /\ IsCopy(world)
  BY DEF Copied, Alive, QuietInv
<1>2. call.target = "worktree" => InWorktree
  BY DEF InWorktree, Alive
<1>3. UNCHANGED <<world, call>>
  BY DEF Kept
<1>4. Copied' => call.target # "commit"
  BY <1>3 DEF Copied
<1>5. (Copied => IsCopy(world))'
  BY <1>1, <1>3, <1>4 DEF IsCopy
<1>6. InWorktree' => InWorktree
  BY <1>2, <1>3 DEF InWorktree
<1>7. InWorktree /\ taken # 0 => \A p \in Paths : first[p] = Dirt(p)
  BY DEF QuietInv
<1> QED
  BY <1>1, <1>2, <1>4, <1>5, <1>6, <1>7

LEMMA QuietLook ==
  ASSUME Sound, QuietInv, NEW p \in Paths, LookAtFile(p)
  PROVE  QuietInv'
<1>1. /\ Kept /\ Held3 /\ UNCHANGED <<at, todo, listed, copy, capture, result>>
      /\ at \in Reads /\ result = "running" /\ First(p)
      /\ mark = NoValue /\ mark' = Version(p)
  BY LookDoes
<1>2. /\ Copied' => world.head = HeadOid
      /\ (Copied => IsCopy(world))'
      /\ InWorktree' /\ taken # 0 => \A q \in Paths : first[q] = Dirt(q)
  BY <1>1, QuietCopied DEF Reads
<1>3. \A q \in Paths : First(q)' => First(q)
  BY <1>1 DEF First
<1>4. \A q \in Paths : First(q)' => mark' = Version(q)
  BY <1>1, <1>3, OneIsFirst
<1>5. at' \notin {"copy", "index", "list"} /\ result' # "changed" /\ UNCHANGED <<taken, first, digest>>
  BY <1>1 DEF Reads, Held3
<1>6. \A q \in Paths : Inventoried(q)' => Inventoried(q)
  BY <1>1, <1>5 DEF Inventoried
<1>7. at' = "hash" =>
        \A q \in Paths : IF q \in todo' THEN Differs(q) /\ digest'[q] = NoValue
                         ELSE digest'[q] = Dirt(q)
  BY <1>1, <1>5 DEF QuietInv
<1>8. at' \in ChangePasses =>
        \A q \in Paths :
          /\ Inventoried(q)' => capture'.inventory[q] = StatusThen(q)
          /\ at' \in {"otherList", "otherRead"} \/ (at' = "patch" /\ q \notin todo')
               => capture'.patch[q] = StatusThen(q)
  BY <1>1, <1>6 DEF QuietInv
<1>9. at' = "artifact" /\ InputsAreThere =>
        \A q \in Paths : First(q)' => ContentOf(world.work, q) # Absent
  BY <1>1, <1>3 DEF QuietInv
<1> QED
  BY <1>1, <1>2, <1>4, <1>5, <1>7, <1>8, <1>9, QuietKept

(* A file that is read has the version it had when it was looked at.       *)
LEMMA QuietVersion ==
  ASSUME Sound, QuietInv, NEW p \in Paths, First(p), at \in Reads, mark # NoValue
  PROVE  /\ mark = Version(p)
         /\ mark = 0 <=> ContentOf(world.work, p) = Absent
BY VersionType DEF Sound, QuietInv

LEMMA QuietHash ==
  ASSUME Sound, QuietInv, NEW p \in Paths, HashFile(p)
  PROVE  QuietInv'
<1>1. at = "hash" /\ First(p) /\ mark # NoValue /\ p \in todo
  BY DEF HashFile, Reading, Running, First
<1>2. mark = Version(p) /\ (mark = 0 <=> ContentOf(world.work, p) = Absent)
  BY <1>1, QuietVersion DEF Reads
<1>3. /\ Kept /\ Left(p) /\ UNCHANGED <<copy, first, taken, capture, result>>
      /\ result = "running"
      /\ digest' = [digest EXCEPT ![p] = IF mark = 0 THEN Absent ELSE ContentOf(world.work, p)]
  BY <1>2, HashFileDoes DEF SameFileVersion, Sound
<1>4. at' = "hash" /\ todo' = todo \ {p} /\ mark' = NoValue
  BY <1>1, <1>3 DEF Left
<1>5. digest \in [Paths -> Held \union {NoValue}]
  BY DEF Sound, TypeOK
<1>6. \A q \in Paths : IF q \in todo' THEN Differs(q) /\ digest'[q] = NoValue
                       ELSE digest'[q] = Dirt(q)
  <2>1. \A q \in Paths : digest'[q] = IF q = p THEN ContentOf(world.work, p) ELSE digest[q]
    BY <1>2, <1>3, <1>5
  <2>2. \A q \in Paths : IF q \in todo THEN Differs(q) /\ digest[q] = NoValue
                         ELSE digest[q] = Dirt(q)
    BY <1>1 DEF QuietInv
  <2> QED
    BY <1>1, <1>4, <2>1, <2>2 DEF Dirt
<1>7. /\ Copied' => world.head = HeadOid
      /\ (Copied => IsCopy(world))'
      /\ InWorktree' /\ taken # 0 => \A q \in Paths : first[q] = Dirt(q)
  BY <1>1, <1>3, QuietCopied
<1> QED
  BY <1>3, <1>4, <1>6, <1>7, QuietKept DEF ChangePasses, WorktreePasses

LEMMA QuietEndDigest ==
  ASSUME Sound, QuietInv, EndDigest
  PROVE  QuietInv'
<1>1. at = "hash" /\ todo = {} /\ result = "running" /\ InWorktree
  BY DEF EndDigest, Running, Sound, PlaceInv, WorktreePasses, InWorktree, Alive
<1>2. \A q \in Paths : digest[q] = Dirt(q)
  BY <1>1 DEF QuietInv
<1>3. taken # 0 => digest = first
  <2>1. taken # 0 => \A q \in Paths : first[q] = digest[q]
    BY <1>1, <1>2 DEF QuietInv
  <2>2. /\ digest \in [Paths -> Held \union {NoValue}]
        /\ first \in [Paths -> Held \union {NoValue}]
    BY DEF Sound, TypeOK
  <2> QED
    BY <2>1, <2>2
<1>4. /\ Kept /\ UNCHANGED <<copy, capture, result>> /\ digest' = Unhashed
      /\ \/ first' = digest /\ Entered("overlayList", Paths)
         \/ first' = first /\ digest = first /\ Entered("currentIndex", {})
  BY <1>3, EndDigestDoes
<1>5. \A q \in Paths : first'[q] = Dirt(q)
  BY <1>2, <1>4
<1>6. Copied' => world.head = HeadOid
  BY <1>1, <1>4, QuietCopied
<1>7. (Copied => IsCopy(world))'
  BY <1>1, <1>4, QuietCopied
<1>8. mark' = NoValue /\ at' \in {"overlayList", "currentIndex"}
  BY <1>4 DEF Entered
<1>9. \A q \in Paths : at' = "overlayList" => ~ Inventoried(q)'
  BY DEF Inventoried
<1> QED
  BY <1>1, <1>4, <1>5, <1>6, <1>7, <1>8, <1>9, QuietKept DEF ChangePasses, WorktreePasses

LEMMA QuietOverlay ==
  ASSUME Sound, QuietInv, NEW p \in Paths, OverlayFile(p)
  PROVE  QuietInv'
<1>1. at = "overlayRead" /\ First(p) /\ mark # NoValue
  BY DEF OverlayFile, Reading, Running
<1>2. mark = Version(p)
  BY <1>1, QuietVersion DEF Reads
<1>3. Kept /\ Left(p) /\ Held3 /\ UNCHANGED <<copy, result>> /\ result = "running"
  BY <1>2, OverlayFileDoes DEF SameFileVersion, Sound
<1>4. at' = "overlayRead" /\ mark' = NoValue /\ UNCHANGED <<first, taken>>
  BY <1>1, <1>3 DEF Left, Held3
<1>5. /\ Copied' => world.head = HeadOid
      /\ (Copied => IsCopy(world))'
      /\ InWorktree' /\ taken # 0 => \A q \in Paths : first[q] = Dirt(q)
  BY <1>1, <1>3, QuietCopied
<1>6. \A q \in Paths : ~ Inventoried(q)'
  BY <1>4 DEF Inventoried
<1> QED
  BY <1>3, <1>4, <1>5, <1>6, QuietKept

LEMMA QuietEndOverlay ==
  ASSUME Sound, QuietInv, EndOverlay
  PROVE  QuietInv'
<1>1. /\ Kept /\ Held3 /\ UNCHANGED <<copy, capture, result>>
      /\ at = "overlayRead" /\ result = "running"
      /\ at' = "inventory" /\ todo' = Paths /\ mark' = NoValue
  BY EndOverlayDoes DEF Entered
<1>2. /\ Copied' => world.head = HeadOid
      /\ (Copied => IsCopy(world))'
      /\ InWorktree' /\ taken # 0 => \A q \in Paths : first[q] = Dirt(q)
  BY <1>1, QuietCopied
<1>3. \A q \in Paths : ~ Inventoried(q)'
  BY <1>1 DEF Inventoried
<1> QED
  BY <1>1, <1>2, <1>3, QuietKept DEF Held3

LEMMA QuietInventory ==
  ASSUME Sound, QuietInv, NEW p \in Paths, DiffInventory(p)
  PROVE  QuietInv'
<1>1. /\ Kept /\ Held3 /\ UNCHANGED <<copy, result>>
      /\ at = "inventory" /\ result = "running" /\ First(p)
      /\ capture' = [capture EXCEPT !.inventory[p] = StatusNow(p)]
      /\ \/ todo # {p} /\ Left(p)
         \/ todo = {p} /\ Entered("patch", Paths)
  BY DiffInventoryDoes
<1>2. /\ Copied' => world.head = HeadOid
      /\ (Copied => IsCopy(world))'
      /\ InWorktree' /\ taken # 0 => \A q \in Paths : first[q] = Dirt(q)
  BY <1>1, QuietCopied
<1>3. IsCopy(world)
  BY <1>1, QuietCopied DEF Sound, PlaceInv, WorktreePasses
<1>4. StatusNow(p) = StatusThen(p) /\ StatusNow(p) \in Statuses
  BY <1>3, QuietAnswers, StatusNowType DEF Sound
<1>5. \A q \in Paths :
        capture'.inventory[q] = IF q = p THEN StatusThen(p) ELSE capture.inventory[q]
  BY <1>1, <1>4, SetInventory, CaptureFields DEF Sound, TypeOK
<1>6. \A q \in Paths : Inventoried(q) => capture.inventory[q] = StatusThen(q)
  BY <1>1 DEF QuietInv, ChangePasses, WorktreePasses
<1>7. \A q \in Paths : Inventoried(q)' => Inventoried(q) \/ q = p
  BY <1>1 DEF Inventoried, Left, Held3
<1>8. /\ at' \in {"inventory", "patch"} /\ mark' = NoValue
      /\ at' = "patch" => todo' = Paths
  BY <1>1 DEF Left, Entered
<1>9. \A q \in Paths : Inventoried(q)' => capture'.inventory[q] = StatusThen(q)
  BY <1>5, <1>6, <1>7
<1> QED
  BY <1>1, <1>2, <1>8, <1>9, QuietKept DEF Held3

LEMMA QuietPatch ==
  ASSUME Sound, QuietInv, NEW p \in Paths, DiffPatch(p)
  PROVE  QuietInv'
<1>1. /\ Kept /\ Held3 /\ UNCHANGED <<copy, result>>
      /\ at = "patch" /\ result = "running" /\ First(p)
      /\ capture' = [capture EXCEPT !.patch[p] = StatusNow(p)]
      /\ \/ todo # {p} /\ Left(p)
         \/ todo = {p} /\ Entered("otherList", Paths)
         \/ todo = {p} /\ Entered("otherRead", {})
  BY DiffPatchDoes
<1>2. /\ Copied' => world.head = HeadOid
      /\ (Copied => IsCopy(world))'
      /\ InWorktree' /\ taken # 0 => \A q \in Paths : first[q] = Dirt(q)
  BY <1>1, QuietCopied
<1>3. IsCopy(world) /\ taken # 0
  BY <1>1, QuietCopied DEF Sound, PlaceInv, ChangePasses, WorktreePasses
<1>4. StatusNow(p) = StatusThen(p) /\ StatusNow(p) \in Statuses
  BY <1>3, QuietAnswers, StatusNowType DEF Sound
<1>5. /\ capture'.inventory = capture.inventory
      /\ \A q \in Paths : capture'.patch[q] = IF q = p THEN StatusThen(p) ELSE capture.patch[q]
  BY <1>1, <1>4, SetPatch, CaptureFields DEF Sound, TypeOK
<1>6. \A q \in Paths : /\ capture.inventory[q] = StatusThen(q)
                       /\ q \notin todo => capture.patch[q] = StatusThen(q)
  BY <1>1, <1>3 DEF QuietInv, ChangePasses, WorktreePasses, Inventoried
<1>7. /\ at' \in {"patch", "otherList", "otherRead"} /\ mark' = NoValue
      /\ at' = "patch" => todo' = todo \ {p}
      /\ at' # "patch" => todo = {p}
  BY <1>1 DEF Left, Entered
<1>8. \A q \in Paths :
        /\ capture'.inventory[q] = StatusThen(q)
        /\ at' \in {"otherList", "otherRead"} \/ (at' = "patch" /\ q \notin todo')
             => capture'.patch[q] = StatusThen(q)
  BY <1>5, <1>6, <1>7
<1> QED
  BY <1>1, <1>2, <1>7, <1>8, QuietKept DEF Held3, Reads

LEMMA QuietOther ==
  ASSUME Sound, QuietInv, NEW p \in Paths, ReadOther(p)
  PROVE  QuietInv'
<1>1. at = "otherRead" /\ First(p) /\ mark # NoValue
  BY DEF ReadOther, Reading, Running
<1>2. mark = Version(p)
  BY <1>1, QuietVersion DEF Reads
<1>3. /\ Kept /\ Held3 /\ Left(p) /\ UNCHANGED <<copy, result>> /\ result = "running"
  BY <1>2, ReadOtherDoes DEF Sound
<1>4. capture'.inventory = capture.inventory /\ capture'.patch = capture.patch
  BY <1>2, ReadOtherDoes DEF Sound
<1>5. at' = "otherRead" /\ mark' = NoValue /\ UNCHANGED <<first, taken>>
  BY <1>1, <1>3 DEF Left, Held3
<1>6. /\ Copied' => world.head = HeadOid
      /\ (Copied => IsCopy(world))'
      /\ InWorktree' /\ taken # 0 => \A q \in Paths : first[q] = Dirt(q)
  BY <1>1, <1>3, QuietCopied
<1>7. \A q \in Paths : Inventoried(q)' => Inventoried(q)
  BY <1>1, <1>5 DEF Inventoried
<1>8. \A q \in Paths : /\ Inventoried(q) => capture.inventory[q] = StatusThen(q)
                       /\ capture.patch[q] = StatusThen(q)
  BY <1>1 DEF QuietInv, ChangePasses, WorktreePasses
<1> QED
  BY <1>3, <1>4, <1>5, <1>6, <1>7, <1>8, QuietKept

(* The two runs of git diff agree, and so do the reports of a path that    *)
(* both of them and the untracked ones tell of.                            *)
LEMMA QuietMerge ==
  ASSUME Sound, QuietInv, OthersInv, MergeChanges
  PROVE  QuietInv'
<1>1. at = "otherRead" /\ result = "running" /\ taken # 0
  BY DEF MergeChanges, Running, Sound, PlaceInv, ChangePasses, WorktreePasses
<1>2. \A q \in Paths : capture.inventory[q] = StatusThen(q) /\ capture.patch[q] = StatusThen(q)
  BY <1>1 DEF QuietInv, ChangePasses, WorktreePasses, Inventoried
<1>3. ASSUME NEW q \in Paths, ~ Agrees(q)
      PROVE  TakenOut
  <2>1. /\ q \notin Sources /\ Gone(StatusThen(q)) /\ q \in capture.untracked
        /\ capture.reports[q] # Report(BaseTree[q])
    BY <1>2, <1>3 DEF Agrees, OneReport
  <2>2. BaseTree[q] # Absent
    BY <2>1 DEF Gone, StatusThen, Status
  <2>3. IsUntracked(world, q) /\ capture.reports[q] = Report(ContentOf(world.work, q))
    BY <2>1 DEF OthersInv
  <2> QED
    BY <2>1, <2>2, <2>3 DEF TakenOut
<1>4. CASE Failing
  <2>1. TakenOut
    BY <1>3, <1>4, MergeDoes DEF MergeChanges, Entered, Failing, Fail
  <2> QED
    BY <1>4, <2>1, QuietFails
<1>5. CASE ~ Failing
  <2>1. /\ Kept /\ Held3 /\ UNCHANGED <<copy, capture, result>>
        /\ at' = "list" /\ todo' = Paths /\ listed' = {} /\ mark' = NoValue
    BY <1>5, MergeDoes DEF Entered
  <2>2. /\ Copied' => world.head = HeadOid
        /\ (Copied => IsCopy(world))'
        /\ InWorktree' /\ taken # 0 => \A q \in Paths : first[q] = Dirt(q)
    BY <1>1, <2>1, QuietCopied
  <2> QED
    BY <1>1, <2>1, <2>2, QuietKept DEF Held3, ChangePasses, WorktreePasses
<1> QED
  BY <1>4, <1>5

LEMMA QuietCompare ==
  ASSUME Sound, QuietInv, CompareIndex \/ CompareHead
  PROVE  QuietInv'
<1>1. /\ at \in {"currentIndex", "currentHead"} /\ result = "running"
      /\ call.target # "commit"
  BY DEF CompareIndex, CompareHead, Running, Sound, PlaceInv
<1>2. IsCopy(world) /\ world.head = HeadOid
  BY <1>1, QuietCopied DEF QuietInv, Copied, Alive
<1>3. /\ Kept /\ Held3 /\ UNCHANGED <<copy, capture>> /\ result' \in {"running", "done"}
      /\ at' \in {"currentHead", "done", "artifacts"} /\ mark' = NoValue
  BY <1>2, CompareIndexDoes, CompareHeadDoes DEF Entered
<1>4. /\ Copied' => world.head = HeadOid
      /\ (Copied => IsCopy(world))'
      /\ InWorktree' /\ taken # 0 => \A q \in Paths : first[q] = Dirt(q)
  BY <1>1, <1>3, QuietCopied
<1> QED
  BY <1>3, <1>4, QuietKept DEF Held3, ChangePasses, WorktreePasses

LEMMA QuietSelect ==
  ASSUME Sound, QuietInv, NEW p \in Paths, SelectArtifact(p)
  PROVE  QuietInv'
<1>0. at = "artifacts" /\ result = "running"
  BY DEF SelectArtifact, Reading, Running
<1>1. CASE Failing /\ result' = "parameters"
  BY <1>1, QuietFails
<1>2. CASE /\ Kept /\ Held3 /\ UNCHANGED <<copy, result>> /\ First(p)
           /\ \/ /\ WorktreeSelects(p) /\ at' = "artifact"
                 /\ UNCHANGED <<todo, listed, mark, capture>>
              \/ Left(p)
  <2>1. /\ Copied' => world.head = HeadOid
        /\ (Copied => IsCopy(world))'
        /\ InWorktree' /\ taken # 0 => \A q \in Paths : first[q] = Dirt(q)
    BY <1>0, <1>2, QuietCopied
  <2>2. /\ at' \in {"artifacts", "artifact"} /\ UNCHANGED <<first, taken>>
        /\ at' = "artifact" => mark' = mark /\ todo' = todo /\ WorktreeSelects(p)
    BY <1>0, <1>2 DEF Left, Held3
  <2>3. mark = NoValue
    BY <1>0 DEF Sound, PlaceInv
  <2>4. ASSUME at' = "artifact", InputsAreThere, NEW q \in Paths, First(q)'
        PROVE  ContentOf(world.work, q) # Absent
    <3>1. WorktreeSelects(p) /\ q = p
      BY <1>2, <2>2, <2>4, OneIsFirst DEF First
    <3>2. /\ call.target = "worktree"
          /\ \/ Modified(copy.index, copy.time, world.work, p)
             \/ Untracked(copy.index, world.work, p)
      BY <3>1 DEF WorktreeSelects
    <3>3. IsCopy(world)
      BY <1>0, <1>2, <3>2, QuietCopied
    <3>4. CASE Modified(copy.index, copy.time, world.work, p)
      <4>1. Blob(world.index, p) # Absent
        BY <3>3, <3>4, QuietAnswers DEF Sound
      <4>2. p \in call.requested
        BY <1>0, <1>2 DEF Sound, PlaceInv, First
      <4> QED
        BY <2>4, <3>1, <3>2, <4>1, <4>2 DEF InputsAreThere
    <3>5. CASE Untracked(copy.index, world.work, p)
      BY <3>1, <3>5 DEF Untracked
    <3> QED
      BY <3>2, <3>4, <3>5
  <2> QED
    BY <1>0, <1>2, <2>1, <2>2, <2>3, <2>4, QuietKept DEF ChangePasses, WorktreePasses, Reads
<1> QED
  BY <1>1, <1>2, SelectArtifactDoes DEF Sound

LEMMA QuietArtifact ==
  ASSUME Sound, QuietInv, NEW p \in Paths, ReadArtifact(p)
  PROVE  QuietInv'
<1>1. at = "artifact" /\ First(p) /\ mark # NoValue
  BY DEF ReadArtifact, Reading, Running
<1>2. mark = Version(p) /\ (InputsAreThere => mark # 0)
  BY <1>1, QuietVersion DEF Reads, QuietInv
<1>3. CASE Failing
  <2>1. mark = 0
    BY <1>2, <1>3, ReadArtifactDoes DEF Sound, Failing, Fail
  <2> QED
    BY <1>2, <1>3, <2>1, QuietFails
<1>4. CASE /\ Kept /\ Held3 /\ UNCHANGED <<listed, copy, result>> /\ result = "running"
           /\ at' = "artifacts" /\ todo' = todo \ {p} /\ mark' = NoValue
  <2>1. /\ Copied' => world.head = HeadOid
        /\ (Copied => IsCopy(world))'
        /\ InWorktree' /\ taken # 0 => \A q \in Paths : first[q] = Dirt(q)
    BY <1>1, <1>4, QuietCopied
  <2> QED
    BY <1>4, <2>1, QuietKept DEF Held3, ChangePasses, WorktreePasses
<1> QED
  BY <1>3, <1>4, ReadArtifactDoes DEF Sound

LEMMA QuietEnds ==
  ASSUME Sound, QuietInv, EndArtifacts \/ \E p \in Paths : DiffLayers(p)
  PROVE  QuietInv'
<1>1. /\ Kept /\ UNCHANGED <<copy, first>> /\ at \in {"artifacts", "layers"}
      /\ result = "running" /\ result' \in {"running", "done"}
      /\ taken' = taken \/ call.target = "index"
      /\ \/ at' = "layers"
         \/ at' \in {"list", "currentIndex", "done"} /\ mark' = NoValue
            /\ todo' = (IF at' = "list" THEN Paths ELSE {}) /\ listed' = {}
  BY EndArtifactsDoes, DiffLayersDoes DEF Held3, Entered
<1>2. /\ Copied' => world.head = HeadOid
      /\ (Copied => IsCopy(world))'
      /\ InWorktree' /\ taken # 0 => \A q \in Paths : first[q] = Dirt(q)
  BY <1>1, QuietCopied
<1>3. InWorktree' => call.target = "worktree"
  BY <1>1 DEF InWorktree, Kept
<1> QED
  BY <1>1, <1>2, <1>3, QuietKept DEF Held3, ChangePasses, WorktreePasses, Reads

LEMMA QuietHead ==
  ASSUME Sound, QuietInv, ResolveHead \/ LookAtIndex
  PROVE  QuietInv'
<1>1. CASE Failing /\ result' # "changed"
  BY <1>1, QuietFails
<1>2. CASE /\ Kept /\ Held3 /\ UNCHANGED <<copy, result>> /\ at = "head" /\ result = "running"
           /\ \/ call.target = "commit" /\ Entered("artifacts", call.requested)
              \/ world.head = HeadOid /\ Entered("index", {})
  <2>1. ~ Copied' /\ ~ InWorktree' /\ mark' = NoValue /\ at' \in {"artifacts", "index"}
        /\ (at' = "index" => world.head = HeadOid)
    BY <1>2 DEF Copied, InWorktree, Alive, Entered, Kept
  <2> QED
    BY <1>2, <2>1, QuietKept DEF ChangePasses, WorktreePasses
<1>3. CASE LookAtIndex
  <2>1. /\ Kept /\ Held3 /\ UNCHANGED <<copy, result>> /\ at = "index" /\ at' = "copy"
        /\ mark' = world.indexStamp /\ result = "running"
    BY <1>3, LookAtIndexDoes
  <2>2. ~ Copied' /\ ~ InWorktree' /\ UNCHANGED world /\ world.head = HeadOid
    BY <2>1 DEF Copied, InWorktree, Alive, Kept, QuietInv
  <2>3. result' # "changed"
    BY <2>1
  <2> QED
    BY <2>1, <2>2, <2>3 DEF QuietInv, ChangePasses, WorktreePasses, Reads
<1> QED
  BY <1>1, <1>2, <1>3, ResolveHeadDoes

LEMMA QuietCopy ==
  ASSUME Sound, QuietInv, CopyIndex
  PROVE  QuietInv'
<1>1. CASE Failing
  <2>1. world.indexStamp = mark
    BY DEF CopyIndex, Running, QuietInv
  <2>2. result' = "parameters"
    BY <1>1, <2>1, CopyIndexDoes DEF Kept, Failing, Fail
  <2> QED
    BY <1>1, <2>2, QuietFails
<1>2. CASE ~ Failing
  <2>1. /\ Kept /\ at = "copy" /\ copy' = CopyOfIndex /\ UNCHANGED <<digest, first, result>>
        /\ result = "running"
        /\ \/ call.target = "index" /\ Entered("currentIndex", {})
           \/ call.target # "index" /\ taken' = taken /\ Entered("list", Paths)
    BY <1>2, CopyIndexDoes
  <2>2. /\ world' = world /\ call' = call /\ mark' = NoValue /\ world.head = HeadOid
        /\ taken = 0
    BY <2>1 DEF Kept, Entered, QuietInv, Sound, PlaceInv
  <2>3. \A p \in Paths : Blob(copy'.index, p) = Blob(world.index, p)
    BY <2>1, TreesType DEF Sound
  <2>4. IsCopy(world)'
    BY <2>2, <2>3 DEF IsCopy
  <2>5. /\ at' \in {"currentIndex", "list"}
        /\ at' = "list" => todo' = Paths /\ listed' = {}
    BY <2>1 DEF Entered
  <2>6. InWorktree' => taken' = 0
    BY <2>1, <2>2 DEF InWorktree
  <2> QED
    BY <2>1, <2>2, <2>4, <2>5, <2>6, QuietKept DEF ChangePasses, WorktreePasses
<1> QED
  BY <1>1, <1>2

LEMMA QuietDisturbed ==
  ASSUME QuietInv, Disturbs, world' = world
  PROVE  QuietInv'
BY DEF Disturbs, QuietInv, Copied, InWorktree, Alive, IsCopy, First, Version, Differs, Dirt,
       StatusThen, Inventoried, InputsAreThere, TakenOut, IsUntracked, Untracked, ContentOf,
       Blob

LEMMA QuietInit ==
  ASSUME Init
  PROVE  QuietInv
BY DEF Init, QuietInv, Copied, InWorktree, Alive, ChangePasses, WorktreePasses, Reads

LEMMA QuietStep ==
  ASSUME Sound, moves = 0 => QuietInv /\ OthersInv, [Next]_vars
  PROVE  moves' = 0 => QuietInv'
<1> SUFFICES ASSUME moves' = 0
             PROVE  QuietInv'
  OBVIOUS
<1>1. CASE Others
  <2>1. Disturbs /\ moves = 0 /\ world' = world
    BY <1>1, OthersDisturb DEF Sound, FoundInv, Disturbs
  <2> QED
    BY <2>1, QuietDisturbed
<1>2. CASE UNCHANGED vars
  BY <1>2, VarsKept
     DEF QuietInv, Copied, InWorktree, Alive, IsCopy, First, Version, Differs, Dirt,
         StatusThen, Inventoried, InputsAreThere, TakenOut, IsUntracked, Untracked,
         ContentOf, Blob
<1>3. ASSUME moves' = moves
      PROVE  QuietInv /\ OthersInv
  BY <1>3
<1>4. CASE Cancel
  <2>1. Failing /\ result' # "changed"
    BY <1>4, CancelFails DEF Cancel, Fail
  <2> QED
    BY <2>1, QuietFails
<1>5. CASE ResolveHead \/ LookAtIndex
  BY <1>3, <1>5, CopyKept, QuietHead DEF Kept
<1>6. CASE CopyIndex
  BY <1>3, <1>6, QuietCopy DEF CopyIndex, worldVars
<1>7. CASE EndDigest \/ EndOverlay \/ MergeChanges
  BY <1>3, <1>7, CopyKept, QuietEndDigest, QuietEndOverlay, QuietMerge DEF Kept
<1>8. CASE CompareIndex \/ CompareHead \/ EndArtifacts
  BY <1>3, <1>8, CopyKept, QuietCompare, QuietEnds DEF Kept
<1>9. ASSUME NEW p \in Paths, ListDirty(p) \/ ListOverlay(p) \/ ListOthers(p) \/ LookAtFile(p)
      PROVE  QuietInv'
  BY <1>3, <1>9, CopyKept, QuietListing, QuietLook DEF Kept
<1>10. ASSUME NEW p \in Paths, HashFile(p) \/ OverlayFile(p) \/ DiffInventory(p) \/ DiffPatch(p)
       PROVE  QuietInv'
  BY <1>3, <1>10, CopyKept, QuietHash, QuietOverlay, QuietInventory, QuietPatch DEF Kept
<1>11. ASSUME NEW p \in Paths,
              ReadOther(p) \/ SelectArtifact(p) \/ ReadArtifact(p) \/ DiffLayers(p)
       PROVE  QuietInv'
  BY <1>3, <1>11, CopyKept, QuietOther, QuietSelect, QuietArtifact, QuietEnds DEF Kept
<1> QED
  BY <1>1, <1>2, <1>4, <1>5, <1>6, <1>7, <1>8, <1>9, <1>10, <1>11, NextDoes

LEMMA MovesKept ==
  ASSUME Sound, [Next]_vars, moves' = 0
  PROVE  moves = 0
<1>1. CASE Others
  BY <1>1, OthersDisturb DEF Sound, FoundInv, Disturbs
<1>2. CASE UNCHANGED vars \/ Cancel \/ CopyIndex
  BY <1>2, VarsKept DEF Cancel, CopyIndex, worldVars
<1> QED
  BY <1>1, <1>2, CopyKept, NextDoes DEF Kept

LEMMA OthersInit ==
  ASSUME Init
  PROVE  OthersInv
BY DEF Init, OthersInv, Nothing

LEMMA OthersKept ==
  ASSUME OthersInv, UNCHANGED <<world, call>>,
         \/ capture'.untracked = {}
         \/ capture'.untracked = capture.untracked /\ capture'.reports = capture.reports,
         at' = "otherList" => listed' = {} \/ (at = at' /\ listed' = listed),
         at' = "otherRead" => todo' = {} \/ (at = at' /\ todo' = todo)
  PROVE  OthersInv'
<1>1. \A p \in Paths : IsUntracked(world, p)' <=> IsUntracked(world, p)
  BY DEF IsUntracked
<1> QED
  BY DEF OthersInv, IsUntracked

(* What is listed and what is read is untracked.                           *)
LEMMA OthersListed ==
  ASSUME Sound, QuietInv, OthersInv, NEW p \in Paths, ListOthers(p)
  PROVE  OthersInv'
<1>1. /\ Kept /\ capture' = capture /\ at = "otherList"
      /\ \/ /\ at' = "otherList"
            /\ listed' = listed \union (IF ListsUntracked(p) THEN {p} ELSE {})
         \/ /\ at' = "otherRead"
            /\ todo' = listed \union (IF ListsUntracked(p) THEN {p} ELSE {})
  BY DEF ListOthers, Listing, Kept, worldVars, Running, Enter
<1>2. call.target = "worktree" /\ IsCopy(world)
  <2>1. call.target = "worktree" /\ result = "running"
    BY <1>1 DEF ListOthers, Listing, Running, Sound, PlaceInv, WorktreePasses
  <2> QED
    BY <1>1, <2>1 DEF QuietInv, Copied, Alive
<1>3. ListsUntracked(p) => IsUntracked(world, p)
  BY <1>2 DEF ListsUntracked, IsUntracked, IsCopy, Untracked
<1>4. \A q \in listed \union (IF ListsUntracked(p) THEN {p} ELSE {}) : IsUntracked(world, q)
  BY <1>1, <1>3 DEF OthersInv
<1>5. UNCHANGED <<world, call>>
  BY <1>1 DEF Kept
<1> QED
  BY <1>1, <1>4, <1>5 DEF OthersInv, IsUntracked

LEMMA OthersRead ==
  ASSUME Sound, OthersInv, NEW p \in Paths, ReadOther(p), ~ Failing
  PROVE  OthersInv'
<1>1. /\ UNCHANGED <<world, call>> /\ at' = "otherRead" /\ at = "otherRead"
      /\ todo' = todo \ {p} /\ p \in todo
      /\ capture'.untracked = capture.untracked \union {p}
      /\ capture'.reports = [capture.reports EXCEPT ![p] = Report(ContentOf(world.work, p))]
  BY ReadOtherDoes DEF Sound, Kept, Left, First
<1>2. /\ capture.reports \in [Paths -> Forms \union {NoValue}]
      /\ capture.untracked \subseteq Paths
  BY CaptureFields DEF Sound, TypeOK
<1>3. IsUntracked(world, p) /\ \A q \in todo : IsUntracked(world, q)
  BY <1>1 DEF OthersInv
<1>4. ASSUME NEW q \in capture'.untracked
      PROVE  IsUntracked(world, q) /\ capture'.reports[q] = Report(ContentOf(world.work, q))
  BY <1>1, <1>2, <1>3, <1>4 DEF OthersInv
<1>5. \A q \in Paths : IsUntracked(world, q)' <=> IsUntracked(world, q)
  BY <1>1 DEF IsUntracked
<1>6. capture'.untracked \subseteq Paths /\ todo' \subseteq Paths
  BY <1>1, <1>2 DEF Sound, TypeOK
<1> QED
  BY <1>1, <1>3, <1>4, <1>5, <1>6 DEF OthersInv

LEMMA OthersStep ==
  ASSUME Sound, QuietInv, OthersInv, [Next]_vars, moves' = 0
  PROVE  OthersInv'
<1>0. capture \in Captures
  BY DEF Sound, TypeOK
<1>1. CASE Others \/ UNCHANGED vars
  <2>1. UNCHANGED <<world, call, at, todo, listed, capture>>
    BY <1>1, OthersDisturb, VarsKept DEF Disturbs, Sound, FoundInv
  <2> QED
    BY <2>1, OthersKept
<1>2. CASE Cancel \/ Failing
  <2>1. capture'.untracked = {} /\ at' = "done" /\ UNCHANGED <<world, call>>
    BY <1>2, CancelFails DEF Failing, Fail, Nothing
  <2> QED
    BY <2>1, OthersKept
<1>3. CASE ResolveHead \/ LookAtIndex \/ CopyIndex
  <2>1. CASE ~ Failing
    <3>1. /\ UNCHANGED <<world, call>> /\ at' \notin {"otherList", "otherRead"}
          /\ at \in {"head", "index", "copy"}
      BY <1>3, <2>1, ResolveHeadDoes, LookAtIndexDoes, CopyIndexDoes DEF Kept, Entered
    <3>2. capture = Nothing /\ HeadTree \in Tree /\ IndexBlobs(world) \in Tree
      BY <3>1, CaptureAssumption, TreesType DEF Sound, PlaceInv
    <3>3. \/ \E tree \in Tree : ReadTree(tree)
          \/ \E tree \in Tree : capture' = [capture EXCEPT !.sources = Blobs(tree)]
          \/ capture' = capture
      BY <1>3, <2>1, <3>2, ResolveHeadDoes, LookAtIndexDoes, CopyIndexDoes
    <3>4. capture'.untracked = {}
      BY <3>2, <3>3, ReadTreeIs, ReadSourcesIs DEF Nothing
    <3> QED
      BY <3>1, <3>4, OthersKept
  <2> QED
    BY <1>2, <2>1
<1>4. CASE EndDigest \/ EndOverlay \/ MergeChanges \/ CompareIndex \/ CompareHead \/ EndArtifacts
  <2>1. CASE ~ Failing
    <3>1. /\ UNCHANGED <<world, call, capture>>
          /\ at' \notin {"otherList", "otherRead"}
      BY <1>4, <2>1, EndDigestDoes, EndOverlayDoes, MergeDoes, CompareIndexDoes, CompareHeadDoes,
         EndArtifactsDoes DEF Kept, Entered
    <3> QED
      BY <3>1, OthersKept
  <2> QED
    BY <1>2, <2>1
<1>5. ASSUME NEW p \in Paths, ListDirty(p) \/ ListOverlay(p) \/ LookAtFile(p) \/ HashFile(p)
      PROVE  OthersInv'
  <2>1. CASE ~ Failing
    <3>1. /\ UNCHANGED <<world, call, capture>>
          /\ \/ at' \notin {"otherList", "otherRead"}
             \/ UNCHANGED <<at, todo, listed>>
      <4>1. CASE ListDirty(p) \/ ListOverlay(p)
        BY <4>1, ListingDoes DEF ListDirty, ListOverlay, Listing, Running, Enter, worldVars
      <4>2. CASE LookAtFile(p)
        BY <4>2, LookDoes DEF Kept
      <4>3. CASE HashFile(p)
        BY <2>1, <4>3, HashFileDoes DEF Kept, Left, Sound
      <4> QED
        BY <1>5, <4>1, <4>2, <4>3
    <3> QED
      BY <3>1, OthersKept
  <2> QED
    BY <1>2, <2>1
<1>6. ASSUME NEW p \in Paths, OverlayFile(p)
      PROVE  OthersInv'
  <2>1. CASE ~ Failing
    <3>1. /\ UNCHANGED <<world, call>> /\ at' = "overlayRead"
          /\ \/ capture' = capture
             \/ \E x \in Held : capture' = [capture EXCEPT !.sources[p] = x]
      BY <1>6, <2>1, OverlayFileDoes DEF Sound, Kept, Left
    <3>2. capture'.untracked = capture.untracked /\ capture'.reports = capture.reports
      <4>1. ASSUME NEW x \in Held, capture' = [capture EXCEPT !.sources[p] = x]
            PROVE  capture'.untracked = capture.untracked /\ capture'.reports = capture.reports
        BY <1>0, <4>1, SetSource
      <4> QED
        BY <3>1, <4>1
    <3> QED
      BY <3>1, <3>2, OthersKept
  <2> QED
    BY <1>2, <2>1
<1>7. ASSUME NEW p \in Paths, DiffInventory(p) \/ DiffPatch(p)
      PROVE  OthersInv'
  <2>1. /\ UNCHANGED <<world, call>>
        /\ \/ at' \in {"inventory", "patch"}
           \/ at' = "otherList" /\ listed' = {}
           \/ at' = "otherRead" /\ todo' = {}
    BY <1>7, DiffInventoryDoes, DiffPatchDoes DEF Kept, Left, Entered
  <2>2. \E x \in Statuses : \/ capture' = [capture EXCEPT !.inventory[p] = x]
                            \/ capture' = [capture EXCEPT !.patch[p] = x]
    BY <1>7, DiffInventoryDoes, DiffPatchDoes, StatusNowType
  <2>3. capture'.untracked = capture.untracked /\ capture'.reports = capture.reports
    <3>1. ASSUME NEW x \in Statuses, capture' = [capture EXCEPT !.inventory[p] = x]
          PROVE  capture'.untracked = capture.untracked /\ capture'.reports = capture.reports
      BY <1>0, <3>1, SetInventory
    <3>2. ASSUME NEW x \in Statuses, capture' = [capture EXCEPT !.patch[p] = x]
          PROVE  capture'.untracked = capture.untracked /\ capture'.reports = capture.reports
      BY <1>0, <3>2, SetPatch
    <3> QED
      BY <2>2, <3>1, <3>2
  <2> QED
    BY <2>1, <2>3, OthersKept
<1>8. ASSUME NEW p \in Paths, SelectArtifact(p) \/ ReadArtifact(p)
      PROVE  OthersInv'
  <2>1. CASE ~ Failing
    <3>1. /\ UNCHANGED <<world, call>> /\ at' \in {"artifacts", "artifact"}
          /\ \/ capture' = capture
             \/ \E x \in Contents : capture' = [capture EXCEPT !.artifacts[p] = x]
      BY <1>8, <2>1, SelectArtifactDoes, ReadArtifactDoes DEF Sound, Kept, Left
    <3>2. capture'.untracked = capture.untracked /\ capture'.reports = capture.reports
      <4>1. ASSUME NEW x \in Contents, capture' = [capture EXCEPT !.artifacts[p] = x]
            PROVE  capture'.untracked = capture.untracked /\ capture'.reports = capture.reports
        BY <1>0, <4>1, SetArtifact
      <4> QED
        BY <3>1, <4>1
    <3> QED
      BY <3>1, <3>2, OthersKept
  <2> QED
    BY <1>2, <2>1
<1>9. ASSUME NEW p \in Paths, DiffLayers(p)
      PROVE  OthersInv'
  <2>1. /\ UNCHANGED <<world, call>> /\ at' \in {"layers", "list", "currentIndex", "done"}
        /\ \E x \in SUBSET Layers : capture' = [capture EXCEPT !.layers[p] = x]
    BY <1>9, DiffLayersDoes, LayersType DEF Kept, Entered
  <2>2. capture'.untracked = capture.untracked /\ capture'.reports = capture.reports
    BY <2>1, SetLayers DEF Sound, TypeOK
  <2> QED
    BY <2>1, <2>2, OthersKept
<1>10. ASSUME NEW p \in Paths, ListOthers(p) \/ ReadOther(p)
       PROVE  OthersInv'
  BY <1>2, <1>10, OthersListed, OthersRead
<1> QED
  BY <1>1, <1>2, <1>3, <1>4, <1>5, <1>6, <1>7, <1>8, <1>9, <1>10, NextDoes

(* A capture that nobody disturbs does not ask to be repeated: its passes, *)
(* each a separate run of Git, agree with each other, for any files and    *)
(* any clock, if the requested inputs are there and no artifact of the     *)
(* base was taken out of the index and turned from text to binary or back  *)
(* on disk (capture_snapshot, merge_changes).                              *)
THEOREM QuietCapturesSucceed == Spec => []QuietCaptureSucceeds
<1>1. Init => Sound /\ (moves = 0 => QuietInv /\ OthersInv)
  BY SoundInit, QuietInit, OthersInit
<1>2. Sound /\ (moves = 0 => QuietInv /\ OthersInv) /\ [Next]_vars
        => (Sound /\ (moves = 0 => QuietInv /\ OthersInv))'
  <2> SUFFICES ASSUME Sound, moves = 0 => QuietInv /\ OthersInv, [Next]_vars
               PROVE  Sound' /\ (moves' = 0 => QuietInv' /\ OthersInv')
    OBVIOUS
  <2>1. Sound' /\ (moves' = 0 => QuietInv')
    BY SoundStep, QuietStep
  <2>2. moves' = 0 => moves = 0
    BY MovesKept
  <2> QED
    BY <2>1, <2>2, OthersStep
<1>3. (moves = 0 => QuietInv /\ OthersInv) => QuietCaptureSucceeds
  BY DEF QuietInv, QuietCaptureSucceeds
<1> QED
  BY <1>1, <1>2, <1>3, PTL DEF Spec

(***************************************************************************)
(* What the digests are about.                                             *)
(***************************************************************************)

(* Git lists what differs from the copy.                                   *)
LEMMA ListsWhat ==
  ASSUME TypeOK, TimeInv, NEW p \in Paths
  PROVE  /\ Lists(p) => Watched(p)
         /\ ListsUntracked(p) <=> OtherIs(p, ContentOf(world.work, p))
         /\ OtherIs(p, ContentOf(world.work, p)) => Watched(p)
         /\ /\ Watched(p) /\ ~ Lists(p)
            /\ p \in call.evidence => Blob(copy.index, p) = Absent
            => ContentOf(world.work, p) = Blob(copy.index, p)
<1>1. Modified(copy.index, copy.time, world.work, p)
        <=> Blob(copy.index, p) # Absent
            /\ ContentOf(world.work, p) # Blob(copy.index, p)
  <2>1. /\ copy.index \in [Paths -> Entry] /\ copy.time \in Times
        /\ world.work \in [Paths -> File]
    BY CopyFields, WorldFields DEF TypeOK
  <2>2. WellTimed(copy.index, copy.time, world.work)
    BY DEF TimeInv
  <2> QED
    BY <2>1, <2>2, Verdict
<1> QED
  BY <1>1 DEF Lists, Watched, ListsUntracked, OtherIs, Untracked

(* The parts of the invariant in the next state.                           *)
LEMMA UnwatchedLater ==
  ASSUME NEW p \in Paths, UNCHANGED <<call, copy>>, UnwatchedInv(p),
         digest'[p] \in {digest[p], NoValue} \/ Watched(p),
         taken' # 0 => first'[p] = digest[p] \/ (taken # 0 /\ first'[p] = first[p]),
         p \in listed' => p \in listed \/ Watched(p),
         at' \in {"hash", "overlayRead", "otherRead"} /\ p \in todo' => 
           Watched(p) \/ p \in listed
             \/ (at \in {"hash", "overlayRead", "otherRead"} /\ p \in todo),
         at' = "artifact" /\ First(p)' =>
           (at = "artifact" /\ First(p)) \/ Watched(p) \/ p \in call.evidence
  PROVE  UnwatchedInv(p)'
<1>1. Watched(p)' <=> Watched(p)
  BY DEF Watched
<1> QED
  BY <1>1 DEF UnwatchedInv

LEMMA SeenLater ==
  ASSUME NEW p \in Paths, UNCHANGED <<call, copy, past>>, SeenInv(p),
         Watched(p) /\ taken' # 0 =>
           Seen(p, Says(p)') \/ (taken # 0 /\ first' = first),
         Watched(p) /\ taken' = 0 /\ Passed(p)' =>
           Seen(p, Hashed(digest, p)') \/ (taken = 0 /\ Passed(p) /\ digest'[p] = digest[p]),
         Watched(p) /\ taken' = 0 /\ at' = "hash" /\ First(p)' /\ mark' = 0 => Seen(p, Absent)
  PROVE  SeenInv(p)'
<1>1. Watched(p)' <=> Watched(p)
  BY DEF Watched
<1>2. Seen(p, Absent)' <=> Seen(p, Absent)
  BY DEF Seen
<1>3. PICK c, d : c = Says(p)' /\ d = Hashed(digest, p)'
  OBVIOUS
<1>4. /\ Seen(p, Says(p))' <=> Seen(p, c)
      /\ Seen(p, Hashed(digest, p))' <=> Seen(p, d)
  BY <1>3 DEF Seen
<1>5. taken # 0 /\ first' = first => c = Says(p)
  BY <1>3 DEF Says, Hashed
<1>6. digest'[p] = digest[p] => d = Hashed(digest, p)
  BY <1>3 DEF Hashed
<1>7. Watched(p) => /\ taken' # 0 => Seen(p, c)
                    /\ taken' = 0 /\ Passed(p)' => Seen(p, d)
  BY <1>3, <1>5, <1>6 DEF SeenInv
<1> QED
  BY <1>1, <1>2, <1>4, <1>7 DEF SeenInv

LEMMA UnreadLater ==
  ASSUME NEW p \in Paths, UNCHANGED <<call, copy>>, UnreadInv(p),
         p \notin Sources => capture'.sources[p] = capture.sources[p],
         p \in Sources =>
           Overlaid(p)' \/ (~ Overlaid(p) /\ capture'.sources[p] = capture.sources[p]),
         taken' = 0 \/ at' \in ChangePasses \ {"otherRead"} =>
           /\ taken = 0 \/ at \in ChangePasses \ {"otherRead"}
           /\ p \in capture'.untracked => p \in capture.untracked
  PROVE  UnreadInv(p)'
BY DEF UnreadInv

LEMMA DigestListed ==
  ASSUME Sound, NEW q \in Paths, NEW pass, NEW next, NEW found \in BOOLEAN,
         Listing(q, pass, next, found),
         <<pass, next>> \in {<<"list", "hash">>, <<"overlayList", "overlayRead">>,
                             <<"otherList", "otherRead">>},
         found => Watched(q), pass = "list" => found = Lists(q),
         NEW p \in Paths, Digested(p)
  PROVE  Digested(p)'
<1>1. \/ pass = "list" /\ next = "hash" /\ found = Lists(q)
      \/ pass = "overlayList" /\ next = "overlayRead"
      \/ pass = "otherList" /\ next = "otherRead"
  OBVIOUS
<1>2. /\ Kept /\ Held3 /\ UNCHANGED <<copy, capture, result>>
      /\ at = pass /\ result = "running" /\ First(q)
      /\ \/ /\ todo # {q} /\ at' = pass /\ todo' = todo \ {q} /\ mark' = mark
            /\ listed' = listed \union (IF found THEN {q} ELSE {})
         \/ /\ todo = {q}
            /\ Entered(next, listed \union (IF found THEN {q} ELSE {}))
  BY DEF Listing, Kept, Held3, worldVars, digestVars, Running, Enter, Entered
<1>3. UNCHANGED <<world, past, call, copy, digest, first, taken, capture>>
  BY <1>2 DEF Kept, Held3
<1>4. UnwatchedInv(p) /\ SeenInv(p) /\ UnreadInv(p)
  BY DEF Digested
<1>5. UnwatchedInv(p)'
  <2>1. p \in listed' => p \in listed \/ Watched(p)
    BY <1>2 DEF Entered
  <2>2. at' \in {"hash", "overlayRead", "otherRead"} /\ p \in todo' =>
          p \in listed \/ Watched(p)
    BY <1>1, <1>2 DEF Entered
  <2>3. at' # "artifact"
    BY <1>1, <1>2 DEF Entered
  <2> QED
    BY <1>3, <1>4, <2>1, <2>2, <2>3, UnwatchedLater
<1>6. SeenInv(p)'
  <2>1. ASSUME Watched(p), Passed(p)'
        PROVE  Passed(p) \/ Seen(p, Hashed(digest, p)')
    <3>1. pass = "list"
      BY <1>1, <1>2, <2>1 DEF Passed, Entered
    <3>2. p \notin todo \/ p = q
      BY <1>2, <2>1, <3>1, <1>1 DEF Passed, Entered, First
    <3>3. CASE p # q
      BY <1>1, <1>2, <2>1, <3>1, <3>2, <3>3 DEF Passed, Entered
    <3>4. CASE p = q
      <4>1. ~ Lists(p)
        BY <1>1, <1>2, <2>1, <3>1, <3>4 DEF Passed, Entered
      <4>2. ContentOf(world.work, p) = Blob(copy.index, p)
        BY <1>4, <2>1, <4>1, ListsWhat DEF Sound, UnreadInv
      <4>3. digest'[p] = NoValue
        BY <1>1, <1>2, <1>3, <3>1 DEF Sound, PlaceInv, Unhashed
      <4>4. Hashed(digest, p)' = ContentOf(world.work, p)
        BY <1>3, <4>2, <4>3 DEF Hashed
      <4> QED
        BY <4>4 DEF Seen, Sound, FoundInv
    <3> QED
      BY <3>3, <3>4
  <2>2. at' = "hash" => mark' # 0
    BY <1>1, <1>2, CaptureAssumption DEF Entered
  <2> QED
    BY <1>3, <1>4, <2>1, <2>2, SeenLater
<1>7. UnreadInv(p)'
  <2>1. Overlaid(p)' \/ ~ Overlaid(p)
    <3>1. q \in todo
      BY <1>2 DEF First
    <3>2. CASE pass = "overlayList"
      BY <1>1, <1>2, <1>3, <3>1, <3>2 DEF Overlaid, Entered
    <3>3. CASE pass # "overlayList"
      BY <1>1, <1>2, <1>3, <3>3 DEF Overlaid, Entered
    <3> QED
      BY <3>2, <3>3
  <2>2. taken' = 0 \/ at' \in ChangePasses \ {"otherRead"} =>
          taken = 0 \/ at \in ChangePasses \ {"otherRead"}
    BY <1>1, <1>2, <1>3 DEF ChangePasses, WorktreePasses, Entered
  <2> QED
    BY <1>3, <1>4, <2>1, <2>2, UnreadLater
<1> QED
  BY <1>5, <1>6, <1>7 DEF Digested

LEMMA DigestListing ==
  ASSUME Sound, NEW q \in Paths, ListDirty(q) \/ ListOverlay(q) \/ ListOthers(q),
         NEW p \in Paths, Digested(p)
  PROVE  Digested(p)'
<1>1. Lists(q) \in BOOLEAN /\ ListsUntracked(q) \in BOOLEAN
  BY DEF Lists, ListsUntracked
<1>2. (Lists(q) => Watched(q)) /\ (ListsUntracked(q) => Watched(q))
  BY ListsWhat DEF Sound
<1>3. CASE ListDirty(q)
  BY <1>1, <1>2, <1>3, DigestListed DEF ListDirty
<1>4. CASE ListOverlay(q)
  BY <1>1, <1>2, <1>4, DigestListed DEF ListOverlay
<1>5. CASE ListOthers(q)
  BY <1>1, <1>2, <1>5, DigestListed DEF ListOthers
<1> QED
  BY <1>3, <1>4, <1>5

LEMMA DigestLook ==
  ASSUME Sound, NEW q \in Paths, LookAtFile(q), NEW p \in Paths, Digested(p)
  PROVE  Digested(p)'
<1>1. /\ Kept /\ Held3 /\ UNCHANGED <<at, todo, listed, copy, capture, result>>
      /\ First(q) /\ mark' = Version(q)
  BY LookDoes
<1>2. UNCHANGED <<world, past, call, copy, digest, first, taken, capture, at, todo, listed>>
  BY <1>1 DEF Kept, Held3
<1>3. UnwatchedInv(p) /\ SeenInv(p) /\ UnreadInv(p)
  BY DEF Digested
<1>4. (First(p)' <=> First(p)) /\ (Passed(p)' <=> Passed(p)) /\ (Overlaid(p)' <=> Overlaid(p))
  BY <1>2 DEF First, Passed, Overlaid
<1>5. First(p)' /\ mark' = 0 => Seen(p, Absent)
  <2> SUFFICES ASSUME First(p)', mark' = 0
               PROVE  Seen(p, Absent)
    OBVIOUS
  <2>1. Version(p) = 0
    BY <1>1, <1>4, OneIsFirst
  <2>2. ContentOf(world.work, p) = Absent
    BY <2>1, VersionType DEF Sound
  <2> QED
    BY <2>2 DEF Seen, Sound, FoundInv
<1>6. UnwatchedInv(p)'
  BY <1>2, <1>3, <1>4, UnwatchedLater
<1>7. SeenInv(p)'
  BY <1>2, <1>3, <1>4, <1>5, SeenLater
<1>8. UnreadInv(p)'
  BY <1>2, <1>3, <1>4, UnreadLater
<1> QED
  BY <1>6, <1>7, <1>8 DEF Digested

LEMMA DigestHash ==
  ASSUME Sound, NEW q \in Paths, HashFile(q), ~ Failing, NEW p \in Paths, Digested(p)
  PROVE  Digested(p)'
<1>1. /\ Kept /\ UNCHANGED <<copy, first, taken, capture, result>>
      /\ at' = at /\ todo' = todo \ {q} /\ listed' = listed /\ mark' = NoValue
      /\ at = "hash" /\ First(q) /\ mark # NoValue
      /\ mark = 0 \/ Version(q) = mark
      /\ digest' = [digest EXCEPT
           ![q] = IF mark = 0 THEN Absent ELSE ContentOf(world.work, q)]
  BY HashFileDoes DEF Sound, Left
<1>2. UNCHANGED <<world, past, call, copy, first, taken, capture, at, listed>>
  BY <1>1 DEF Kept
<1>3. UnwatchedInv(p) /\ SeenInv(p) /\ UnreadInv(p)
  BY DEF Digested
<1>4. digest'[p] = IF p = q THEN (IF mark = 0 THEN Absent ELSE ContentOf(world.work, q))
                   ELSE digest[p]
  BY <1>1 DEF Sound, TypeOK
<1>5. q \in todo
  BY <1>1 DEF First
<1>6. UnwatchedInv(p)'
  <2>1. p = q => Watched(p)
    BY <1>1, <1>3, <1>5 DEF UnwatchedInv
  <2>2. digest'[p] \in {digest[p], NoValue} \/ Watched(p)
    BY <1>4, <2>1
  <2> QED
    BY <1>1, <1>2, <1>3, <2>2, UnwatchedLater
<1>7. SeenInv(p)'
  <2>1. ASSUME Watched(p), taken = 0, Passed(p)', p = q
        PROVE  Seen(p, Hashed(digest, p)')
    <3>1. CASE mark = 0
      <4>1. Hashed(digest, p)' = Absent
        BY <1>4, <2>1, <3>1, CaptureAssumption DEF Hashed, Held
      <4> QED
        BY <1>1, <1>3, <2>1, <3>1, <4>1 DEF SeenInv
    <3>2. CASE mark # 0
      <4>1. ContentOf(world.work, p) # NoValue
        BY CaptureAssumption, WorldFields DEF Sound, TypeOK
      <4>2. Hashed(digest, p)' = ContentOf(world.work, p)
        BY <1>2, <1>4, <2>1, <3>2, <4>1 DEF Hashed
      <4> QED
        BY <4>2 DEF Seen, Sound, FoundInv
    <3> QED
      BY <3>1, <3>2
  <2>2. Passed(p)' /\ p # q => Passed(p) /\ digest'[p] = digest[p]
    BY <1>1, <1>4 DEF Passed
  <2>3. mark' # 0
    BY <1>1, CaptureAssumption
  <2> QED
    BY <1>2, <1>3, <2>1, <2>2, <2>3, SeenLater
<1>8. UnreadInv(p)'
  <2>1. Overlaid(p)' <=> Overlaid(p)
    BY <1>1, <1>2 DEF Overlaid
  <2> QED
    BY <1>2, <1>3, <2>1, UnreadLater
<1> QED
  BY <1>6, <1>7, <1>8 DEF Digested

LEMMA DigestEnd ==
  ASSUME Sound, EndDigest, ~ Failing, NEW p \in Paths, Digested(p)
  PROVE  Digested(p)'
<1>1. /\ Kept /\ UNCHANGED <<copy, capture, result>> /\ digest' = Unhashed
      /\ at = "hash" /\ todo = {} /\ taken' = taken + 1
      /\ mark' = NoValue /\ listed' = {}
      /\ \/ taken = 0 /\ first' = digest /\ at' = "overlayList" /\ todo' = Paths
         \/ taken # 0 /\ digest = first /\ first' = first /\ at' = "currentIndex"
  BY EndDigestDoes DEF Entered
<1>2. UNCHANGED <<world, past, call, copy, capture>>
  BY <1>1 DEF Kept
<1>3. UnwatchedInv(p) /\ SeenInv(p) /\ UnreadInv(p)
  BY DEF Digested
<1>4. digest'[p] = NoValue /\ taken' # 0
  BY <1>1 DEF Unhashed, Sound, TypeOK
<1>5. UnwatchedInv(p)'
  <2>1. first'[p] = digest[p]
    BY <1>1
  <2> QED
    BY <1>1, <1>2, <1>3, <1>4, <2>1, UnwatchedLater
<1>6. SeenInv(p)'
  <2>1. Watched(p) /\ taken = 0 => Seen(p, Hashed(digest, p))
    BY <1>1, <1>3 DEF SeenInv, Passed
  <2>2. taken = 0 => Says(p)' = Hashed(digest, p)
    BY <1>1 DEF Says, Hashed
  <2>3. Watched(p) => Seen(p, Says(p)') \/ (taken # 0 /\ first' = first)
    BY <1>1, <2>1, <2>2
  <2> QED
    BY <1>2, <1>3, <1>4, <2>3, SeenLater
<1>7. UnreadInv(p)'
  <2>1. Overlaid(p)' \/ ~ Overlaid(p)
    BY <1>1, <1>4 DEF Overlaid
  <2> QED
    BY <1>1, <1>2, <1>3, <1>4, <2>1, UnreadLater DEF ChangePasses, WorktreePasses
<1> QED
  BY <1>5, <1>6, <1>7 DEF Digested

(* The steps that take no digest, and what they find.                      *)
LEMMA DigestOverlay ==
  ASSUME Sound, NEW q \in Paths, OverlayFile(q), ~ Failing, NEW p \in Paths, Digested(p)
  PROVE  Digested(p)'
<1>1. /\ Kept /\ Left(q) /\ Held3 /\ UNCHANGED <<copy, result>>
      /\ at = "overlayRead" /\ First(q)
      /\ \/ q \notin Sources /\ capture' = capture
         \/ /\ q \in Sources
            /\ \E x \in Held : capture' = [capture EXCEPT !.sources[q] = x]
  BY OverlayFileDoes DEF Sound
<1>2. /\ UNCHANGED <<world, past, call, copy, digest, first, taken, listed>>
      /\ at' = at /\ todo' = todo \ {q}
  BY <1>1 DEF Kept, Held3, Left
<1>3. UnwatchedInv(p) /\ SeenInv(p) /\ UnreadInv(p)
  BY DEF Digested
<1>4. /\ capture'.untracked = capture.untracked
      /\ p # q \/ q \notin Sources => capture'.sources[p] = capture.sources[p]
  <2>1. CASE capture' = capture
    BY <2>1
  <2>2. ASSUME NEW x \in Held, capture' = [capture EXCEPT !.sources[q] = x], q \in Sources
        PROVE  /\ capture'.untracked = capture.untracked
               /\ p # q \/ q \notin Sources => capture'.sources[p] = capture.sources[p]
    BY <2>2, SetSource, CaptureFields DEF Sound, TypeOK
  <2> QED
    BY <1>1, <2>1, <2>2
<1>5. taken # 0
  BY <1>1 DEF Sound, PlaceInv, ChangePasses, WorktreePasses
<1>6. UnwatchedInv(p)'
  BY <1>1, <1>2, <1>3, UnwatchedLater
<1>7. SeenInv(p)'
  BY <1>1, <1>2, <1>3, <1>5, SeenLater
<1>8. UnreadInv(p)'
  <2>1. p = q => Overlaid(p)'
    BY <1>1, <1>2, <1>5 DEF Overlaid
  <2>2. p # q => (Overlaid(p)' <=> Overlaid(p))
    BY <1>2 DEF Overlaid
  <2>3. p \notin Sources => capture'.sources[p] = capture.sources[p]
    BY <1>4
  <2>4. p \in Sources =>
          Overlaid(p)' \/ (~ Overlaid(p) /\ capture'.sources[p] = capture.sources[p])
    BY <1>4, <2>1, <2>2
  <2>5. taken' = 0 \/ at' \in ChangePasses \ {"otherRead"} =>
           /\ taken = 0 \/ at \in ChangePasses \ {"otherRead"}
           /\ p \in capture'.untracked => p \in capture.untracked
    BY <1>2, <1>4
  <2> QED
    BY <1>2, <1>3, <2>3, <2>4, <2>5, UnreadLater
<1> QED
  BY <1>6, <1>7, <1>8 DEF Digested

(* A step that digests nothing and reads no source.                        *)
LEMMA DigestOther ==
  ASSUME Sound, Kept, copy' = copy, digest' = digest, first' = first, taken # 0, taken' # 0,
         listed' = listed \/ listed' = {},
         \/ at' = at /\ todo' \subseteq todo /\ at # "artifact"
         \/ at' \notin {"hash", "overlayRead", "otherRead", "artifact"}
         \/ at' = "otherRead" /\ todo' = {}
         \/ at' = "artifact" /\ \A p \in Paths :
              First(p)' => Watched(p) \/ p \in call.evidence,
         at \notin {"overlayList", "overlayRead"} \/ (at = "overlayRead" /\ todo = {}),
         at' \notin {"overlayList", "overlayRead"},
         capture'.sources = capture.sources,
         at' \in ChangePasses \ {"otherRead"} =>
           at \in ChangePasses \ {"otherRead"} /\ capture'.untracked = capture.untracked,
         NEW p \in Paths, Digested(p)
  PROVE  Digested(p)'
<1>1. UNCHANGED <<world, past, call>>
  BY DEF Kept
<1>2. UnwatchedInv(p) /\ SeenInv(p) /\ UnreadInv(p)
  BY DEF Digested
<1>3. Overlaid(p)
  BY DEF Overlaid
<1>4. Overlaid(p)'
  BY DEF Overlaid
<1>5. UnwatchedInv(p)'
  <2>1. at' = "artifact" /\ First(p)' => Watched(p) \/ p \in call.evidence
    OBVIOUS
  <2>2. at' \in {"hash", "overlayRead", "otherRead"} /\ p \in todo' =>
          at \in {"hash", "overlayRead", "otherRead"} /\ p \in todo
    OBVIOUS
  <2>3. p \in listed' => p \in listed
    OBVIOUS
  <2> QED
    BY <1>1, <1>2, <2>1, <2>2, <2>3, UnwatchedLater
<1>6. SeenInv(p)'
  BY <1>1, <1>2, SeenLater
<1>7. UnreadInv(p)'
  BY <1>1, <1>2, <1>3, <1>4, UnreadLater
<1> QED
  BY <1>5, <1>6, <1>7 DEF Digested

(* Sources and untracked paths of what a step finds.                       *)
LEMMA FindsNoSource ==
  ASSUME TypeOK, NEW q \in Paths, ~ Failing,
         \/ DiffInventory(q) \/ DiffPatch(q) \/ ReadOther(q) \/ SelectArtifact(q)
         \/ ReadArtifact(q) \/ DiffLayers(q)
  PROVE  /\ capture'.sources = capture.sources
         /\ at \in {"inventory", "patch"} => capture'.untracked = capture.untracked
<1>0. capture \in Captures
  BY DEF TypeOK
<1>1. CASE DiffInventory(q)
  <2>1. PICK x \in Statuses : capture' = [capture EXCEPT !.inventory[q] = x]
    BY <1>1, DiffInventoryDoes, StatusNowType
  <2> QED
    BY <1>0, <2>1, SetInventory
<1>2. CASE DiffPatch(q)
  <2>1. PICK x \in Statuses : capture' = [capture EXCEPT !.patch[q] = x]
    BY <1>2, DiffPatchDoes, StatusNowType
  <2> QED
    BY <1>0, <2>1, SetPatch
<1>3. CASE ReadOther(q)
  BY <1>3, ReadOtherDoes
<1>4. CASE DiffLayers(q)
  <2>1. PICK x \in SUBSET Layers : capture' = [capture EXCEPT !.layers[q] = x]
    BY <1>4, DiffLayersDoes, LayersType
  <2> QED
    BY <1>0, <2>1, SetLayers
<1>5. CASE SelectArtifact(q) \/ ReadArtifact(q)
  <2>1. capture' = capture \/ \E x \in Contents : capture' = [capture EXCEPT !.artifacts[q] = x]
    BY <1>5, SelectArtifactDoes, ReadArtifactDoes
  <2>2. CASE capture' = capture
    BY <2>2
  <2>3. ASSUME NEW x \in Contents, capture' = [capture EXCEPT !.artifacts[q] = x]
        PROVE  capture'.sources = capture.sources /\ capture'.untracked = capture.untracked
    BY <1>0, <2>3, SetArtifact
  <2> QED
    BY <2>1, <2>2, <2>3
<1> QED
  BY <1>1, <1>2, <1>3, <1>4, <1>5

LEMMA DigestFinds ==
  ASSUME Sound, InWorktree, NEW q \in Paths, ~ Failing,
         \/ DiffInventory(q) \/ DiffPatch(q) \/ ReadOther(q) \/ SelectArtifact(q)
         \/ ReadArtifact(q) \/ DiffLayers(q),
         NEW p \in Paths, Digested(p)
  PROVE  Digested(p)'
<1>0. /\ capture'.sources = capture.sources
      /\ at \in {"inventory", "patch"} => capture'.untracked = capture.untracked
  BY FindsNoSource DEF Sound
<1>1. call.target = "worktree"
  BY DEF InWorktree
<1>2. CASE DiffInventory(q)
  <2>1. /\ Kept /\ UNCHANGED <<copy, digest, first, taken>> /\ at = "inventory"
        /\ at' \in {"inventory", "patch"} /\ (listed' = listed \/ listed' = {})
        /\ at' = "inventory" => todo' \subseteq todo
    BY <1>2, DiffInventoryDoes DEF Held3, Left, Entered
  <2> QED
    BY <1>0, <2>1, DigestOther DEF Sound, PlaceInv, ChangePasses, WorktreePasses
<1>3. CASE DiffPatch(q)
  <2>1. /\ Kept /\ UNCHANGED <<copy, digest, first, taken>> /\ at = "patch"
        /\ at' \in {"patch", "otherList", "otherRead"} /\ (listed' = listed \/ listed' = {})
        /\ at' = "patch" => todo' \subseteq todo
        /\ at' = "otherRead" => todo' = {}
    BY <1>3, DiffPatchDoes DEF Held3, Left, Entered
  <2> QED
    BY <1>0, <2>1, DigestOther DEF Sound, PlaceInv, ChangePasses, WorktreePasses
<1>4. CASE ReadOther(q)
  <2>1. /\ Kept /\ UNCHANGED <<copy, digest, first, taken, listed>> /\ at = "otherRead"
        /\ at' = "otherRead" /\ todo' \subseteq todo
    BY <1>4, ReadOtherDoes DEF Held3, Left, Sound
  <2> QED
    BY <1>0, <2>1, DigestOther DEF Sound, PlaceInv, ChangePasses, WorktreePasses
<1>5. CASE SelectArtifact(q)
  <2>1. /\ Kept /\ UNCHANGED <<copy, digest, first, taken, listed>> /\ at = "artifacts"
        /\ at' \in {"artifacts", "artifact"} /\ (at' = "artifacts" => todo' \subseteq todo)
        /\ at' = "artifact" => WorktreeSelects(q) /\ todo' = todo
        /\ First(q)
    BY <1>5, SelectArtifactDoes DEF Held3, Left, Sound
  <2>2. taken # 0
    BY <1>1, <2>1 DEF Sound, PlaceInv, LastPasses
  <2>3. WorktreeSelects(q) => Watched(q) \/ q \in call.evidence
    BY DEF WorktreeSelects, Modified, Watched
  <2>4. at' = "artifact" =>
          \A r \in Paths : First(r)' => Watched(r) \/ r \in call.evidence
    <3>1. at' = "artifact" => \A r \in Paths : First(r)' => r = q
      BY <2>1, OneIsFirst DEF First
    <3> QED
      BY <2>1, <2>3, <3>1
  <2> QED
    BY <1>0, <2>1, <2>2, <2>4, DigestOther DEF ChangePasses, WorktreePasses
<1>6. CASE ReadArtifact(q)
  <2>1. /\ Kept /\ UNCHANGED <<copy, digest, first, taken, listed>> /\ at = "artifact"
        /\ at' = "artifacts"
    BY <1>6, ReadArtifactDoes DEF Held3, Sound
  <2>2. taken # 0
    BY <1>1, <2>1 DEF Sound, PlaceInv, LastPasses
  <2> QED
    BY <1>0, <2>1, <2>2, DigestOther DEF ChangePasses, WorktreePasses
<1>7. CASE DiffLayers(q)
  <2>1. /\ Kept /\ UNCHANGED <<copy, digest, first, taken>> /\ at = "layers"
        /\ at' \in {"layers", "list"} /\ (listed' = listed \/ listed' = {})
    BY <1>1, <1>7, DiffLayersDoes DEF Entered
  <2>2. taken # 0
    BY <1>1, <2>1 DEF Sound, PlaceInv, LastPasses
  <2> QED
    BY <1>0, <2>1, <2>2, DigestOther DEF ChangePasses, WorktreePasses
<1> QED
  BY <1>2, <1>3, <1>4, <1>5, <1>6, <1>7

LEMMA DigestEnds ==
  ASSUME Sound, InWorktree, ~ Failing,
         EndOverlay \/ MergeChanges \/ CompareIndex \/ CompareHead \/ EndArtifacts,
         NEW p \in Paths, Digested(p)
  PROVE  Digested(p)'
<1>1. /\ Kept /\ UNCHANGED <<copy, capture, digest, first, taken>> /\ listed' = {}
      /\ \/ at = "overlayRead" /\ todo = {} /\ at' = "inventory"
         \/ at = "otherRead" /\ at' = "list"
         \/ at = "currentIndex" /\ at' = "currentHead"
         \/ at = "currentHead" /\ at' \in {"done", "artifacts"}
         \/ at = "artifacts" /\ at' = "layers"
  BY EndOverlayDoes, MergeDoes, CompareIndexDoes, CompareHeadDoes, EndArtifactsDoes
     DEF Held3, Entered
<1>2. taken # 0
  BY <1>1 DEF InWorktree, Sound, PlaceInv, ChangePasses, WorktreePasses, LastPasses
<1> QED
  BY <1>1, <1>2, DigestOther DEF ChangePasses, WorktreePasses

(* The first digest begins with an index that tracks no evidence.          *)
LEMMA DigestCopy ==
  ASSUME Sound, CopyIndex, ~ Failing, InWorktree', NEW p \in Paths
  PROVE  Digested(p)'
<1>1. /\ Kept /\ copy' = CopyOfIndex /\ ~ TracksEvidence(IndexBlobs(world))
      /\ UNCHANGED digest /\ at = "copy" /\ taken' = taken
      /\ at' = "list" /\ todo' = Paths /\ listed' = {}
      /\ capture' = [capture EXCEPT !.sources = Blobs(IndexBlobs(world))]
  BY CopyIndexDoes DEF Entered, InWorktree, Kept
<1>2. taken' = 0 /\ digest'[p] = NoValue /\ capture = Nothing /\ call' = call
  BY <1>1 DEF Sound, PlaceInv, Unhashed, Kept
<1>3. /\ capture'.sources = Blobs(IndexBlobs(world)) /\ capture'.untracked = {}
      /\ Blobs(IndexBlobs(world))[p] =
           (IF p \in Sources THEN Blob(world.index, p) ELSE Absent)
  BY <1>1, <1>2, TreesType, ReadSourcesIs DEF Sound, Blobs
<1>4. Blob(copy.index, p)' = Blob(world.index, p)
  BY <1>1, TreesType DEF Sound
<1>5. p \in call.evidence => Blob(world.index, p) = Absent
  BY <1>1, TreesType DEF TracksEvidence, Sound
<1>6. UnwatchedInv(p)'
  BY <1>1, <1>2 DEF UnwatchedInv
<1>7. SeenInv(p)'
  BY <1>1, <1>2 DEF SeenInv, Passed
<1>8. UnreadInv(p)'
  BY <1>1, <1>2, <1>3, <1>4, <1>5 DEF UnreadInv
<1> QED
  BY <1>6, <1>7, <1>8 DEF Digested

LEMMA DigestDisturbed ==
  ASSUME Disturbs, NEW p \in Paths, Digested(p)
  PROVE  Digested(p)'
<1>1. /\ UNCHANGED <<call, at, todo, listed, mark, copy, digest, first, taken, capture>>
      /\ past \subseteq past'
  BY DEF Disturbs
<1>2. UnwatchedInv(p)'
  BY <1>1 DEF Digested, UnwatchedInv, Watched, First
<1>3. \A c : Seen(p, c) => Seen(p, c)'
  BY <1>1 DEF Seen
<1>4. SeenInv(p)'
  <2>1. PICK c, d : c = Says(p) /\ d = Hashed(digest, p)
    OBVIOUS
  <2>2. Says(p)' = c /\ Hashed(digest, p)' = d
    BY <1>1, <2>1 DEF Says, Hashed
  <2>3. /\ Watched(p)' <=> Watched(p)
        /\ Passed(p)' <=> Passed(p)
        /\ First(p)' <=> First(p)
    BY <1>1 DEF Watched, Passed, First
  <2>4. Watched(p) => /\ taken # 0 => Seen(p, c)
                      /\ taken = 0 /\ Passed(p) => Seen(p, d)
                      /\ taken = 0 /\ at = "hash" /\ First(p) /\ mark = 0 => Seen(p, Absent)
    BY <2>1 DEF Digested, SeenInv
  <2>5. Watched(p) => /\ taken # 0 => Seen(p, c)'
                      /\ taken = 0 /\ Passed(p) => Seen(p, d)'
                      /\ taken = 0 /\ at = "hash" /\ First(p) /\ mark = 0 => Seen(p, Absent)'
    BY <1>3, <2>4
  <2>6. (Seen(p, Says(p))' <=> Seen(p, c)') /\ (Seen(p, Hashed(digest, p))' <=> Seen(p, d)')
    BY <2>2 DEF Seen
  <2> QED
    BY <1>1, <2>3, <2>5, <2>6 DEF SeenInv
<1>5. UnreadInv(p)'
  BY <1>1 DEF Digested, UnreadInv, Overlaid
<1> QED
  BY <1>2, <1>4, <1>5 DEF Digested

(* A capture of the worktree that goes on was one before.                  *)
LEMMA StillCapturing ==
  ASSUME \/ EndDigest \/ EndOverlay \/ MergeChanges \/ CompareIndex \/ CompareHead
         \/ EndArtifacts
         \/ \E p \in Paths :
              \/ ListDirty(p) \/ LookAtFile(p) \/ HashFile(p) \/ ListOverlay(p)
              \/ OverlayFile(p) \/ DiffInventory(p) \/ DiffPatch(p) \/ ListOthers(p)
              \/ ReadOther(p) \/ SelectArtifact(p) \/ ReadArtifact(p) \/ DiffLayers(p)
  PROVE  Alive /\ call' = call
<1>1. Kept
  BY CopyKept
<1>2. result = "running" /\ at \notin {"head", "index", "copy"}
  BY DEF EndDigest, EndOverlay, MergeChanges, CompareIndex, CompareHead, EndArtifacts,
         ListDirty, ListOverlay, ListOthers, Listing, LookAtFile, Look, HashFile, OverlayFile,
         DiffInventory, DiffPatch, ReadOther, SelectArtifact, ReadArtifact, DiffLayers,
         Reading, Running
<1> QED
  BY <1>1, <1>2 DEF Alive, Kept

LEMMA DigestStep ==
  ASSUME Sound, DigestInv, [Next]_vars
  PROVE  DigestInv'
<1> SUFFICES ASSUME InWorktree', NEW p \in Paths
             PROVE  Digested(p)'
  BY DEF DigestInv
<1>1. CASE Others
  <2>1. Disturbs
    BY <1>1, OthersDisturb DEF Sound, FoundInv
  <2>2. InWorktree
    BY <2>1 DEF Disturbs, InWorktree, Alive
  <2> QED
    BY <2>1, <2>2, DigestDisturbed DEF DigestInv
<1>2. CASE UNCHANGED vars
  <2>1. InWorktree
    BY <1>2, VarsKept DEF InWorktree, Alive
  <2>2. Digested(p)
    BY <2>1 DEF DigestInv
  <2> QED
    BY <1>2, <2>2, VarsKept DEF Digested, UnwatchedInv, SeenInv, UnreadInv, Watched, First,
                                Passed, Seen, Says, Hashed, Overlaid
<1>3. ~ Failing
  BY DEF Failing, Fail, InWorktree, Alive
<1>4. ~ Cancel
  BY <1>3, CancelFails
<1>5. CASE ResolveHead \/ LookAtIndex
  BY <1>3, <1>5, ResolveHeadDoes, LookAtIndexDoes DEF InWorktree, Alive, Entered, Kept
<1>6. CASE CopyIndex
  BY <1>3, <1>6, DigestCopy
<1>7. ASSUME Alive, call' = call
      PROVE  InWorktree /\ Digested(p)
  BY <1>7 DEF InWorktree, DigestInv
<1>8. CASE EndDigest \/ EndOverlay \/ MergeChanges \/ CompareIndex \/ CompareHead \/ EndArtifacts
  BY <1>3, <1>7, <1>8, StillCapturing, DigestEnd, DigestEnds
<1>9. ASSUME NEW q \in Paths, ListDirty(q) \/ ListOverlay(q) \/ ListOthers(q) \/ LookAtFile(q)
      PROVE  Digested(p)'
  BY <1>7, <1>9, StillCapturing, DigestListing, DigestLook
<1>10. ASSUME NEW q \in Paths, HashFile(q) \/ OverlayFile(q)
       PROVE  Digested(p)'
  BY <1>3, <1>7, <1>10, StillCapturing, DigestHash, DigestOverlay
<1>11. ASSUME NEW q \in Paths,
              \/ DiffInventory(q) \/ DiffPatch(q) \/ ReadOther(q) \/ SelectArtifact(q)
              \/ ReadArtifact(q) \/ DiffLayers(q)
       PROVE  Digested(p)'
  BY <1>3, <1>7, <1>11, StillCapturing, DigestFinds
<1> QED
  BY <1>1, <1>2, <1>4, <1>5, <1>6, <1>8, <1>9, <1>10, <1>11, NextDoes

(***************************************************************************)
(* The targets that are read at once.                                      *)
(***************************************************************************)

(* What is read of a commit or of the index.                               *)
LEMMA FixedTree ==
  ASSUME capture = Nothing, NEW tree \in Tree, ReadTree(tree), NEW p \in Paths,
         tree[p] = IndexAt(p)', ~ ArtifactKnown(p)', ~ LayersKnown(p)'
  PROVE  Fixed(p)'
<1>1. /\ capture'.sources = Blobs(tree) /\ capture'.inventory = Changes(tree)
      /\ capture'.untracked = {}
  BY ReadTreeIs
<1>2. PICK c : c = tree[p]
  OBVIOUS
<1>3. /\ Blobs(tree)[p] = IF p \in Sources THEN c ELSE Absent
      /\ Changes(tree)[p] = Status(BaseTree[p], c)
  BY <1>2 DEF Blobs, Changes
<1>4. IndexAt(p)' = c
  BY <1>2
<1> QED
  BY <1>1, <1>3, <1>4 DEF Fixed

(* What a step must leave alone.                                           *)
LEMMA FixedLater ==
  ASSUME NEW p \in Paths, UNCHANGED <<call, copy>>, Fixed(p),
         call.target # "worktree",
         capture'.sources = capture.sources, capture'.inventory = capture.inventory,
         capture'.untracked = capture.untracked,
         ArtifactKnown(p)' =>
           capture'.artifacts[p] = IndexAt(p)
             \/ (ArtifactKnown(p) /\ capture'.artifacts[p] = capture.artifacts[p]),
         LayersKnown(p)' =>
           (capture'.layers[p] = IF Changed(p) THEN LayersFor(p, Absent) ELSE {})
             \/ (LayersKnown(p) /\ capture'.layers[p] = capture.layers[p])
  PROVE  Fixed(p)'
<1>1. IndexAt(p)' = IndexAt(p)
  BY DEF IndexAt
<1>2. (Changed(p)' <=> Changed(p)) /\ LayersFor(p, Absent)' = LayersFor(p, Absent)
  BY <1>1 DEF Changed, LayersFor
<1> QED
  BY <1>1, <1>2 DEF Fixed

LEMMA LayersOther ==
  ASSUME NEW p, call.target # "worktree"
  PROVE  LayersOf(p) = LayersFor(p, Absent)
BY DEF LayersOf, LayersFor

LEMMA FixedStep ==
  ASSUME Sound, FixedInv, [Next]_vars
  PROVE  FixedInv'
<1> SUFFICES ASSUME Alive', call'.target # "worktree", NEW p \in Paths
             PROVE  Fixed(p)'
  BY DEF FixedInv
<1>0. capture \in Captures /\ todo \subseteq Paths
  BY DEF Sound, TypeOK
<1>1. ASSUME UNCHANGED <<call, at, todo, copy, taken, capture, result>>
      PROVE  Fixed(p)'
  <2>1. Alive /\ call.target # "worktree"
    BY <1>1 DEF Alive
  <2>2. Fixed(p)
    BY <2>1 DEF FixedInv
  <2>3. (ArtifactKnown(p)' <=> ArtifactKnown(p)) /\ (LayersKnown(p)' <=> LayersKnown(p))
    BY <1>1 DEF ArtifactKnown, ArtifactsTaken, LayersKnown
  <2> QED
    BY <1>1, <2>1, <2>2, <2>3, FixedLater
<1>2. CASE Others
  BY <1>1, <1>2, OthersDisturb DEF Sound, FoundInv, Disturbs
<1>3. CASE UNCHANGED vars
  BY <1>1, <1>3, VarsKept
<1>4. ~ Failing
  BY DEF Failing, Fail, Alive
<1>5. ~ Cancel
  BY <1>4, CancelFails
<1>6. CASE LookAtIndex
  BY <1>6, LookAtIndexDoes DEF Alive
<1>7. CASE ResolveHead
  <2>1. /\ Kept /\ Held3 /\ UNCHANGED <<copy, result>> /\ at = "head" /\ result = "running"
        /\ call.target = "commit" /\ ReadTree(HeadTree)
        /\ at' = "artifacts" /\ todo' = call.requested
    BY <1>4, <1>7, ResolveHeadDoes DEF Entered, Alive
  <2>2. taken' = 0 /\ capture = Nothing /\ call' = call /\ result' = "running"
    BY <2>1 DEF Sound, PlaceInv, Held3, Kept
  <2>3. ~ ArtifactKnown(p)' /\ ~ LayersKnown(p)' /\ HeadTree[p] = IndexAt(p)'
    BY <2>1, <2>2 DEF ArtifactKnown, ArtifactsTaken, LayersKnown, IndexAt
  <2> QED
    BY <2>1, <2>2, <2>3, FixedTree, CaptureAssumption
<1>8. CASE CopyIndex
  <2>1. /\ Kept /\ at = "copy" /\ copy' = CopyOfIndex /\ result' = result /\ result = "running"
        /\ call.target = "index" /\ ReadTree(IndexBlobs(world)) /\ taken' = 2
        /\ at' = "currentIndex"
    <3>1. call.target = "index"
      BY <1>8, CallFields DEF Sound, PlaceInv, TypeOK, CopyIndex, Running, worldVars
    <3> QED
      BY <1>4, <1>8, <3>1, CopyIndexDoes DEF Entered
  <2>2. capture = Nothing /\ call' = call
    BY <2>1 DEF Sound, PlaceInv, Kept
  <2>3. /\ IndexBlobs(world) \in Tree
        /\ IndexBlobs(world)[p] = Blob(copy.index, p)'
    BY <2>1, TreesType DEF Sound
  <2>4. ~ ArtifactKnown(p)' /\ ~ LayersKnown(p)' /\ IndexBlobs(world)[p] = IndexAt(p)'
    BY <2>1, <2>2, <2>3 DEF ArtifactKnown, ArtifactsTaken, LayersKnown, IndexAt
  <2> QED
    BY <2>1, <2>2, <2>3, <2>4, FixedTree
<1>9. ASSUME Alive, call' = call
      PROVE  Fixed(p) /\ call.target # "worktree"
  BY <1>9 DEF FixedInv
<1>10. CASE EndDigest \/ EndOverlay \/ MergeChanges
  BY <1>9, <1>10, StillCapturing
     DEF EndDigest, EndOverlay, MergeChanges, Running, Sound, PlaceInv, WorktreePasses
<1>11. CASE CompareIndex \/ CompareHead \/ EndArtifacts
  <2>1. /\ Kept /\ UNCHANGED <<copy, capture, taken>> /\ result = "running"
        /\ \/ at = "currentIndex" /\ at' = "currentHead" /\ result' = "running"
           \/ at = "currentHead" /\ at' = "done" /\ taken = 3
           \/ at = "currentHead" /\ at' = "artifacts" /\ todo' = call.requested
              /\ result' = "running"
           \/ at = "artifacts" /\ todo = {} /\ at' = "layers" /\ todo' = Paths
              /\ result' = "running"
    BY <1>4, <1>11, CompareIndexDoes, CompareHeadDoes, EndArtifactsDoes DEF Entered, Held3
  <2>2. Fixed(p) /\ call.target # "worktree" /\ call' = call
    BY <1>9, <1>11, StillCapturing
  <2>3. LayersKnown(p)' => LayersKnown(p)
    BY <2>1, <1>0 DEF LayersKnown
  <2>4. ArtifactKnown(p)' => ArtifactKnown(p)
    BY <2>1, <2>2 DEF ArtifactKnown, ArtifactsTaken
  <2> QED
    BY <2>1, <2>2, <2>3, <2>4, FixedLater
<1>12. ASSUME NEW q \in Paths,
              \/ ListDirty(q) \/ ListOverlay(q) \/ ListOthers(q) \/ LookAtFile(q)
              \/ HashFile(q) \/ OverlayFile(q) \/ DiffInventory(q) \/ DiffPatch(q)
              \/ ReadOther(q) \/ ReadArtifact(q)
       PROVE  Fixed(p)'
  <2>1. Alive /\ call' = call
    BY <1>12, StillCapturing
  <2>2. at \in WorktreePasses \union {"artifact"}
    BY <1>12 DEF ListDirty, ListOverlay, ListOthers, Listing, LookAtFile, Look, HashFile,
                 OverlayFile, DiffInventory, DiffPatch, ReadOther, ReadArtifact, Reading,
                 Running, WorktreePasses
  <2> QED
    BY <1>9, <2>1, <2>2 DEF Sound, PlaceInv
<1>13. ASSUME NEW q \in Paths, SelectArtifact(q)
       PROVE  Fixed(p)'
  <2>1. Fixed(p) /\ call.target # "worktree" /\ call' = call
    BY <1>9, <1>13, StillCapturing
  <2>2. /\ UNCHANGED <<copy, taken, result>> /\ result = "running" /\ at = "artifacts"
        /\ at' = "artifacts"
        /\ todo' = todo \ {q} /\ IndexAt(q) \in Contents
        /\ capture' = [capture EXCEPT !.artifacts[q] = IndexAt(q)]
    BY <1>4, <1>13, <2>1, SelectArtifactDoes DEF Held3, Left, Sound, WorktreeSelects
  <2>3. /\ capture'.sources = capture.sources /\ capture'.inventory = capture.inventory
        /\ capture'.untracked = capture.untracked /\ capture'.layers = capture.layers
        /\ capture'.artifacts[p] = IF p = q THEN IndexAt(q) ELSE capture.artifacts[p]
    BY <1>0, <2>2, SetArtifact, CaptureFields
  <2>4. LayersKnown(p)' => LayersKnown(p)
    BY <2>2 DEF LayersKnown
  <2>5. ArtifactKnown(p)' => ArtifactKnown(p) \/ p = q
    BY <2>1, <2>2 DEF ArtifactKnown, ArtifactsTaken
  <2> QED
    BY <2>1, <2>2, <2>3, <2>4, <2>5, FixedLater
<1>14. ASSUME NEW q \in Paths, DiffLayers(q)
       PROVE  Fixed(p)'
  <2>1. Fixed(p) /\ call.target # "worktree" /\ call' = call
    BY <1>9, <1>14, StillCapturing
  <2>2. PICK x \in SUBSET Layers :
          /\ x = IF Changed(q) THEN LayersOf(q) ELSE {}
          /\ capture' = [capture EXCEPT !.layers[q] = x]
    BY <1>14, DiffLayersDoes, LayersType
  <2>3. /\ capture'.sources = capture.sources /\ capture'.inventory = capture.inventory
        /\ capture'.untracked = capture.untracked /\ capture'.artifacts = capture.artifacts
        /\ capture'.layers[p] = IF p = q THEN x ELSE capture.layers[p]
    BY <1>0, <2>2, SetLayers, CaptureFields
  <2>4. /\ UNCHANGED copy /\ at = "layers" /\ First(q)
        /\ \/ todo # {q} /\ at' = at /\ todo' = todo \ {q} /\ UNCHANGED taken
              /\ result' = "running"
           \/ todo = {q}
    BY <1>14, DiffLayersDoes
  <2>5. ArtifactKnown(p)' => ArtifactKnown(p)
    BY <2>1, <2>4 DEF ArtifactKnown, ArtifactsTaken
  <2>6. LayersKnown(p)' => LayersKnown(p) \/ p = q
    BY <2>4 DEF LayersKnown
  <2>7. x = IF Changed(q) THEN LayersFor(q, Absent) ELSE {}
    BY <2>1, <2>2, LayersOther
  <2> QED
    BY <2>1, <2>3, <2>4, <2>5, <2>6, <2>7, FixedLater
<1> QED
  BY <1>2, <1>3, <1>5, <1>6, <1>7, <1>8, <1>10, <1>11, <1>12, <1>13, <1>14, NextDoes

(***************************************************************************)
(* The state that is captured.                                             *)
(***************************************************************************)

(* What a path holds, if a digest is about it.                             *)
Holds(p, c) == IF Watched(p) THEN ContentOf(world.work, p) = c ELSE c = Absent
Told(p, c) == Holds(p, c) /\ Tells(p, c) /\ (Watched(p) => MarkTells(p, c))

LEMMA TellsLater ==
  ASSUME NEW p \in Paths, NEW c, UNCHANGED <<call, copy>>, Tells(p, c),
         Overlaid(p)' =>
           SourceOf(p, c)' \/ (Overlaid(p) /\ capture'.sources[p] = capture.sources[p]),
         Inventoried(p)' =>
           StatusOf(p, c)' \/ (Inventoried(p) /\ capture'.inventory[p] = capture.inventory[p]),
         OthersOf(p, c)',
         ArtifactKnown(p)' =>
           \/ p \in call.evidence \/ capture'.artifacts[p] = c
           \/ ArtifactKnown(p) /\ capture'.artifacts[p] = capture.artifacts[p],
         LayersKnown(p)' =>
           \/ (capture.layers[p] = IF Changed(p) THEN LayersFor(p, c) ELSE {})'
           \/ /\ LayersKnown(p) /\ capture'.layers[p] = capture.layers[p]
              /\ capture'.inventory[p] = capture.inventory[p]
              /\ capture'.untracked = capture.untracked
  PROVE  Tells(p, c)'
<1>1. SourceOf(p, c) /\ capture'.sources[p] = capture.sources[p] => SourceOf(p, c)'
  BY DEF SourceOf
<1>2. StatusOf(p, c) /\ capture'.inventory[p] = capture.inventory[p] => StatusOf(p, c)'
  BY DEF StatusOf
<1>3. /\ capture.layers[p] = IF Changed(p) THEN LayersFor(p, c) ELSE {}
      /\ capture'.layers[p] = capture.layers[p]
      /\ capture'.inventory[p] = capture.inventory[p]
      /\ capture'.untracked = capture.untracked
      => (capture.layers[p] = IF Changed(p) THEN LayersFor(p, c) ELSE {})'
  BY DEF Changed, LayersFor, IndexAt
<1> QED
  BY <1>1, <1>2, <1>3 DEF Tells

(* Where a path is, it stays while the capture does a step.                *)
LEMMA HoldsLater ==
  ASSUME Kept, copy' = copy, NEW p \in Paths, NEW c, Holds(p, c)
  PROVE  Holds(p, c)' /\ (Watched(p)' <=> Watched(p)) /\ Version(p)' = Version(p)
BY DEF Kept, Holds, Watched, Version, ContentOf

(* The untracked paths in passes that do not look for them.                *)
LEMMA OthersLater ==
  ASSUME NEW p \in Paths, NEW c, UNCHANGED <<call, copy>>, OthersOf(p, c),
         \/ at' \in {"overlayList", "overlayRead", "inventory", "patch"}
         \/ /\ capture'.untracked = capture.untracked
            /\ at' \notin {"overlayList", "overlayRead", "inventory", "patch", "otherList",
                           "otherRead"}
            /\ \/ at \notin {"overlayList", "overlayRead", "inventory", "patch", "otherList",
                             "otherRead"}
               \/ at = "otherRead" /\ todo = {}
         \/ /\ capture'.untracked = capture.untracked /\ at' = at /\ todo' = todo
            /\ listed' = listed
  PROVE  OthersOf(p, c)'
<1>1. OtherIs(p, c)' <=> OtherIs(p, c)
  BY DEF OtherIs
<1> QED
  BY <1>1 DEF OthersOf

LEMMA ToldListed ==
  ASSUME Sound, InWorktree, taken # 0, NEW q \in Paths, NEW pass, NEW next,
         NEW found \in BOOLEAN, Listing(q, pass, next, found),
         <<pass, next>> \in {<<"list", "hash">>, <<"overlayList", "overlayRead">>,
                             <<"otherList", "otherRead">>},
         pass = "overlayList" => found = Lists(q),
         pass = "otherList" => found = ListsUntracked(q),
         NEW p \in Paths, Digested(p), NEW c, Told(p, c)
  PROVE  Told(p, c)'
<1>1. \/ pass = "list" /\ next = "hash"
      \/ pass = "overlayList" /\ next = "overlayRead" /\ found = Lists(q)
      \/ pass = "otherList" /\ next = "otherRead" /\ found = ListsUntracked(q)
  OBVIOUS
<1>2. /\ Kept /\ Held3 /\ UNCHANGED <<copy, capture, result>>
      /\ at = pass /\ result = "running" /\ First(q)
      /\ \/ /\ todo # {q} /\ at' = pass /\ todo' = todo \ {q} /\ mark' = mark
            /\ listed' = listed \union (IF found THEN {q} ELSE {})
         \/ /\ todo = {q}
            /\ Entered(next, listed \union (IF found THEN {q} ELSE {}))
  BY DEF Listing, Kept, Held3, worldVars, digestVars, Running, Enter, Entered
<1>3. /\ UNCHANGED <<world, past, call, copy, first, taken, capture, result>>
      /\ q \in todo
  BY <1>2 DEF Kept, Held3, First
<1>4. Holds(p, c)' /\ (Watched(p)' <=> Watched(p))
  BY <1>2, HoldsLater DEF Told
<1>5. MarkTells(p, c)'
  BY <1>1, <1>2 DEF MarkTells, Entered, Reads
<1>6. ArtifactKnown(p)' => ArtifactKnown(p)
  BY <1>1, <1>2, <1>3 DEF ArtifactKnown, ArtifactsTaken, Entered
<1>7. LayersKnown(p)' => LayersKnown(p)
  BY <1>1, <1>2, <1>3 DEF LayersKnown, Entered
<1>8. Inventoried(p)' => Inventoried(p)
  BY <1>1, <1>2, <1>3 DEF Inventoried, Entered
<1>9. Overlaid(p)' => Overlaid(p) \/ SourceOf(p, c)'
  <2>1. CASE pass # "overlayList"
    BY <1>1, <1>2, <1>3, <2>1 DEF Overlaid, Entered
  <2>2. CASE pass = "overlayList" /\ p # q
    BY <1>1, <1>2, <1>3, <2>2 DEF Overlaid, Entered
  <2>3. CASE pass = "overlayList" /\ p = q
    <3> SUFFICES ASSUME Overlaid(p)'
                 PROVE  SourceOf(p, c)'
      OBVIOUS
    <3>1. ~ Lists(p)
      BY <1>1, <1>2, <1>3, <2>3 DEF Overlaid, Entered
    <3>2. ~ Overlaid(p)
      BY <1>2, <1>3, <2>3 DEF Overlaid
    <3>3. p \in Sources => capture.sources[p] = Blob(copy.index, p)
      BY <3>2 DEF Digested, UnreadInv
    <3>4. c = Blob(copy.index, p)
      <4>1. CASE Watched(p)
        BY <3>1, <4>1, ListsWhat DEF Sound, Told, Holds, Digested, UnreadInv
      <4>2. CASE ~ Watched(p)
        BY <4>2 DEF Told, Holds, Watched
      <4> QED
        BY <4>1, <4>2
    <3> QED
      BY <1>3, <3>3, <3>4 DEF SourceOf
  <2> QED
    BY <2>1, <2>2, <2>3
<1>10. OthersOf(p, c)'
  <2>1. OtherIs(p, c)' <=> OtherIs(p, c)
    BY <1>3 DEF OtherIs
  <2>2. CASE pass = "list"
    BY <1>1, <1>2, <1>3, <2>2, OthersLater DEF Entered, Told, Tells
  <2>3. CASE pass = "overlayList"
    BY <1>1, <1>2, <2>3 DEF OthersOf, Entered
  <2>4. CASE pass = "otherList"
    <3>1. ListsUntracked(q) <=> OtherIs(q, ContentOf(world.work, q))
      BY ListsWhat DEF Sound
    <3>2. p = q => (found <=> OtherIs(p, c))
      <4>1. CASE Watched(p)
        BY <1>1, <2>4, <3>1, <4>1 DEF Told, Holds
      <4>2. CASE ~ Watched(p)
        BY <1>1, <2>4, <3>1, <4>2 DEF Told, Holds, OtherIs, Watched
      <4> QED
        BY <4>1, <4>2
    <3>3. p \in listed <=> p \notin todo /\ OtherIs(p, c)
      BY <1>2, <2>4 DEF Told, Tells, OthersOf
    <3>4. p \notin capture.untracked
      BY <1>2, <2>4 DEF Digested, UnreadInv, ChangePasses, WorktreePasses
    <3>5. CASE at' = "otherList"
      <4>1. p \in listed' <=> p \notin todo' /\ OtherIs(p, c)
        BY <1>1, <1>2, <1>3, <2>4, <3>2, <3>3, <3>5 DEF Entered
      <4> QED
        BY <2>1, <3>5, <4>1 DEF OthersOf
    <3>6. CASE at' # "otherList"
      <4>1. at' = "otherRead" /\ (p \in todo' <=> OtherIs(p, c))
        BY <1>1, <1>2, <1>3, <2>4, <3>2, <3>3, <3>6 DEF Entered
      <4>2. p \notin capture'.untracked
        BY <1>3, <3>4
      <4> QED
        BY <2>1, <4>1, <4>2 DEF OthersOf
    <3> QED
      BY <3>5, <3>6
  <2> QED
    BY <1>1, <2>2, <2>3, <2>4
<1>11. Tells(p, c)'
  BY <1>3, <1>6, <1>7, <1>8, <1>9, <1>10, TellsLater DEF Told
<1> QED
  BY <1>4, <1>5, <1>11 DEF Told

LEMMA ToldListing ==
  ASSUME Sound, InWorktree, taken # 0, NEW q \in Paths,
         ListDirty(q) \/ ListOverlay(q) \/ ListOthers(q),
         NEW p \in Paths, Digested(p), NEW c, Told(p, c)
  PROVE  Told(p, c)'
<1>1. Lists(q) \in BOOLEAN /\ ListsUntracked(q) \in BOOLEAN
  BY DEF Lists, ListsUntracked
<1>2. CASE ListDirty(q)
  BY <1>1, <1>2, ToldListed DEF ListDirty
<1>3. CASE ListOverlay(q)
  BY <1>1, <1>3, ToldListed DEF ListOverlay
<1>4. CASE ListOthers(q)
  BY <1>1, <1>4, ToldListed DEF ListOthers
<1> QED
  BY <1>2, <1>3, <1>4

LEMMA ToldLook ==
  ASSUME Sound, InWorktree, taken # 0, NEW q \in Paths, LookAtFile(q),
         NEW p \in Paths, NEW c, Told(p, c)
  PROVE  Told(p, c)'
<1>1. /\ Kept /\ Held3 /\ UNCHANGED <<at, todo, listed, copy, capture, result>>
      /\ First(q) /\ mark' = Version(q)
  BY LookDoes
<1>2. UNCHANGED <<world, call, copy, first, taken, capture>>
  BY <1>1 DEF Kept, Held3
<1>3. /\ Holds(p, c)' /\ (Watched(p)' <=> Watched(p)) /\ Version(p)' = Version(p)
  BY <1>1, HoldsLater DEF Told
<1>4. Watched(p) => MarkTells(p, c)'
  <2> SUFFICES ASSUME Watched(p), First(p)'
               PROVE  IF mark' = 0 THEN c = Absent ELSE Version(p)' = mark'
    BY DEF MarkTells
  <2>1. p = q
    BY <1>1, OneIsFirst DEF First
  <2>2. mark' = Version(p)
    BY <1>1, <2>1
  <2>3. Version(p) = 0 => c = Absent
    BY VersionType DEF Sound, Told, Holds
  <2> QED
    BY <1>3, <2>2, <2>3
<1>5. Tells(p, c)'
  <2>1. OthersOf(p, c)'
    BY <1>1, <1>2, OthersLater DEF Told, Tells
  <2>2. /\ Overlaid(p)' => Overlaid(p)
        /\ Inventoried(p)' => Inventoried(p)
        /\ ArtifactKnown(p)' => ArtifactKnown(p)
        /\ LayersKnown(p)' => LayersKnown(p)
    BY <1>1, <1>2 DEF Overlaid, Inventoried, ArtifactKnown, ArtifactsTaken, LayersKnown
  <2> QED
    BY <1>2, <2>1, <2>2, TellsLater DEF Told
<1> QED
  BY <1>3, <1>4, <1>5 DEF Told

(* A step that finds nothing and looks at no file.                         *)
LEMMA ToldLater ==
  ASSUME Sound, InWorktree, taken # 0, Kept, UNCHANGED <<copy, capture>>, mark' = NoValue,
         result = "running", result' = "done" => at' = "done",
         \/ at = "hash" /\ at' = "hash" /\ taken' = taken
         \/ at = "hash" /\ at' = "currentIndex" /\ taken' = taken + 1
         \/ at = "overlayRead" /\ todo = {} /\ at' = "inventory" /\ todo' = Paths
            /\ taken' = taken
         \/ at = "otherRead" /\ todo = {} /\ at' = "list" /\ taken' = taken
         \/ at = "currentIndex" /\ at' = "currentHead" /\ taken' = taken
         \/ at = "currentHead" /\ at' = "done" /\ taken = 3 /\ taken' = taken
         \/ at = "currentHead" /\ at' = "artifacts" /\ todo' = call.requested
            /\ taken # 3 /\ taken' = taken /\ result' = "running"
         \/ at = "artifacts" /\ todo = {} /\ at' = "layers" /\ todo' = Paths
            /\ taken' = taken,
         NEW p \in Paths, NEW c, Told(p, c)
  PROVE  Told(p, c)'
<1>1. UNCHANGED <<world, call, copy, capture>> /\ taken \in 0 .. 3 /\ result # "done"
  BY DEF Kept, Sound, TypeOK
<1>2. Holds(p, c)' /\ (Watched(p)' <=> Watched(p))
  BY HoldsLater DEF Told
<1>3. MarkTells(p, c)'
  BY DEF MarkTells
<1>4. OthersOf(p, c)'
  BY <1>1, OthersLater DEF Told, Tells
<1>5. Overlaid(p)' => Overlaid(p)
  BY <1>1 DEF Overlaid
<1>6. Inventoried(p)' => Inventoried(p)
  BY <1>1 DEF Inventoried
<1>7. ArtifactKnown(p)' => ArtifactKnown(p)
  <2>1. at = "hash" => taken \in {1, 2}
    BY <1>1 DEF Sound, PlaceInv
  <2>2. at \in {"otherRead", "overlayRead"} => taken = 1
    BY DEF Sound, PlaceInv, ChangePasses, WorktreePasses
  <2>3. at = "artifacts" => taken = 2
    BY DEF Sound, PlaceInv, LastPasses, InWorktree
  <2> QED
    BY <1>1, <2>1, <2>2, <2>3 DEF ArtifactKnown, ArtifactsTaken
<1>8. LayersKnown(p)' => LayersKnown(p)
  <2>1. at = "hash" => taken \in {1, 2}
    BY <1>1 DEF Sound, PlaceInv
  <2>2. at \in {"otherRead", "overlayRead"} => taken = 1
    BY DEF Sound, PlaceInv, ChangePasses, WorktreePasses
  <2>3. at = "artifacts" => taken = 2
    BY DEF Sound, PlaceInv, LastPasses, InWorktree
  <2> QED
    BY <1>1, <2>1, <2>2, <2>3 DEF LayersKnown
<1>9. Tells(p, c)'
  BY <1>1, <1>4, <1>5, <1>6, <1>7, <1>8, TellsLater DEF Told
<1> QED
  BY <1>2, <1>3, <1>9 DEF Told

LEMMA ToldEnds ==
  ASSUME Sound, InWorktree, taken # 0, ~ Failing,
         \/ EndDigest \/ EndOverlay \/ MergeChanges \/ CompareIndex \/ CompareHead
         \/ EndArtifacts \/ \E q \in Paths : HashFile(q),
         NEW p \in Paths, NEW c, Told(p, c)
  PROVE  Told(p, c)'
<1>1. CASE EndDigest
  <2>1. /\ Kept /\ UNCHANGED <<copy, capture, result>> /\ at = "hash" /\ result = "running"
        /\ taken' = taken + 1 /\ at' = "currentIndex" /\ mark' = NoValue
    BY <1>1, EndDigestDoes DEF Entered
  <2> QED
    BY <2>1, ToldLater
<1>2. CASE EndOverlay \/ EndArtifacts
  <2>1. /\ Kept /\ UNCHANGED <<copy, capture, result, taken>> /\ result = "running"
        /\ todo = {} /\ todo' = Paths /\ mark' = NoValue
        /\ \/ at = "overlayRead" /\ at' = "inventory"
           \/ at = "artifacts" /\ at' = "layers"
    BY <1>2, EndOverlayDoes, EndArtifactsDoes DEF Entered, Held3
  <2> QED
    BY <2>1, ToldLater
<1>3. CASE MergeChanges
  <2>1. /\ Kept /\ UNCHANGED <<copy, capture, result, taken>> /\ result = "running"
        /\ todo = {} /\ mark' = NoValue /\ at = "otherRead" /\ at' = "list"
    BY <1>3, MergeDoes DEF Entered, Held3
  <2> QED
    BY <2>1, ToldLater
<1>4. CASE CompareIndex \/ CompareHead
  <2>1. /\ Kept /\ UNCHANGED <<copy, capture, taken>> /\ result = "running" /\ mark' = NoValue
        /\ \/ at = "currentIndex" /\ at' = "currentHead" /\ result' = "running"
           \/ at = "currentHead" /\ at' = "done" /\ taken = 3
           \/ at = "currentHead" /\ at' = "artifacts" /\ todo' = call.requested
              /\ taken # 3 /\ result' = "running"
    BY <1>4, CompareIndexDoes, CompareHeadDoes DEF Entered, Held3
  <2> QED
    BY <2>1, ToldLater
<1>5. ASSUME NEW q \in Paths, HashFile(q)
      PROVE  Told(p, c)'
  <2>1. /\ Kept /\ UNCHANGED <<copy, capture, result, taken>> /\ at = "hash"
        /\ result = "running" /\ at' = "hash" /\ mark' = NoValue
    BY <1>5, HashFileDoes DEF Left, Sound
  <2> QED
    BY <2>1, ToldLater
<1> QED
  BY <1>1, <1>2, <1>3, <1>4, <1>5

LEMMA ToldOverlay ==
  ASSUME Sound, InWorktree, taken # 0, NEW q \in Paths, OverlayFile(q), ~ Failing,
         NEW p \in Paths, Digested(p), NEW c, Told(p, c)
  PROVE  Told(p, c)'
<1>1. /\ Kept /\ Left(q) /\ Held3 /\ UNCHANGED <<copy, result>>
      /\ at = "overlayRead" /\ First(q) /\ mark # NoValue
      /\ \/ q \notin Sources /\ capture' = capture
         \/ /\ q \in Sources
            /\ \E x \in Held :
                 /\ capture' = [capture EXCEPT !.sources[q] = x]
                 /\ \/ (mark = 0 \/ Version(q) # mark) /\ x = Absent
                    \/ /\ mark # 0 /\ Version(q) = mark
                       /\ x = IF ContentOf(world.work, q) \in Binary THEN Absent
                              ELSE ContentOf(world.work, q)
  BY OverlayFileDoes DEF Sound
<1>2. /\ UNCHANGED <<world, call, copy, first, taken>>
      /\ at' = "overlayRead" /\ todo' = todo \ {q} /\ mark' = NoValue
  BY <1>1 DEF Kept, Held3, Left
<1>3. Holds(p, c)' /\ (Watched(p)' <=> Watched(p))
  BY <1>1, HoldsLater DEF Told
<1>4. MarkTells(p, c)'
  BY <1>2 DEF MarkTells
<1>5. capture \in Captures
  BY DEF Sound, TypeOK
<1>6. p # q => capture'.sources[p] = capture.sources[p]
  <2>1. CASE capture' = capture
    BY <2>1
  <2>2. ASSUME NEW x \in Held, capture' = [capture EXCEPT !.sources[q] = x]
        PROVE  p # q => capture'.sources[p] = capture.sources[p]
    BY <1>5, <2>2, SetSource, CaptureFields
  <2> QED
    BY <1>1, <2>1, <2>2
<1>7. p = q => SourceOf(p, c)'
  <2> SUFFICES ASSUME p = q, p \in Sources
               PROVE  \/ capture'.sources[p] = IF c \in Binary THEN Absent ELSE c
                      \/ c \in Binary /\ capture'.sources[p] = c
    BY DEF SourceOf
  <2>1. PICK x \in Held :
          /\ capture' = [capture EXCEPT !.sources[p] = x]
          /\ \/ (mark = 0 \/ Version(p) # mark) /\ x = Absent
             \/ /\ mark # 0 /\ Version(p) = mark
                /\ x = IF ContentOf(world.work, p) \in Binary THEN Absent
                       ELSE ContentOf(world.work, p)
    BY <1>1
  <2>2. capture'.sources[p] = x
    BY <1>5, <2>1, SetSource, CaptureFields
  <2>3. Watched(p)
    BY <1>1 DEF Digested, UnwatchedInv, First
  <2>4. IF mark = 0 THEN c = Absent ELSE Version(p) = mark
    BY <1>1, <2>3 DEF Told, MarkTells, Reads
  <2>5. ContentOf(world.work, p) = c
    BY <2>3 DEF Told, Holds
  <2>6. Absent \notin Binary
    BY CaptureAssumption
  <2> QED
    BY <2>1, <2>2, <2>4, <2>5, <2>6
<1>8. OthersOf(p, c)'
  BY <1>2 DEF OthersOf
<1>9. Overlaid(p)' => Overlaid(p) \/ p = q
  BY <1>1, <1>2 DEF Overlaid
<1>10. ~ Inventoried(p)' /\ ~ LayersKnown(p)' /\ ~ ArtifactKnown(p)'
  <2>1. taken = 1 /\ result' = "running"
    BY <1>1 DEF Sound, PlaceInv, ChangePasses, WorktreePasses
  <2> QED
    BY <1>2, <2>1 DEF Inventoried, LayersKnown, ArtifactKnown, ArtifactsTaken
<1>11. Tells(p, c)'
  BY <1>2, <1>6, <1>7, <1>8, <1>9, <1>10, TellsLater DEF Told
<1> QED
  BY <1>3, <1>4, <1>11 DEF Told

(* What git diff says of a path that holds c.                              *)
LEMMA StatusTold ==
  ASSUME Sound, NEW p \in Paths, NEW c, Holds(p, c)
  PROVE  /\ StatusNow(p)
              = Status(BaseTree[p], IF Blob(copy.index, p) = Absent THEN Absent ELSE c)
         /\ Modified(copy.index, copy.time, world.work, p)
              <=> Blob(copy.index, p) # Absent /\ c # Blob(copy.index, p)
<1>1. /\ copy.index \in [Paths -> Entry] /\ copy.time \in Times
      /\ world.work \in [Paths -> File]
  BY CopyFields, WorldFields DEF Sound, TypeOK
<1>2. WellTimed(copy.index, copy.time, world.work)
  BY DEF Sound, TimeInv
<1>3. NewSide(copy.index, copy.time, world.work, p)
        = IF Blob(copy.index, p) = Absent THEN Absent ELSE ContentOf(world.work, p)
  BY <1>1, <1>2, NewSideIs
<1>4. Modified(copy.index, copy.time, world.work, p)
        <=> Blob(copy.index, p) # Absent /\ ContentOf(world.work, p) # Blob(copy.index, p)
  BY <1>1, <1>2, Verdict
<1>5. Blob(copy.index, p) # Absent => ContentOf(world.work, p) = c
  BY DEF Holds, Watched
<1> QED
  BY <1>3, <1>4, <1>5 DEF StatusNow

LEMMA ToldInventory ==
  ASSUME Sound, InWorktree, taken # 0, NEW q \in Paths, DiffInventory(q),
         NEW p \in Paths, NEW c, Told(p, c)
  PROVE  Told(p, c)'
<1>1. /\ Kept /\ Held3 /\ UNCHANGED <<copy, result>>
      /\ at = "inventory" /\ result = "running" /\ First(q)
      /\ capture' = [capture EXCEPT !.inventory[q] = StatusNow(q)]
      /\ mark' = NoValue
      /\ \/ at' = "inventory" /\ todo' = todo \ {q}
         \/ at' = "patch" /\ todo = {q}
  BY DiffInventoryDoes DEF Left, Entered
<1>2. UNCHANGED <<world, call, copy, first, taken>>
  BY <1>1 DEF Kept, Held3
<1>3. Holds(p, c)' /\ (Watched(p)' <=> Watched(p))
  BY <1>1, HoldsLater DEF Told
<1>4. MarkTells(p, c)'
  BY <1>1 DEF MarkTells
<1>5. /\ capture'.sources = capture.sources
      /\ capture'.inventory[p] = IF p = q THEN StatusNow(q) ELSE capture.inventory[p]
  BY <1>1, StatusNowType, SetInventory, CaptureFields DEF Sound, TypeOK
<1>6. p = q => StatusOf(p, c)'
  <2>1. StatusNow(p)
          = Status(BaseTree[p], IF Blob(copy.index, p) = Absent THEN Absent ELSE c)
    BY StatusTold DEF Told
  <2> QED
    BY <1>2, <1>5, <2>1 DEF StatusOf
<1>7. OthersOf(p, c)'
  BY <1>1 DEF OthersOf
<1>8. Overlaid(p)' => Overlaid(p)
  BY <1>1, <1>2 DEF Overlaid
<1>9. Inventoried(p)' => Inventoried(p) \/ p = q
  BY <1>1, <1>2 DEF Inventoried
<1>10. ~ LayersKnown(p)' /\ ~ ArtifactKnown(p)'
  <2>1. taken = 1 /\ result' = "running"
    BY <1>1 DEF Sound, PlaceInv, ChangePasses, WorktreePasses
  <2> QED
    BY <1>1, <1>2, <2>1 DEF LayersKnown, ArtifactKnown, ArtifactsTaken
<1>11. Tells(p, c)'
  BY <1>2, <1>5, <1>6, <1>7, <1>8, <1>9, <1>10, TellsLater DEF Told
<1> QED
  BY <1>3, <1>4, <1>11 DEF Told

LEMMA ToldPatch ==
  ASSUME Sound, InWorktree, taken # 0, NEW q \in Paths, DiffPatch(q),
         NEW p \in Paths, Digested(p), NEW c, Told(p, c)
  PROVE  Told(p, c)'
<1>1. /\ Kept /\ Held3 /\ UNCHANGED <<copy, result>>
      /\ at = "patch" /\ result = "running"
      /\ capture' = [capture EXCEPT !.patch[q] = StatusNow(q)]
      /\ mark' = NoValue
      /\ \/ at' = "patch"
         \/ at' = "otherList" /\ todo' = Paths /\ listed' = {}
         \/ at' = "otherRead" /\ todo' = {} /\ ~ call.untracked
  BY DiffPatchDoes DEF Left, Entered
<1>2. UNCHANGED <<world, call, copy, first, taken>>
  BY <1>1 DEF Kept, Held3
<1>3. Holds(p, c)' /\ (Watched(p)' <=> Watched(p))
  BY <1>1, HoldsLater DEF Told
<1>4. MarkTells(p, c)'
  BY <1>1 DEF MarkTells
<1>5. /\ capture'.sources = capture.sources /\ capture'.inventory = capture.inventory
      /\ capture'.untracked = capture.untracked
  BY <1>1, StatusNowType, SetPatch DEF Sound, TypeOK
<1>6. OthersOf(p, c)'
  <2>1. p \notin capture'.untracked
    BY <1>1, <1>5 DEF Digested, UnreadInv, ChangePasses, WorktreePasses
  <2>2. ~ call.untracked => ~ OtherIs(p, c)'
    BY <1>2 DEF OtherIs
  <2> QED
    BY <1>1, <2>1, <2>2 DEF OthersOf
<1>7. Overlaid(p)' => Overlaid(p)
  BY <1>1, <1>2 DEF Overlaid
<1>8. Inventoried(p)' => Inventoried(p)
  BY <1>1, <1>2 DEF Inventoried
<1>9. ~ LayersKnown(p)' /\ ~ ArtifactKnown(p)'
  <2>1. taken = 1 /\ result' = "running"
    BY <1>1 DEF Sound, PlaceInv, ChangePasses, WorktreePasses
  <2> QED
    BY <1>1, <1>2, <2>1 DEF LayersKnown, ArtifactKnown, ArtifactsTaken
<1>10. Tells(p, c)'
  BY <1>2, <1>5, <1>6, <1>7, <1>8, <1>9, TellsLater DEF Told
<1> QED
  BY <1>3, <1>4, <1>10 DEF Told

LEMMA ToldOther ==
  ASSUME Sound, InWorktree, taken # 0, NEW q \in Paths, ReadOther(q), ~ Failing,
         NEW p \in Paths, NEW c, Told(p, c)
  PROVE  Told(p, c)'
<1>1. /\ Kept /\ Held3 /\ UNCHANGED <<copy, result>>
      /\ at = "otherRead" /\ result = "running" /\ First(q)
      /\ at' = at /\ todo' = todo \ {q} /\ mark' = NoValue
  BY ReadOtherDoes DEF Left, Sound
<1>2. UNCHANGED <<world, call, copy, first, taken>> /\ q \in todo
  BY <1>1 DEF Kept, Held3, First
<1>3. Holds(p, c)' /\ (Watched(p)' <=> Watched(p))
  BY <1>1, HoldsLater DEF Told
<1>4. MarkTells(p, c)'
  BY <1>1 DEF MarkTells
<1>5. /\ capture'.sources = capture.sources /\ capture'.inventory = capture.inventory
      /\ capture'.untracked = capture.untracked \union {q}
  BY ReadOtherDoes DEF Sound
<1>6. OthersOf(p, c)'
  <2>1. p \in todo \union capture.untracked <=> OtherIs(p, c)
    BY <1>1 DEF Told, Tells, OthersOf
  <2>2. p \in todo' \union capture'.untracked <=> p \in todo \union capture.untracked
    BY <1>1, <1>2, <1>5
  <2>3. OtherIs(p, c)' <=> OtherIs(p, c)
    BY <1>2 DEF OtherIs
  <2> QED
    BY <1>1, <2>1, <2>2, <2>3 DEF OthersOf
<1>7. (Overlaid(p)' => Overlaid(p)) /\ (Inventoried(p)' => Inventoried(p))
  BY <1>1, <1>2 DEF Overlaid, Inventoried
<1>8. ~ LayersKnown(p)' /\ ~ ArtifactKnown(p)'
  <2>1. taken = 1 /\ result' = "running"
    BY <1>1 DEF Sound, PlaceInv, ChangePasses, WorktreePasses
  <2> QED
    BY <1>1, <1>2, <2>1 DEF LayersKnown, ArtifactKnown, ArtifactsTaken
<1>9. Tells(p, c)'
  BY <1>2, <1>5, <1>6, <1>7, <1>8, TellsLater DEF Told
<1> QED
  BY <1>3, <1>4, <1>9 DEF Told

LEMMA ToldSelect ==
  ASSUME Sound, InWorktree, taken # 0, NEW q \in Paths, SelectArtifact(q), ~ Failing,
         NEW p \in Paths, NEW c, Told(p, c)
  PROVE  Told(p, c)'
<1>1. /\ Kept /\ Held3 /\ UNCHANGED <<copy, result>>
      /\ at = "artifacts" /\ result = "running"
      /\ \/ at' = "artifact" /\ UNCHANGED <<todo, mark, capture>>
         \/ /\ ~ WorktreeSelects(q) /\ at' = "artifacts" /\ todo' = todo \ {q}
            /\ mark' = NoValue /\ IndexAt(q) \in Contents
            /\ capture' = [capture EXCEPT !.artifacts[q] = IndexAt(q)]
  BY SelectArtifactDoes DEF Left, Sound
<1>2. /\ UNCHANGED <<world, call, copy, first, taken>> /\ mark' = NoValue
      /\ call.target = "worktree" /\ taken = 2 /\ result' = "running"
  BY <1>1 DEF Kept, Held3, Sound, PlaceInv, LastPasses, InWorktree
<1>3. Holds(p, c)' /\ (Watched(p)' <=> Watched(p))
  BY <1>1, HoldsLater DEF Told
<1>4. MarkTells(p, c)'
  BY <1>2 DEF MarkTells
<1>5. /\ capture'.sources = capture.sources /\ capture'.inventory = capture.inventory
      /\ capture'.untracked = capture.untracked
      /\ p # q \/ todo' = todo => capture'.artifacts[p] = capture.artifacts[p]
      /\ p = q /\ todo' # todo => capture'.artifacts[p] = IndexAt(p) /\ IndexAt(p) \in Contents
                                  /\ ~ WorktreeSelects(p)
  <2>1. CASE at' = "artifact" /\ UNCHANGED <<todo, mark, capture>>
    BY <2>1
  <2>2. CASE /\ ~ WorktreeSelects(q) /\ IndexAt(q) \in Contents
             /\ todo' = todo \ {q}
             /\ capture' = [capture EXCEPT !.artifacts[q] = IndexAt(q)]
    <3>1. /\ capture'.sources = capture.sources /\ capture'.inventory = capture.inventory
          /\ capture'.untracked = capture.untracked
          /\ capture'.artifacts[p] = IF p = q THEN IndexAt(q) ELSE capture.artifacts[p]
      BY <2>2, SetArtifact, CaptureFields DEF Sound, TypeOK
    <3>2. q \in todo
      BY <1>1 DEF SelectArtifact, Reading, First
    <3> QED
      BY <2>2, <3>1, <3>2
  <2> QED
    BY <1>1, <2>1, <2>2
<1>6. p = q /\ todo' # todo => capture'.artifacts[p] = c
  <2> SUFFICES ASSUME p = q, todo' # todo
               PROVE  capture'.artifacts[p] = c
    OBVIOUS
  <2>1. /\ capture'.artifacts[p] = Blob(copy.index, p) /\ Blob(copy.index, p) # Absent
        /\ ~ Modified(copy.index, copy.time, world.work, p)
    BY <1>2, <1>5, CaptureAssumption DEF IndexAt, WorktreeSelects
  <2> QED
    BY <2>1, StatusTold DEF Told
<1>7. OthersOf(p, c)'
  BY <1>1, <1>2, <1>5, OthersLater DEF Told, Tells
<1>8. /\ Overlaid(p)' => Overlaid(p)
      /\ Inventoried(p)' => Inventoried(p)
      /\ ~ LayersKnown(p)'
  BY <1>1, <1>2 DEF Overlaid, Inventoried, LayersKnown
<1>9. ArtifactKnown(p)' => ArtifactKnown(p) \/ (p = q /\ todo' # todo)
  BY <1>1, <1>2 DEF ArtifactKnown, ArtifactsTaken
<1>10. ArtifactKnown(p)' => capture'.artifacts[p] = c
          \/ (ArtifactKnown(p) /\ capture'.artifacts[p] = capture.artifacts[p])
  BY <1>5, <1>6, <1>9
<1>11. Tells(p, c)'
  BY <1>2, <1>5, <1>7, <1>8, <1>10, TellsLater DEF Told
<1> QED
  BY <1>3, <1>4, <1>11 DEF Told

LEMMA ToldArtifact ==
  ASSUME Sound, InWorktree, taken # 0, NEW q \in Paths, ReadArtifact(q), ~ Failing,
         NEW p \in Paths, Digested(p), NEW c, Told(p, c)
  PROVE  Told(p, c)'
<1>1. /\ Kept /\ Held3 /\ UNCHANGED <<listed, copy, result>>
      /\ at = "artifact" /\ result = "running" /\ First(q)
      /\ ContentOf(world.work, q) \in Contents
      /\ capture' = [capture EXCEPT !.artifacts[q] = ContentOf(world.work, q)]
      /\ at' = "artifacts" /\ todo' = todo \ {q} /\ mark' = NoValue
  BY ReadArtifactDoes DEF Sound
<1>2. /\ UNCHANGED <<world, call, copy, first, taken>>
      /\ taken = 2 /\ result' = "running"
  BY <1>1 DEF Kept, Held3, Sound, PlaceInv, LastPasses, InWorktree
<1>3. Holds(p, c)' /\ (Watched(p)' <=> Watched(p))
  BY <1>1, HoldsLater DEF Told
<1>4. MarkTells(p, c)'
  BY <1>1 DEF MarkTells
<1>5. /\ capture'.sources = capture.sources /\ capture'.inventory = capture.inventory
      /\ capture'.untracked = capture.untracked
      /\ capture'.artifacts[p]
           = IF p = q THEN ContentOf(world.work, q) ELSE capture.artifacts[p]
  BY <1>1, SetArtifact, CaptureFields DEF Sound, TypeOK
<1>6. p = q => p \in call.evidence \/ capture'.artifacts[p] = c
  <2>1. p = q => Watched(p) \/ p \in call.evidence
    BY <1>1 DEF Digested, UnwatchedInv
  <2> QED
    BY <1>5, <2>1 DEF Told, Holds
<1>7. OthersOf(p, c)'
  BY <1>1, <1>2, <1>5, OthersLater DEF Told, Tells
<1>8. /\ Overlaid(p)' => Overlaid(p)
      /\ Inventoried(p)' => Inventoried(p)
      /\ ~ LayersKnown(p)'
  BY <1>1, <1>2 DEF Overlaid, Inventoried, LayersKnown
<1>9. ArtifactKnown(p)' => ArtifactKnown(p) \/ p = q
  BY <1>1, <1>2 DEF ArtifactKnown, ArtifactsTaken
<1>10. ArtifactKnown(p)' => p \in call.evidence \/ capture'.artifacts[p] = c
          \/ (ArtifactKnown(p) /\ capture'.artifacts[p] = capture.artifacts[p])
  BY <1>5, <1>6, <1>9
<1>11. Tells(p, c)'
  BY <1>2, <1>5, <1>7, <1>8, <1>10, TellsLater DEF Told
<1> QED
  BY <1>3, <1>4, <1>11 DEF Told

LEMMA ToldLayers ==
  ASSUME Sound, InWorktree, taken # 0, NEW q \in Paths, DiffLayers(q),
         NEW p \in Paths, NEW c, Told(p, c)
  PROVE  Told(p, c)'
<1>0. call.target = "worktree"
  BY DEF InWorktree
<1>1. /\ Kept /\ UNCHANGED <<copy, first, taken, result>>
      /\ at = "layers" /\ result = "running" /\ First(q)
      /\ \/ todo # {q} /\ at' = "layers" /\ todo' = todo \ {q}
         \/ todo = {q} /\ at' = "list" /\ mark' = NoValue
  BY <1>0, DiffLayersDoes DEF Entered
<1>2. UNCHANGED <<world, call, copy, first, taken>> /\ taken = 2
  BY <1>0, <1>1 DEF Kept, Sound, PlaceInv, LastPasses
<1>3. Holds(p, c)' /\ (Watched(p)' <=> Watched(p))
  BY <1>1, HoldsLater DEF Told
<1>4. MarkTells(p, c)'
  BY <1>1 DEF MarkTells, Reads
<1>5. PICK x \in SUBSET Layers :
        /\ x = IF Changed(q) THEN LayersOf(q) ELSE {}
        /\ capture' = [capture EXCEPT !.layers[q] = x]
  BY DiffLayersDoes, LayersType
<1>6. /\ capture'.sources = capture.sources /\ capture'.inventory = capture.inventory
      /\ capture'.untracked = capture.untracked /\ capture'.artifacts = capture.artifacts
      /\ capture'.layers[p] = IF p = q THEN x ELSE capture.layers[p]
  BY <1>5, SetLayers, CaptureFields DEF Sound, TypeOK
<1>7. p = q => (capture.layers[p] = IF Changed(p) THEN LayersFor(p, c) ELSE {})'
  <2>1. LayersOf(p) = LayersFor(p, c)
    <3>1. Modified(copy.index, copy.time, world.work, p)
            <=> Blob(copy.index, p) # Absent /\ c # Blob(copy.index, p)
      BY StatusTold DEF Told
    <3> QED
      BY <1>0, <3>1 DEF LayersOf, LayersFor
  <2>2. (Changed(p)' <=> Changed(p)) /\ LayersFor(p, c)' = LayersFor(p, c)
    BY <1>2, <1>6 DEF Changed, LayersFor, IndexAt
  <2> QED
    BY <1>5, <1>6, <2>1, <2>2
<1>8. OthersOf(p, c)'
  BY <1>1, <1>2, <1>6, OthersLater DEF Told, Tells
<1>9. /\ Overlaid(p)' => Overlaid(p)
      /\ Inventoried(p)' => Inventoried(p)
      /\ ArtifactKnown(p)' => ArtifactKnown(p)
  BY <1>1, <1>2 DEF Overlaid, Inventoried, ArtifactKnown, ArtifactsTaken
<1>10. LayersKnown(p)' => LayersKnown(p) \/ p = q
  BY <1>1, <1>2 DEF LayersKnown
<1>11. Tells(p, c)'
  BY <1>2, <1>6, <1>7, <1>8, <1>9, <1>10, TellsLater DEF Told
<1> QED
  BY <1>3, <1>4, <1>11 DEF Told

(* What holds of a path is told of it in every step of the capture.        *)
LEMMA ToldStep ==
  ASSUME Sound, InWorktree, taken # 0, ~ Failing,
         \/ EndDigest \/ EndOverlay \/ MergeChanges \/ CompareIndex \/ CompareHead
         \/ EndArtifacts
         \/ \E q \in Paths :
              \/ ListDirty(q) \/ LookAtFile(q) \/ HashFile(q) \/ ListOverlay(q)
              \/ OverlayFile(q) \/ DiffInventory(q) \/ DiffPatch(q) \/ ListOthers(q)
              \/ ReadOther(q) \/ SelectArtifact(q) \/ ReadArtifact(q) \/ DiffLayers(q),
         NEW p \in Paths, Digested(p), NEW c, Told(p, c)
  PROVE  Told(p, c)'
BY ToldEnds, ToldListing, ToldLook, ToldOverlay, ToldInventory, ToldPatch, ToldOther, ToldSelect,
   ToldArtifact, ToldLayers

(* The last digest settles a path only where it is as it was.              *)
LEMMA SettlesListed ==
  ASSUME Sound, InWorktree, taken = 2, NEW q \in Paths, ListDirty(q),
         NEW p \in Paths, Digested(p), Settled(p)'
  PROVE  Settled(p) \/ Steady(p)
<1>1. /\ Kept /\ Held3 /\ copy' = copy /\ at = "list" /\ First(q)
      /\ \/ /\ todo # {q} /\ at' = "list" /\ todo' = todo \ {q}
            /\ listed' = listed \union (IF Lists(q) THEN {q} ELSE {})
         \/ /\ todo = {q} /\ at' = "hash" /\ mark' = NoValue
            /\ todo' = listed \union (IF Lists(q) THEN {q} ELSE {})
  BY DEF ListDirty, Listing, Kept, Held3, worldVars, digestVars, Running, Enter
<1>2. UNCHANGED <<call, copy, first, taken, digest>> /\ q \in todo
  BY <1>1 DEF Kept, Held3, First
<1>3. mark' # 0 \/ at' = "list"
  BY <1>1, CaptureAssumption
<1>4. Passed(p)' /\ Hashed(digest, p)' = Says(p)'
  BY <1>1, <1>2, <1>3 DEF Settled
<1>5. Says(p)' = Says(p) /\ Hashed(digest, p)' = Hashed(digest, p)
  BY <1>2 DEF Says, Hashed
<1>6. CASE p # q
  <2>1. Passed(p)
    BY <1>1, <1>4, <1>6 DEF Passed
  <2> QED
    BY <1>4, <1>5, <2>1 DEF Settled
<1>7. CASE p = q
  <2>1. ~ Lists(p)
    BY <1>1, <1>4, <1>7 DEF Passed
  <2>2. Watched(p) => ContentOf(world.work, p) = Blob(copy.index, p)
    BY <2>1, ListsWhat DEF Sound, Digested, UnreadInv
  <2>3. Hashed(digest, p) = Blob(copy.index, p)
    BY <1>1 DEF Sound, PlaceInv, Unhashed, Hashed
  <2> QED
    BY <1>4, <1>5, <2>2, <2>3 DEF Steady
<1> QED
  BY <1>6, <1>7

LEMMA SettlesRead ==
  ASSUME Sound, InWorktree, taken = 2, NEW q \in Paths, LookAtFile(q) \/ HashFile(q), ~ Failing,
         NEW p \in Paths, Settled(p)'
  PROVE  Settled(p) \/ Steady(p)
<1>1. CASE LookAtFile(q)
  <2>1. /\ Kept /\ Held3 /\ UNCHANGED <<at, todo, listed, copy>>
        /\ First(q) /\ mark' = Version(q)
    BY <1>1, LookDoes
  <2>2. UNCHANGED <<call, copy, first, taken, digest, at, todo, listed>>
    BY <2>1 DEF Kept, Held3
  <2>3. /\ Says(p)' = Says(p) /\ Hashed(digest, p)' = Hashed(digest, p)
        /\ Passed(p)' <=> Passed(p)
        /\ First(p)' <=> First(p)
    BY <2>2 DEF Says, Hashed, Passed, First
  <2>4. CASE Passed(p)' /\ Hashed(digest, p)' = Says(p)'
    BY <2>2, <2>3, <2>4 DEF Settled
  <2>5. CASE First(p)' /\ mark' = 0 /\ Says(p)' = Absent
    <3>1. Version(p) = 0
      BY <2>1, <2>3, <2>5, OneIsFirst
    <3>2. ContentOf(world.work, p) = Absent
      BY <3>1, VersionType DEF Sound
    <3> QED
      BY <2>3, <2>5, <3>2 DEF Steady
  <2> QED
    BY <2>2, <2>4, <2>5 DEF Settled
<1>2. CASE HashFile(q)
  <2>1. /\ Kept /\ UNCHANGED <<copy, first, taken>>
        /\ at' = at /\ todo' = todo \ {q} /\ mark' = NoValue
        /\ at = "hash" /\ First(q) /\ mark # NoValue
        /\ digest' = [digest EXCEPT
             ![q] = IF mark = 0 THEN Absent ELSE ContentOf(world.work, q)]
    BY <1>2, HashFileDoes DEF Sound, Left
  <2>2. digest'[p] = IF p = q THEN (IF mark = 0 THEN Absent ELSE ContentOf(world.work, q))
                     ELSE digest[p]
    BY <2>1 DEF Sound, TypeOK
  <2>3. mark' # 0
    BY <2>1, CaptureAssumption
  <2>4. Passed(p)' /\ Hashed(digest, p)' = Says(p)' /\ taken' = 2
    BY <2>1, <2>3 DEF Settled
  <2>5. Says(p)' = Says(p)
    BY <2>1 DEF Says, Hashed
  <2>6. CASE p # q
    <3>1. Passed(p) /\ Hashed(digest, p)' = Hashed(digest, p)
      BY <2>1, <2>2, <2>4, <2>6 DEF Passed, Hashed
    <3> QED
      BY <2>4, <2>5, <3>1 DEF Settled
  <2>7. CASE p = q /\ mark = 0
    <3>1. Hashed(digest, p)' = Absent
      BY <2>2, <2>7, CaptureAssumption DEF Hashed, Held
    <3> QED
      BY <2>1, <2>4, <2>5, <2>7, <3>1 DEF Settled
  <2>8. CASE p = q /\ mark # 0
    <3>1. ContentOf(world.work, p) # NoValue
      BY CaptureAssumption, WorldFields DEF Sound, TypeOK
    <3>2. Hashed(digest, p)' = ContentOf(world.work, p)
      BY <2>1, <2>2, <2>8, <3>1 DEF Hashed, Kept
    <3> QED
      BY <2>4, <2>5, <3>2 DEF Steady
  <2> QED
    BY <2>6, <2>7, <2>8
<1> QED
  BY <1>1, <1>2

LEMMA SettlesEnd ==
  ASSUME Sound, EndDigest, ~ Failing, taken = 2, NEW p \in Paths
  PROVE  Settled(p)
<1>1. at = "hash" /\ todo = {} /\ digest = first
  BY EndDigestDoes
<1> QED
  BY <1>1 DEF Settled, Passed, Says

(* What is settled stays as it was told.                                   *)
LEMMA SettledTells ==
  ASSUME Kept, UNCHANGED <<copy, capture>>, result \in {"running", "done"},
         \/ at \in {"list", "hash"} /\ at' \in {"list", "hash"} /\ taken = 2 /\ taken' = 2
         \/ at = "hash" /\ at' = "currentIndex" /\ taken = 2 /\ taken' = 3
         \/ at \in {"currentIndex", "currentHead"} /\ at' \in {"currentHead", "done"}
            /\ taken = 3 /\ taken' = 3,
         NEW p \in Paths, NEW c, Tells(p, c)
  PROVE  Tells(p, c)'
<1>1. UNCHANGED <<call, copy, capture>>
  BY DEF Kept
<1>2. OthersOf(p, c)'
  BY <1>1, OthersLater DEF Tells
<1>3. /\ Overlaid(p)' => Overlaid(p)
      /\ Inventoried(p)' => Inventoried(p)
      /\ ArtifactKnown(p)' => ArtifactKnown(p)
      /\ LayersKnown(p)' => LayersKnown(p)
  BY <1>1 DEF Overlaid, Inventoried, ArtifactKnown, ArtifactsTaken, LayersKnown
<1> QED
  BY <1>1, <1>2, <1>3, TellsLater

LEMMA SettlesReading ==
  ASSUME Sound, InWorktree, taken # 0, NEW q \in Paths,
         ListDirty(q) \/ LookAtFile(q) \/ HashFile(q), ~ Failing,
         NEW p \in Paths, Digested(p), Settled(p)'
  PROVE  Steady(p) \/ (Settled(p) /\ \A c : Tells(p, c) => Tells(p, c)')
<1>1. /\ Kept /\ UNCHANGED <<copy, capture, taken>> /\ result = "running"
      /\ \/ at = "list" /\ at' \in {"list", "hash"}
         \/ at \in Reads /\ at' = at
  <2>1. CASE ListDirty(q)
    BY <2>1 DEF ListDirty, Listing, Kept, worldVars, digestVars, Running, Enter
  <2>2. CASE LookAtFile(q)
    BY <2>2, LookDoes DEF Held3
  <2>3. CASE HashFile(q)
    BY <2>3, HashFileDoes DEF Sound, Left, Reads
  <2> QED
    BY <2>1, <2>2, <2>3
<1>2. taken \in 0 .. 3 /\ (at \in {"list", "hash"} => taken \in 0 .. 2)
  BY DEF Sound, TypeOK, PlaceInv
<1>3. at \in Reads \ {"hash"} => taken \in {1, 2}
  BY DEF Sound, PlaceInv, Reads, ChangePasses, WorktreePasses, LastPasses, InWorktree
<1>4. taken' = 2 /\ at' \in {"list", "hash"}
  BY <1>1, <1>2, <1>3 DEF Settled, Passed
<1>5. taken = 2 /\ at \in {"list", "hash"}
  BY <1>1, <1>4 DEF Reads
<1>6. ASSUME NEW c, Tells(p, c)
      PROVE  Tells(p, c)'
  BY <1>1, <1>4, <1>5, <1>6, SettledTells
<1>7. Settled(p) \/ Steady(p)
  BY <1>5, SettlesListed, SettlesRead
<1> QED
  BY <1>6, <1>7

LEMMA SettlesEnding ==
  ASSUME Sound, InWorktree, taken # 0, ~ Failing,
         \/ EndDigest \/ EndOverlay \/ MergeChanges \/ CompareIndex \/ CompareHead
         \/ EndArtifacts,
         NEW p \in Paths, Settled(p)'
  PROVE  Settled(p) /\ \A c : Tells(p, c) => Tells(p, c)'
<1>0. taken \in 0 .. 3 /\ 0 .. 3 = {0, 1, 2, 3}
  BY DEF Sound, TypeOK
<1>1. CASE EndDigest
  <2>1. /\ Kept /\ UNCHANGED <<copy, capture, result>> /\ at = "hash" /\ result = "running"
        /\ taken' = taken + 1 /\ at' = "currentIndex"
    BY <1>1, EndDigestDoes DEF Entered
  <2>2. taken \in 0 .. 2
    BY <2>1 DEF Sound, PlaceInv
  <2>3. taken = 2 /\ taken' = 3
    BY <2>1, <2>2 DEF Settled, Passed
  <2>4. Settled(p)
    BY <1>1, <2>3, SettlesEnd
  <2>5. ASSUME NEW c, Tells(p, c)
        PROVE  Tells(p, c)'
    BY <2>1, <2>3, <2>5, SettledTells
  <2> QED
    BY <2>4, <2>5
<1>2. CASE EndOverlay \/ EndArtifacts \/ MergeChanges
  <2>1. taken' = taken /\ ((at' = "list" /\ todo' = Paths) \/ at' \notin {"list", "hash"})
    BY <1>2, EndOverlayDoes, EndArtifactsDoes, MergeDoes DEF Entered, Held3
  <2>2. taken \in {1, 2}
    BY <1>2, EndOverlayDoes, EndArtifactsDoes, MergeDoes
    DEF Sound, PlaceInv, LastPasses, ChangePasses, WorktreePasses, InWorktree
  <2> QED
    BY <2>1, <2>2 DEF Settled, Passed
<1>3. CASE CompareIndex \/ CompareHead
  <2>1. /\ Kept /\ UNCHANGED <<copy, capture, taken>> /\ result = "running"
        /\ \/ at = "currentIndex" /\ at' = "currentHead"
           \/ at = "currentHead" /\ at' = "done" /\ taken = 3
           \/ at = "currentHead" /\ at' = "artifacts" /\ taken # 3
    BY <1>3, CompareIndexDoes, CompareHeadDoes DEF Entered, Held3
  <2>2. taken = 3
    BY <2>1 DEF Settled, Passed
  <2>3. ASSUME NEW c, Tells(p, c)
        PROVE  Tells(p, c)'
    BY <2>1, <2>2, <2>3, SettledTells
  <2> QED
    BY <2>2, <2>3 DEF Settled
<1> QED
  BY <1>1, <1>2, <1>3

LEMMA SettlesNothing ==
  ASSUME Sound, InWorktree, taken # 0, NEW q \in Paths, ~ Failing,
         \/ ListOverlay(q) \/ OverlayFile(q) \/ DiffInventory(q) \/ DiffPatch(q)
         \/ ListOthers(q) \/ ReadOther(q) \/ SelectArtifact(q) \/ ReadArtifact(q)
         \/ DiffLayers(q),
         NEW p \in Paths
  PROVE  ~ Settled(p)'
<1>1. CASE ListOverlay(q) \/ OverlayFile(q) \/ DiffInventory(q) \/ DiffPatch(q)
           \/ ListOthers(q) \/ ReadOther(q)
  <2>1. at \in ChangePasses /\ taken' = taken
    <3>1. CASE ListOverlay(q) \/ ListOthers(q)
      BY <3>1 DEF ListOverlay, ListOthers, Listing, Running, digestVars, ChangePasses,
         WorktreePasses
    <3>2. CASE OverlayFile(q)
      BY <3>2, OverlayFileDoes DEF Sound, Held3, ChangePasses, WorktreePasses
    <3>3. CASE DiffInventory(q) \/ DiffPatch(q)
      BY <3>3, DiffInventoryDoes, DiffPatchDoes DEF Held3, ChangePasses, WorktreePasses
    <3>4. CASE ReadOther(q)
      BY <3>4, ReadOtherDoes DEF Held3, ChangePasses, WorktreePasses, Sound
    <3> QED
      BY <1>1, <3>1, <3>2, <3>3, <3>4
  <2>2. taken' = 1
    BY <2>1 DEF Sound, PlaceInv
  <2> QED
    BY <2>2 DEF Settled
<1>2. CASE SelectArtifact(q) \/ ReadArtifact(q)
  <2>1. at \in {"artifacts", "artifact"} /\ at' \in {"artifacts", "artifact"} /\ taken' = taken
    BY <1>2, SelectArtifactDoes, ReadArtifactDoes DEF Sound, Held3, Left
  <2>2. taken' = 2
    BY <2>1 DEF Sound, PlaceInv, LastPasses, InWorktree
  <2> QED
    BY <2>1, <2>2 DEF Settled, Passed
<1>3. CASE DiffLayers(q)
  <2>1. /\ at = "layers" /\ taken' = taken
        /\ at' = "layers" \/ (at' = "list" /\ todo' = Paths)
    BY <1>3, DiffLayersDoes DEF InWorktree, Entered
  <2>2. taken' = 2
    BY <2>1 DEF Sound, PlaceInv, LastPasses, InWorktree
  <2> QED
    BY <2>1, <2>2 DEF Settled, Passed
<1> QED
  BY <1>1, <1>2, <1>3

(* What is told of a path is about what the digest says of it.             *)
LEMMA SaysLater ==
  ASSUME NEW p \in Paths, UNCHANGED <<call, copy>>, first' = first
  PROVE  /\ Tells(p, Says(p))' <=> \A c : c = Says(p) => Tells(p, c)'
         /\ MarkTells(p, Says(p))' <=> \A c : c = Says(p) => MarkTells(p, c)'
<1>1. Says(p)' = Says(p)
  BY DEF Says, Hashed
<1>2. PICK c : c = Says(p)
  OBVIOUS
<1>3. c = Says(p)'
  BY <1>1, <1>2
<1>4. Tells(p, Says(p))' <=> Tells(p, c)'
  BY <1>3 DEF Tells, SourceOf, StatusOf, OthersOf, OtherIs, LayersFor
<1>5. MarkTells(p, Says(p))' <=> MarkTells(p, c)'
  BY <1>3 DEF MarkTells
<1> QED
  BY <1>2, <1>4, <1>5

(* The state m that the first digest ended in stays the one that is        *)
(* captured, whatever step the capture takes.                              *)
LEMMA IsOfStep ==
  ASSUME Sound, DigestInv, InWorktree, taken # 0, ~ Failing, Kept, copy' = copy, first' = first,
         \/ EndDigest \/ EndOverlay \/ MergeChanges \/ CompareIndex \/ CompareHead
         \/ EndArtifacts
         \/ \E q \in Paths :
              \/ ListDirty(q) \/ LookAtFile(q) \/ HashFile(q) \/ ListOverlay(q)
              \/ OverlayFile(q) \/ DiffInventory(q) \/ DiffPatch(q) \/ ListOthers(q)
              \/ ReadOther(q) \/ SelectArtifact(q) \/ ReadArtifact(q) \/ DiffLayers(q),
         NEW p \in Paths, NEW m,
         Steady(p) \/ Settled(p) => AgreesOn(m, p),
         Steady(p) /\ Watched(p) => MarkTells(p, Says(p))
  PROVE  /\ (Steady(p) \/ Settled(p))' => AgreesOn(m, p)'
         /\ Steady(p)' /\ Watched(p)' => MarkTells(p, Says(p))'
<1>0. Digested(p)
  BY DEF DigestInv
<1>1. UNCHANGED <<world, call, copy, first>>
  BY DEF Kept
<1>2. Says(p)' = Says(p) /\ (Watched(p)' <=> Watched(p)) /\ (Steady(p)' <=> Steady(p))
  BY <1>1 DEF Says, Hashed, Watched, Steady
<1>3. PICK c : c = Says(p)
  OBVIOUS
<1>4. Steady(p) => Told(p, c)
  <2> SUFFICES ASSUME Steady(p)
               PROVE  Told(p, c)
    OBVIOUS
  <2>1. Holds(p, c)
    <3>1. ~ Watched(p) => c = Absent
      BY <1>0, <1>3 DEF Digested, UnwatchedInv, Says, Hashed, Watched
    <3> QED
      BY <1>3, <3>1 DEF Steady, Holds
  <2>2. Tells(p, c)
    BY <1>3 DEF AgreesOn
  <2>3. Watched(p) => MarkTells(p, c)
    BY <1>3
  <2> QED
    BY <2>1, <2>2, <2>3 DEF Told
<1>5. Steady(p) => Tells(p, c)' /\ (Watched(p) => MarkTells(p, c)')
  <2>1. ASSUME Told(p, c)
        PROVE  Told(p, c)'
    BY <1>0, <2>1, ToldStep
  <2> QED
    BY <1>2, <1>4, <2>1 DEF Told
<1>6. Settled(p)' => Steady(p) \/ (Settled(p) /\ (Tells(p, c) => Tells(p, c)'))
  BY <1>0, SettlesReading, SettlesEnding, SettlesNothing
<1>7. (Steady(p) \/ Settled(p))' => Tells(p, c)' /\ (Steady(p) \/ Settled(p))
  BY <1>2, <1>3, <1>5, <1>6 DEF AgreesOn
<1>8. (Steady(p) \/ Settled(p))' => AgreesOn(m, p)'
  <2> SUFFICES ASSUME (Steady(p) \/ Settled(p))'
               PROVE  AgreesOn(m, p)'
    OBVIOUS
  <2>1. Tells(p, Says(p))'
    BY <1>1, <1>3, <1>7, SaysLater
  <2>2. Watched(p)' => ContentOf(m.work, p) = Says(p)'
    BY <1>2, <1>7 DEF AgreesOn
  <2> QED
    BY <2>1, <2>2 DEF AgreesOn
<1>9. Steady(p)' /\ Watched(p)' => MarkTells(p, Says(p))'
  BY <1>1, <1>2, <1>3, <1>5, SaysLater
<1> QED
  BY <1>8, <1>9

(* m is the world the first digest ended in.                               *)
LEMMA IsOfFirst ==
  ASSUME Sound, InWorktree, EndDigest, ~ Failing, taken = 0
  PROVE  IsOf(world)'
<1>1. /\ Kept /\ copy' = copy /\ result' = "running" /\ taken' = 1
      /\ at' = "overlayList" /\ todo' = Paths
  BY EndDigestDoes DEF Entered
<1>2. world' = world
  BY <1>1 DEF Kept
<1>3. ASSUME NEW p \in Paths
      PROVE  /\ ~ Settled(p)' /\ Tells(p, Says(p))' /\ MarkTells(p, Says(p))'
             /\ (Steady(p) => AgreesOn(world, p))'
             /\ (Blob(world.index, p) = Blob(copy.index, p)
                   \/ (taken = 3 /\ at \in {"currentHead", "done"})
                 => Blob(world.index, p) = Blob(copy.index, p))'
  <2>1. ~ Settled(p)'
    BY <1>1 DEF Settled
  <2>2. /\ ~ Overlaid(p)' /\ ~ Inventoried(p)' /\ ~ ArtifactKnown(p)' /\ ~ LayersKnown(p)'
    BY <1>1 DEF Overlaid, Inventoried, ArtifactKnown, ArtifactsTaken, LayersKnown
  <2>3. Tells(p, Says(p))'
    BY <1>1, <2>2 DEF Tells, OthersOf
  <2>4. MarkTells(p, Says(p))'
    BY <1>1 DEF MarkTells, Reads
  <2> QED
    BY <1>1, <2>1, <2>3, <2>4 DEF Steady, AgreesOn
<1> QED
  BY <1>1, <1>3 DEF IsOf

(* What the comparisons with the index and with HEAD tell of m.            *)
LEMMA ComparedStep ==
  ASSUME Sound, Alive, ~ Failing, Kept, copy' = copy,
         \/ EndDigest \/ EndOverlay \/ MergeChanges \/ CompareIndex \/ CompareHead
         \/ EndArtifacts
         \/ \E q \in Paths :
              \/ ListDirty(q) \/ LookAtFile(q) \/ HashFile(q) \/ ListOverlay(q)
              \/ OverlayFile(q) \/ DiffInventory(q) \/ DiffPatch(q) \/ ListOthers(q)
              \/ ReadOther(q) \/ SelectArtifact(q) \/ ReadArtifact(q) \/ DiffLayers(q)
  PROVE  /\ call.target # "commit" /\ result' = "done" => world.head = HeadOid
         /\ call.target = "worktree" /\ taken' = 3 /\ at' \in {"currentHead", "done"} =>
              IsCopy(world) \/ (taken = 3 /\ at = "currentHead")
<1>1. CASE CompareIndex
  BY <1>1, CompareIndexDoes DEF Entered
<1>2. CASE CompareHead
  BY <1>2, CompareHeadDoes DEF Entered, Held3
<1>3. CASE EndDigest \/ EndOverlay \/ MergeChanges \/ EndArtifacts
  BY <1>3, EndDigestDoes, EndOverlayDoes, MergeDoes, EndArtifactsDoes DEF Entered
<1>4. ASSUME NEW q \in Paths, ListDirty(q) \/ ListOverlay(q) \/ ListOthers(q)
      PROVE  result' = "running" /\ at' \notin {"currentHead", "done"}
  BY <1>4 DEF ListDirty, ListOverlay, ListOthers, Listing, Running, Enter
<1>5. ASSUME NEW q \in Paths, LookAtFile(q) \/ HashFile(q) \/ OverlayFile(q)
      PROVE  result' = "running" /\ at' \notin {"currentHead", "done"}
  BY <1>5, LookDoes, HashFileDoes, OverlayFileDoes DEF Sound, Left, Reads
<1>6. ASSUME NEW q \in Paths, \/ DiffInventory(q) \/ DiffPatch(q) \/ ReadOther(q)
                              \/ SelectArtifact(q) \/ ReadArtifact(q)
      PROVE  result' = "running" /\ at' \notin {"currentHead", "done"}
  BY <1>6, DiffInventoryDoes, DiffPatchDoes, ReadOtherDoes, SelectArtifactDoes, ReadArtifactDoes
  DEF Sound, Left, Entered
<1>7. ASSUME NEW q \in Paths, DiffLayers(q)
      PROVE  /\ result' = "done" => call.target = "commit"
             /\ at' \in {"currentHead", "done"} => call.target = "commit"
  BY <1>7, DiffLayersDoes DEF Entered
<1> QED
  BY <1>1, <1>2, <1>3, <1>4, <1>5, <1>6, <1>7

(* Others leave m as it is, unless something returns.                      *)
LEMMA IsOfDisturbed ==
  ASSUME Sound, DigestInv, InWorktree, taken # 0, Disturbs, ~ returned',
         NEW m, IsOf(m)
  PROVE  IsOf(m)'
<1>1. /\ UNCHANGED <<call, at, todo, listed, mark, copy, digest, first, taken, capture, result>>
      /\ Keeps(world') /\ result = "running"
  BY DEF Disturbs
<1>2. PICK w : w = world'
  OBVIOUS
<1>3. ASSUME NEW p \in Paths
      PROVE  /\ (Steady(p) \/ Settled(p) => AgreesOn(m, p))'
             /\ (Steady(p) /\ Watched(p) => MarkTells(p, Says(p)))'
  <2>1. /\ Says(p)' = Says(p) /\ (Watched(p)' <=> Watched(p)) /\ (Settled(p)' <=> Settled(p))
    BY <1>1 DEF Says, Hashed, Watched, Settled, Passed, First
  <2>2. Steady(p)' => Steady(p) /\ (Watched(p) => Version(p)' = Version(p))
    <3> SUFFICES ASSUME Steady(p)', Watched(p)
                 PROVE  Steady(p) /\ Version(p)' = Version(p)
      BY DEF Steady
    <3>1. ContentOf(w.work, p) = Says(p)
      BY <1>2, <2>1 DEF Steady
    <3>2. Digested(p)
      BY DEF DigestInv
    <3>3. Seen(p, Says(p))
      BY <3>2 DEF Digested, SeenInv
    <3>4. PICK v \in past : ContentOf(v.work, p) = Says(p)
      BY <3>3 DEF Seen
    <3>5. world.work[p] = w.work[p]
      BY <1>1, <1>2, <3>1, <3>4 DEF Keeps
    <3> QED
      BY <1>2, <3>1, <3>5 DEF Steady, Version, ContentOf
  <2>3. (Steady(p) \/ Settled(p))' => AgreesOn(m, p)'
    <3> SUFFICES ASSUME (Steady(p) \/ Settled(p))'
                 PROVE  AgreesOn(m, p)'
      OBVIOUS
    <3>1. AgreesOn(m, p)
      BY <2>1, <2>2 DEF IsOf
    <3>2. PICK c : c = Says(p)
      OBVIOUS
    <3>3. Tells(p, c)
      BY <3>1, <3>2 DEF AgreesOn
    <3>4. Tells(p, c)'
      BY <1>1, <3>3
      DEF Tells, Overlaid, SourceOf, Inventoried, StatusOf, OthersOf, OtherIs, ArtifactKnown,
          ArtifactsTaken, LayersKnown, LayersFor, Changed, IndexAt
    <3>5. Tells(p, Says(p))'
      BY <1>1, <3>2, <3>4, SaysLater
    <3> QED
      BY <2>1, <3>1, <3>5 DEF AgreesOn
  <2>4. Steady(p)' /\ Watched(p)' => MarkTells(p, Says(p))'
    <3> SUFFICES ASSUME Steady(p)', Watched(p)
                 PROVE  MarkTells(p, Says(p))'
      BY <2>1
    <3>1. MarkTells(p, Says(p)) /\ Version(p)' = Version(p)
      BY <2>2 DEF IsOf
    <3> QED
      BY <1>1, <2>1, <3>1 DEF MarkTells, First
  <2> QED
    BY <2>3, <2>4
<1>4. ASSUME NEW p \in Paths
      PROVE  (\/ Blob(world.index, p) = Blob(copy.index, p)
              \/ taken = 3 /\ at \in {"currentHead", "done"}
              => Blob(m.index, p) = Blob(copy.index, p))'
  <2>1. PICK v \in past : IsCopy(v)
    BY DEF Sound, FoundInv, Copied, InWorktree
  <2>2. Blob(v.index, p) = Blob(copy.index, p)
    BY <2>1 DEF IsCopy
  <2>3. Blob(w.index, p) = Blob(copy.index, p) => Blob(world.index, p) = Blob(copy.index, p)
    BY <1>1, <1>2, <2>2 DEF Keeps
  <2> QED
    BY <1>1, <1>2, <2>3 DEF IsOf
<1>5. (world.head = HeadOid \/ result = "done" => m.head = HeadOid)'
  <2>1. PICK v \in past : v.head = HeadOid
    BY DEF Sound, FoundInv, Copied, InWorktree
  <2>2. w.head = HeadOid => world.head = HeadOid
    BY <1>1, <1>2, <2>1 DEF Keeps
  <2> QED
    BY <1>1, <1>2, <2>2 DEF IsOf
<1> QED
  BY <1>3, <1>4, <1>5 DEF IsOf

(* The first digest is kept.                                               *)
LEMMA FirstKept ==
  ASSUME Sound, ~ Failing,
         \/ EndDigest \/ EndOverlay \/ MergeChanges \/ CompareIndex \/ CompareHead
         \/ EndArtifacts
         \/ \E q \in Paths :
              \/ ListDirty(q) \/ LookAtFile(q) \/ HashFile(q) \/ ListOverlay(q)
              \/ OverlayFile(q) \/ DiffInventory(q) \/ DiffPatch(q) \/ ListOthers(q)
              \/ ReadOther(q) \/ SelectArtifact(q) \/ ReadArtifact(q) \/ DiffLayers(q)
  PROVE  /\ taken # 0 => first' = first
         /\ taken = 0 /\ call.target = "worktree" /\ ~ EndDigest => taken' = 0
<1>1. CASE EndDigest \/ EndOverlay \/ MergeChanges \/ CompareIndex \/ CompareHead \/ EndArtifacts
  BY <1>1, EndDigestDoes, EndOverlayDoes, MergeDoes, CompareIndexDoes, CompareHeadDoes,
     EndArtifactsDoes DEF Held3
<1>2. ASSUME NEW q \in Paths, \/ ListDirty(q) \/ ListOverlay(q) \/ ListOthers(q) \/ LookAtFile(q)
                              \/ HashFile(q) \/ OverlayFile(q)
      PROVE  first' = first /\ taken' = taken
  <2>1. CASE ListDirty(q) \/ ListOverlay(q) \/ ListOthers(q)
    BY <2>1 DEF ListDirty, ListOverlay, ListOthers, Listing, digestVars
  <2>2. CASE LookAtFile(q) \/ HashFile(q) \/ OverlayFile(q)
    BY <2>2, LookDoes, HashFileDoes, OverlayFileDoes DEF Sound, Held3
  <2> QED
    BY <1>2, <2>1, <2>2
<1>3. ASSUME NEW q \in Paths, \/ DiffInventory(q) \/ DiffPatch(q) \/ ReadOther(q)
                              \/ SelectArtifact(q) \/ ReadArtifact(q)
      PROVE  first' = first /\ taken' = taken
  BY <1>3, DiffInventoryDoes, DiffPatchDoes, ReadOtherDoes, SelectArtifactDoes, ReadArtifactDoes
  DEF Sound, Held3
<1>4. ASSUME NEW q \in Paths, DiffLayers(q)
      PROVE  first' = first /\ (call.target = "worktree" => taken' = taken)
  BY <1>4, DiffLayersDoes
<1> QED
  BY <1>1, <1>2, <1>3, <1>4

LEMMA WorktreeStep ==
  ASSUME Sound, DigestInv, StateInv, [Next]_vars, InWorktree', taken' # 0, ~ returned'
  PROVE  (\E m \in past : IsOf(m))'
<1>1. CASE Others
  <2>1. Disturbs
    BY <1>1, OthersDisturb DEF Sound, FoundInv
  <2>2. InWorktree /\ taken # 0 /\ ~ returned /\ past \subseteq past'
    BY <2>1 DEF Disturbs, InWorktree, Alive
  <2>3. PICK m \in past : IsOf(m)
    BY <2>2 DEF StateInv
  <2>4. IsOf(m)'
    BY <2>1, <2>2, <2>3, IsOfDisturbed
  <2> QED
    BY <2>2, <2>4
<1>2. CASE UNCHANGED vars
  <2>1. /\ InWorktree /\ taken # 0 /\ ~ returned
        /\ UNCHANGED <<world, clock, moves, returned, past, call, at, todo, listed, mark>>
        /\ UNCHANGED <<copy, digest, first, taken, capture, result>>
    BY <1>2, VarsKept DEF InWorktree, Alive
  <2>2. PICK m \in past : IsOf(m)
    BY <2>1 DEF StateInv
  <2>3. IsOf(m)'
    BY <2>1, <2>2
    DEF IsOf, AgreesOn, Tells, Overlaid, SourceOf, Inventoried, StatusOf, OthersOf, OtherIs,
        ArtifactKnown, ArtifactsTaken, LayersKnown, LayersFor, Changed, IndexAt, MarkTells,
        Steady, Settled, Watched, Passed, Says, Hashed, First, Version
  <2> QED
    BY <2>1, <2>3
<1>3. ~ Failing /\ ~ Cancel
  BY CancelFails DEF Failing, Fail, InWorktree, Alive
<1>4. ~ ResolveHead /\ ~ LookAtIndex
  BY <1>3, ResolveHeadDoes, LookAtIndexDoes DEF InWorktree, Alive, Entered, Kept
<1>5. ~ CopyIndex
  <2> SUFFICES ASSUME CopyIndex
               PROVE  FALSE
    OBVIOUS
  <2>1. call' = call /\ call.target = "worktree"
    BY <1>3, CopyIndexDoes DEF Kept, InWorktree
  <2>2. taken' = taken /\ at = "copy"
    BY <1>3, <2>1, CopyIndexDoes
  <2> QED
    BY <2>2 DEF Sound, PlaceInv
<1>6. CASE \/ EndDigest \/ EndOverlay \/ MergeChanges \/ CompareIndex \/ CompareHead
           \/ EndArtifacts
           \/ \E q \in Paths :
                \/ ListDirty(q) \/ LookAtFile(q) \/ HashFile(q) \/ ListOverlay(q)
                \/ OverlayFile(q) \/ DiffInventory(q) \/ DiffPatch(q) \/ ListOthers(q)
                \/ ReadOther(q) \/ SelectArtifact(q) \/ ReadArtifact(q) \/ DiffLayers(q)
  <2>1. Alive /\ call' = call
    BY <1>6, StillCapturing
  <2>2. InWorktree /\ call.target = "worktree"
    BY <2>1 DEF InWorktree
  <2>3. Kept /\ copy' = copy
    BY <1>3, <1>6, CopyKept
  <2>4. CASE taken = 0
    <3>1. EndDigest
      BY <1>3, <1>6, <2>2, <2>4, FirstKept
    <3>2. IsOf(world)' /\ world' = world /\ world \in past /\ past' = past
      BY <1>3, <2>2, <2>3, <2>4, <3>1, IsOfFirst DEF Kept, Sound, FoundInv
    <3> QED
      BY <3>2
  <2>5. CASE taken # 0
    <3>1. first' = first
      BY <1>3, <1>6, <2>5, FirstKept
    <3>2. ~ returned /\ past' = past /\ world' = world
      BY <2>3 DEF Kept
    <3>3. PICK m \in past : IsOf(m)
      BY <2>2, <2>5, <3>2 DEF StateInv
    <3>4. ASSUME NEW p \in Paths
          PROVE  /\ (Steady(p) \/ Settled(p))' => AgreesOn(m, p)'
                 /\ Steady(p)' /\ Watched(p)' => MarkTells(p, Says(p))'
      <4>1. /\ Steady(p) \/ Settled(p) => AgreesOn(m, p)
            /\ Steady(p) /\ Watched(p) => MarkTells(p, Says(p))
        BY <3>3 DEF IsOf
      <4> QED
        BY <1>3, <1>6, <2>2, <2>3, <2>5, <3>1, <4>1, IsOfStep
    <3>5. /\ result' = "done" => world.head = HeadOid
          /\ taken' = 3 /\ at' \in {"currentHead", "done"} =>
               IsCopy(world) \/ (taken = 3 /\ at = "currentHead")
      BY <1>3, <1>6, <2>1, <2>2, <2>3, ComparedStep
    <3>6. ASSUME NEW p \in Paths
          PROVE  (\/ Blob(world.index, p) = Blob(copy.index, p)
                  \/ taken = 3 /\ at \in {"currentHead", "done"}
                  => Blob(m.index, p) = Blob(copy.index, p))'
      BY <2>3, <3>2, <3>3, <3>5 DEF IsOf, IsCopy
    <3>7. (world.head = HeadOid \/ result = "done" => m.head = HeadOid)'
      BY <3>2, <3>3, <3>5 DEF IsOf
    <3>8. IsOf(m)'
      BY <3>4, <3>6, <3>7 DEF IsOf
    <3> QED
      BY <3>2, <3>8
  <2> QED
    BY <2>4, <2>5
<1> QED
  BY <1>1, <1>2, <1>3, <1>4, <1>5, <1>6, NextDoes

(* A capture of the index is of the state its copy was made of.            *)
LEMMA IndexStep ==
  ASSUME Sound, StateInv, [Next]_vars, Alive', call.target = "index", ~ returned'
  PROVE  (\E m \in past : IsCopy(m) /\ (world.head = HeadOid \/ result = "done"
                                          => m.head = HeadOid))'
<1>1. CASE Others
  <2>1. Disturbs
    BY <1>1, OthersDisturb DEF Sound, FoundInv
  <2>2. /\ Alive /\ ~ returned /\ past \subseteq past' /\ copy' = copy /\ Keeps(world')
        /\ result' = "running"
    BY <2>1 DEF Disturbs, Alive
  <2>3. PICK m \in past : IsCopy(m) /\ (world.head = HeadOid => m.head = HeadOid)
    BY <2>2 DEF StateInv
  <2>4. PICK v \in past : v.head = HeadOid
    BY <2>2 DEF Sound, FoundInv, Copied
  <2>5. world'.head = HeadOid => world.head = HeadOid
    BY <2>2, <2>4 DEF Keeps
  <2>6. IsCopy(m)'
    BY <2>2, <2>3 DEF IsCopy
  <2> QED
    BY <2>2, <2>3, <2>5, <2>6
<1>2. CASE UNCHANGED vars
  <2>1. Alive /\ ~ returned /\ UNCHANGED <<world, past, copy, result>>
    BY <1>2, VarsKept DEF Alive
  <2>2. PICK m \in past : IsCopy(m) /\ (world.head = HeadOid \/ result = "done"
                                          => m.head = HeadOid)
    BY <2>1 DEF StateInv
  <2>3. IsCopy(m)'
    BY <2>1, <2>2 DEF IsCopy
  <2> QED
    BY <2>1, <2>2, <2>3
<1>3. ~ Failing /\ ~ Cancel
  BY CancelFails DEF Failing, Fail, Alive
<1>4. ~ ResolveHead /\ ~ LookAtIndex
  BY <1>3, ResolveHeadDoes, LookAtIndexDoes DEF Alive, Entered
<1>5. CASE CopyIndex
  <2>1. Kept /\ copy' = CopyOfIndex /\ result' = "running"
    BY <1>3, <1>5, CopyIndexDoes
  <2>2. IsCopy(world)' /\ world' = world /\ past' = past /\ world \in past
    BY <2>1, TreesType DEF Sound, FoundInv, Kept, IsCopy
  <2> QED
    BY <2>1, <2>2
<1>6. CASE \/ EndDigest \/ EndOverlay \/ MergeChanges \/ CompareIndex \/ CompareHead
           \/ EndArtifacts
           \/ \E q \in Paths :
                \/ ListDirty(q) \/ LookAtFile(q) \/ HashFile(q) \/ ListOverlay(q)
                \/ OverlayFile(q) \/ DiffInventory(q) \/ DiffPatch(q) \/ ListOthers(q)
                \/ ReadOther(q) \/ SelectArtifact(q) \/ ReadArtifact(q) \/ DiffLayers(q)
  <2>1. Alive /\ Kept /\ copy' = copy
    BY <1>3, <1>6, StillCapturing, CopyKept
  <2>2. ~ returned /\ past' = past /\ world' = world
    BY <2>1 DEF Kept
  <2>3. PICK m \in past : IsCopy(m) /\ (world.head = HeadOid \/ result = "done"
                                          => m.head = HeadOid)
    BY <2>1, <2>2 DEF StateInv
  <2>4. result' = "done" => world.head = HeadOid
    BY <1>3, <1>6, <2>1, ComparedStep
  <2>5. IsCopy(m)'
    BY <2>1, <2>3 DEF IsCopy
  <2> QED
    BY <2>2, <2>3, <2>4, <2>5
<1> QED
  BY <1>1, <1>2, <1>3, <1>4, <1>5, <1>6, NextDoes

LEMMA CallKept ==
  ASSUME [Next]_vars, world \in past, TypeOK
  PROVE  call' = call
<1>1. CASE Others
  BY <1>1, OthersDisturb DEF Disturbs
<1>2. CASE Cancel
  BY <1>2, CancelFails DEF Failing
<1>3. CASE CopyIndex
  BY <1>3, CopyIndexDoes DEF Failing, Kept
<1>4. CASE UNCHANGED vars
  BY <1>4, VarsKept
<1> QED
  BY <1>1, <1>2, <1>3, <1>4, NextDoes, CopyKept DEF Kept

LEMMA StateStep ==
  ASSUME Sound, DigestInv, StateInv, [Next]_vars
  PROVE  StateInv'
<1>1. call' = call
  BY CallKept DEF Sound, FoundInv
<1>2. (InWorktree /\ taken # 0 /\ ~ returned => \E m \in past : IsOf(m))'
  BY WorktreeStep
<1>3. (Alive /\ call.target = "index" /\ ~ returned =>
         \E m \in past : IsCopy(m) /\ (world.head = HeadOid \/ result = "done"
                                         => m.head = HeadOid))'
  BY <1>1, IndexStep
<1> QED
  BY <1>2, <1>3 DEF StateInv

LEMMA StateInit ==
  ASSUME Init
  PROVE  DigestInv /\ FixedInv /\ StateInv
<1>1. ~ Alive /\ ~ InWorktree
  BY DEF Init, Alive, InWorktree
<1> QED
  BY <1>1 DEF DigestInv, FixedInv, StateInv

(* What a path of a finished capture shows of the state m.                 *)
LEMMA WorktreeShown ==
  ASSUME Sound, DigestInv, result = "done", call.target = "worktree", NEW m, IsOf(m),
         NEW p \in Paths
  PROVE  SourceIs(m, p) /\ ChangeIs(m, p) /\ LayersAre(m, p) /\ ArtifactIs(m, p)
<1>1. at = "done" /\ taken = 3 /\ InWorktree
  BY DEF Sound, PlaceInv, InWorktree, Alive
<1>2. Blob(m.index, p) = Blob(copy.index, p)
  BY <1>1 DEF IsOf
<1>3. PICK c : c = Says(p)
  OBVIOUS
<1>4. (Watched(p) => ContentOf(m.work, p) = c) /\ Tells(p, c)
  BY <1>1, <1>3 DEF IsOf, Settled, AgreesOn
<1>5. Digested(p)
  BY <1>1 DEF DigestInv
<1>6. ~ Watched(p) => c = Absent
  BY <1>1, <1>3, <1>5 DEF Digested, UnwatchedInv, Says, Hashed, Watched
<1>7. Selected(m, p) = c
  BY <1>2, <1>4, <1>6 DEF Selected, Watched
<1>8. (IsUntracked(m, p) <=> OtherIs(p, c)) /\ (p \in capture.untracked <=> OtherIs(p, c))
  <2>1. p \in capture.untracked <=> OtherIs(p, c)
    BY <1>1, <1>4 DEF Tells, OthersOf
  <2>2. IsUntracked(m, p) <=> OtherIs(p, c)
    BY <1>2, <1>4 DEF IsUntracked, OtherIs, Untracked, Watched
  <2> QED
    BY <2>1, <2>2
<1>9. SourceIs(m, p)
  <2>1. p \in Sources => \/ capture.sources[p] = IF c \in Binary THEN Absent ELSE c
                         \/ c \in Binary /\ capture.sources[p] = c
    BY <1>1, <1>4 DEF Tells, Overlaid, SourceOf
  <2>2. p \notin Sources => capture.sources[p] = Absent
    BY <1>5 DEF Digested, UnreadInv
  <2> QED
    BY <1>7, <2>1, <2>2 DEF SourceIs, SourceShown
<1>10. ChangeIs(m, p)
  <2>1. capture.inventory[p]
          = Status(BaseTree[p], IF Blob(copy.index, p) = Absent THEN Absent ELSE c)
    BY <1>1, <1>4 DEF Tells, Inventoried, StatusOf
  <2> QED
    BY <1>2, <1>7, <1>8, <2>1 DEF ChangeIs, ChangeShown
<1>11. LayersAre(m, p)
  <2>1. capture.layers[p] = IF Changed(p) THEN LayersFor(p, c) ELSE {}
    BY <1>1, <1>4 DEF Tells, LayersKnown
  <2>2. Changed(p) <=> ChangeShown(m, p) # {}
    BY <1>10 DEF ChangeIs, Changed
  <2>3. LayersFor(p, c) = LayersShown(m, p)
    BY <1>2, <1>4, <1>8 DEF LayersFor, LayersShown, IndexAt, Watched
  <2> QED
    BY <2>1, <2>2, <2>3 DEF LayersAre
<1>12. ArtifactIs(m, p)
  BY <1>1, <1>4, <1>7 DEF ArtifactIs, Tells, ArtifactKnown, ArtifactsTaken
<1> QED
  BY <1>9, <1>10, <1>11, <1>12

LEMMA FixedShown ==
  ASSUME Sound, FixedInv, result = "done", call.target # "worktree", NEW m,
         call.target = "index" => IsCopy(m), NEW p \in Paths
  PROVE  SourceIs(m, p) /\ ChangeIs(m, p) /\ LayersAre(m, p) /\ ArtifactIs(m, p)
<1>0. call.target \in {"commit", "index"} /\ ~ call.untracked
  BY CallFields DEF Sound, TypeOK
<1>1. at = "done" /\ Alive
  BY DEF Sound, PlaceInv, Alive
<1>2. Fixed(p)
  BY <1>1 DEF FixedInv
<1>3. Selected(m, p) = IndexAt(p)
  BY <1>0 DEF Selected, IndexAt, IsCopy
<1>4. ~ IsUntracked(m, p)
  BY DEF IsUntracked
<1>5. SourceIs(m, p)
  BY <1>2, <1>3 DEF Fixed, SourceIs, SourceShown
<1>6. ChangeIs(m, p)
  BY <1>2, <1>3, <1>4 DEF Fixed, ChangeIs, ChangeShown
<1>7. LayersAre(m, p)
  <2>1. capture.layers[p] = IF Changed(p) THEN LayersFor(p, Absent) ELSE {}
    BY <1>1, <1>2 DEF Fixed, LayersKnown
  <2>2. Changed(p) <=> ChangeShown(m, p) # {}
    BY <1>6 DEF ChangeIs, Changed
  <2>3. ChangeShown(m, p) # {} => LayersFor(p, Absent) = LayersShown(m, p)
    BY <1>0, <1>2, <1>4 DEF Fixed, LayersFor, LayersShown, IndexAt, IsCopy
  <2> QED
    BY <2>1, <2>2, <2>3 DEF LayersAre
<1>8. ArtifactIs(m, p)
  BY <1>1, <1>2, <1>3 DEF ArtifactIs, Fixed, ArtifactKnown, ArtifactsTaken
<1> QED
  BY <1>5, <1>6, <1>7, <1>8

(* A capture that succeeds while nothing returns is of one state: there    *)
(* was a moment since it began at which HEAD, index and worktree were what *)
(* its sources, changes, layers and requested inputs together show         *)
(* (capture_snapshot).                                                     *)
THEOREM CapturesAreOfOneState == Spec => []CaptureIsOfOneState
<1>1. Init => Sound /\ DigestInv /\ FixedInv /\ StateInv
  BY SoundInit, StateInit
<1>2. Sound /\ DigestInv /\ FixedInv /\ StateInv /\ [Next]_vars
        => (Sound /\ DigestInv /\ FixedInv /\ StateInv)'
  BY SoundStep, DigestStep, FixedStep, StateStep
<1>3. Sound /\ DigestInv /\ FixedInv /\ StateInv => CaptureIsOfOneState
  <2> SUFFICES ASSUME Sound, DigestInv, FixedInv, StateInv, result = "done", ~ returned
               PROVE  \E w \in past : Shows(w)
    BY DEF CaptureIsOfOneState
  <2>1. Alive /\ call.target \in {"commit", "index", "worktree"} /\ world \in past
    BY CallFields DEF Sound, PlaceInv, FoundInv, TypeOK, Alive
  <2>2. CASE call.target = "worktree"
    <3>1. InWorktree /\ taken # 0
      BY <2>1, <2>2 DEF InWorktree, Sound, PlaceInv
    <3>2. PICK m \in past : IsOf(m)
      BY <3>1 DEF StateInv
    <3>3. m.head = HeadOid
      BY <3>2 DEF IsOf
    <3>4. ASSUME NEW p \in Paths
          PROVE  SourceIs(m, p) /\ ChangeIs(m, p) /\ LayersAre(m, p) /\ ArtifactIs(m, p)
      BY <2>2, <3>2, WorktreeShown
    <3> QED
      BY <3>2, <3>3, <3>4 DEF Shows
  <2>3. CASE call.target = "index"
    <3>1. PICK m \in past : IsCopy(m) /\ m.head = HeadOid
      BY <2>1, <2>3 DEF StateInv
    <3>2. ASSUME NEW p \in Paths
          PROVE  SourceIs(m, p) /\ ChangeIs(m, p) /\ LayersAre(m, p) /\ ArtifactIs(m, p)
      BY <2>3, <3>1, FixedShown
    <3> QED
      BY <3>1, <3>2 DEF Shows
  <2>4. CASE call.target = "commit"
    <3>1. ASSUME NEW p \in Paths
          PROVE  /\ SourceIs(world, p) /\ ChangeIs(world, p)
                 /\ LayersAre(world, p) /\ ArtifactIs(world, p)
      BY <2>4, FixedShown
    <3> QED
      BY <2>1, <2>4, <3>1 DEF Shows
  <2> QED
    BY <2>1, <2>2, <2>3, <2>4
<1> QED
  BY <1>1, <1>2, <1>3, PTL DEF Spec
=============================================================================
