------------------------------ MODULE GitCapture ------------------------------
(***************************************************************************)
(* One Repository::capture_snapshot (src/src/git.rs) while somebody else   *)
(* works in the same worktree.                                             *)
(*                                                                         *)
(* A capture asks Git and the file system many questions, one path after   *)
(* the other, and nothing stops an editor or another git between two of    *)
(* them.  It copies the index, takes a digest of everything that differs   *)
(* from it, reads sources and changes, and takes the digest again, twice;  *)
(* index and HEAD are compared too.                                        *)
(*                                                                         *)
(* A step asks one question about one path; reading a file is two steps,   *)
(* between which it may change.  A file has two clocks: a stamp that every *)
(* write changes (inode, size and both times to the nanosecond, which      *)
(* same_file_version compares), and the coarse time that Git compares with *)
(* its index.  The contents of all files have one size, so that Git has    *)
(* nothing but the time to go by.                                          *)
(***************************************************************************)
EXTENDS Naturals

CONSTANTS
  Paths,      \* the paths
  Rank,       \* the order in which they are listed and visited
  Sources,    \* those of a supported language; the others are artifacts
  Contents,   \* contents of files
  Binary,     \* contents that are not text
  BaseTree,   \* contents of the base commit
  HeadTree,   \* contents of the commit the capture was asked for
  HeadOid,    \* that commit
  Heads,      \* commits HEAD may point to
  Worlds,     \* what index and worktree may look like at the beginning
  Calls,      \* targets and paths a capture may be asked for
  MaxMoves,   \* bound on what others do meanwhile
  MaxTime,    \* bound on Git's clock
  Absent,     \* the content of no file
  Torn,       \* bytes of two versions of a file
  NoValue     \* Rust's None

Held == Contents \union {Absent}
Tree == [Paths -> Held]

(* How an index compares with itself and with files: see Modified.         *)
Times == 0 .. MaxTime
Entry == [blob : Held, time : Times]
File == [content : Held, time : Times, stamp : 0 .. MaxMoves]
World ==
  [head : Heads, index : [Paths -> Entry], indexTime : Times,
   indexStamp : 0 .. MaxMoves, work : [Paths -> File]]

ASSUME CaptureAssumption ==
  /\ Rank \in [Paths -> Nat]
  /\ \A p, q \in Paths : Rank[p] = Rank[q] => p = q
  /\ Paths # {} /\ Sources \subseteq Paths
  /\ Binary \subseteq Contents
  /\ BaseTree \in Tree /\ HeadTree \in Tree
  /\ HeadOid \in Heads
  /\ Worlds \subseteq World
  /\ Calls \subseteq
       [target : {"commit", "index", "worktree"}, untracked : BOOLEAN,
        evidence : SUBSET Paths, requested : SUBSET Paths]
  /\ \A c \in Calls : c.target # "worktree" => ~ c.untracked
  /\ Absent \notin Contents /\ Torn \notin Held /\ NoValue \notin Held \union {Torn}
  /\ MaxMoves \in Nat /\ MaxTime \in Nat
  /\ NoValue \notin 0 .. MaxMoves + 1

VARIABLES
  world,     \* HEAD, index and worktree
  clock,     \* Git's time
  moves,     \* what others have done since the capture began
  returned,  \* history: something became again what it had been (Returns)
  past,      \* history: every world since the capture began
  call,      \* what the capture was asked for
  at,        \* the pass it is in
  todo,      \* the paths left in it
  listed,    \* the paths a listing found
  mark,      \* version of the file being read
  copy,      \* the private copy of the index
  digest,    \* the digest being taken
  first,     \* the first that was taken
  taken,     \* how many were taken
  capture,   \* what it has found
  result     \* "running", "done", or why it failed

worldVars == <<world, clock, moves, returned, past>>
scanVars == <<at, todo, listed, mark>>
digestVars == <<digest, first, taken>>
vars == <<worldVars, call, scanVars, copy, digestVars, capture, result>>

(***************************************************************************)
(* Git's verdicts.                                                         *)
(***************************************************************************)
Blob(index, p) == index[p].blob
ContentOf(work, p) == work[p].content

(* ls-files --modified, --deleted: an entry whose time is the file's is    *)
(* believed, unless it is as young as the index ("racily clean"); other    *)
(* files are compared by content.                                          *)
Modified(index, indexTime, work, p) ==
  /\ Blob(index, p) # Absent
  /\ \/ ContentOf(work, p) = Absent
     \/ /\ ContentOf(work, p) # Blob(index, p)
        /\ work[p].time # index[p].time \/ index[p].time >= indexTime

(* ls-files --others *)
Untracked(index, work, p) == Blob(index, p) = Absent /\ ContentOf(work, p) # Absent

(* What git diff takes for the new side: of tracked paths, the file where  *)
(* it differs from the index, and the index where it does not.             *)
NewSide(index, indexTime, work, p) ==
  IF Modified(index, indexTime, work, p)
  THEN ContentOf(work, p) ELSE Blob(index, p)

Statuses == {"same", "added", "deleted", "modified"}
Status(old, new) ==
  IF old = new THEN "same"
  ELSE CASE old = Absent -> "added"
         [] new = Absent -> "deleted"
         [] OTHER -> "modified"

(***************************************************************************)
(* What a capture should show of a world: the sources of the target, the   *)
(* changes since the base, and the layers each change is made in.          *)
(***************************************************************************)
Selected(w, p) ==
  CASE call.target = "commit" -> HeadTree[p]
    [] call.target = "index" -> Blob(w.index, p)
    [] call.target = "worktree" ->
         IF \/ Blob(w.index, p) # Absent
            \/ call.untracked /\ p \notin call.evidence
         THEN ContentOf(w.work, p) ELSE Absent

SourceShown(w, p) ==
  IF p \notin Sources \/ Selected(w, p) \in Binary \union {Absent}
  THEN Absent ELSE Selected(w, p)

IsUntracked(w, p) ==
  /\ call.target = "worktree" /\ call.untracked /\ p \notin call.evidence
  /\ Untracked(w.index, w.work, p)

ChangeShown(w, p) ==
  LET tracked ==
        IF call.target = "worktree" /\ Blob(w.index, p) = Absent
        THEN Absent ELSE Selected(w, p)
  IN  ({Status(BaseTree[p], tracked)} \ {"same"})
        \union (IF IsUntracked(w, p) THEN {"untracked"} ELSE {})

Layers == {"committed", "staged", "unstaged", "untracked"}
LayersShown(w, p) ==
  (IF HeadTree[p] # BaseTree[p] THEN {"committed"} ELSE {})
    \union (IF call.target # "commit" /\ Blob(w.index, p) # HeadTree[p]
            THEN {"staged"} ELSE {})
    \union (IF /\ call.target = "worktree" /\ Blob(w.index, p) # Absent
               /\ ContentOf(w.work, p) # Blob(w.index, p)
            THEN {"unstaged"} ELSE {})
    \union (IF IsUntracked(w, p) THEN {"untracked"} ELSE {})

(***************************************************************************)
(* Others: editors, and git itself.                                        *)
(***************************************************************************)
Worktree(w) == [p \in Paths |-> ContentOf(w.work, p)]
IndexBlobs(w) == [p \in Paths |-> Blob(w.index, p)]

(* Something is again what it was in the past, after being something else, *)
(* or a file was written again with what it held.                          *)
Returns(w) ==
  \/ \E v \in past : v.head = w.head /\ world.head # w.head
  \/ \E v \in past, p \in Paths :
       \/ Blob(v.index, p) = Blob(w.index, p) /\ Blob(world.index, p) # Blob(w.index, p)
       \/ /\ ContentOf(v.work, p) = ContentOf(w.work, p)
          /\ world.work[p] # w.work[p]

Move(w) ==
  /\ result = "running"
  /\ moves < MaxMoves
  /\ moves' = moves + 1
  /\ world' = w
  /\ returned' = (returned \/ Returns(w))
  /\ past' = past \union {w}
  /\ UNCHANGED <<clock, call, scanVars, copy, digestVars, capture, result>>

NoFile == [content |-> Absent, time |-> 0, stamp |-> 0]
NoEntry == [blob |-> Absent, time |-> 0]

Write(p, c) ==
  Move([world EXCEPT !.work[p] = [content |-> c, time |-> clock, stamp |-> moves + 1]])

Remove(p) ==
  /\ ContentOf(world.work, p) # Absent
  /\ Move([world EXCEPT !.work[p] = NoFile])

(* git add or git rm: Git marks the entries that the old index held to be  *)
(* racily clean and whose files do differ, for the new index is younger.   *)
Staged(p) ==
  IF ContentOf(world.work, p) = Absent THEN NoEntry
  ELSE [blob |-> ContentOf(world.work, p), time |-> world.work[p].time]
Smudged(p) ==
  IF /\ Modified(world.index, world.indexTime, world.work, p)
     /\ ContentOf(world.work, p) # Absent
  THEN [blob |-> Blob(world.index, p), time |-> 0] ELSE world.index[p]

Stage(p) ==
  /\ Blob(world.index, p) # Absent \/ ContentOf(world.work, p) # Absent
  /\ Move([world EXCEPT
       !.index = [q \in Paths |-> IF q = p THEN Staged(q) ELSE Smudged(q)],
       !.indexTime = clock, !.indexStamp = moves + 1])

(* git commit or git checkout, seen as a new HEAD.                         *)
MoveHead(h) ==
  /\ h # world.head
  /\ Move([world EXCEPT !.head = h])

Tick ==
  /\ clock < MaxTime
  /\ result = "running"
  /\ clock' = clock + 1
  /\ UNCHANGED <<world, moves, returned, past, call, scanVars, copy, digestVars, capture,
                 result>>

Others ==
  \/ \E p \in Paths :
       \/ \E c \in Contents : Write(p, c)
       \/ Remove(p)
       \/ Stage(p)
  \/ \E h \in Heads : MoveHead(h)
  \/ Tick

(***************************************************************************)
(* The capture.                                                            *)
(***************************************************************************)
Passes ==
  {"head", "index", "copy", "list", "hash", "overlayList", "overlayRead", "inventory",
   "patch", "otherList", "otherRead", "currentIndex", "currentHead",
   "artifacts", "artifact", "layers", "done"}
Results == {"running", "done", "mismatch", "changed", "parameters", "cancelled"}

(* What the report of an artifact says of its content: shown as text, or   *)
(* left out for one reason or the other.                                   *)
Forms == {"text", "binary", "non_regular"}
Report(content) ==
  IF content = Absent THEN "non_regular"
  ELSE IF content \in Binary THEN "binary" ELSE "text"

Captures ==
  [sources : [Paths -> Held], inventory : [Paths -> Statuses],
   patch : [Paths -> Statuses], untracked : SUBSET Paths,
   reports : [Paths -> Forms \union {NoValue}],
   artifacts : [Paths -> Contents \union {NoValue}], layers : [Paths -> SUBSET Layers]]
Nothing ==
  [sources |-> [p \in Paths |-> Absent], inventory |-> [p \in Paths |-> "same"],
   patch |-> [p \in Paths |-> "same"], untracked |-> {},
   reports |-> [p \in Paths |-> NoValue],
   artifacts |-> [p \in Paths |-> NoValue], layers |-> [p \in Paths |-> {}]]
Unhashed == [p \in Paths |-> NoValue]
Copies == [index : [Paths -> Entry], time : Times]
NoIndex == [index |-> [p \in Paths |-> NoEntry], time |-> 0]

(* The worlds Git can leave behind: an entry with the time of its file and *)
(* another content is as young as the index.  Time 0 is for Smudged.       *)
WellTimed(index, indexTime, work) ==
  \A p \in Paths :
    /\ ContentOf(work, p) # Absent => work[p].time >= 1
    /\ /\ Blob(index, p) # Absent /\ ContentOf(work, p) # Absent
       /\ ContentOf(work, p) # Blob(index, p) /\ work[p].time = index[p].time
       => index[p].time >= indexTime
Begins(w) ==
  /\ WellTimed(w.index, w.indexTime, w.work)
  /\ w.indexTime <= clock /\ w.indexStamp = 0
  /\ \A p \in Paths : w.work[p].stamp = 0 /\ w.work[p].time <= clock

Init ==
  /\ call \in Calls
  /\ world \in Worlds /\ clock \in Times \ {0} /\ Begins(world)
  /\ moves = 0 /\ returned = FALSE /\ past = {world}
  /\ at = "head" /\ todo = {} /\ listed = {} /\ mark = NoValue
  /\ copy = NoIndex /\ digest = Unhashed /\ first = Unhashed /\ taken = 0
  /\ capture = Nothing /\ result = "running"

Running(pass) == at = pass /\ result = "running"

(* An error: the guard of the capture directory removes what was captured. *)
Fail(error) ==
  /\ result' = error
  /\ at' = "done" /\ todo' = {} /\ listed' = {} /\ mark' = NoValue
  /\ copy' = NoIndex /\ digest' = Unhashed /\ first' = Unhashed /\ taken' = 0
  /\ capture' = Nothing

Enter(pass, paths) ==
  /\ at' = pass /\ todo' = paths /\ listed' = {} /\ mark' = NoValue

(* The path a pass visits now.                                             *)
First(p) == p \in todo /\ \A q \in todo : Rank[p] <= Rank[q]

(* A pass goes on with its next path, or to the next pass.                 *)
Proceed(p, pass, paths) ==
  IF todo = {p} THEN Enter(pass, paths)
  ELSE at' = at /\ todo' = todo \ {p} /\ mark' = NoValue /\ UNCHANGED listed

Blobs(tree) == [p \in Paths |-> IF p \in Sources THEN tree[p] ELSE Absent]

(* A target that cannot change is read in one step.                        *)
Changes(tree) == [p \in Paths |-> Status(BaseTree[p], tree[p])]
ReadTree(tree) ==
  capture' = [capture EXCEPT !.sources = Blobs(tree), !.inventory = Changes(tree),
                             !.patch = Changes(tree)]

(* Paths kept for evidence must not be tracked.                            *)
TracksEvidence(tree) == \E p \in call.evidence : tree[p] # Absent

ResolveHead ==
  /\ Running("head")
  /\ IF call.target = "commit"
     THEN IF TracksEvidence(HeadTree)
          THEN Fail("parameters")
          ELSE /\ ReadTree(HeadTree)
               /\ Enter("artifacts", call.requested)
               /\ UNCHANGED <<copy, digestVars, result>>
     ELSE IF world.head # HeadOid THEN Fail("mismatch")
          ELSE /\ Enter("index", {})
               /\ UNCHANGED <<copy, digestVars, capture, result>>
  /\ UNCHANGED <<worldVars, call>>

LookAtIndex ==
  /\ Running("index")
  /\ at' = "copy" /\ mark' = world.indexStamp
  /\ UNCHANGED <<worldVars, call, todo, listed, copy, digestVars, capture, result>>

(* A fault for checking the checks: the copy is as young as its making.    *)
CopyOfIndexNow == [index |-> world.index, time |-> clock]

(* The private copy keeps the time of the index it was made from.          *)
CopyOfIndex == [index |-> world.index, time |-> world.indexTime]

(* The digests of a target "index" are those of the copy.                  *)
CopyIndex ==
  /\ Running("copy")
  /\ IF world.indexStamp # mark THEN Fail("changed")
     ELSE IF TracksEvidence(IndexBlobs(world)) THEN Fail("parameters")
     ELSE /\ copy' = CopyOfIndex
          /\ IF call.target = "index"
             THEN /\ ReadTree(IndexBlobs(world))
                  /\ taken' = 2
                  /\ Enter("currentIndex", {})
             ELSE /\ Enter("list", Paths)
                  /\ capture' = [capture EXCEPT !.sources = Blobs(IndexBlobs(world))]
                  /\ UNCHANGED taken
          /\ UNCHANGED <<digest, first, result>>
  /\ UNCHANGED <<worldVars, call>>

(* Dirty paths, and untracked ones where they count.                       *)
Lists(p) ==
  /\ p \notin call.evidence
  /\ \/ Modified(copy.index, copy.time, world.work, p)
     \/ call.untracked /\ Untracked(copy.index, world.work, p)
ListsUntracked(p) ==
  call.untracked /\ p \notin call.evidence /\ Untracked(copy.index, world.work, p)

(* A listing asks about each path and hands those it found to a pass that  *)
(* reads them.                                                             *)
Listing(p, pass, next, found) ==
  /\ Running(pass) /\ First(p)
  /\ LET all == listed \union (IF found THEN {p} ELSE {})
     IN  IF todo = {p} THEN Enter(next, all)
         ELSE at' = at /\ todo' = todo \ {p} /\ listed' = all /\ UNCHANGED mark
  /\ UNCHANGED <<worldVars, call, copy, digestVars, capture, result>>

ListDirty(p) == Listing(p, "list", "hash", Lists(p))
ListOverlay(p) == Listing(p, "overlayList", "overlayRead", Lists(p))
ListOthers(p) == Listing(p, "otherList", "otherRead", ListsUntracked(p))

(* Reading a file: its version before, then its bytes and the version they *)
(* must still have.                                                        *)
Version(p) == IF ContentOf(world.work, p) = Absent THEN 0 ELSE world.work[p].stamp + 1
Bytes(p) ==
  IF Version(p) = mark THEN ContentOf(world.work, p) ELSE Torn

(* A fault for checking the checks: the version is not compared again.     *)
SameFileVersionUnchecked(p) == p \in Paths
SameFileVersion(p) == Version(p) = mark

Reading(pass, p) == Running(pass) /\ First(p)

Look(pass, p) ==
  /\ Reading(pass, p) /\ mark = NoValue
  /\ mark' = Version(p)
  /\ UNCHANGED <<worldVars, call, at, todo, listed, copy, digestVars, capture, result>>

LookAtFile(p) ==
  \E pass \in {"hash", "overlayRead", "otherRead", "artifact"} : Look(pass, p)

Skip(p) == todo' = todo \ {p} /\ mark' = NoValue /\ UNCHANGED <<at, listed>>

(* hash_dirty_path: an absent path was looked at once, any other twice.    *)
HashFile(p) ==
  /\ Reading("hash", p) /\ mark # NoValue
  /\ IF mark # 0 /\ ~ SameFileVersion(p) THEN Fail("changed")
     ELSE /\ digest' = [digest EXCEPT ![p] = IF mark = 0 THEN Absent ELSE Bytes(p)]
          /\ Skip(p) /\ UNCHANGED <<copy, first, taken, capture, result>>
  /\ UNCHANGED <<worldVars, call>>

(* A digest is complete: the second and the third must equal the first.    *)
EndDigest ==
  /\ Running("hash") /\ todo = {}
  /\ IF taken # 0 /\ digest # first THEN Fail("changed")
     ELSE /\ taken' = taken + 1
          /\ digest' = Unhashed
          /\ IF taken = 0
             THEN first' = digest /\ Enter("overlayList", Paths)
             ELSE UNCHANGED first /\ Enter("currentIndex", {})
          /\ UNCHANGED <<copy, capture, result>>
  /\ UNCHANGED <<worldVars, call>>

(* overlay_worktree: a dirty path loses its blob and gets what the file    *)
(* holds, if it is text.  A file that goes or is replaced while it is read *)
(* may be left out instead of failing the capture.                         *)
Overlay(p, source) ==
  /\ capture' = [capture EXCEPT !.sources[p] = source]
  /\ Skip(p) /\ UNCHANGED <<copy, digestVars, result>>

OverlayFile(p) ==
  /\ Reading("overlayRead", p) /\ mark # NoValue
  /\ \/ /\ p \notin Sources
        /\ Skip(p) /\ UNCHANGED <<copy, digestVars, capture, result>>
     \/ /\ p \in Sources /\ mark = 0
        /\ Overlay(p, Absent)
     \/ /\ p \in Sources /\ mark # 0 /\ SameFileVersion(p)
        /\ Overlay(p, IF Bytes(p) \in Binary THEN Absent ELSE Bytes(p))
     \/ /\ p \in Sources /\ mark # 0 /\ ~ SameFileVersion(p)
        /\ Fail("changed") \/ Overlay(p, Absent)
  /\ UNCHANGED <<worldVars, call>>

EndOverlay ==
  /\ Running("overlayRead") /\ todo = {}
  /\ Enter("inventory", Paths)
  /\ UNCHANGED <<worldVars, call, copy, digestVars, capture, result>>

(* A fault: the inventory compares the base with the index only.           *)
DiffInventoryStaged(p) ==
  /\ Running("inventory") /\ First(p)
  /\ capture' = [capture EXCEPT !.inventory[p] = Status(BaseTree[p], Blob(copy.index, p))]
  /\ Proceed(p, "patch", Paths)
  /\ UNCHANGED <<worldVars, call, copy, digestVars, result>>

(* The raw inventory and the patches are separate runs of git diff.        *)
StatusNow(p) ==
  Status(BaseTree[p], NewSide(copy.index, copy.time, world.work, p))

DiffInventory(p) ==
  /\ Running("inventory") /\ First(p)
  /\ capture' = [capture EXCEPT !.inventory[p] = StatusNow(p)]
  /\ Proceed(p, "patch", Paths)
  /\ UNCHANGED <<worldVars, call, copy, digestVars, result>>

DiffPatch(p) ==
  /\ Running("patch") /\ First(p)
  /\ capture' = [capture EXCEPT !.patch[p] = StatusNow(p)]
  /\ IF call.untracked THEN Proceed(p, "otherList", Paths) ELSE Proceed(p, "otherRead", {})
  /\ UNCHANGED <<worldVars, call, copy, digestVars, result>>

(* capture_untracked: absent before and after is a change too.  Each       *)
(* artifact gets a report.                                                 *)
ReadOther(p) ==
  /\ Reading("otherRead", p) /\ mark # NoValue
  /\ IF ~ SameFileVersion(p) THEN Fail("changed")
     ELSE /\ capture' = [capture EXCEPT !.untracked = @ \union {p},
                                        !.reports[p] = Report(Bytes(p))]
          /\ Skip(p) /\ UNCHANGED <<copy, digestVars, result>>
  /\ UNCHANGED <<worldVars, call>>

(* An artifact that is deleted by the patch and untracked has two reports, *)
(* one of the base's content and one of the file's: they must be equal.    *)
Gone(status) == status = "deleted"
OneReport(p) ==
  Gone(capture.patch[p]) /\ p \in capture.untracked =>
    capture.reports[p] = Report(BaseTree[p])

(* validate_source_projection and apply_captured_stats: sources must be    *)
(* reported alike by both diffs, and a patch must belong to a change.      *)
Agrees(p) ==
  LET raw == capture.inventory[p]
      patch == capture.patch[p]
  IN  IF p \in Sources
      THEN (raw = "same") = (patch = "same") /\ Gone(raw) = Gone(patch)
      ELSE (patch = "same" \/ raw # "same") /\ OneReport(p)

MergeChanges ==
  /\ Running("otherRead") /\ todo = {}
  /\ IF \E p \in Paths : ~ Agrees(p) THEN Fail("changed")
     ELSE /\ Enter("list", Paths)
          /\ UNCHANGED <<copy, digestVars, capture, result>>
  /\ UNCHANGED <<worldVars, call>>

(* The blobs of the current index against those of the copy.               *)
CompareIndex ==
  /\ Running("currentIndex")
  /\ IF \E p \in Paths : Blob(world.index, p) # Blob(copy.index, p) THEN Fail("changed")
     ELSE /\ Enter("currentHead", {})
          /\ UNCHANGED <<copy, digestVars, capture, result>>
  /\ UNCHANGED <<worldVars, call>>

CompareHead ==
  /\ Running("currentHead")
  /\ IF world.head # HeadOid THEN Fail("changed")
     ELSE IF taken = 3
     THEN /\ Enter("done", {}) /\ result' = "done"
          /\ UNCHANGED <<copy, digestVars, capture>>
     ELSE /\ Enter("artifacts", call.requested)
          /\ UNCHANGED <<copy, digestVars, capture, result>>
  /\ UNCHANGED <<worldVars, call>>

KeepArtifact(p, found) ==
  IF found = Absent THEN Fail("parameters")
  ELSE /\ capture' = [capture EXCEPT !.artifacts[p] = found]
       /\ Skip(p) /\ UNCHANGED <<copy, digestVars, result>>

(* A requested input comes from the worktree where the target does.        *)
WorktreeSelects(p) ==
  /\ call.target = "worktree"
  /\ \/ Modified(copy.index, copy.time, world.work, p)
     \/ call.untracked /\ Untracked(copy.index, world.work, p)

SelectArtifact(p) ==
  /\ Reading("artifacts", p)
  /\ IF WorktreeSelects(p)
     THEN /\ at' = "artifact"
          /\ UNCHANGED <<todo, listed, mark, copy, digestVars, capture, result>>
     ELSE KeepArtifact(p, IF call.target = "commit" THEN HeadTree[p] ELSE Blob(copy.index, p))
  /\ UNCHANGED <<worldVars, call>>

ReadArtifact(p) ==
  /\ Reading("artifact", p) /\ mark # NoValue
  /\ IF mark = 0 \/ ~ SameFileVersion(p) THEN Fail("changed")
     ELSE /\ capture' = [capture EXCEPT !.artifacts[p] = Bytes(p)]
          /\ at' = "artifacts" /\ todo' = todo \ {p} /\ mark' = NoValue
          /\ UNCHANGED <<listed, copy, digestVars, result>>
  /\ UNCHANGED <<worldVars, call>>

EndArtifacts ==
  /\ Running("artifacts") /\ todo = {}
  /\ Enter("layers", Paths)
  /\ UNCHANGED <<worldVars, call, copy, digestVars, capture, result>>

(* The layers a changed path appears in.                                   *)
IndexAt(p) == IF call.target = "commit" THEN HeadTree[p] ELSE Blob(copy.index, p)
LayersOf(p) ==
  (IF HeadTree[p] # BaseTree[p] THEN {"committed"} ELSE {})
    \union (IF IndexAt(p) # HeadTree[p] THEN {"staged"} ELSE {})
    \union (IF call.target = "worktree"
               /\ Modified(copy.index, copy.time, world.work, p)
            THEN {"unstaged"} ELSE {})
    \union (IF p \in capture.untracked THEN {"untracked"} ELSE {})
Changed(p) == capture.inventory[p] # "same" \/ p \in capture.untracked

DiffLayers(p) ==
  /\ Running("layers") /\ First(p)
  /\ capture' = [capture EXCEPT
       !.layers[p] = IF Changed(p) THEN LayersOf(p) ELSE {}]
  /\ \/ /\ todo # {p}
        /\ at' = at /\ todo' = todo \ {p} /\ UNCHANGED <<listed, mark, taken, result>>
     \/ /\ todo = {p} /\ call.target = "worktree"
        /\ Enter("list", Paths) /\ UNCHANGED <<taken, result>>
     \/ /\ todo = {p} /\ call.target = "index"
        /\ Enter("currentIndex", {}) /\ taken' = taken + 1 /\ UNCHANGED result
     \/ /\ todo = {p} /\ call.target = "commit"
        /\ Enter("done", {}) /\ result' = "done" /\ UNCHANGED taken
  /\ UNCHANGED <<worldVars, call, copy, digest, first>>

Cancel ==
  /\ result = "running"
  /\ Fail("cancelled")
  /\ UNCHANGED <<worldVars, call>>

VisitPath ==
  \E p \in Paths :
    \/ ListDirty(p) \/ LookAtFile(p) \/ HashFile(p)
    \/ ListOverlay(p) \/ OverlayFile(p)
    \/ DiffInventory(p) \/ DiffPatch(p) \/ ListOthers(p) \/ ReadOther(p)
    \/ SelectArtifact(p) \/ ReadArtifact(p) \/ DiffLayers(p)

Capture ==
  \/ VisitPath
  \/ ResolveHead \/ LookAtIndex \/ CopyIndex
  \/ EndDigest \/ EndOverlay \/ MergeChanges \/ CompareIndex \/ CompareHead
  \/ EndArtifacts

(* A capture that has ended is over; before, it always has a next step.    *)
Ended == result # "running" /\ UNCHANGED vars

Next == Capture \/ Cancel \/ Ended \/ Others

Spec == Init /\ [][Next]_vars

(***************************************************************************)
(* Properties.                                                             *)
(***************************************************************************)
TypeOK ==
  /\ world \in World /\ clock \in Times /\ moves \in 0 .. MaxMoves
  /\ returned \in BOOLEAN /\ past \subseteq World /\ call \in Calls
  /\ at \in Passes /\ todo \subseteq Paths /\ listed \subseteq Paths
  /\ mark \in (0 .. MaxMoves + 1) \union {NoValue}
  /\ copy \in Copies
  /\ digest \in [Paths -> Held \union {NoValue}]
  /\ first \in [Paths -> Held \union {NoValue}] /\ taken \in 0 .. 3
  /\ capture \in Captures
  /\ result \in Results

(* A capture that succeeds is of one state: there was a moment since it    *)
(* began at which HEAD, index and worktree were what the sources, the      *)
(* changes, their layers and the requested inputs together show, unless    *)
(* something was changed and changed back, which a comment at              *)
(* git.rs:838-840 excepts (capture_snapshot, git.rs:895-1107).  An input   *)
(* that is evidence too is in no digest; NothingIsTorn tells of it.        *)
SourceIs(w, p) ==
  \/ capture.sources[p] = SourceShown(w, p)
  \/ Selected(w, p) \in Binary /\ capture.sources[p] \in {Absent, Selected(w, p)}
ChangeIs(w, p) ==
  ChangeShown(w, p) = ({capture.inventory[p]} \ {"same"})
    \union (IF p \in capture.untracked THEN {"untracked"} ELSE {})
LayersAre(w, p) ==
  capture.layers[p] = IF ChangeShown(w, p) = {} THEN {} ELSE LayersShown(w, p)
ArtifactIs(w, p) ==
  p \in call.requested \ call.evidence => capture.artifacts[p] = Selected(w, p)
Shows(w) ==
  /\ call.target # "commit" => w.head = HeadOid
  /\ \A p \in Paths : SourceIs(w, p) /\ ChangeIs(w, p) /\ LayersAre(w, p) /\ ArtifactIs(w, p)
CaptureIsOfOneState ==
  result = "done" /\ ~ returned => \E w \in past : Shows(w)

(* Whatever others do, also if they change things back, every source and   *)
(* input of a successful capture was in its file, in one piece, or in the  *)
(* index or the commit, while the capture ran (read_regular_file,          *)
(* git.rs:2448-2507; capture_evidence_file, git.rs:38-207).                *)
WasThere(p, content) ==
  content = HeadTree[p]
    \/ \E w \in past : content \in {ContentOf(w.work, p), Blob(w.index, p)}
NothingIsTorn ==
  result = "done" =>
    \A p \in Paths :
      /\ capture.sources[p] # Absent => WasThere(p, capture.sources[p])
      /\ p \in call.requested => WasThere(p, capture.artifacts[p])

(* A capture that nobody disturbs does not ask to be repeated: its own     *)
(* passes, each of them a separate run of Git, agree (merge_changes,       *)
(* git.rs:3838-3991; the checks of capture_snapshot).  Two exceptions: a   *)
(* requested input that is tracked and not in the worktree, since reading  *)
(* it fails as if it had gone meanwhile (git.rs:117-123); and an artifact  *)
(* of the base that was taken out of the index, is still on disk and turned *)
(* from text to binary or back, since its two reports differ               *)
(* (git.rs:3922-3930).                                                     *)
InputsAreThere ==
  call.target = "worktree" => \A p \in call.requested :
    Blob(world.index, p) # Absent => ContentOf(world.work, p) # Absent
TakenOut ==
  \E p \in Paths \ Sources :
    /\ BaseTree[p] # Absent
    /\ IsUntracked(world, p)
    /\ Report(ContentOf(world.work, p)) # Report(BaseTree[p])
QuietCaptureSucceeds ==
  moves = 0 /\ InputsAreThere /\ ~ TakenOut => result # "changed"

=============================================================================
