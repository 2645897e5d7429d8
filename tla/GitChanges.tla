------------------------------ MODULE GitChanges ------------------------------
(***************************************************************************)
(* What capture_target_changes (src/src/git.rs) makes of four runs of Git  *)
(* about one state: a raw inventory of all changes without renames, a      *)
(* patch of the sources and a patch of the other files, in which Git looks *)
(* for renames, and the list of untracked files.                           *)
(*                                                                         *)
(* The answers are parsed apart and merged; where they cannot belong to    *)
(* one state the capture fails and asks for a retry.  Here they always do. *)
(* Which deleted file Git pairs with which added one is its own business.  *)
(***************************************************************************)
EXTENDS Naturals, FiniteSets

CONSTANTS
  Paths,
  SourceNames,  \* paths that the source patch is asked for
  Vendored,     \* paths of dependencies
  Unsafe,       \* paths with control characters, which are left out
  Semantic,     \* artifacts whose analyzer reads both contents
  Entries,      \* what a path may hold: [regular, form, id]
  Inputs,       \* what HEAD, the tracked and the untracked files may hold, and the mode
  Absent,
  NoValue

Forms == {"text", "binary", "large"}

VARIABLES input, result
vars == <<input, result>>

(***************************************************************************)
(* Git.                                                                    *)
(***************************************************************************)
Tree == [Paths -> Entries \union {Absent}]

Pairings(base, now) ==
  {R \in SUBSET ({p \in Paths : base[p] # Absent /\ now[p] = Absent}
                   \X {p \in Paths : base[p] = Absent /\ now[p] # Absent}) :
     /\ \A r, s \in R : r = s \/ (r[1] # s[1] /\ r[2] # s[2])
     /\ \A r \in R : \/ base[r[1]].regular /\ now[r[2]].regular
                     \/ base[r[1]] = now[r[2]]}

KindOf(old, new) ==
  CASE old = Absent -> "added"
    [] new = Absent -> "deleted"
    [] old # Absent /\ new # Absent /\ old.regular # new.regular -> "type"
    [] OTHER -> "modified"

ChangedIn(scope) == {p \in scope : input.base[p] # input.now[p]}

Safe(p) == IF p \in Unsafe THEN NoValue ELSE p

(* A raw record: an addition names no old path, a deletion no new one.     *)
Raw(kind, old, new, p, q) ==
  [kind |-> kind, old |-> Safe(old), new |-> Safe(new),
   from |-> input.base[p], to |-> input.now[q]]

Plain(p) ==
  LET kind == KindOf(input.base[p], input.now[p])
  IN  IF kind = "deleted" THEN Raw(kind, p, NoValue, p, p) ELSE Raw(kind, NoValue, p, p, p)

RawInventory == {Plain(p) : p \in ChangedIn(Paths)}

(* --find-renames --diff-filter=AMDR -- scope                              *)
Patch(scope) ==
  LET pairs == {r \in input.renames : r[1] \in scope /\ r[2] \in scope}
      ends == {r[1] : r \in pairs} \union {r[2] : r \in pairs}
  IN  {Raw("renamed", r[1], r[2], r[1], r[2]) : r \in pairs}
        \union {x \in {Plain(p) : p \in ChangedIn(scope) \ ends} : x.kind # "type"}

Boundary(p) == input.mode = "boundary" /\ p \in Vendored
SourcePatch == Patch({p \in SourceNames : ~ Boundary(p)})
ArtifactPatch == Patch({p \in Paths \ SourceNames : ~ Boundary(p)})

Regular(entry) == entry # Absent /\ entry.regular

(* Git shows lines of what differs, and says so when it is binary.         *)
ShowsBinary(x) ==
  x.from # x.to /\ \E e \in {x.from, x.to} \ {Absent} : e.form = "binary"

(***************************************************************************)
(* The parsers.                                                            *)
(***************************************************************************)
Language(p) == p # NoValue /\ p \in SourceNames

Change(status, oldPath, oldLanguage, path, language, counted) ==
  [status |-> status, oldPath |-> oldPath, oldLanguage |-> oldLanguage, path |-> path,
   language |-> language, counted |-> counted]

(* parse_change_inventory: what cannot be named is counted.                *)
Named(x) == IF x.kind = "deleted" THEN x.old # NoValue ELSE x.new # NoValue
InventoryPath(x) ==
  IF x.kind = "deleted"
  THEN Change("deleted", NoValue, FALSE, x.old, Regular(x.from) /\ Language(x.old), FALSE)
  ELSE Change(x.kind, NoValue, FALSE, x.new,
              x.kind # "type" /\ Regular(x.to) /\ Language(x.new), FALSE)

(* parse_tracked_changes: per record, the current files, the records of    *)
(* what is gone, and the path its statistics are for.                      *)
OldSource(x) == Regular(x.from) /\ Language(x.old)
NewSource(x) == Regular(x.to) /\ Language(x.new)

Supported(x) ==
  CASE x.kind \in {"added", "modified"} -> NewSource(x)
    [] x.kind = "deleted" -> OldSource(x)
    [] x.kind = "renamed" -> OldSource(x) /\ NewSource(x)

StatPath(x) ==
  IF x.kind # "deleted" /\ NewSource(x) THEN x.new
  ELSE IF x.kind \in {"deleted", "renamed"} /\ OldSource(x) THEN x.old
  ELSE NoValue

FileOf(x) ==
  IF x.kind # "deleted" /\ NewSource(x)
  THEN {[path |-> x.new, whole |-> x.kind # "modified"]} ELSE {}

Record(status, path, new) == [status |-> status, path |-> path, new |-> new]
RecordOf(x) ==
  IF x.kind = "renamed" /\ OldSource(x) /\ NewSource(x)
  THEN {Record("renamed", x.old, x.new)}
  ELSE IF x.kind \in {"deleted", "renamed"} /\ OldSource(x)
  THEN {Record("deleted", x.old, NoValue)} ELSE {}

(* capture_tracked_artifacts *)
ArtifactPath(x) ==
  CASE x.kind = "deleted" -> x.old
    [] x.kind = "renamed" -> IF x.old = NoValue THEN NoValue ELSE x.new
    [] OTHER -> x.new

ArtifactFile(path, diff, analysis, omission) ==
  [path |-> path, diff |-> diff, analysis |-> analysis, omission |-> omission]

(* Why a side that an analyzer has to read cannot be read.                 *)
Unreadable(p, entry) ==
  IF p \notin Semantic \/ entry = Absent THEN NoValue
  ELSE CASE entry.form = "large" -> "oversized"
         [] entry.form = "binary" -> "binary"
         [] entry.form = "text" -> NoValue

(* A fault for checking the checks: only the first side is asked about.    *)
ArtifactOfOld(x) ==
  LET old == Unreadable(IF x.kind = "modified" THEN x.new ELSE x.old, x.from)
  IN  ArtifactFile(ArtifactPath(x), ~ ShowsBinary(x) \/ x.to # Absent, old = NoValue, old)

ArtifactOf(x) ==
  LET path == ArtifactPath(x)
      old == Unreadable(IF x.kind = "modified" THEN x.new ELSE x.old, x.from)
      new == Unreadable(x.new, x.to)
  IN  CASE ShowsBinary(x) -> ArtifactFile(path, FALSE, FALSE, "binary")
        [] ~ ShowsBinary(x)
             /\ \E e \in {x.from, x.to} \ {Absent} : ~ e.regular ->
               ArtifactFile(path, TRUE, FALSE, "non_regular")
        [] OTHER ->
             ArtifactFile(path, TRUE, {old, new} = {NoValue},
                          IF old # NoValue THEN old ELSE new)

(* capture_untracked *)
OtherPaths == {p \in Paths : input.other[p] # Absent}
Others == OtherPaths \ Unsafe
Readable(p) == ~ Boundary(p) /\ input.other[p].regular /\ input.other[p].form = "text"

OtherChange(p) ==
  LET e == input.other[p]
  IN  Change("untracked", NoValue, FALSE, p,
             e.regular /\ p \in SourceNames /\ (e.form # "binary" \/ Boundary(p)),
             Readable(p))

OtherArtifact(p) ==
  LET e == input.other[p]
  IN  CASE Boundary(p) -> {}
        [] ~ Boundary(p) /\ ~ e.regular -> {ArtifactFile(p, FALSE, FALSE, "non_regular")}
        [] ~ Boundary(p) /\ e.regular /\ e.form = "large" ->
             IF p \in SourceNames THEN {} ELSE {ArtifactFile(p, FALSE, FALSE, "oversized")}
        [] ~ Boundary(p) /\ e.regular /\ e.form = "binary" ->
             {ArtifactFile(p, FALSE, FALSE, "binary")}
        [] Readable(p) ->
             IF p \in SourceNames THEN {} ELSE {ArtifactFile(p, TRUE, TRUE, NoValue)}

(***************************************************************************)
(* merge_changes.                                                          *)
(***************************************************************************)

(* The change a rename makes of its two ends.                              *)
Renamed(paths, r) ==
  LET Side(status, p) == CHOOSE c \in paths : c.status = status /\ c.path = p
  IN  Change("renamed", r[1], Side("deleted", r[1]).language,
             r[2], Side("added", r[2]).language, FALSE)

(* A fault for checking the checks: the deletion stays beside the rename.  *)
CoalesceAdded(paths, pairs) ==
  {c \in paths : ~ (c.status = "added" /\ \E r \in pairs : c.path = r[2])}
    \union {Renamed(paths, r) : r \in pairs}

(* coalesce_renames: a deletion and an addition become one change.         *)
Coalesce(paths, pairs) ==
  LET Ends(c) == \E r \in pairs : \/ c.status = "deleted" /\ c.path = r[1]
                                  \/ c.status = "added" /\ c.path = r[2]
  IN  {c \in paths : ~ Ends(c)} \union {Renamed(paths, r) : r \in pairs}

Coalesces(paths, pairs) ==
  \A r \in pairs : /\ \E c \in paths : c.status = "deleted" /\ c.path = r[1]
                   /\ \E c \in paths : c.status = "added" /\ c.path = r[2]

(* A fault: dependencies are left out of the patches only.                 *)
ExcludedNever(c) == Boundary(c.path) /\ c.path \notin Vendored

(* validate_source_projection: what the inventory expects of the sources.  *)
Excluded(c) == Boundary(c.path) /\ (c.oldPath = NoValue \/ c.oldPath \in Vendored)
Expected(c) ==
  CASE Excluded(c) \/ c.status \in {"type", "untracked"} -> {}
    [] ~ Excluded(c) /\ c.status \in {"added", "modified"} ->
         IF c.language THEN {<<"current", c.path, NoValue>>} ELSE {}
    [] ~ Excluded(c) /\ c.status = "deleted" ->
         IF c.language THEN {<<"deleted", c.path, NoValue>>} ELSE {}
    [] ~ Excluded(c) /\ c.status = "renamed" ->
         (IF c.language THEN {<<"current", c.path, NoValue>>} ELSE {})
           \union (IF c.oldLanguage /\ c.language
                   THEN {<<"renamed", c.oldPath, c.path>>} ELSE {})
           \union (IF c.oldLanguage /\ ~ c.language
                   THEN {<<"deleted", c.oldPath, NoValue>>} ELSE {})

(* apply_captured_stats: the captured paths a change takes figures of.     *)
StatKeys(c, captured) ==
  IF Excluded(c) \/ c.status \notin {"added", "modified", "deleted", "renamed"} THEN {}
  ELSE captured \intersect
         ({c.path} \union (IF c.status = "renamed" THEN {c.oldPath} ELSE {}))

WithStats(c, captured, counted) ==
  LET keys == StatKeys(c, captured)
  IN  [c EXCEPT !.counted = keys # {} /\ keys \subseteq counted]

(* finalize_artifact_omissions: every change that no diff shows has an     *)
(* entry that says why.                                                    *)
Omissions(paths, artifacts) ==
  {ArtifactFile(c.path, FALSE, FALSE,
                IF c.status = "type" THEN "type_changed" ELSE "non_regular") :
     c \in {d \in paths : /\ d.status = "type" \/ ~ d.language
                          /\ ~ Boundary(d.path)
                          /\ \A f \in artifacts : f.path # d.path}}

Refused == [refused |-> TRUE]

(* The lists of the tracked changes: of the inventory, of the sources, of  *)
(* the artifacts.                                                          *)
Listed == {InventoryPath(x) : x \in {y \in RawInventory : Named(y)}}
SourceFiles == UNION {FileOf(x) : x \in SourcePatch}
SourceRecords == UNION {RecordOf(x) : x \in SourcePatch}
SourceStats == {x \in SourcePatch : StatPath(x) # NoValue /\ Supported(x)}
SourceOmitted ==
  {StatPath(x) : x \in {y \in SourcePatch : StatPath(y) # NoValue /\ ~ Supported(y)}}
ArtifactRaws == {x \in ArtifactPatch : ArtifactPath(x) # NoValue}
ArtifactFiles == {ArtifactOf(x) : x \in ArtifactRaws}
ArtifactStats == {x \in ArtifactRaws : ~ ShowsBinary(x)}
ArtifactRenames ==
  {<<x.old, x.new>> : x \in {y \in ArtifactRaws : y.kind = "renamed" /\ y.new # NoValue}}
RenamePairs ==
  ArtifactRenames
    \union {<<r.path, r.new>> : r \in {s \in SourceRecords : s.status = "renamed"}}

(* Files of one path are one file, whole if any of them is; a path that is *)
(* there again is not deleted.                                             *)
MergeFiles(files) ==
  {f \in files : f.whole \/ \A g \in files : g.path = f.path => ~ g.whole}
KeepRecords(records, files) ==
  {r \in records : ~ (r.status = "deleted" /\ \E f \in files : f.path = r.path)}

Merge(paths, stats, omitted, artifacts) ==
  LET counted == {StatPath(x) : x \in SourceStats} \union {ArtifactPath(x) : x \in ArtifactStats}
      captured == counted \union omitted
      actual == {<<"current", f.path, NoValue>> : f \in SourceFiles}
                  \union {<<r.status, r.path, r.new>> : r \in SourceRecords}
      others == {p \in Others : OtherChange(p).language /\ ~ Boundary(p)}
      files == MergeFiles(SourceFiles \union {[path |-> p, whole |-> TRUE] : p \in others})
      all == {WithStats(c, captured, counted) : c \in paths}
               \union {OtherChange(p) : p \in Others}
  IN  IF \/ Cardinality(stats) # Cardinality(counted)
         \/ actual # UNION {Expected(c) : c \in paths}
         \/ captured # UNION {StatKeys(c, captured) : c \in paths}
         \/ \E f, g \in artifacts : f.path = g.path /\ f # g
      THEN Refused
      ELSE [refused |-> FALSE,
            files |-> files,
            records |-> KeepRecords(
              SourceRecords \union {Record("untracked", p, NoValue) : p \in others}, files),
            paths |-> all,
            artifacts |-> artifacts \union Omissions(all, artifacts),
            skipped |-> Cardinality(ChangedIn(Unsafe)) + Cardinality(OtherPaths \ Others)]

MergeChanges ==
  IF ~ Coalesces(Listed, RenamePairs) THEN Refused
  ELSE Merge(Coalesce(Listed, RenamePairs), SourceStats \union ArtifactStats, SourceOmitted,
             ArtifactFiles \union UNION {OtherArtifact(p) : p \in Others})

(* change_content_complete *)
ContentComplete(changes) ==
  /\ changes.skipped = 0
  /\ \A f \in changes.artifacts : f.diff /\ f.omission = NoValue
  /\ \A c \in changes.paths :
       IF c.language
       THEN (c.status # "renamed" \/ c.oldLanguage) /\ c.counted
       ELSE \E f \in changes.artifacts :
              f.path = c.path /\ f.diff /\ f.omission = NoValue

Init == input = NoValue /\ result = NoValue

GitAnswers ==
  /\ input = NoValue
  /\ \E family \in Inputs : \E base, now, other \in family.trees :
       /\ \A p \in Paths : other[p] # Absent => now[p] = Absent
       /\ \E pairs \in Pairings(base, now) :
            input' = [base |-> base, now |-> now, other |-> other, mode |-> family.mode,
                      renames |-> pairs]
  /\ UNCHANGED result

CaptureTargetChanges ==
  /\ input # NoValue /\ result = NoValue
  /\ result' = MergeChanges
  /\ UNCHANGED input

Next == GitAnswers \/ CaptureTargetChanges

Spec == Init /\ [][Next]_vars

(***************************************************************************)
(* Properties.                                                             *)
(***************************************************************************)
Merged == result # NoValue /\ ~ result.refused

(* Four answers about one state are never taken for answers about two:     *)
(* merge_changes (git.rs:3838-3991) does not ask for a retry that cannot   *)
(* help.  The exception is a file that was taken out of the index and is   *)
(* still there, when the diff cannot show it as it shows the file on disk. *)
(* Two reports about one artifact, as deleted and as untracked, must then  *)
(* be equal and are not (git.rs:3922-3930).                                *)
TakenOut ==
  \E p \in Paths : /\ input.base[p] # Absent /\ input.other[p] # Absent
                   /\ \E e \in {input.base[p], input.other[p]} :
                        ~ e.regular \/ e.form # "text"
OneStateIsMerged == result # NoValue /\ result.refused => TakenOut

(* Each path that differs between the two trees is in exactly one tracked  *)
(* change and no other path is in any; a source is among the files exactly *)
(* if it has contents now, and otherwise among the deleted or renamed      *)
(* (coalesce_renames, validate_source_projection, git.rs:3526-3708).       *)
EndsOf(c) == {c.path, c.oldPath} \ {NoValue}
EveryChangeIsTold ==
  Merged =>
    \A p \in Paths \ Unsafe :
      LET telling == {c \in result.paths : c.status # "untracked" /\ p \in EndsOf(c)}
          gone == \E r \in result.records :
                    r.path = p /\ r.status \in {"deleted", "renamed"}
          source(tree) == p \in SourceNames /\ ~ Boundary(p) /\ Regular(tree[p])
      IN  /\ Cardinality(telling) = IF input.base[p] # input.now[p] THEN 1 ELSE 0
          /\ (\E f \in result.files : f.path = p) =
               (\/ source(input.now) /\ Regular(input.base[p]) /\ input.base[p] # input.now[p]
                \/ source(input.now) /\ input.base[p] = Absent
                \/ source(input.other) /\ input.other[p].form # "binary")
          /\ source(input.base) /\ input.now[p] = Absent
               => gone \/ \E f \in result.files : f.path = p
          /\ gone => input.now[p] = Absent /\ input.base[p] # Absent

(* A review is called complete only if everything that differs is in it:   *)
(* each changed artifact with both sides, as text, and each changed source *)
(* as lines (change_content_complete, git.rs:586-608; the places that      *)
(* record an omission).                                                    *)
Shown(p, entry) ==
  \/ entry = Absent
  \/ entry.regular /\ (p \in SourceNames \/ entry.form # "binary")
CompleteMeansComplete ==
  Merged /\ ContentComplete(result) =>
    /\ \A p \in ChangedIn(Paths) :
         /\ p \notin Unsafe /\ ~ Boundary(p)
         /\ \/ Shown(p, input.base[p]) /\ Shown(p, input.now[p])
            \/ \E r \in input.renames :
                 p \in {r[1], r[2]} /\ input.base[r[1]] = input.now[r[2]]
    /\ \A p \in OtherPaths : p \notin Unsafe /\ Readable(p)

=============================================================================
