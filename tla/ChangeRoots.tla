------------------------------ MODULE ChangeRoots ------------------------------
(***************************************************************************)
(* From the patch of a review to the symbols it changes: parse_patch_hunks *)
(* (src/src/git.rs) reads the headers of a patch without context lines,    *)
(* and Store::changes (src/src/store.rs) sweeps the spans it made of them  *)
(* over the sorted intervals of the symbols of each file.  What no symbol  *)
(* holds is told by line, or mapped to the node of the file.               *)
(*                                                                         *)
(* Positions are doubled: line n is 2n, and lines that are only deleted    *)
(* are anchored at 2n + 1, behind line n.                                  *)
(***************************************************************************)
EXTENDS Naturals, Sequences, FiniteSets, FiniteSetsExt, SequencesExt

CONSTANTS
  Inputs,      \* sequences of changed files
  RootLimit,   \* CHANGE_ANALYSIS_LIMIT
  NoNode,      \* a file that has no node
  NoValue

VARIABLES input, result
vars == <<input, result>>

Span(from, to) == [from |-> from, to |-> to]
Overlap(s, t) == s.from <= t.to /\ t.from <= s.to

(***************************************************************************)
(* Git's patch of a file: `added` are lines of the new text, `deleted` the *)
(* gaps between its lines, from 0, where old lines are gone.  Without      *)
(* context a hunk is a run of added lines with the deletions that touch    *)
(* it, or deletions alone.                                                 *)
(***************************************************************************)
Runs(file) ==
  {s \in [from : file.added, to : file.added] :
     /\ s.from <= s.to /\ s.from .. s.to \subseteq file.added
     /\ s.from - 1 \notin file.added /\ s.to + 1 \notin file.added}
Alone(file) == {g \in file.deleted : g \notin file.added /\ g + 1 \notin file.added}

Header(start, count) == [what |-> "hunk", start |-> start, count |-> count]
Body(what) == [what |-> what]
HunksOf(file) ==
  SortSeq(SetToSeq({Header(s.from, s.to - s.from + 1) : s \in Runs(file)}
                     \union {Header(g, 0) : g \in Alone(file)}),
          LAMBDA x, y : x.start < y.start)
Deletes(file, hunk) ==
  IF hunk.count = 0 THEN 1
  ELSE Cardinality(file.deleted \intersect (hunk.start - 1 .. hunk.start + hunk.count - 1))
PatchOf(file) ==
  <<Body("diff"), Body("meta")>>
    \o FlattenSeq([i \in DOMAIN HunksOf(file) |->
         LET hunk == HunksOf(file)[i]
         IN  <<hunk>> \o [j \in 1 .. Deletes(file, hunk) |-> Body("-")]
               \o [j \in 1 .. hunk.count |-> Body("+")]])

(***************************************************************************)
(* parse_patch_hunks.                                                      *)
(***************************************************************************)

(* A fault for checking the checks: a deletion belongs to the line before. *)
HunkSpanOnLine(hunk) ==
  IF hunk.count = 0 THEN Span(2 * hunk.start, 2 * hunk.start)
  ELSE Span(2 * hunk.start, 2 * (hunk.start + hunk.count - 1))

HunkSpan(hunk) ==
  IF hunk.count = 0 THEN Span(2 * hunk.start + 1, 2 * hunk.start + 1)
  ELSE Span(2 * hunk.start, 2 * (hunk.start + hunk.count - 1))

NoPatch == [spans |-> <<>>, additions |-> 0, deletions |-> 0]

(* The sections read so far; the last one is current.                      *)
ReadLine(state, line) ==
  LET patches == state.patches
      current == Len(patches)
  IN  CASE state.error -> state
        [] ~ state.error /\ line.what = "diff" ->
             [state EXCEPT !.patches = Append(@, NoPatch), !.inHunk = FALSE]
        [] ~ state.error /\ line.what = "hunk" ->
             LET span == HunkSpan(line)
                 spans == patches[current].spans
             IN  IF spans # <<>> /\ Last(spans).to >= span.from
                 THEN [state EXCEPT !.error = TRUE]
                 ELSE [state EXCEPT !.patches[current].spans = Append(@, span),
                                    !.inHunk = TRUE]
        [] ~ state.error /\ line.what = "+" /\ state.inHunk ->
             [state EXCEPT !.patches[current].additions = @ + 1]
        [] ~ state.error /\ line.what = "-" /\ state.inHunk ->
             [state EXCEPT !.patches[current].deletions = @ + 1]
        [] OTHER -> state

ParsePatchHunks(patch) ==
  FoldLeft(ReadLine, [patches |-> <<>>, inHunk |-> FALSE, error |-> FALSE], patch)

(* The changed files of a capture; an untracked one has no hunks.          *)
CapturedFiles ==
  LET tracked == SelectSeq(input, LAMBDA f : f.status # "untracked")
      patches == ParsePatchHunks(FlattenSeq([i \in DOMAIN tracked |-> PatchOf(tracked[i])]))
      PatchNo(f) == CHOOSE i \in DOMAIN tracked : tracked[i] = f
  IN  [i \in DOMAIN input |->
         LET f == input[i]
             patch == IF f.status = "untracked" THEN NoPatch
                      ELSE patches.patches[PatchNo(f)]
         IN  [file |-> f,
              whole |-> f.status # "modified",
              patch |-> patch,
              reportUnmapped |-> f.status # "renamed" \/ patch.spans # <<>>]]

(***************************************************************************)
(* Store::changes, one file.                                               *)
(***************************************************************************)
Interval(x) == Span(2 * x.from, 2 * x.to)

MergeSpan(spans, span) ==
  IF spans # <<>> /\ span.from <= Last(spans).to + 1
  THEN [spans EXCEPT ![Len(spans)].to = Max({@, span.to})]
  ELSE Append(spans, span)

RECURSIVE FirstAfter(_, _, _)
FirstAfter(spans, i, position) ==
  IF i <= Len(spans) /\ spans[i].to < position THEN FirstAfter(spans, i + 1, position) ELSE i

(* The sweep over the symbols, sorted by where they start.                 *)
MeetSymbol(captured, sweep, symbol) ==
  LET interval == Interval(symbol)
      spans == captured.patch.spans
      next == FirstAfter(spans, sweep.next, interval.from)
      changed == captured.whole \/ (next <= Len(spans) /\ spans[next].from <= interval.to)
  IN  [coverage |-> MergeSpan(sweep.coverage, interval),
       next |-> next,
       changed |-> IF changed THEN Append(sweep.changed, symbol) ELSE sweep.changed]
Sweep(captured) ==
  FoldLeft(LAMBDA sweep, symbol : MeetSymbol(captured, sweep, symbol),
           [coverage |-> <<>>, next |-> 1, changed |-> <<>>], captured.file.symbols)

ChangedSpans(captured) ==
  IF captured.whole /\ captured.patch.spans = <<>>
  THEN IF captured.file.node = NoNode THEN <<>>
       ELSE <<Span(2, 2 * captured.file.lines)>>
  ELSE captured.patch.spans

(* push_unmapped_span: an anchor stays, anything else is cut to lines.     *)
PushUnmapped(residual, span, anchor) ==
  LET from == span.from + (span.from % 2)
      to == span.to - (span.to % 2)
  IN  IF anchor THEN Append(residual, span)
      ELSE IF from <= to THEN Append(residual, Span(from, to)) ELSE residual

(* What the symbols from the i-th on leave of a change from `cursor` on,   *)
(* and the symbol the next change starts with.                             *)
RECURSIVE Uncovered(_, _, _, _, _)
Uncovered(change, coverage, i, cursor, residual) ==
  LET anchor == change.from = change.to /\ change.from % 2 = 1
      Push(to) == IF cursor <= to THEN PushUnmapped(residual, Span(cursor, to), anchor)
                  ELSE residual
  IN  IF i > Len(coverage) \/ coverage[i].from > change.to
      THEN [residual |-> Push(change.to), next |-> i]
      ELSE LET left == IF cursor < coverage[i].from
                       THEN Push(Min({change.to, coverage[i].from - 1})) ELSE residual
           IN  IF coverage[i].to >= change.to THEN [residual |-> left, next |-> i]
               ELSE Uncovered(change, coverage, i + 1, Max({cursor, coverage[i].to + 1}), left)

UnmappedSpans(changes, coverage) ==
  FoldLeft(LAMBDA done, change :
             Uncovered(change, coverage, FirstAfter(coverage, done.next, change.from),
                       change.from, done.residual),
           [residual |-> <<>>, next |-> 1], changes).residual

(* The lines an unmapped line of the review names.                         *)
Location(span) ==
  LET from == Max({span.from \div 2, 1})
  IN  from .. Max({span.to \div 2, from})
UnmappedLine(residual) ==
  IF residual = <<>> THEN {1} ELSE UNION {Location(residual[i]) : i \in DOMAIN residual}

NotesOf(captured, changed) ==
  {n \in captured.file.notes :
     \/ \E i \in DOMAIN changed : changed[i].from <= n.from /\ n.to <= changed[i].to
     \/ \E i \in DOMAIN ChangedSpans(captured) :
          Overlap(ChangedSpans(captured)[i], Interval(n))}

(* One file after the others: roots are kept once, in the order met.       *)
AddRoot(roots, id) == IF id \in Range(roots) THEN roots ELSE Append(roots, id)
MapFile(review, captured) ==
  LET sweep == Sweep(captured)
      spans == ChangedSpans(captured)
      residual == UnmappedSpans(spans, sweep.coverage)
      unmapped == captured.reportUnmapped /\ (spans = <<>> \/ residual # <<>>)
      ranges == Max({Len(residual), 1})
      node == captured.file.node
      ids == [i \in DOMAIN sweep.changed |-> sweep.changed[i].id]
  IN  [symbols |-> FoldLeft(AddRoot, review.symbols, ids),
       files |-> IF unmapped /\ node # NoNode THEN AddRoot(review.files, node)
                 ELSE review.files,
       told |-> IF unmapped
                THEN Append(review.told, [path |-> captured.file.path,
                                          mapped |-> node # NoNode,
                                          lines |-> UnmappedLine(residual)])
                ELSE review.told,
       unmapped |-> review.unmapped + (IF unmapped /\ node = NoNode THEN ranges ELSE 0),
       notes |-> review.notes \union
                   {<<captured.file.path, n>> : n \in NotesOf(captured, sweep.changed)}]

(* Untracked files come last.                                              *)
InOrder(captured) ==
  SelectSeq(captured, LAMBDA c : c.file.status # "untracked")
    \o SelectSeq(captured, LAMBDA c : c.file.status = "untracked")

Changes(captured) ==
  LET review == FoldLeft(MapFile,
                  [symbols |-> <<>>, files |-> <<>>, told |-> <<>>, unmapped |-> 0,
                   notes |-> {}],
                  InOrder(captured))
      all == review.symbols \o review.files
      roots == SubSeq(all, 1, Min({RootLimit, Len(all)}))
  IN  [captured |-> captured, symbols |-> review.symbols, files |-> review.files,
       told |-> review.told, notes |-> review.notes, roots |-> roots,
       omitted |-> Len(all) - Len(roots),
       mappingComplete |-> review.unmapped = 0]

Init == input = NoValue /\ result = NoValue

GitAnswers ==
  /\ input = NoValue
  /\ input' \in Inputs
  /\ UNCHANGED result

ReviewChanges ==
  /\ input # NoValue /\ result = NoValue
  /\ result' = Changes(CapturedFiles)
  /\ UNCHANGED input

Next == GitAnswers \/ ReviewChanges

Spec == Init /\ [][Next]_vars

(***************************************************************************)
(* Properties.                                                             *)
(***************************************************************************)

(* What differs in a file, by the texts: its lines, and the gaps that lost *)
(* lines and got none.                                                     *)
Lines(f) == IF f.status \in {"untracked", "added"} THEN 1 .. f.lines ELSE f.added
Gaps(f) == IF f.status \in {"untracked", "added"} THEN {} ELSE Alone(f)
Holds(symbol, f, line) == symbol \in Range(f.symbols) /\ line \in symbol.from .. symbol.to
HoldsGap(symbol, f, gap) ==
  symbol \in Range(f.symbols) /\ symbol.from <= gap /\ gap < symbol.to
Changed(symbol, f) ==
  \/ f.status # "modified"
  \/ \E l \in f.added : Holds(symbol, f, l)
  \/ \E g \in Gaps(f) : HoldsGap(symbol, f, g)
ToldOf(f) == UNION {t.lines : t \in {u \in Range(result.told) : u.path = f.path}}

(* Every line a review is about is in a changed symbol or told as not      *)
(* being in one, every deletion likewise, each changed symbol has a reason *)
(* to be one, nothing is told of a line that is in a symbol or did not     *)
(* change, the numbers of added and deleted lines are those of the patch,  *)
(* and the mapping is called complete exactly when all that was told       *)
(* belongs to the node of a file (parse_patch_hunks, git.rs:3709-3836;     *)
(* Store::changes, store.rs:1294-1432; unmapped_spans, 5737-5796).         *)
ChangedLinesAreTold ==
  result # NoValue =>
    /\ \A i \in DOMAIN input :
         LET f == input[i]
             patch == result.captured[i].patch
             symbol(s) == s \in Range(f.symbols) /\ s.id \in Range(result.symbols)
         IN  /\ \A l \in Lines(f) :
                  IF \E s \in Range(f.symbols) : Holds(s, f, l)
                  THEN \A s \in Range(f.symbols) : Holds(s, f, l) => symbol(s)
                  ELSE l \in ToldOf(f) \/ (f.node = NoNode /\ 1 \in ToldOf(f))
             /\ \A g \in Gaps(f) :
                  IF \E s \in Range(f.symbols) : HoldsGap(s, f, g)
                  THEN \A s \in Range(f.symbols) : HoldsGap(s, f, g) => symbol(s)
                  ELSE Max({g, 1}) \in ToldOf(f)
             /\ f.node # NoNode =>
                  \A l \in ToldOf(f) :
                    \/ l \in Lines(f) /\ \A s \in Range(f.symbols) : ~ Holds(s, f, l)
                    \/ \E g \in Gaps(f) :
                         l = Max({g, 1}) /\ \A s \in Range(f.symbols) : ~ HoldsGap(s, f, g)
                    \/ f.added \union f.deleted = {} /\ l = 1
             /\ f.status # "untracked" =>
                  /\ patch.additions = Cardinality(f.added)
                  /\ patch.deletions = Cardinality(f.deleted)
             /\ \A n \in f.notes :
                  (\E l \in n.from .. n.to : l \in Lines(f)) /\ f.node # NoNode
                    => <<f.path, n>> \in result.notes
    /\ \A id \in Range(result.symbols) :
         \E i \in DOMAIN input : \E s \in Range(input[i].symbols) :
           s.id = id /\ Changed(s, input[i])
    /\ result.mappingComplete =
         \A t \in Range(result.told) : t.mapped
    /\ Cardinality(Range(result.roots)) + result.omitted
         = Cardinality(Range(result.symbols) \union Range(result.files))

=============================================================================
