----------------------------- MODULE ReviewPages -----------------------------
(***************************************************************************)
(* How a review is read (Engine::changes, src/src/index.rs): its first     *)
(* page has the beginning of all five sections, every further page what    *)
(* follows the offsets in the cursor of the one before.                    *)
(*                                                                         *)
(* The server keeps no reader's place.  A review is rendered when it is    *)
(* asked for and kept in a small cache; the lock is not held while it is   *)
(* rendered, so two calls may render the same review, and a review may be  *)
(* evicted between two pages.  A cursor is bound to the review by a        *)
(* checksum; here it holds the review itself.                              *)
(*                                                                         *)
(* A text is a sequence of bytes, of which only this matters: whether the  *)
(* byte ends a line, continues a character, or begins a line that starts a *)
(* hunk (or a flow) or a file.                                             *)
(***************************************************************************)
EXTENDS Naturals, SequencesExt

CONSTANTS
  Readers,
  Situations,  \* the reviews there are to read, and who reads
  Initial,     \* bytes of each section on the first page
  Available,   \* bytes of a further page
  Overhead,    \* bytes reserved for a section's header
  CacheLimit,
  NoValue

Sections == <<"files", "diff", "artifacts", "graph", "evidence">>
Ranks == DOMAIN Sections
Bytes == {"char", "more", "newline", "hunk", "file"}

VARIABLES
  situation,  \* which reviews there are
  rendered,   \* the cache, from keys to reviews
  calls,      \* per reader, the call being served
  readings    \* per reader, what it has read, and how it ended
vars == <<situation, rendered, calls, readings>>

(***************************************************************************)
(* Texts and their records, ranges <<from, to>> of offsets from 0.         *)
(***************************************************************************)
Boundary(text, i) == i = Len(text) \/ (i < Len(text) /\ text[i + 1] # "more")

(* UTF-8 with characters of at most so many bytes.                         *)
IsText(text, width) ==
  /\ text \in Seq(Bytes)
  /\ \A i \in DOMAIN text : text[i] = "more" => i > 1 /\ text[i - 1] \in {"char", "more"}
  /\ \A i \in 0 .. Len(text) - 1 :
       Boundary(text, i) => \E j \in i + 1 .. i + width : j <= Len(text) /\ Boundary(text, j)

(* line_ranges: the last line may have no newline.                         *)
LineEnds(text) ==
  {i \in 1 .. Len(text) : text[i] = "newline" \/ i = Len(text)}
LineStarts(text) == {0} \union (LineEnds(text) \ {Len(text)})
Until(text, starts, from) ==
  <<from, Min({i \in starts : i > from} \union {Len(text)})>>
Lines(text) ==
  IF text = <<>> THEN {} ELSE {Until(text, LineStarts(text), i) : i \in LineStarts(text)}
Begins(text, i, what) == i < Len(text) /\ text[i + 1] \in what
Marked(text, what) == {r \in Lines(text) : Begins(text, r[1], what)}

(* hunk_ranges: a hunk lasts until the next hunk or file.                  *)
Hunks(text) ==
  LET heads == {i \in LineStarts(text) : Begins(text, i, {"hunk", "file"})}
  IN  {Until(text, heads, i) : i \in {h \in heads : Begins(text, h, {"hunk"})}}

(* What the header of a section counts.                                    *)
Counted(section, text) ==
  CASE section \in {"files", "evidence"} -> <<Lines(text)>>
    [] section = "diff" -> <<Hunks(text)>>
    [] section = "artifacts" -> <<Hunks(text), Marked(text, {"file"}), Marked(text, {"hunk"})>>
    [] section = "graph" -> <<Lines(text), Marked(text, {"hunk"})>>

(* record_coverage *)
Coverage(ranges, page) ==
  LET seen == {r \in ranges : r[2] > page.start /\ r[1] < page.end}
      whole == {r \in seen : r[1] >= page.start /\ r[2] <= page.end}
  IN  [total |-> Cardinality(ranges),
       prior |-> Cardinality({r \in ranges : r[2] <= page.start}),
       emitted |-> Cardinality(whole),
       partial |-> Cardinality(seen \ whole),
       remaining |-> Cardinality({r \in ranges : r[1] >= page.end})]

(***************************************************************************)
(* One section of one page.                                                *)
(***************************************************************************)
Invalid == [error |-> "invalid cursor"]
NoProgress == [error |-> "no progress"]
IsError(x) == "error" \in DOMAIN x

(* The last newline of the window ends a page that is not the last one.    *)
Cut(text, offset, end) ==
  LET lines == {i \in offset + 1 .. end : text[i] = "newline"}
  IN  IF end < Len(text) /\ lines # {} THEN Max(lines) ELSE end

Window(text, offset, budget) ==
  Max({i \in 0 .. Min({Len(text), offset + budget}) : Boundary(text, i)})

Page(text, offset, budget) ==
  IF text = <<>> /\ offset = 0 THEN [start |-> 0, end |-> 0]
  ELSE IF offset >= Len(text) \/ ~ Boundary(text, offset) THEN Invalid
  ELSE LET end == Cut(text, offset, Window(text, offset, budget))
       IN  IF end <= offset THEN NoProgress ELSE [start |-> offset, end |-> end]

(* limit_page_records: at most so many lines, the one begun included.      *)
Limit(text, page, limit) ==
  LET ends == {r[2] : r \in {l \in Lines(text) : l[2] > page.start}}
  IN  IF Cardinality(ends) < limit THEN page
      ELSE [page EXCEPT !.end = Min({@, CHOOSE e \in ends :
                                          Cardinality({f \in ends : f <= e}) = limit})]

(* What a page shows and counts of a section, and where the next begins.   *)
Shown(section, text, page) ==
  [text |-> SubSeq(text, page.start + 1, page.end),
   counts |-> [i \in DOMAIN Counted(section, text) |->
                 Coverage(Counted(section, text)[i], page)],
   end |-> page.end]

(* A fault for checking the checks: the page is cut to its records, the    *)
(* cursor is not.                                                          *)
SectionPageCutLate(review, rank, offset, budget) ==
  LET text == review.texts[rank]
      page == Page(text, offset, budget - Overhead)
  IN  IF IsError(page) THEN page
      ELSE IF Sections[rank] = "graph"
      THEN [Shown("graph", text, Limit(text, page, review.maxNodes))
              EXCEPT !.end = page.end]
      ELSE Shown(Sections[rank], text, page)

SectionPage(review, rank, offset, budget) ==
  LET text == review.texts[rank]
      page == Page(text, offset, budget - Overhead)
  IN  IF IsError(page) THEN page
      ELSE Shown(Sections[rank], text,
                 IF Sections[rank] = "graph" THEN Limit(text, page, review.maxNodes)
                 ELSE page)

(***************************************************************************)
(* A page of all sections that are not exhausted.  An answer has the       *)
(* section pages and the offsets of the next cursor, if any.               *)
(***************************************************************************)
Remains(review, offsets) == \E k \in Ranks : offsets[k] < Len(review.texts[k])

Answer(review, offsets, pages) ==
  LET failed == {k \in DOMAIN pages : IsError(pages[k])}
      next == [k \in Ranks |-> IF k \in DOMAIN pages THEN pages[k].end ELSE offsets[k]]
  IN  IF failed # {} THEN pages[Min(failed)]
      ELSE [pages |-> pages,
            cursor |-> IF Remains(review, next)
                       THEN [offsets |-> next, review |-> review] ELSE NoValue]

ReviewContext(review) ==
  Answer(review, [k \in Ranks |-> 0],
         [k \in Ranks |-> SectionPage(review, k, 0, Initial[k])])

(* The budget is divided among the active sections, the remainder one byte *)
(* each to the first of them.                                              *)
Budget(active, k) ==
  LET payload == Available - Cardinality(active) * Overhead
      rank == Cardinality({j \in active : j < k})
  IN  Overhead + payload \div Cardinality(active)
        + (IF rank < payload % Cardinality(active) THEN 1 ELSE 0)

RenderReviewPage(review, cursor) ==
  LET offsets == cursor.offsets
      active == {k \in Ranks : offsets[k] < Len(review.texts[k])}
  IN  IF cursor.review # review THEN Invalid
      ELSE IF \E k \in Ranks : ~ Boundary(review.texts[k], offsets[k]) THEN Invalid
      ELSE IF active = {} THEN Invalid
      ELSE Answer(review, offsets,
             [k \in active |-> SectionPage(review, k, offsets[k], Budget(active, k))])

(***************************************************************************)
(* Readers and the cache.                                                  *)
(***************************************************************************)
Keys == DOMAIN situation.reviews
Review(key) == situation.reviews[key]
Active == situation.readers

Idle == [key |-> NoValue, cursor |-> NoValue]
NotReading == [key |-> NoValue, pages |-> <<>>, cursor |-> NoValue, state |-> "none"]

Init ==
  /\ situation \in Situations
  /\ rendered = [k \in {} |-> NoValue]
  /\ calls = [r \in Readers |-> Idle]
  /\ readings = [r \in Readers |-> NotReading]

(* What a reader makes of an answer.                                       *)
Receive(r, key, answer) ==
  readings' = [readings EXCEPT ![r] =
    IF IsError(answer) THEN [@ EXCEPT !.key = key, !.state = answer.error]
    ELSE [key |-> key, pages |-> Append(@.pages, answer.pages), cursor |-> answer.cursor,
          state |-> IF answer.cursor = NoValue THEN "over" ELSE "open"]]

(* parse_review_cursor: the cursor names its snapshot and parameters.      *)
Mismatch == [error |-> "cursor mismatch"]
Serve(key, cursor, review) ==
  IF cursor = NoValue THEN ReviewContext(review)
  ELSE IF cursor.review.key # key THEN Mismatch
  ELSE RenderReviewPage(review, cursor)

(* A snapshot without changes has no review and no pages.                  *)
Unchanged(cursor) ==
  IF cursor # NoValue THEN Invalid ELSE [pages |-> <<>>, cursor |-> NoValue]

Call(r, key, cursor) ==
  /\ calls[r] = Idle
  /\ \/ /\ Review(key).unchanged
        /\ Receive(r, key, Unchanged(cursor))
        /\ UNCHANGED calls
     \/ /\ ~ Review(key).unchanged /\ key \in DOMAIN rendered
        /\ Receive(r, key, Serve(key, cursor, rendered[key]))
        /\ UNCHANGED calls
     \/ /\ ~ Review(key).unchanged /\ key \notin DOMAIN rendered
        /\ calls' = [calls EXCEPT ![r] = [key |-> key, cursor |-> cursor]]
        /\ UNCHANGED readings
  /\ UNCHANGED <<situation, rendered>>

Begin(r) ==
  /\ readings[r].state = "none"
  /\ \E key \in Keys : Call(r, key, NoValue)

Continue(r) ==
  /\ readings[r].state = "open"
  /\ Call(r, readings[r].key, readings[r].cursor)

(* A cursor is used with other parameters, or for another snapshot.        *)
Stray(r) ==
  /\ readings[r].state = "open"
  /\ \E key \in Keys \ {readings[r].key} : Call(r, key, readings[r].cursor)

(* The review is rendered, and put into the cache unless it is there.      *)
Render(r) ==
  LET key == calls[r].key
      fresh == Review(key)
      kept(map) ==
        [k \in DOMAIN map \union {key} |-> IF k \in DOMAIN map THEN map[k] ELSE fresh]
      evict == key \notin DOMAIN rendered /\ Cardinality(DOMAIN rendered) >= CacheLimit
  IN  /\ calls[r] # Idle
      /\ \/ ~ evict /\ rendered' = kept(rendered)
         \/ /\ evict
            /\ \E gone \in DOMAIN rendered :
                 rendered' = kept([k \in DOMAIN rendered \ {gone} |-> rendered[k]])
      /\ Receive(r, key, Serve(key, calls[r].cursor, rendered'[key]))
      /\ calls' = [calls EXCEPT ![r] = Idle]
      /\ UNCHANGED situation

Next == \E r \in Active : Begin(r) \/ Continue(r) \/ Stray(r) \/ Render(r)

Spec == Init /\ [][Next]_vars

(***************************************************************************)
(* Properties.                                                             *)
(***************************************************************************)

(* Whoever follows the cursors to the end has every section exactly once   *)
(* and in order, each from the first page on until it is exhausted, no     *)
(* graph page has more records than asked for, and the counts of the pages *)
(* agree: what a page leaves is what the one before left, less what this   *)
(* one shows or begins (page, limit_page_records, record_coverage,         *)
(* index.rs:2010-2059 and 2300-2318).                                      *)
Showing(reading, k) == {i \in DOMAIN reading.pages : k \in DOMAIN reading.pages[i]}
PagesOf(reading, k) == [i \in 1 .. Cardinality(Showing(reading, k)) |-> reading.pages[i][k]]
Joined(pages) == FlattenSeq([i \in DOMAIN pages |-> pages[i].text])
Open(count) == count.total - count.prior - count.emitted - count.remaining
CountsAgree(before, after) ==
  \A i \in DOMAIN before.counts :
    LET b == before.counts[i]
        a == after.counts[i]
        whole == b.total - b.remaining - a.prior
    IN  /\ a.partial = Open(a) /\ b.partial = Open(b)
        /\ whole \in {0, 1} /\ whole <= a.partial
        /\ b.remaining = a.emitted + a.partial - whole + a.remaining
PagesAreTheReview ==
  \A r \in Readers :
    LET reading == readings[r]
    IN  reading.state \in {"open", "over"} /\ ~ Review(reading.key).unchanged =>
          \A k \in Ranks :
            LET pages == PagesOf(reading, k)
                text == Review(reading.key).texts[k]
            IN  /\ Showing(reading, k) = DOMAIN pages
                /\ IF reading.state = "over" THEN Joined(pages) = text
                   ELSE Joined(pages) = SubSeq(text, 1, Len(Joined(pages)))
                /\ \A i \in DOMAIN pages :
                     /\ Sections[k] = "graph" =>
                          pages[i].counts[1].emitted + pages[i].counts[1].partial
                            <= Review(reading.key).maxNodes
                     /\ i > 1 => CountsAgree(pages[i - 1], pages[i])

(* A cursor is good for its review for ever, whatever was evicted and      *)
(* rendered again meanwhile, every page of it makes progress in every      *)
(* section that is not exhausted, and it is good for nothing else          *)
(* (Engine::changes, index.rs:892-943; render_review_page, 1744-1801).     *)
CursorsHold ==
  \A r \in Readers :
    LET reading == readings[r]
    IN  /\ reading.state \in {"none", "open", "over", "cursor mismatch", "invalid cursor"}
        /\ reading.state \in {"cursor mismatch", "invalid cursor"} =>
             reading.cursor.review # Review(reading.key)

=============================================================================
