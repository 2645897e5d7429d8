----------------------------- MODULE EvidenceReview -----------------------------
(***************************************************************************)
(* What a review says of the evidence in an image (src/src/store.rs): the  *)
(* lines and symbols a change is about, widened along the links of         *)
(* generated files (CoverageScope), the claims and gaps rendered for them, *)
(* and the statuses that sum them up.                                      *)
(*                                                                         *)
(* The image is one that EvidenceImport stored.  Its input has three more  *)
(* fields: `gaps`, the static gaps of the source image, `unresolved`, the  *)
(* keys of references that were not resolved, and `asked`, the changes or  *)
(* symbols it is asked about.  Counts, columns and the order of the lines  *)
(* are left out.                                                           *)
(***************************************************************************)
EXTENDS EvidenceImport

CONSTANT DependencyPaths  \* paths in a vendored package

(***************************************************************************)
(* A scope: whole files, ranges of lines, and symbols.                     *)
(***************************************************************************)
Scope(whole, ranges, nodes) == [whole |-> whole, ranges |-> ranges, nodes |-> nodes]

Overlap(a, b) == a.path = b.path /\ a.from <= b.to /\ b.from <= a.to
Relevant(scope, span) ==
  span.path \in scope.whole \/ \E r \in scope.ranges : Overlap(r, span)

AddRanges(scope, spans) ==
  [scope EXCEPT !.ranges = @ \union {s \in spans : s.path \notin scope.whole}]
AddNodes(scope, files, ids) ==
  [AddRanges(scope, {Span(id[1], NodeAt(files, id).from, NodeAt(files, id).to) : id \in ids})
     EXCEPT !.nodes = @ \union ids]

GapRelevant(scope, gap) ==
  \/ gap.path \in scope.whole
  \/ gap.source \in scope.nodes
  \/ gap.lines # NoValue /\ Relevant(scope, Span(gap.path, gap.lines.from, gap.lines.to))

(* An arc is relevant by either of its ends.                               *)
RelevantBranch(scope, b) ==
  IF b.kind = "arc" THEN \E l \in Ends(b) : Relevant(scope, Span(b.path, l, l))
  ELSE Relevant(scope, Span(b.path, b.from, b.to))

(***************************************************************************)
(* expand_provenance: a link that a scope touches anywhere brings all of   *)
(* its ends into it, until nothing more comes.                             *)
(***************************************************************************)
Include(files, link) ==
  IF link.site = NoValue THEN {}
  ELSE {Span(link.site[1], SiteAt(files, link.site).line, SiteAt(files, link.site).line)}
LinkSpans(files, link) ==
  {link.of.input, link.of.output, link.of.generator} \union Include(files, link)
LinkNodes(files, link) ==
  ({link.generator} \union
     IF link.site = NoValue THEN {} ELSE {<<link.site[1], SiteAt(files, link.site).source>>})
  \ {NoValue}

Touches(scope, files, link) == \E s \in LinkSpans(files, link) : Relevant(scope, s)

Follow(files, link, scope) ==
  IF Touches(scope, files, link)
  THEN [AddRanges(scope, LinkSpans(files, link)) EXCEPT !.nodes = @ \union LinkNodes(files, link)]
  ELSE scope

(* A pass over the links: each is followed from where the ones before it   *)
(* have led.                                                               *)
Pass(rows, scope) ==
  LET order == SetToSeq(rows.links)
      upTo[n \in 0 .. Len(order)] ==
        IF n = 0 THEN scope ELSE Follow(rows.files, order[n], upTo[n - 1])
  IN  upTo[Len(order)]

(* Faults for checking the checks: one pass is all.                        *)
ExpandOnce(rows, scope) == Pass(rows, scope)

(* Passes, until one adds nothing: at the latest when each link has been   *)
(* followed.                                                               *)
Expand(rows, scope) ==
  LET most == Cardinality(rows.links)
      after[n \in 0 .. most + 1] == IF n = 0 THEN scope ELSE Pass(rows, after[n - 1])
  IN  after[CHOOSE n \in 0 .. most : after[n + 1] = after[n]]

(***************************************************************************)
(* The scope of changes.  Spans count in half lines: an odd number is      *)
(* between two lines.                                                      *)
(***************************************************************************)
LineOf(half) == Max({half \div 2, 1})
LinesOfSpan(path, span) == Span(path, LineOf(span.from), Max({span.to \div 2, LineOf(span.from)}))

ChangedNodes(files, path, change) ==
  {id \in NodesOf(files) :
     /\ id[1] = path
     /\ \/ change.whole
        \/ \E s \in change.spans :
             s.from <= 2 * NodeAt(files, id).to /\ s.to >= 2 * NodeAt(files, id).from}

ScopeOfChanges(rows, asked) ==
  LET Collapsed(path) == asked.mode = "boundary" /\ path \in DependencyPaths
      changed == {p \in DOMAIN asked.files : ~ Collapsed(p)}
      lines == Scope({p \in changed : asked.files[p].whole}
                       \union {p \in asked.artifacts : ~ Collapsed(p)},
                     UNION {{LinesOfSpan(p, s) : s \in asked.files[p].spans} :
                            p \in {q \in changed : ~ asked.files[q].whole}}, {})
  IN  Expand(rows, AddNodes(lines, rows.files,
                            UNION {ChangedNodes(rows.files, p, asked.files[p]) : p \in changed}))

(* Of a symbol that is viewed, or of changes and what they affect.         *)
ScopeOf(rows, asked) ==
  IF asked.view = NoValue
  THEN Expand(rows, AddNodes(ScopeOfChanges(rows, asked), rows.files,
                             asked.affected \intersect NodesOf(rows.files)))
  ELSE LET node == NodeAt(rows.files, asked.view)
       IN  Expand(rows, IF node.kind = "file"
                        THEN Scope({asked.view[1]}, {}, {asked.view})
                        ELSE Scope({}, {Span(asked.view[1], node.from, node.to)}, {asked.view}))

(***************************************************************************)
(* coverage_relevance: what is counted for the status.                     *)
(***************************************************************************)
Observations(rows) ==
  [regions |-> {r \in rows.regions : r.key.path \in DOMAIN rows.files},
   branches |-> {b \in rows.branches : b.key.path \in DOMAIN rows.files}]

RelevantRegions(rows, scope) ==
  {r \in Observations(rows).regions :
     Relevant(scope, Span(r.key.path, r.key.from, r.key.to))}
RelevantBranches(rows, scope) ==
  {b \in Observations(rows).branches : RelevantBranch(scope, b.key)}
RelevantRuns(rows, scope) ==
  {o.run : o \in RelevantRegions(rows, scope) \union RelevantBranches(rows, scope)}

(* Faults for checking the checks: a gap of a whole run counts only where  *)
(* something of the run is shown.                                          *)
CountedGapsOfRuns(rows, scope) ==
  {g \in rows.gaps :
     IF g.path = NoValue THEN g.run \in RelevantRuns(rows, scope)
     ELSE Relevant(scope, Span(g.path, g.lines.from, g.lines.to))}

CountedGaps(rows, scope) ==
  {g \in rows.gaps :
     IF g.path = NoValue
     THEN g.reason = "coverage-unmapped-file" \/ g.run \in RelevantRuns(rows, scope)
     ELSE Relevant(scope, Span(g.path, g.lines.from, g.lines.to))}

(***************************************************************************)
(* render_coverage_observations: the claims and gaps that are shown.  A    *)
(* claim is complete unless a gap of its run is about its test or lines.   *)
(***************************************************************************)
GapsOverlap(rows, run, path, lines) ==
  \E g \in rows.gaps :
    /\ g.run = run /\ g.reason \notin TestReasons /\ g.path = path
    /\ \E l \in lines : g.lines.from <= l.to /\ g.lines.to >= l.from
TestGap(rows, run, name) ==
  \E g \in rows.gaps :
    g.run = run /\ g.reason \in TestReasons /\ name # NoValue /\ g.target = name

RegionClaim(rows, r) ==
  LET run == rows.runs[r.run]
      complete ==
        /\ ~ TestGap(rows, r.run, IF run.format = "llvm" THEN run.test ELSE r.key.context)
        /\ ~ GapsOverlap(rows, r.run, r.key.path, {Lines(r.key.from, r.key.to)})
  IN  [of |-> r, lines |-> {Span(r.key.path, r.key.from, r.key.to)}, complete |-> complete,
       says |-> IF ~ complete THEN "unknown" ELSE IF r.count = 0 THEN "not-observed" ELSE "observed"]

BranchLines(b) ==
  IF b.kind = "arc" THEN {Lines(l, l) : l \in Ends(b)} ELSE {Lines(b.from, b.to)}

BranchClaim(rows, b) ==
  LET run == rows.runs[b.run]
      complete == /\ ~ (run.format = "llvm" /\ TestGap(rows, b.run, run.test))
                  /\ ~ GapsOverlap(rows, b.run, b.key.path, BranchLines(b.key))
  IN  [of |-> b, lines |-> {Span(b.key.path, l.from, l.to) : l \in BranchLines(b.key)},
       complete |-> complete,
       says |-> IF ~ complete THEN "unknown" ELSE IF b.count = 0 THEN "not-observed" ELSE "observed"]

ShownClaims(rows, scope) ==
  {RegionClaim(rows, r) : r \in RelevantRegions(rows, scope)}
    \union {BranchClaim(rows, b) : b \in RelevantBranches(rows, scope)}

ShownGaps(rows, scope) ==
  LET shown == {c.of.run : c \in ShownClaims(rows, scope)}
  IN  {g \in rows.gaps :
         IF g.path # NoValue THEN Relevant(scope, Span(g.path, g.lines.from, g.lines.to))
         ELSE \/ g.reason = "coverage-unmapped-file"
              \/ g.reason \in TestReasons /\ g.run \in shown}

(***************************************************************************)
(* render_evidence, static_accounting and static_gap_records.              *)
(***************************************************************************)
LinkComplete(rows, link) ==
  link.state = "linked" /\ link.of.output.path \in DOMAIN rows.files

(* The gap of an inclusion whose output is not known.                      *)
GeneratedGaps(rows) ==
  {[path |-> site[1], source |-> <<site[1], SiteAt(rows.files, site).source>>,
    lines |-> Lines(SiteAt(rows.files, site).line, SiteAt(rows.files, site).line)] :
     site \in rows.unobserved}

StaticComplete(in, rows, scope) ==
  /\ in.gaps = {} /\ rows.unobserved = {}
  /\ \A id \in scope.nodes : NodeAt(rows.files, id).names \intersect in.unresolved = {}

Status(applicable, complete) ==
  IF ~ applicable THEN "not-applicable" ELSE IF complete THEN "complete" ELSE "partial"

ReviewOf(in, rows, asked) ==
  LET scope == ScopeOf(rows, asked)
      links == {l \in rows.links : Touches(scope, rows.files, l)}
      counted == CountedGaps(rows, scope)
      observed == RelevantRegions(rows, scope) \union RelevantBranches(rows, scope)
      provenance == Status(links # {}, \A l \in links : LinkComplete(rows, l))
      execution == Status(rows.runs # <<>> /\ (observed # {} \/ counted # {}), counted = {})
  IN  [asked |-> asked, scope |-> scope, links |-> links,
       generated |-> {g \in GeneratedGaps(rows) : GapRelevant(scope, g)},
       static |-> {g \in in.gaps : GapRelevant(scope, g)},
       claims |-> ShownClaims(rows, scope), gaps |-> ShownGaps(rows, scope),
       provenance |-> provenance, execution |-> execution,
       evidence |-> IF "partial" \in {provenance, execution} THEN "partial" ELSE "complete",
       model |-> IF asked.complete /\ StaticComplete(in, rows, scope) THEN "complete" ELSE "partial"]

Review ==
  /\ result # NoValue /\ result.status = "stored"
  /\ \E asked \in input.asked :
       result' = [status |-> "reviewed", rows |-> result.rows,
                  review |-> ReviewOf(input, result.rows, asked)]
  /\ UNCHANGED input

NextReview == Import \/ Review

SpecReview == Init /\ [][NextReview]_<<input, result>>

(***************************************************************************)
(* What the proofs ask of what is asked: a symbol of the image, or changes *)
(* with what they affect in it.                                            *)
(***************************************************************************)
AskIsSound(files, asked) ==
  /\ asked.affected \subseteq NodesOf(files)
  /\ \A p \in DOMAIN asked.files : \A s \in asked.files[p].spans : Numbered(s)
  /\ asked.view # NoValue =>
       asked.view \in NodesOf(files) /\ asked.files = <<>> /\ asked.affected = {}

AsksAreSound ==
  \A family \in Inputs : \A in \in family.inputs, disk \in family.disks :
    LET found == Found(in, disk)
    IN  ManifestHolds(found.manifest) /\ CaptureHolds(found) =>
          \A asked \in found.asked : AskIsSound(WithOutputs(found), asked)

(***************************************************************************)
(* Properties.                                                             *)
(***************************************************************************)

(* The links that a scope reaches are those connected with what it was     *)
(* before, and all of their lines and symbols are in it.                   *)
LinksReached(rows, before, after) ==
  LET Closed(links) ==
        \A l \in rows.links :
          (\/ Touches(before, rows.files, l)
           \/ \E k \in links : \E s \in LinkSpans(rows.files, k), t \in LinkSpans(rows.files, l) :
                Overlap(s, t))
          => l \in links
      reached == {l \in rows.links : Touches(after, rows.files, l)}
  IN  /\ Closed(reached) /\ \A links \in SUBSET reached : Closed(links) => links = reached
      /\ \A l \in reached :
           /\ LinkNodes(rows.files, l) \subseteq after.nodes
           /\ \A s \in LinkSpans(rows.files, l) : s \in after.ranges \/ s.path \in after.whole

(* The lines that are asked about, before any link is followed.            *)
Start(rows, asked) ==
  LET ids == asked.affected \union ({asked.view} \ {NoValue})
               \union UNION {ChangedNodes(rows.files, p, asked.files[p]) : p \in DOMAIN asked.files}
  IN  (UNION {{LinesOfSpan(p, s) : s \in asked.files[p].spans} : p \in DOMAIN asked.files})
        \union {Span(id[1], NodeAt(rows.files, id).from, NodeAt(rows.files, id).to) : id \in ids}

(* A review shows what it counts.  The links it shows are those connected  *)
(* with the changed lines, through any number of generated files; where it *)
(* calls execution complete it shows no gap, and every claim about lines   *)
(* that are all in scope is complete; where it says partial there is a gap *)
(* to see; where it says not applicable there is neither claim nor gap.  A *)
(* complete provenance shows only links with their output in the graph, a  *)
(* complete model no gap, and lines are claimed as observed or not only    *)
(* for a run that is known, of a file and a test that are (render_evidence *)
(* and coverage_relevance, store.rs:4407-4755, which decide apart from     *)
(* each other what is relevant).                                           *)
ClaimsAreHonest ==
  result # NoValue /\ result.status = "reviewed" =>
    LET rows == result.rows
        review == result.review
        scope == review.scope
        asked == review.asked
        Covered(span) ==
          span.path \in scope.whole \/
            \A l \in span.from .. span.to :
              \E r \in scope.ranges : r.path = span.path /\ r.from <= l /\ l <= r.to
    IN  /\ asked.mode = "full" => LinksReached(rows, [scope EXCEPT !.ranges = Start(rows, asked)], scope)
        /\ review.execution = "not-applicable" => review.claims = {} /\ review.gaps = {}
        /\ review.execution = "complete" =>
             /\ review.gaps = {}
             /\ \A c \in review.claims : (\A s \in c.lines : Covered(s)) => c.complete
        /\ review.execution = "partial" => review.gaps # {}
        /\ review.provenance = "complete" =>
             \A l \in review.links : l.state = "linked" /\ l.of.output.path \in DOMAIN rows.files
        /\ review.model = "complete" => review.static = {} /\ review.generated = {}
        /\ \A c \in review.claims : c.says # "unknown" =>
             HasSymbol(rows.files, c.of.key.path,
                       IF "context" \in DOMAIN c.of.key THEN Lines(c.of.key.from, c.of.key.to)
                       ELSE LinesOfBranch(c.of.key))

=============================================================================
