----------------------------- MODULE EvidenceImport -----------------------------
(***************************************************************************)
(* From an evidence manifest to the rows of an image: what capture_manifest*)
(* and EvidenceManifest::capture (src/src/evidence.rs) accept, what        *)
(* parse_coverage (src/src/coverage.rs) reads in a report, how             *)
(* build_generated_evidence (src/src/index.rs) and insert_evidence         *)
(* (src/src/store.rs) link it with the files of a source image, and what   *)
(* require_evidence_invariants asks of the rows before they are committed. *)
(*                                                                         *)
(* Columns, the number of times a gap occurs and SCIP indexes (the subject *)
(* of GraphResolution) are left out; a digest is the identity of a content.*)
(***************************************************************************)
EXTENDS Integers, Sequences, FiniteSets, FiniteSetsExt, SequencesExt

CONSTANTS
  Inputs,        \* families of manifests with the files they are about, some of them replaced
  BaseName,      \* the last part of a path
  RustPaths,     \* paths that end in .rs
  SafePaths,     \* paths that stay inside of the worktree
  PathOf,        \* names in reports, to the path or to External
  External,
  ArtifactLimit, TotalLimit, LinkLimit, ReportLimit, ObservationLimit, CountLimit,
  Absent, NoValue

VARIABLES input, result

(***************************************************************************)
(* The manifest.  A content is [id, size, lines, file, report]: what the   *)
(* parser finds in it, or what a report says.                              *)
(***************************************************************************)
Span(path, from, to) == [path |-> path, from |-> from, to |-> to]
ValidSpan(span) == 1 <= span.from /\ span.from <= span.to
Fits(span, content) == span.to <= Max({content.lines, 1})
Distinct(s) == IsInjective(s)

ManifestHolds(m) ==
  /\ Len(m.generated) <= LinkLimit /\ Len(m.coverage) <= ReportLimit
  /\ \A i \in DOMAIN m.generated :
       LET g == m.generated[i]
       IN  /\ ValidSpan(g.input) /\ ValidSpan(g.generator) /\ ValidSpan(g.output)
           /\ {g.input.path, g.generator.path, g.output.path} \subseteq SafePaths
           /\ g.output.path \in RustPaths
  /\ \A i \in DOMAIN m.coverage : m.coverage[i].path \in SafePaths
  /\ Distinct(m.generated)
  /\ Distinct([i \in DOMAIN m.coverage |->
       <<m.coverage[i].format, m.coverage[i].label, m.coverage[i].id>>])

(* A file in its place, of the size that is read and with the bytes that   *)
(* were declared.                                                          *)
Attested(content, id) ==
  content # Absent /\ content.id = id /\ content.size <= ArtifactLimit

Artifact(role, path, content) == [role |-> role, path |-> path, content |-> content]

(* Everything that is retained.                                            *)
Artifacts(in) ==
  LET m == in.manifest
  IN  {Artifact("manifest", m.path, in.disk[m.path])}
        \union {Artifact("input", g.input.path, in.selected[g.input.path]) :
                  g \in Range(m.generated)}
        \union {Artifact("generated-rust", g.output.path, in.disk[g.output.path]) :
                  g \in Range(m.generated)}
        \union {Artifact("coverage-report", c.path, in.disk[c.path]) : c \in Range(m.coverage)}

(* What is charged, as often as it is declared.                            *)
Charges(in) ==
  LET m == in.manifest
  IN  <<in.disk[m.path]>>
        \o [i \in DOMAIN m.generated |-> in.selected[m.generated[i].input.path]]
        \o [i \in DOMAIN m.generated |-> in.disk[m.generated[i].output.path]]
        \o [i \in DOMAIN m.coverage |-> in.disk[m.coverage[i].path]]

CaptureHolds(in) ==
  LET m == in.manifest
  IN  /\ \A i \in DOMAIN m.generated :
           LET g == m.generated[i]
               from == in.selected[g.input.path]
               made == in.disk[g.output.path]
           IN  /\ Attested(from, g.inputId) /\ Fits(g.input, from)
               /\ Attested(made, g.outputId) /\ Fits(g.output, made)
      /\ \A i \in DOMAIN m.coverage : Attested(in.disk[m.coverage[i].path], m.coverage[i].id)
      /\ \A a, b \in Artifacts(in) : a.path = b.path => a.content = b.content
      /\ FoldSeq(LAMBDA c, sum : sum + c.size, 0, Charges(in)) <= TotalLimit

(***************************************************************************)
(* Generated files.  A file is [language, nodes, sites]: nodes are         *)
(* [kind, names, from, to], the file's own among them, and sites are the   *)
(* inclusions of generated files, [hint, line, source], the last being the *)
(* node that they are in.                                                  *)
(***************************************************************************)
Contended(m, name) ==
  Cardinality({g.output.path : g \in {h \in Range(m.generated) :
                                        BaseName[h.output.path] = name}}) > 1

AllSites(files) == UNION {{<<p, i>> : i \in DOMAIN files[p].sites} : p \in DOMAIN files}
SiteAt(files, id) == files[id[1]].sites[id[2]]
Sites(files, name) == {id \in AllSites(files) : SiteAt(files, id).hint = name}

(* build_generated_evidence parses an output when exactly one site of the  *)
(* source image includes it.                                               *)
ParsedOutputs(in) ==
  {p \in {g.output.path : g \in Range(in.manifest.generated)} :
     /\ ~ Contended(in.manifest, BaseName[p])
     /\ Cardinality(Sites(in.files, BaseName[p])) = 1}

WithOutputs(in) ==
  [p \in DOMAIN in.files \union ParsedOutputs(in) |->
     IF p \in ParsedOutputs(in) THEN in.disk[p].file ELSE in.files[p]]

NodesOf(files) == UNION {{<<p, i>> : i \in DOMAIN files[p].nodes} : p \in DOMAIN files}
NodeAt(files, id) == files[id[1]].nodes[id[2]]

Generators(files, span) ==
  {id \in NodesOf(files) :
     /\ id[1] = span.path /\ files[span.path].language \in {"rust", "python"}
     /\ NodeAt(files, id).kind \in {"function", "test"}
     /\ NodeAt(files, id).from <= span.from /\ NodeAt(files, id).to >= span.to}

TheOnly(set) == IF Cardinality(set) = 1 THEN CHOOSE x \in set : TRUE ELSE NoValue

(* provenance_resolution, of the image the outputs are in.                 *)
Link(files, m, g) ==
  LET name == BaseName[g.output.path]
      makers == Generators(files, g.generator)
      sites == IF Contended(m, name) THEN {} ELSE Sites(files, name)
  IN  [of |-> g, generator |-> TheOnly(makers), site |-> TheOnly(sites),
       state |-> IF Contended(m, name) \/ Cardinality(makers) > 1 \/ Cardinality(sites) > 1
                 THEN "ambiguous"
                 ELSE IF Cardinality(makers) = 1 /\ Cardinality(sites) = 1
                 THEN "linked"
                 ELSE "unobserved"]

(* Sites whose output is not known: the gap of a site goes when a link     *)
(* takes the site.                                                         *)
Unobserved(files, links) == AllSites(files) \ {l.site : l \in links}

(***************************************************************************)
(* parse_coverage.  What is read is a set of regions and branches with a   *)
(* count each, and the number of names outside of the worktree.            *)
(***************************************************************************)
Region(path, from, to, context) ==
  [path |-> path, from |-> from, to |-> to, context |-> context]
Branch(path, from, to, target, kind) ==
  [path |-> path, from |-> from, to |-> to, target |-> target, kind |-> kind]
Seen(key, count) == [key |-> key, count |-> count]

(* Faults for checking the checks: the last count of a region stays.       *)
TotalLast(seen, key) ==
  FoldSeq(LAMBDA s, n : IF s.key = key THEN s.count ELSE n, 0, seen)

Total(seen, key) ==
  LET upTo[n \in 0 .. Len(seen)] ==
        IF n = 0 THEN 0
        ELSE IF seen[n].key = key THEN upTo[n - 1] + seen[n].count ELSE upTo[n - 1]
  IN  upTo[Len(seen)]
Keys(seen) == {s.key : s \in Range(seen)}
Totals(seen) == {Seen(k, Total(seen, k)) : k \in Keys(seen)}

Parsed(holds, regions, branches, names) ==
  [holds |-> holds /\ Len(regions) + Len(branches) <= ObservationLimit /\ regions # <<>>,
   regions |-> Totals(regions), branches |-> Totals(branches),
   external |-> Cardinality({n \in names : PathOf[n] = External})]

(* LLVM: kinds 1 to 6 of a region are passed over, a count that does not   *)
(* fit refuses the report.                                                 *)
LlvmCode(report) == {r \in Range(report.regions) : r.kind = 0}
LlvmKey(r) == Region(PathOf[r.name], r.from, r.to, NoValue)

LlvmRegions(report) ==
  FlattenSeq([i \in DOMAIN report.regions |->
    LET r == report.regions[i]
    IN  IF r \in LlvmCode(report) THEN <<Seen(LlvmKey(r), r.count)>> ELSE <<>>])

Outcome(b, kind, n) == Seen(Branch(PathOf[b.name], b.from, b.to, NoValue, kind), n)

LlvmBranches(report) ==
  FlattenSeq([i \in DOMAIN report.branches |->
    LET b == report.branches[i]
    IN  <<Outcome(b, "true-outcome", b.yes), Outcome(b, "false-outcome", b.no)>>])

ParseLlvm(report) ==
  LET regions == LlvmRegions(report)
      branches == LlvmBranches(report)
  IN  Parsed(/\ \A r \in Range(report.regions) : ValidSpan(r) /\ r.kind \in 0 .. 6
             /\ \A b \in Range(report.branches) : ValidSpan(b)
             /\ \A s \in Totals(regions) \union Totals(branches) : s.count <= CountLimit,
             regions, branches,
             {r.name : r \in LlvmCode(report) \union Range(report.branches)})

(* Coverage.py: a line once for each of its contexts, nothing twice.       *)
PyContexts(f, line) ==
  IF line \in DOMAIN f.contexts /\ f.contexts[line] # <<>> THEN f.contexts[line] ELSE <<NoValue>>

PyLine(f, line, count) ==
  [j \in DOMAIN PyContexts(f, line) |->
     Seen(Region(PathOf[f.name], line, line, PyContexts(f, line)[j]), count)]

PyLines(f, lines, count) == FlattenSeq([i \in DOMAIN lines |-> PyLine(f, lines[i], count)])

PyArcs(f, arcs, count) ==
  [i \in DOMAIN arcs |->
     Seen(Branch(PathOf[f.name], arcs[i][1], arcs[i][1], arcs[i][2], "arc"), count)]

PyRegions(files) ==
  FlattenSeq([i \in DOMAIN files |->
    PyLines(files[i], files[i].executed, 1) \o PyLines(files[i], files[i].missing, 0)])

PyBranches(files) ==
  FlattenSeq([i \in DOMAIN files |->
    PyArcs(files[i], files[i].taken, 1) \o PyArcs(files[i], files[i].missed, 0)])

ParsePy(files) ==
  LET regions == PyRegions(files)
      branches == PyBranches(files)
  IN  Parsed(/\ \A i \in DOMAIN files : \A l \in DOMAIN files[i].contexts :
                  l >= 1 /\ Distinct(files[i].contexts[l])
             /\ \A s \in Range(regions) : s.key.from >= 1
             /\ \A s \in Range(branches) : s.key.from # 0 /\ s.key.target # 0
             /\ Distinct([i \in DOMAIN regions |-> regions[i].key])
             /\ Distinct([i \in DOMAIN branches |-> branches[i].key]),
             regions, branches, {f.name : f \in Range(files)})

ParseCoverage(format, report) ==
  IF format = "llvm" THEN ParseLlvm(report) ELSE ParsePy(report.files)

(***************************************************************************)
(* insert_evidence: rows of runs, regions, branches and gaps.              *)
(***************************************************************************)
TestsNamed(files, name) ==
  {id \in NodesOf(files) : NodeAt(files, id).kind = "test" /\ name \in NodeAt(files, id).names}

(* coverage_test_mapping.                                                  *)
TestOf(files, name) == IF name = NoValue THEN NoValue ELSE TheOnly(TestsNamed(files, name))
TestReason(files, name) ==
  IF TestsNamed(files, name) = {} THEN "missing-test-context" ELSE "ambiguous-test-context"
NeedsTestGap(files, name) == name # NoValue /\ TestOf(files, name) = NoValue

Gap(run, path, lines, reason, target) ==
  [run |-> run, path |-> path, lines |-> lines, reason |-> reason, target |-> target]
Lines(from, to) == [from |-> from, to |-> to]

(* The lines a branch is mapped by (validate_coverage_branch).             *)
Ends(b) == {l \in {b.from, b.target} : l > 0}
BranchHolds(b) == b.kind = "arc" => Ends(b) # {}
LinesOfBranch(b) ==
  IF b.kind = "arc" THEN Lines(Min(Ends(b)), Max(Ends(b))) ELSE Lines(b.from, b.to)

HasSymbol(files, path, lines) ==
  \E id \in NodesOf(files) :
    /\ id[1] = path /\ NodeAt(files, id).kind # "file"
    /\ NodeAt(files, id).from <= lines.to /\ NodeAt(files, id).to >= lines.from

(* record_coverage_mapping_gap.                                            *)
MappingGaps(files, run, path, lines) ==
  IF path \notin DOMAIN files
  THEN IF path = External THEN {} ELSE {Gap(run, path, lines, "coverage-unmapped-file", NoValue)}
  ELSE IF HasSymbol(files, path, lines) THEN {}
       ELSE {Gap(run, path, lines, "coverage-unmapped-region", NoValue)}

RunRows(in, files) ==
  LET m == in.manifest
  IN  [i \in DOMAIN m.coverage |->
         [format |-> m.coverage[i].format, test |-> m.coverage[i].test,
          node |-> TestOf(files, m.coverage[i].test),
          read |-> ParseCoverage(m.coverage[i].format, in.disk[m.coverage[i].path].report)]]

RegionRows(files, runs) ==
  UNION {{[run |-> i, key |-> s.key, count |-> s.count,
           node |-> IF s.key.context # NoValue THEN TestOf(files, s.key.context)
                    ELSE IF runs[i].format = "llvm" THEN runs[i].node ELSE NoValue] :
            s \in runs[i].read.regions} : i \in DOMAIN runs}

BranchRows(runs) ==
  UNION {{[run |-> i, key |-> s.key, count |-> s.count,
           node |-> IF runs[i].format = "llvm" THEN runs[i].node ELSE NoValue] :
            s \in runs[i].read.branches} : i \in DOMAIN runs}

RunGaps(files, runs) ==
  {Gap(i, NoValue, NoValue, TestReason(files, runs[i].test), runs[i].test) :
     i \in {j \in DOMAIN runs : NeedsTestGap(files, runs[j].test)}}

RegionGaps(files, r) ==
  MappingGaps(files, r.run, r.key.path, Lines(r.key.from, r.key.to))
    \union IF NeedsTestGap(files, r.key.context)
           THEN {Gap(r.run, r.key.path, Lines(r.key.from, r.key.to),
                     TestReason(files, r.key.context), r.key.context)}
           ELSE {}

BranchGaps(files, b) == MappingGaps(files, b.run, b.key.path, LinesOfBranch(b.key))

OutsideGaps(runs) ==
  {Gap(i, NoValue, NoValue, "coverage-unmapped-file", NoValue) :
     i \in {j \in DOMAIN runs : runs[j].read.external > 0}}

GapRows(files, runs, regions, branches) ==
  RunGaps(files, runs) \union OutsideGaps(runs)
    \union (UNION {RegionGaps(files, r) : r \in regions})
    \union (UNION {BranchGaps(files, b) : b \in branches})

(* The image with its evidence, before the last checks.                    *)
Rows(in) ==
  LET files == WithOutputs(in)
      links == {Link(files, in.manifest, g) : g \in Range(in.manifest.generated)}
      runs == RunRows(in, files)
      regions == RegionRows(files, runs)
      branches == BranchRows(runs)
  IN  [files |-> files, artifacts |-> Artifacts(in), links |-> links,
       unobserved |-> Unobserved(files, links), runs |-> runs, regions |-> regions,
       branches |-> branches, gaps |-> GapRows(files, runs, regions, branches)]

(***************************************************************************)
(* require_provenance_invariants and require_evidence_invariants.          *)
(***************************************************************************)
LinksHold(rows) ==
  /\ \A l \in rows.links :
       /\ (l.state = "linked") = (l.generator # NoValue /\ l.site # NoValue)
       /\ l.site # NoValue =>
            \E a \in rows.artifacts :
              /\ a.role = "generated-rust" /\ a.path = l.of.output.path
              /\ a.path \in DOMAIN rows.files /\ rows.files[a.path] = a.content.file
       /\ \A k \in rows.links :
            l.site # NoValue /\ k.site # NoValue =>
              (l.site = k.site) = (l.of.output.path = k.of.output.path)
  /\ \A a \in rows.artifacts :
       a.role = "generated-rust" /\ a.path \in DOMAIN rows.files =>
         rows.files[a.path] = a.content.file

TestReasons == {"missing-test-context", "ambiguous-test-context"}
NamesTest(files, id, name) ==
  NodeAt(files, id).kind = "test" /\ name \in NodeAt(files, id).names

(* An observation in a file that has no row, or in no symbol, has a gap.   *)
Mapped(rows, row, lines) ==
  LET Told(reason) == \E g \in rows.gaps :
        /\ g.run = row.run /\ g.reason = reason
        /\ IF row.key.path = External THEN g.path = NoValue /\ g.lines = NoValue
           ELSE g.path = row.key.path /\ g.lines = lines
  IN  IF row.key.path \notin DOMAIN rows.files THEN Told("coverage-unmapped-file")
      ELSE HasSymbol(rows.files, row.key.path, lines) \/ Told("coverage-unmapped-region")

CoverageHolds(rows) ==
  /\ \A i \in DOMAIN rows.runs :
       LET run == rows.runs[i]
       IN  /\ run.node # NoValue => NamesTest(rows.files, run.node, run.test)
           /\ run.test # NoValue /\ run.node = NoValue =>
                \E g \in rows.gaps :
                  g.run = i /\ g.reason \in TestReasons /\ g.target = run.test
  /\ \A r \in rows.regions :
       LET run == rows.runs[r.run]
           lines == Lines(r.key.from, r.key.to)
           context == r.key.context
       IN  /\ context = NoValue =>
                r.node = IF run.format = "llvm" THEN run.node ELSE NoValue
           /\ context # NoValue /\ r.node # NoValue => NamesTest(rows.files, r.node, context)
           /\ context # NoValue /\ r.node = NoValue =>
                \E g \in rows.gaps :
                  /\ g.run = r.run /\ g.reason \in TestReasons /\ g.target = context
                  /\ g.lines = lines
           /\ Mapped(rows, r, lines)
  /\ \A b \in rows.branches :
       /\ b.node = IF rows.runs[b.run].format = "llvm" THEN rows.runs[b.run].node ELSE NoValue
       /\ b.key.kind = "arc" => b.key.from > 0 \/ b.key.target > 0
       /\ Mapped(rows, b, LinesOfBranch(b.key))

(***************************************************************************)
(* Import of a manifest into an image of the sources: refused on the way,  *)
(* refused by the checks of the transaction, or stored.                    *)
(***************************************************************************)
Refused(why) == [status |-> "refused", why |-> why]

ImportOf(in) ==
  IF ~ ManifestHolds(in.manifest) THEN Refused("manifest")
  ELSE IF ~ CaptureHolds(in) THEN Refused("capture")
  ELSE IF ParsedOutputs(in) \intersect DOMAIN in.files # {} THEN Refused("output")
  ELSE LET runs == RunRows(in, WithOutputs(in))
           rows == Rows(in)
       IN  IF \E i \in DOMAIN runs : ~ runs[i].read.holds THEN Refused("report")
           ELSE IF \E i \in DOMAIN runs : \E b \in runs[i].read.branches : ~ BranchHolds(b.key)
           THEN Refused("branch")
           ELSE IF ~ (LinksHold(rows) /\ CoverageHolds(rows)) THEN Refused("checks")
           ELSE [status |-> "stored", rows |-> rows]

(* An input with some of its files replaced.                               *)
Found(in, disk) == [in EXCEPT !.disk = disk @@ @]

Init == input = NoValue /\ result = NoValue

Import ==
  /\ input = NoValue
  /\ \E family \in Inputs : \E in \in family.inputs, disk \in family.disks :
       /\ input' = Found(in, disk)
       /\ result' = ImportOf(Found(in, disk))

Next == Import

Spec == Init /\ [][Next]_<<input, result>>

(***************************************************************************)
(* What the proofs ask of the inputs: what is in rows there is in rows     *)
(* here, lines and hits are counted, and what stands for nothing or for a  *)
(* file outside of the worktree is not something in it.                    *)
(***************************************************************************)
Listed(s) == s \in Seq(Range(s))
Numbered(span) == span.from \in Nat /\ span.to \in Nat

ReportIsSound(format, report) ==
  IF format = "llvm"
    THEN /\ Listed(report.regions) /\ Listed(report.branches)
         /\ \A r \in Range(report.regions) : r.count \in Nat /\ Numbered(r)
         /\ \A b \in Range(report.branches) : Numbered(b)
    ELSE /\ Listed(report.files)
         /\ \A f \in Range(report.files) :
              /\ Listed(f.executed) /\ Listed(f.missing) /\ Listed(f.taken) /\ Listed(f.missed)
              /\ Range(f.executed) \union Range(f.missing) \subseteq Nat
              /\ Range(f.taken) \union Range(f.missed) \subseteq Int \X Int
              /\ \A l \in DOMAIN f.contexts : Listed(f.contexts[l])

InputIsSound(in) ==
  LET m == in.manifest
      files == WithOutputs(in)
  IN  /\ Listed(m.generated)
      /\ \A g \in Range(m.generated) :
           Numbered(g.input) /\ Numbered(g.generator) /\ Numbered(g.output)
      /\ \A i \in DOMAIN m.coverage :
           ReportIsSound(m.coverage[i].format, in.disk[m.coverage[i].path].report)
      /\ IsFiniteSet(DOMAIN in.files) /\ External \notin DOMAIN files /\ NoValue \notin DOMAIN files
      /\ \A p \in DOMAIN files : Listed(files[p].nodes) /\ Listed(files[p].sites)
      /\ \A id \in NodesOf(files) : Numbered(NodeAt(files, id))
      /\ \A id \in AllSites(files) : SiteAt(files, id).line \in Nat
      /\ NoValue \notin NodesOf(files) \union AllSites(files)

InputsAreSound ==
  \A family \in Inputs : \A in \in family.inputs, disk \in family.disks :
    LET found == Found(in, disk)
    IN  ManifestHolds(found.manifest) /\ CaptureHolds(found) => InputIsSound(found)

(***************************************************************************)
(* Properties.                                                             *)
(***************************************************************************)

(* A declared output that no source includes and exactly one parsed output *)
(* does.                                                                   *)
Nested(in) ==
  \E g \in Range(in.manifest.generated) :
    LET name == BaseName[g.output.path]
    IN  /\ ~ Contended(in.manifest, name) /\ Sites(in.files, name) = {}
        /\ Cardinality(Sites(WithOutputs(in), name)) = 1

(* An output that is not parsed, as not one site alone includes it, and is *)
(* a file of the image with other bytes than were declared.                *)
Outdated(in) ==
  \E p \in {g.output.path : g \in Range(in.manifest.generated)} \ ParsedOutputs(in) :
    p \in DOMAIN in.files /\ in.files[p] # in.disk[p].file

(* What a run says of some lines of a path: whether they ran.              *)
Ran(report, name, from, to) ==
  \E i \in DOMAIN report.regions :
    LET r == report.regions[i]
    IN  PathOf[r.name] = PathOf[name] /\ r.from = from /\ r.to = to /\ r.kind = 0 /\ r.count > 0

(* A manifest that is captured as declared, with reports that can be read, *)
(* is imported: the rows made for it pass the checks of their own          *)
(* transaction.  (Not where one output includes another: its file is       *)
(* missing then; nor where an output is a source file that was another     *)
(* when it was captured.)  Every artifact has the bytes that were          *)
(* declared, a line is stored as not run only if no observation of the run *)
(* says it ran, an inclusion has no more than one output, an output that   *)
(* is linked to one is in the graph, and what could not be placed has a    *)
(* gap of its run (insert_evidence, store.rs:6266-6654, against            *)
(* require_evidence_invariants, 2089-2343).                                *)
EvidenceIsTheManifests ==
  result # NoValue =>
    /\ result.status = "refused" /\ result.why = "checks" => Nested(input) \/ Outdated(input)
    /\ result.status = "stored" =>
         LET rows == result.rows
             m == input.manifest
         IN  /\ \A g \in Range(m.generated) :
                  /\ input.selected[g.input.path].id = g.inputId
                  /\ input.disk[g.output.path].id = g.outputId
             /\ \A i \in DOMAIN m.coverage :
                  LET report == input.disk[m.coverage[i].path].report
                  IN  m.coverage[i].format = "llvm" =>
                        \A r \in {q \in Range(report.regions) : q.kind = 0} :
                          \E row \in rows.regions :
                            /\ row.run = i
                            /\ row.key = Region(PathOf[r.name], r.from, r.to, NoValue)
                            /\ (row.count > 0) = Ran(report, r.name, r.from, r.to)
             /\ \A site \in rows.unobserved :
                  \A l \in rows.links : l.site # site
             /\ \A r \in rows.regions :
                  \/ r.key.path \in DOMAIN rows.files
                       /\ HasSymbol(rows.files, r.key.path, Lines(r.key.from, r.key.to))
                  \/ \E g \in rows.gaps :
                       /\ g.run = r.run /\ g.reason \notin TestReasons
                       /\ g.path \in {r.key.path, NoValue}

=============================================================================
