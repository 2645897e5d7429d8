----------------------------- MODULE EvidenceInputs -----------------------------
(***************************************************************************)
(* What the import and the review of evidence are run on (MCReview).       *)
(***************************************************************************)
EXTENDS ReviewInputs, TLC

(***************************************************************************)
(* EvidenceImport.  Two Rust files, of which m.rs has a function that      *)
(* makes files, tests, and inclusions of what is made.                     *)
(***************************************************************************)
EvidencePaths == {"l", "x.idl", "m.rs", "n.rs", "o/g.rs", "p/g.rs", "o/h.rs", "up", "r"}
InWorktree == EvidencePaths \ {"up"}
RustNamed == {"m.rs", "n.rs", "o/g.rs", "p/g.rs", "o/h.rs"}
LastPart ==
  [p \in EvidencePaths |-> CASE p \in {"o/g.rs", "p/g.rs"} -> "g.rs" [] p = "o/h.rs" -> "h.rs"
                             [] OTHER -> p]
External == "external"
ReportNames == ("m.rs" :> "m.rs") @@ ("./m.rs" :> "m.rs") @@ ("gone.rs" :> "gone.rs")
                 @@ ("/lib.rs" :> External) @@ ("/std.rs" :> External)

Item(kind, names, from, to) == [kind |-> kind, names |-> names, from |-> from, to |-> to]
Site(hint, line) == [hint |-> hint, line |-> line, source |-> 1]
ParsedFile(nodes, sites) == [language |-> "rust", nodes |-> nodes, sites |-> sites]
Content(id, size, file, report) ==
  [id |-> id, size |-> size, lines |-> 9, file |-> file, report |-> report]
Bytes(id, size) == Content(id, size, NoValue, NoValue)

Makers == <<Item("file", {"m.rs"}, 1, 9), Item("function", {"gen"}, 2, 3),
            Item("test", {"t", "m::t"}, 5, 6)>>
Made == ParsedFile(<<Item("file", {"g.rs"}, 1, 3), Item("function", {"made"}, 1, 2)>>, <<>>)
Nest == ParsedFile(<<Item("file", {"g.rs"}, 1, 3)>>, <<Site("h.rs", 2)>>)
TwoFiles(makers, here, there, tests) ==
  ("m.rs" :> ParsedFile(makers, here))
    @@ ("n.rs" :> ParsedFile(<<Item("file", {"n.rs"}, 1, 4)>> \o tests, there))

Lines1(line) == [from |-> line, to |-> line]
LineSpan(path, from, to) == [path |-> path, from |-> from, to |-> to]
Link1(output, maker) ==
  [input |-> LineSpan("x.idl", 1, 2), generator |-> LineSpan("m.rs", maker, 3),
   output |-> LineSpan(output, 1, 3), inputId |-> 1, outputId |-> 2]
Manifest(links, reports) == [path |-> "l", generated |-> links, coverage |-> reports]
OnDisk(made, nest, report) ==
  [p \in EvidencePaths |-> CASE p = "l" -> Bytes(9, 1)
                             [] p \in {"o/g.rs", "p/g.rs"} -> Content(2, 1, made, NoValue)
                             [] p = "o/h.rs" -> Content(2, 1, nest, NoValue)
                             [] p = "r" -> Content(3, 1, NoValue, report)
                             [] OTHER -> Bytes(1, 1)]
Evidence(links, reports, disk, files) ==
  [manifest |-> Manifest(links, reports), disk |-> disk,
   selected |-> [p \in EvidencePaths |-> Bytes(1, 1)], files |-> files,
   gaps |-> {}, unresolved |-> {}, asked |-> {}]

NoSites == TwoFiles(Makers, <<>>, <<>>, <<>>)

(* One or two links; inclusions here, there, twice, or in what is made;    *)
(* one maker, two (one inside of the other) or none.                       *)
Provenances ==
  LET some == {<<>>, <<Site("g.rs", 7)>>, <<Site("g.rs", 7), Site("g.rs", 8)>>,
               <<Site("g.rs", 7), Site("h.rs", 8)>>}
      makers == {Makers, Append(Makers, Item("function", {"inner"}, 3, 3))}
      links == {<<Link1(o, 2)>> : o \in {"o/g.rs", "o/h.rs"}}
                 \union {<<Link1(o[1], g[1]), Link1(o[2], g[2])>> :
                           o \in {"o/g.rs", "p/g.rs", "o/h.rs"} \X {"o/g.rs", "p/g.rs", "o/h.rs"},
                           g \in {<<1, 2>>, <<2, 3>>}}
  IN  {Evidence(l, <<>>, OnDisk(made, Made, NoValue), TwoFiles(m, here, there, <<>>)) :
         l \in links, made \in {Made, Nest}, m \in makers, here \in some, there \in some}

(* Files that are not what the manifest says, or are named twice.          *)
Captures ==
  LET one == Evidence(<<Link1("o/g.rs", 2)>>, <<>>, OnDisk(Made, Made, NoValue),
                      TwoFiles(Makers, <<Site("g.rs", 7)>>, <<>>, <<>>))
  IN  {[one EXCEPT !.disk["o/g.rs"] = c] :
         c \in {Absent, Content(4, 1, Made, NoValue), Content(2, 4, Made, NoValue),
                [Content(2, 1, Made, NoValue) EXCEPT !.lines = 2]}}
        \union {[one EXCEPT !.selected["x.idl"] = c] : c \in {Absent, Bytes(5, 1), Bytes(1, 3)}}
        \union {[one EXCEPT !.manifest.generated[1].input = i] :
                  i \in {LineSpan("l", 1, 2), LineSpan("x.idl", 0, 2), LineSpan("x.idl", 3, 2),
                         LineSpan("up", 1, 2), LineSpan("o/g.rs", 1, 2)}}
        \union {[one EXCEPT !.manifest.generated[1].output.path = p] : p \in {"m.rs", "r"}}
        \union {[one EXCEPT !.manifest.generated[1].output.path = "n.rs",
                     !.disk["n.rs"] = Content(2, 1, made, NoValue), !.files["m.rs"].sites = here] :
                  made \in {Made, one.files["n.rs"]},
                  here \in {<<>>, <<Site("n.rs", 7)>>, <<Site("n.rs", 7), Site("n.rs", 8)>>}}

(***************************************************************************)
(* Reports: what LLVM counts, under several names of a file, ...           *)
(***************************************************************************)
CoverageOf(format, test) ==
  [format |-> format, path |-> "r", id |-> 3, label |-> "a", test |-> test]
RanAt(name, from, count, kind) ==
  [name |-> name, from |-> from, to |-> from + 1, count |-> count, kind |-> kind]
Decided(name, from, yes, no) ==
  [name |-> name, from |-> from, to |-> from, yes |-> yes, no |-> no]

TestFiles ==
  {TwoFiles(Makers, <<>>, <<>>, tests) : tests \in {<<>>, <<Item("test", {"t"}, 2, 3)>>}}
Tests == {NoValue, "t", "m::t", "none"}

LlvmReports ==
  LET regions == {RanAt(n, 2, c, k) : n \in DOMAIN ReportNames, c \in {0, 2}, k \in {0, 3}}
                   \union {RanAt("m.rs", l, 1, 0) : l \in {0, 4, 7}}
                   \union {RanAt("m.rs", 2, 0, 7)}
      branches == {<<>>, <<Decided("m.rs", 3, 1, 0)>>,
                   <<Decided("m.rs", 8, 0, 0), Decided("./m.rs", 8, 2, 2), Decided("/lib.rs", 1, 1, 1)>>}
  IN  {[regions |-> r, branches |-> b, files |-> <<>>] :
         r \in {<<>>} \union {<<x>> : x \in regions} \union {<<x, y>> : x \in regions, y \in regions},
         b \in branches}

Reported(reports) == {"r" :> Content(3, 1, NoValue, r) : r \in reports}
Covered(format, tests, files) ==
  {Evidence(<<>>, <<CoverageOf(format, t)>>, OnDisk(Made, Made, NoValue), f) :
     t \in tests, f \in files}
LlvmImports ==
  {[inputs |-> Covered("llvm", Tests, TestFiles),
    disks |-> Reported({q \in LlvmReports : Len(q.regions) < 2})],
   [inputs |-> Covered("llvm", {NoValue}, {NoSites}), disks |-> Reported(LlvmReports)]}

(* ... and what Coverage.py tells of lines, contexts and arcs.             *)
PyFile(name, executed, missing, contexts, taken, missed) ==
  [name |-> name, executed |-> executed, missing |-> missing, contexts |-> contexts,
   taken |-> taken, missed |-> missed]

PyReports ==
  LET contexts == {<<>>, 2 :> <<>>, 2 :> <<"t">>, 2 :> <<"t", "t">>, 2 :> <<"m::t", "none">>}
      arcs == {<<>>, <<<<2, 3>>>>, <<<<2, -1>>, <<-1, 8>>>>, <<<<-1, -2>>>>, <<<<0, 2>>>>,
               <<<<5, 2>>, <<5, 2>>>>}
      files == {PyFile(n, e, m, c, t, x) :
                  n \in {"m.rs", "/lib.rs"}, e \in {<<2>>, <<2, 8>>, <<2, 2>>},
                  m \in {<<>>, <<3>>}, c \in contexts, t \in arcs, x \in {<<>>, <<<<3, 8>>>>}}
      others == {PyFile(n, <<l>>, <<>>, <<>>, <<>>, <<>>) :
                   n \in {"./m.rs", "gone.rs", "/std.rs"}, l \in {0, 2, 7}}
      first == {f \in files : f.taken = <<>> /\ f.missed = <<>>}
      Report(f) == [regions |-> <<>>, branches |-> <<>>, files |-> f]
  IN  {Report(<<f>>) : f \in files} \union {Report(<<f, o>>) : f \in first, o \in others}
PyImports ==
  [inputs |-> Covered("py", {NoValue, "t"}, TestFiles), disks |-> Reported(PyReports)]

(***************************************************************************)
(* EvidenceReview.  What is asked of an image, ...                         *)
(***************************************************************************)
Asked(files) ==
  [view |-> NoValue, mode |-> "full", files |-> files, artifacts |-> {}, affected |-> {},
   complete |-> TRUE]
Viewed(id) == [Asked(<<>>) EXCEPT !.view = id]
Touched(path, half) ==
  path :> [whole |-> FALSE, spans |-> {[from |-> half, to |-> half]}]
WholeFile(path) == path :> [whole |-> TRUE, spans |-> {}]

AskedOfLines ==
  {Asked(Touched("m.rs", h)) : h \in {4, 7, 12, 16, 19}}
    \union {Asked(WholeFile("m.rs")), Asked(Touched("n.rs", 1)), Viewed(<<"m.rs", 2>>)}
AskedOfLinks ==
  AskedOfLines
    \union {[Asked(<<>>) EXCEPT !.artifacts = {"x.idl"}],
            [Asked(<<>>) EXCEPT !.artifacts = {"o/g.rs"}, !.mode = "boundary"],
            [Asked(<<>>) EXCEPT !.affected = {<<"m.rs", 2>>}],
            Asked(Touched("n.rs", 4)),
            [Asked(Touched("n.rs", 4)) EXCEPT !.mode = "boundary"], Viewed(<<"m.rs", 1>>),
            Viewed(<<"n.rs", 1>>)}

(* ... links of which one makes what makes the other, gaps of the source   *)
(* model, and reports.                                                     *)
Chained(output, generator) ==
  [Link1(output, 2) EXCEPT !.generator = generator, !.input = LineSpan("x.idl", 4, 5)]
Reviews ==
  LET linked ==
        {Evidence(l, <<>>, OnDisk(Made, Made, NoValue),
                  TwoFiles(Makers, here, <<Site("h.rs", 2)>>, <<>>)) :
           l \in {<<Link1("o/g.rs", 2)>>, <<Link1("o/g.rs", 2), Link1("o/h.rs", 1)>>,
                  <<Chained("o/h.rs", LineSpan("o/g.rs", 1, 2)), Link1("o/g.rs", 2)>>,
                  <<Link1("o/g.rs", 2), Chained("o/h.rs", LineSpan("o/g.rs", 1, 2))>>},
           here \in {<<>>, <<Site("g.rs", 7)>>, <<Site("g.rs", 7), Site("k.rs", 8)>>}}
      gap == [path |-> "m.rs", lines |-> Lines1(8), source |-> <<"m.rs", 1>>]
      Run(test, label) == [CoverageOf("llvm", test) EXCEPT !.label = label]
      llvm == {[regions |-> r, branches |-> b, files |-> <<>>] :
                 r \in {<<RanAt("m.rs", 2, 1, 0)>>, <<RanAt("m.rs", 3, 0, 0), RanAt("m.rs", 8, 1, 0)>>,
                        <<RanAt("m.rs", 2, 1, 0), RanAt("/lib.rs", 2, 0, 0)>>,
                        <<RanAt("gone.rs", 2, 1, 0)>>, <<RanAt("/lib.rs", 2, 1, 0)>>,
                        <<RanAt("m.rs", 7, 0, 0), RanAt("gone.rs", 4, 1, 0)>>},
                 b \in {<<>>, <<Decided("m.rs", 3, 1, 0)>>, <<Decided("m.rs", 8, 0, 1)>>}}
      As(set, asked) == {[e EXCEPT !.asked = asked] : e \in set}
  IN  {[inputs |-> {[e EXCEPT !.gaps = g, !.unresolved = u, !.asked = AskedOfLinks] :
                      e \in linked, g \in {{}, {gap}}, u \in {{}, {"gen"}, {"made"}}},
        disks |-> {<<>>}],
       [inputs |-> As({Evidence(<<>>, <<Run(t, "a")>>, OnDisk(Made, Made, NoValue), NoSites) :
                         t \in {NoValue, "t", "none"}}, AskedOfLines),
        disks |-> Reported(llvm)],
       [inputs |-> As(Covered("py", {NoValue}, {NoSites}), AskedOfLines),
        disks |-> Reported(PyReports)]}

(* Everything that is imported.                                            *)
Imports ==
  {[inputs |-> Provenances \union Captures, disks |-> {<<>>}], PyImports} \union LlvmImports
    \union Reviews

=============================================================================
