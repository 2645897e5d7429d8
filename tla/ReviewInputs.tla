------------------------------ MODULE ReviewInputs ------------------------------
(***************************************************************************)
(* What the parts of a review are run on (MCReview): small trees, patches, *)
(* graphs and texts.                                                       *)
(***************************************************************************)
EXTENDS Integers, Sequences, FiniteSets, FiniteSetsExt, SequencesExt

CONSTANTS NoValue, Absent, NoNode, NoPackage

Pairs(set) == {e \in set \X set : e[1] # e[2]}
AtMost(set, k) == UNION {kSubset(j, set) : j \in 0 .. k}

(***************************************************************************)
(* GitChanges.  Three sources, two artifacts of which the first has an     *)
(* analyzer, a source of a dependency and one with an unsafe name.         *)
(***************************************************************************)
SourceNames == {"s1", "s2", "s3", "v", "u"}
Paths == SourceNames \union {"a1", "a2"}

Entry(regular, form, id) == [regular |-> regular, form |-> form, id |-> id]
Text == {Entry(TRUE, "text", 1), Entry(TRUE, "text", 2)}
Link == {Entry(FALSE, "text", 1)}
Odd == {Entry(TRUE, "binary", 1), Entry(TRUE, "large", 1)}
Entries == Text \union Link \union Odd

(* Some paths hold something, each one of what `may` says; a path that the *)
(* index does not have may be untracked.                                   *)
States(some, may, mode) ==
  [trees |-> {[p \in Paths |-> IF p \in some THEN t[p] ELSE Absent] :
                t \in [some -> may \union {Absent}]},
   mode |-> mode]

Worktrees ==
  {States({"s1", "s2", "s3"}, Text, "full"), States({"s1", "s2"}, Text \union Link, "full"),
   States({"a1", "a2"}, Entries, "full"), States({"s1", "v"}, Text, "boundary"),
   States({"s1", "u"}, Text, "full"), States({"s1", "a1"}, Text \union Odd, "full")}

(***************************************************************************)
(* GitRun and BlobReader.                                                  *)
(***************************************************************************)
GitCommands ==
  {[writes |-> w, code |-> code, allowOne |-> allow] :
     w \in UNION {[1 .. n -> {"out", "err"}] : n \in 0 .. 4},
     code \in {"zero", "one", "never"}, allow \in BOOLEAN}
OutputLimits == [s \in {"out", "err"} |-> IF s = "out" THEN 2 ELSE 1]

BlobWorks ==
  {[i \in 1 .. 3 |-> [oid |-> i, holds |-> h[i]]] : h \in [1 .. 3 -> {"blob", "large", "nothing"}]}

(***************************************************************************)
(* ChangeRoots.                                                            *)
(***************************************************************************)
ChangedFile(path, status, lines, added, deleted, symbols, node, notes) ==
  [path |-> path, status |-> status, lines |-> lines, added |-> added, deleted |-> deleted,
   symbols |-> symbols, node |-> node, notes |-> notes]
Symbol(id, from, to) == [id |-> id, from |-> from, to |-> to]

(* Up to two symbols anywhere in three lines, sorted by where they start.   *)
Intervals == {i \in (1 .. 3) \X (1 .. 3) : i[1] <= i[2]}
SymbolsOf3 ==
  {<<>>} \union {<<Symbol(1, i[1], i[2])>> : i \in Intervals}
    \union {<<Symbol(1, e[1][1], e[1][2]), Symbol(2, e[2][1], e[2][2])>> :
              e \in {f \in Intervals \X Intervals : f[1][1] <= f[2][1]}}

OneFile ==
  {<<ChangedFile("p1", status, 3, added, deleted, symbols, 9, {[from |-> 2, to |-> 3]})>> :
     status \in {"modified", "renamed"}, added \in SUBSET (1 .. 3),
     deleted \in SUBSET (0 .. 3), symbols \in SymbolsOf3}

(* Three symbols, the last line in or out of one.                          *)
LongFile ==
  {<<ChangedFile("p1", "modified", 6, added, deleted, symbols, NoNode, {})>> :
     added \in SUBSET (1 .. 6), deleted \in {{}, {0}, {2}, {3, 5}, {6}},
     symbols \in {<<Symbol(1, 1, 6), Symbol(2, 2, 3), Symbol(3, 4, 4)>>,
                  <<Symbol(1, 1, 2), Symbol(2, 3, 3), Symbol(3, 5, 6)>>,
                  <<Symbol(1, 1, 1), Symbol(2, 3, 4), Symbol(3, 4, 5)>>,
                  <<Symbol(1, 2, 4), Symbol(2, 3, 3), Symbol(3, 6, 6)>>}}

(* Several files that share a symbol, with more roots than are analyzed.   *)
SeveralFiles ==
  {<<ChangedFile("p1", s1, 3, {1, 2, 3}, {}, <<Symbol(1, 1, 2)>>, n1, {}),
     ChangedFile("p2", s2, 3, a2, d2, <<Symbol(2, 1, 1), Symbol(1, 2, 3)>>, 8, {}),
     ChangedFile("p3", "untracked", 2, {}, {}, <<Symbol(3, 1, 1)>>, n3,
                 {[from |-> 1, to |-> 2]})>> :
     s1 \in {"added", "untracked", "modified"}, n1 \in {9, NoNode},
     s2 \in {"modified", "renamed"}, a2 \in {{}, {2}, {3}}, d2 \in {{}, {0}, {3}},
     n3 \in {7, NoNode}}

Patches == OneFile \union LongFile \union SeveralFiles

(***************************************************************************)
(* ChangeFlow.                                                             *)
(***************************************************************************)
Node(kind, file, parent, name, conventional) ==
  [kind |-> kind, file |-> file, parent |-> parent, name |-> name,
   conventional |-> conventional]
Fn(file) == Node("function", file, 0, file, FALSE)

Graph(nodes, package, mode, calls, roots, limits) ==
  [nodes |-> nodes, package |-> package, mode |-> mode, calls |-> calls, tests |-> {},
   impls |-> {}, imports |-> {}, rust |-> {}, secure |-> {}, unresolved |-> {}, roots |-> roots,
   depth |-> 2, limits |-> limits]

Wide == [nodes |-> 9, scan |-> 9, queries |-> 40, depth |-> 3, dispatch |-> 2, drawn |-> 9]
Tight ==
  {[Wide EXCEPT !.nodes = 2], [Wide EXCEPT !.nodes = 1, !.scan = 2],
   [Wide EXCEPT !.scan = 2], [Wide EXCEPT !.queries = 3], [Wide EXCEPT !.depth = 1]}

(* Calls among four functions.                                             *)
OwnCode ==
  LET nodes == <<Fn(1), Fn(1), Fn(2), Fn(3)>>
      none == [f \in 1 .. 3 |-> NoPackage]
  IN  {Graph(nodes, none, "full", calls, roots, Wide) :
         calls \in AtMost(Pairs(1 .. 4), 4), roots \in {<<1>>, <<2, 3>>}}
      \union
      {Graph(nodes, none, "full", calls, <<2, 3>>, limits) :
         calls \in AtMost(Pairs(1 .. 4) \union {<<3, 3>>}, 3), limits \in Tight}

(* Methods of two traits and an implementor, and a test.                   *)
Dispatching ==
  LET nodes == <<Node("type", 1, 0, 0, FALSE), Node("type", 2, 0, 0, FALSE),
                 Node("type", 2, 0, 0, FALSE), Node("function", 1, 1, 7, FALSE),
                 Node("function", 2, 2, 7, FALSE), Node("function", 2, 3, 7, TRUE),
                 Node("test", 3, 0, 0, FALSE)>>
  IN  {[Graph(nodes, [f \in 1 .. 3 |-> NoPackage], "full", calls, roots, limits)
          EXCEPT !.impls = impls, !.tests = tests, !.depth = depth] :
         calls \in AtMost({<<4, 5>>, <<5, 6>>, <<6, 4>>}, 2), tests \in {{}, {<<7, 4>>}, {<<7, 5>>}},
         impls \in SUBSET {<<1, 2>>, <<2, 3>>, <<3, 1>>}, roots \in {<<1>>, <<5, 3>>, <<7, 6>>},
         depth \in {1, 2},
         limits \in {Wide, [Wide EXCEPT !.dispatch = 1], [Wide EXCEPT !.nodes = 2]}}

(* Four functions and a test, in a diagram with room for few.              *)
Drawing ==
  LET nodes == <<Fn(1), Fn(1), Fn(2), Fn(3), Node("test", 4, 0, 4, FALSE)>>
  IN  {[Graph(nodes, [f \in 1 .. 4 |-> NoPackage], "full", calls, <<1, 3>>,
              [Wide EXCEPT !.drawn = drawn])
          EXCEPT !.tests = tests, !.secure = {1}, !.unresolved = {2}] :
         calls \in AtMost(Pairs(1 .. 4), 3), tests \in {{}, {<<5, 2>>}, {<<5, 1>>, <<5, 3>>}},
         drawn \in {2, 3, 9}}

(* Two functions of our own, two dependencies, one of them with two files. *)
Depending ==
  LET nodes == <<Fn(1), Fn(1), Fn(2), Fn(3), Fn(4)>>
      packages == <<NoPackage, "p", "p", "q">>
  IN  {Graph(nodes, packages, "boundary", calls, <<1>>, Wide) :
         calls \in AtMost(Pairs(1 .. 5), 3)}
      \union {Graph(nodes, packages, "full", calls, <<1>>, [Wide EXCEPT !.scan = 2]) :
                calls \in AtMost(Pairs(1 .. 5), 2)}

(* Imports among four files, one of which may be left out.                 *)
Importers ==
  LET file(f) == Node("file", f, 0, f, FALSE)
  IN  {[Graph([f \in 1 .. 4 |-> file(f)], [f \in 1 .. 4 |-> NoPackage], "full", {}, <<1, 3>>,
              Wide)
          EXCEPT !.imports = imports, !.rust = rust] :
         imports \in {i \in SUBSET Pairs(1 .. 4) : Cardinality(i) \in 2 .. 5},
         rust \in {{}, {4}}}

(* More changed functions than are analyzed: two files of a changed type,  *)
(* a changed function between them, and five entries.                      *)
Overfull ==
  LET nodes == <<Node("type", 1, 0, 0, FALSE)>> \o [i \in 1 .. 4 |-> Fn(1)] \o <<Fn(2)>>
                 \o <<Node("type", 3, 0, 0, FALSE)>> \o [i \in 1 .. 6 |-> Fn(3)]
                 \o [i \in 1 .. 5 |-> Fn(4)]
      calls == ({14} \X (2 .. 4)) \union ({15} \X (5 .. 6)) \union {<<15, 8>>}
                  \union ({16} \X (9 .. 11)) \union {<<17, 12>>, <<18, 13>>}
  IN  {Graph(nodes, [f \in 1 .. 4 |-> NoPackage], "full", calls, <<1, 6, 7>>,
             [Wide EXCEPT !.nodes = n, !.scan = n]) : n \in {4, 5}}

FlowGraphs == Drawing \union Overfull \union OwnCode \union Dispatching \union Depending \union Importers

(***************************************************************************)
(* ReviewPages.  Two-byte characters, lines with and without marks, and    *)
(* ends without a newline.                                                 *)
(***************************************************************************)
LOCAL C == "char"
LOCAL M == "more"
LOCAL N == "newline"
LOCAL H == "hunk"
LOCAL F == "file"

PlainTexts ==
  {<<>>, <<C>>, <<N, C, M, N>>, <<C, M, C, M, C, M, C, M>>,
   <<C, N, C, C, C, C, C, N, N, C, M>>}
PatchTexts ==
  {<<>>, <<F, N, H, N, C, C, C, N, H, N>>, <<F, C, M, C, M, N, H, C, C, C, N, C>>,
   <<F, N, H, C, N, F, N, N, N>>}
GraphTexts ==
  {<<>>, <<C, N, H, N, C, N, H>>, <<C, M, C, M, C, M, N, N, H, C, N, N>>,
   <<H, N, H, C, C, C, N, N, N, N>>}

Review(key, nodes, texts) ==
  [key |-> key, maxNodes |-> nodes, texts |-> texts, unchanged |-> FALSE]
NoReview(key) ==
  [key |-> key, maxNodes |-> 1, texts |-> <<<<>>, <<>>, <<>>, <<>>, <<>>>>,
   unchanged |-> TRUE]

(* One reader, and every combination of texts.                             *)
Alone ==
  {[readers |-> {"r1"},
    reviews |-> [k \in {"k1"} |-> Review(k, n, <<f, d, a, g, e>>)]] :
     n \in {1, 2}, f \in PlainTexts, d \in PatchTexts, a \in PatchTexts, g \in GraphTexts,
     e \in {<<>>, <<C, M, N, C, C, M, C, N>>}}

(* Two readers, three reviews and one that is empty, a cache for two.      *)
ShortTexts ==
  <<<<C, N, C, N>>, <<F, N, H, N>>, <<>>, <<C, N, C, N, C, N>>, <<C, C, M, C, M, C, N>>>>
Together ==
  {[readers |-> {"r1", "r2"},
    reviews |-> [k \in {"k1", "k2", "k3"} |->
                   IF k = "k3" THEN third ELSE Review(k, IF k = "k1" THEN 1 ELSE 2, ShortTexts)]] :
     third \in {NoReview("k3"), Review("k3", 2, [ShortTexts EXCEPT ![4] = <<C, M>>])}}

Readings == Alone \union Together
FirstBudgets == <<4, 3, 4, 3, 4>>

=============================================================================
