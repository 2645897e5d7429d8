------------------------------ MODULE QueryInputs ------------------------------
(***************************************************************************)
(* What the queries of an image are run on (MCReview): small graphs, and   *)
(* requests with small limits.                                             *)
(***************************************************************************)
EXTENDS EvidenceInputs

(***************************************************************************)
(* GraphWalks.                                                             *)
(***************************************************************************)
Here == [snapshot |-> "s", generation |-> 1]
Ref(n) == Here @@ [node |-> n]

RowOf(kind, file, parent, name, width, notes) ==
  [kind |-> kind, file |-> file, parent |-> parent, name |-> name, width |-> width,
   notes |-> notes]
Edge(from, to, kind) == [from |-> from, to |-> to, kind |-> kind]

Query(op, from, to, depth, limit, undirected) ==
  [op |-> op, from |-> Ref(from), to |-> Ref(to), depth |-> depth, limit |-> limit,
   undirected |-> undirected, name |-> 1, kind |-> NoValue]
ImageOf(nodes, edges, impls, scip, static) ==
  [nodes |-> nodes, edges |-> edges, impls |-> impls, scip |-> scip, static |-> static]

(* Calls among four functions of a file.                                   *)
Calling(widths) ==
  LET nodes == <<RowOf("file", 1, 0, 9, 1, 0)>>
                 \o [k \in 1 .. 4 |-> RowOf("function", 1, 1, 1, widths[k], k)]
  IN  {ImageOf(nodes, {Edge(c[1], c[2], "call") : c \in calls}, {},
             {c \in calls : c[1] = 2}, {c \in calls : c[2] = 3}) :
         calls \in AtMost(Pairs(2 .. 5), 3)}
CallWalks ==
  [graphs |-> Calling(<<1, 1, 1, 1>>),
   queries |-> {Query("view", 2, 0, d, n, FALSE) : d \in {0, 1, 3}, n \in {3, 9}}
                 \union {Query("impact", 2, 0, d, n, FALSE) : d \in {1, 2, 4}, n \in {2, 9}}
                 \union {Query("path", 2, 5, h, 0, u) : h \in {1, 2, 4}, u \in BOOLEAN}]

(* Two files; types that inherit, members of one name, a test, imports.    *)
Typed ==
  LET nodes == <<RowOf("file", 1, 0, 9, 1, 0), RowOf("type", 1, 1, 2, 1, 2), RowOf("function", 1, 2, 1, 1, 0),
                 RowOf("file", 4, 0, 9, 1, 0), RowOf("type", 4, 4, 2, 1, 0), RowOf("function", 4, 5, 1, 1, 0),
                 RowOf("type", 4, 6, 2, 1, 0), RowOf("function", 4, 7, 1, 1, 1), RowOf("test", 1, 3, 3, 1, 0)>>
  IN  {ImageOf(nodes, {Edge(9, 3, "test")} \union edges, impls, {}, {}) :
         edges \in SUBSET {Edge(1, 4, "import"), Edge(8, 3, "call"), Edge(9, 6, "test"), Edge(6, 8, "call")},
         impls \in SUBSET {<<2, 5>>, <<5, 7>>, <<7, 2>>}}
TypedWalks ==
  [graphs |-> Typed,
   queries |-> {Query("view", n, 0, d, 12, FALSE) : n \in {1, 2, 3, 7}, d \in {2, 6}}
                 \union {Query("impact", n, 0, 6, 12, FALSE) : n \in {2, 8}}
                 \union {Query("path", n, 8, 6, 0, u) : n \in {3, 9}, u \in BOOLEAN}]

(* Lines that are too many or too wide for their budget, and references    *)
(* that are of nothing.                                                    *)
LongAnswers ==
  [graphs |-> UNION {Calling(w) : w \in {<<2, 3, 2, 1>>, <<2, 12, 1, 1>>, <<4, 4, 1, 1>>}},
   queries |-> {Query("view", 2, 0, 6, 9, FALSE), Query("impact", 2, 0, 6, 9, FALSE),
                Query("path", 2, 5, 6, 0, FALSE)}
                 \union {Query("search", 1, 0, 0, n, FALSE) : n \in {2, 4}}]
References ==
  [graphs |-> {ImageOf(<<RowOf("file", 1, 0, 1, 1, 0), RowOf("function", 1, 1, 1, 1, 0),
                         RowOf("test", 1, 1, 1, 1, 0)>>, {Edge(3, 2, "test")}, {}, {}, {})},
   queries |-> {[Query(op, 2, 3, 2, 9, FALSE) EXCEPT !.from = f, !.to = t] :
                  op \in {"view", "impact", "path"},
                  f \in {Ref(2), Ref(7), [Ref(2) EXCEPT !.snapshot = "t"],
                         [Ref(3) EXCEPT !.generation = 2]},
                  t \in {Ref(2), Ref(7), [Ref(2) EXCEPT !.snapshot = "t"]}}
                 \union {[Query("search", 1, 1, 0, n, FALSE) EXCEPT !.kind = k] :
                           n \in {1, 2, 3}, k \in {NoValue, "function"}}]

Walks == {CallWalks, TypedWalks, LongAnswers, References}

(***************************************************************************)
(* ApiDiff.  Overloads of one name; and two names in two files, of which   *)
(* one may be moved, generated or a dependency's.                          *)
(***************************************************************************)
Overload(id, signature) ==
  [id |-> id, path |-> "p", kind |-> "function", scope |-> "f", signature |-> signature,
   generated |-> FALSE, package |-> FALSE, keys |-> {1}]
Overloads ==
  {[k \in DOMAIN s |-> Overload(k, s[k])] : s \in UNION {[1 .. n -> {"a", "b", "c"}] : n \in 0 .. 3}}

Named(id, path, kind, scope, keys) ==
  [Overload(id, "a") EXCEPT !.path = path, !.kind = kind, !.scope = scope, !.keys = keys]
Modules ==
  LET symbols(id) ==
        {Named(id, p, k, s, IF s = "f" THEN {1, 2} ELSE {2, 3}) :
           p \in {"p", "q"}, k \in {"function", "type"}, s \in {"f", "g"}}
          \union {[Overload(id, "a") EXCEPT !.path = "g", !.generated = TRUE],
                  [Overload(id, "a") EXCEPT !.path = "v", !.package = TRUE],
                  Named(id, "p", "file", "", {})}
  IN  {<<>>} \union {<<s>> : s \in symbols(1)} \union {<<s, t>> : s \in symbols(1), t \in symbols(2)}

Uses ==
  {[id |-> k, keys |-> {k}, package |-> FALSE] : k \in 1 .. 3}
    \union {[id |-> 4, keys |-> {1, 3}, package |-> TRUE], [id |-> 5, keys |-> {1, 3}, package |-> FALSE]}

Versions ==
  {[bases |-> Overloads, heads |-> Overloads, references |-> Uses, boundaries |-> {FALSE}],
   [bases |-> Modules \union {NoValue}, heads |-> Modules, references |-> Uses,
    boundaries |-> {TRUE, FALSE}]}

=============================================================================
