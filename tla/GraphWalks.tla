------------------------------- MODULE GraphWalks -------------------------------
(***************************************************************************)
(* The queries of an image (src/src/store.rs, graph.rs): search, view of   *)
(* one node's surroundings, impact, which is reverse reachability, and the *)
(* shortest path between two nodes.  Each has limits of rows, nodes, hops  *)
(* and bytes, and ends in a mark when one of them left something out.      *)
(*                                                                         *)
(* Nodes are numbered, as their rows are; a line of the answer has a width *)
(* and the node it is of.                                                  *)
(***************************************************************************)
EXTENDS Naturals, Sequences, FiniteSets, FiniteSetsExt, SequencesExt

CONSTANTS
  Inputs,         \* families of graphs and of the queries that are put to them
  Image,          \* the snapshot and the generation that are open
  ViewBudget,     \* VIEW_BUDGET, in widths
  SearchBudget,   \* SEARCH_BUDGET
  MarkWidth,      \* of TRUNCATED
  NoteLimit,      \* VIEW_NOTE_LIMIT
  DispatchDepth,  \* DISPATCH_DEPTH
  NoValue

VARIABLES input, result
vars == <<input, result>>

Nodes == DOMAIN input.nodes
Kind(n) == input.nodes[n].kind
Parent(n) == input.nodes[n].parent
Width(n) == input.nodes[n].width

Take(seq, limit) == SubSeq(seq, 1, Min({limit, Len(seq)}))
ById(set) == SetToSortSeq(set, <)

(***************************************************************************)
(* Answers.                                                                *)
(***************************************************************************)
Line(n, label, width) == [node |-> n, label |-> label, width |-> width]
WidthOf(lines) == FoldLeft(LAMBDA sum, line : sum + line.width, 0, lines)

(* The longest prefix of which every line leaves room for the mark, unless *)
(* it is the last and nothing was omitted.                                 *)
Bounded(lines, budget, omitted) ==
  LET Reserve(k) == IF omitted \/ k < Len(lines) THEN MarkWidth ELSE 0
      Fits(k) == WidthOf(Take(lines, k)) + Reserve(k) <= budget
      shown == Max({k \in 0 .. Len(lines) : \A j \in 1 .. k : Fits(j)})
  IN  [lines |-> Take(lines, shown), truncated |-> omitted \/ shown < Len(lines)]

Answer(bounded) == [status |-> "ok"] @@ bounded
Refused(why) == [status |-> why, lines |-> <<>>, truncated |-> FALSE]

(* A reference is of one generation of one snapshot.                       *)
CheckedRef(ref) ==
  CASE ref.snapshot # Image.snapshot -> "node_snapshot_mismatch"
    [] ref.generation # Image.generation -> "stale node_ref"
    [] OTHER -> "ok"

(***************************************************************************)
(* search: the rows that match, one more than is asked for.                *)
(***************************************************************************)
SearchAnswer ==
  LET matches == {n \in Nodes : input.nodes[n].name = input.name
                                  /\ input.kind \in {NoValue, Kind(n)}}
      rows == Take(ById(matches), input.limit + 1)
      asked == Take(rows, input.limit)
      wide == {k \in DOMAIN asked : Width(asked[k]) > SearchBudget}
      shown == IF wide = {} THEN asked ELSE Take(asked, Min(wide) - 1)
  IN  Answer(Bounded([k \in DOMAIN shown |-> Line(shown[k], "", Width(shown[k]))], SearchBudget,
                     Len(rows) > input.limit \/ wide # {}))

(***************************************************************************)
(* view.                                                                   *)
(***************************************************************************)
Targets(n, kind) == {e.to : e \in {f \in input.edges : f.from = n /\ f.kind = kind}}
Sources(n, kind) == {e.from : e \in {f \in input.edges : f.to = n /\ f.kind = kind}}
Container(n) ==
  IF Kind(n) = "file" THEN {}
  ELSE IF Parent(n) \in Nodes /\ Kind(Parent(n)) \in {"file", "type"} THEN {Parent(n)}
  ELSE {input.nodes[n].file}

Order == [kind \in {"function", "test", "type"} |->
            CASE kind = "function" -> 1 [] kind = "test" -> 2 [] kind = "type" -> 3]
Members(n) ==
  SetToSortSeq({m \in Nodes : Parent(m) = n},
               LAMBDA a, b : \/ Order[Kind(a)] < Order[Kind(b)]
                             \/ (Order[Kind(a)] = Order[Kind(b)] /\ a < b))

(* The rows of each relation, in the order they are asked for.             *)
Rows(n, members, traits) ==
  LET Of(label, seq) == [k \in DOMAIN seq |-> [label |-> label, node |-> seq[k]]]
      Traits(label, set) == IF traits THEN Of(label, ById(set)) ELSE <<>>
  IN  (IF members THEN Of("member ->", Members(n)) ELSE <<>>)
        \o Of("test <-", ById(Sources(n, "test")))
        \o Of("caller <-", ById(Sources(n, "call")))
        \o Traits("impl <-", {i[1] : i \in {j \in input.impls : j[2] = n}})
        \o Of("call ->", ById(Targets(n, "call")) \o ById(Targets(n, "test")))
        \o Traits("implements ->", {i[2] : i \in {j \in input.impls : j[1] = n}})
        \o Of("in <-", ById(Container(n)))
        \o Of("import ->", ById(Targets(n, "import")))

LoadNeighbors(n, limit, members, traits) ==
  LET rows == Take(Rows(n, members, traits), limit)
  IN  [rows |-> rows, more |-> Len(rows) = limit]

(* A call only evidence supports is marked.                                *)
ViaScip(label, n, m) ==
  LET called == IF label = "call ->" THEN <<n, m>> ELSE <<m, n>>
  IN  /\ label \in {"test <-", "caller <-", "call ->"}
      /\ called \in input.scip \ input.static

(* One row; `left` is the row budget, `end` is set when the walk is over.  *)
MeetRow(walk, at, row) ==
  LET spent == [walk EXCEPT !.left = @ - 1]
      seen == [spent EXCEPT !.visited = @ \union {row.node}]
      label == IF ViaScip(row.label, at.node, row.node) THEN row.label \o " via=scip" ELSE row.label
  IN  IF walk.end THEN walk
      ELSE IF row.node \in walk.visited THEN spent
      ELSE IF at.level >= input.depth \/ Cardinality(walk.visited) >= input.limit
      THEN [spent EXCEPT !.end = TRUE]
      ELSE IF Width(row.node) > ViewBudget THEN [seen EXCEPT !.end = TRUE]
      ELSE [seen EXCEPT !.lines = Append(@, Line(row.node, label, Width(row.node))),
                        !.queue = Append(@, [node |-> row.node, level |-> at.level + 1])]

(* A fault for checking the checks: rows that were cut off are not told    *)
(* from rows that are not there.                                           *)
MeetNodeUnflagged(walk) ==
  LET at == Head(walk.queue)
      near == LoadNeighbors(at.node, walk.left, at.level = 0 /\ Kind(at.node) \in {"file", "type"},
                            Kind(at.node) = "type")
  IN  FoldLeft(LAMBDA w, row : MeetRow(w, at, row), [walk EXCEPT !.queue = Tail(@)], near.rows)

MeetNode(walk) ==
  LET at == Head(walk.queue)
      near == LoadNeighbors(at.node, walk.left, at.level = 0 /\ Kind(at.node) \in {"file", "type"},
                            Kind(at.node) = "type")
      met == FoldLeft(LAMBDA w, row : MeetRow(w, at, row), [walk EXCEPT !.queue = Tail(@)], near.rows)
  IN  IF walk.left = 0 THEN [walk EXCEPT !.end = TRUE]
      ELSE [met EXCEPT !.end = @ \/ near.more]

RECURSIVE Surroundings(_)
Surroundings(walk) ==
  IF walk.end \/ walk.queue = <<>> THEN walk ELSE Surroundings(MeetNode(walk))

ViewAnswer ==
  LET root == input.from.node
      walk == Surroundings([queue |-> <<[node |-> root, level |-> 0]>>, visited |-> {root},
                            left |-> input.limit + 1, end |-> FALSE,
                            lines |-> <<Line(root, "", Width(root))>>])
      notes == IF Kind(root) = "file" THEN 0 ELSE Min({NoteLimit, input.nodes[root].notes})
  IN  IF CheckedRef(input.from) # "ok" THEN Refused(CheckedRef(input.from))
      ELSE IF root \notin Nodes THEN Refused("node not found")
      ELSE IF Width(root) > ViewBudget THEN Answer([lines |-> <<>>, truncated |-> TRUE])
      ELSE Answer(Bounded(walk.lines \o [k \in 1 .. notes |-> Line(root, "note", 1)],
                          ViewBudget, walk.end))

(***************************************************************************)
(* code_graph: edges, implementations and members that override others.    *)
(***************************************************************************)
Relations == [call |-> 1, test |-> 2, import |-> 3, implements |-> 4, dispatch |-> 5]

(* Pairs of a type and what is above it, at most so many steps away.       *)
RECURSIVE TypeSupers(_)
TypeSupers(hops) ==
  IF hops = 1 THEN input.impls
  ELSE LET nearer == TypeSupers(hops - 1)
       IN  nearer \union {<<p[1][1], p[2][2]>> :
                            p \in {q \in nearer \X input.impls : q[1][2] = q[2][1]}}
Overrides ==
  LET functions == {n \in Nodes : Kind(n) = "function"}
      supers == TypeSupers(DispatchDepth)
  IN  {p \in functions \X functions :
         /\ input.nodes[p[1]].name = input.nodes[p[2]].name
         /\ <<Parent(p[2]), Parent(p[1])>> \in supers}

CodeGraph ==
  {<<e.from, e.to, e.kind>> : e \in input.edges}
    \union {<<i[1], i[2], "implements">> : i \in input.impls}
    \union {<<o[1], o[2], "dispatch">> : o \in Overrides}

(* The neighbors of a node, by node and relation.                          *)
Adjacent(n, incoming) ==
  LET near == IF incoming THEN {<<e[1], e[3]>> : e \in {f \in CodeGraph : f[2] = n}}
              ELSE {<<e[2], e[3]>> : e \in {f \in CodeGraph : f[1] = n}}
  IN  SetToSortSeq(near, LAMBDA a, b : a[1] < b[1] \/ (a[1] = b[1]
                                                 /\ Relations[a[2]] < Relations[b[2]]))
Label(relation, incoming) == <<relation, IF incoming THEN "<-" ELSE "->">>

(***************************************************************************)
(* impact.                                                                 *)
(***************************************************************************)
Reach(walk, level, near) ==
  IF near[1] \in walk.seen THEN walk
  ELSE IF level = input.depth \/ Len(walk.steps) = input.limit
  THEN [walk EXCEPT !.complete = FALSE]
  ELSE [walk EXCEPT !.seen = @ \union {near[1]}, !.steps = Append(@, near),
                    !.queue = Append(@, [node |-> near[1], level |-> level + 1])]

RECURSIVE Impact(_)
Impact(walk) ==
  IF walk.queue = <<>> THEN walk
  ELSE LET at == Head(walk.queue)
       IN  Impact(FoldLeft(LAMBDA w, near : Reach(w, at.level, near),
                           [walk EXCEPT !.queue = Tail(@)], Adjacent(at.node, TRUE)))

(* step_lines: a line that is too wide ends the lines.                     *)
StepLines(steps) ==
  LET wide == {k \in DOMAIN steps : Width(steps[k].node) > ViewBudget}
      shown == IF wide = {} THEN steps ELSE Take(steps, Min(wide) - 1)
  IN  [k \in DOMAIN shown |-> Line(shown[k].node, shown[k].label, Width(shown[k].node))]

ImpactAnswer ==
  LET root == input.from.node
      walk == Impact([queue |-> <<[node |-> root, level |-> 0]>>, seen |-> {root},
                      steps |-> <<>>, complete |-> TRUE])
      steps == <<[node |-> root, label |-> ""]>>
                 \o [k \in DOMAIN walk.steps |-> [node |-> walk.steps[k][1],
                                                  label |-> Label(walk.steps[k][2], TRUE)]]
  IN  IF CheckedRef(input.from) # "ok" THEN Refused(CheckedRef(input.from))
      ELSE IF root \notin Nodes THEN Refused("node not found")
      ELSE Answer(Bounded(StepLines(steps), ViewBudget, ~ walk.complete))

(***************************************************************************)
(* path.                                                                   *)
(***************************************************************************)
(* The hops out of a node: along edges and, undirected, against them.      *)
HopsOf(n) ==
  LET Labelled(seq, incoming) == [k \in DOMAIN seq |-> <<seq[k][1], Label(seq[k][2], incoming)>>]
  IN  Labelled(Adjacent(n, FALSE), FALSE)
        \o (IF input.undirected THEN Labelled(Adjacent(n, TRUE), TRUE) ELSE <<>>)

Hop(search, node, hop) ==
  IF hop[1] \in DOMAIN search.parent THEN search
  ELSE [search EXCEPT !.parent = @ @@ (hop[1] :> <<node, hop[2]>>),
                      !.next = @ \union {hop[1]}]

RECURSIVE Frontiers(_, _)
Frontiers(search, hops) ==
  IF input.to.node \in DOMAIN search.parent \/ search.next = {} \/ hops = 0 THEN search
  ELSE Frontiers(FoldLeft(LAMBDA s, node :
                            FoldLeft(LAMBDA t, hop : Hop(t, node, hop), s, HopsOf(node)),
                          [search EXCEPT !.next = {}], ById(search.next)),
                 hops - 1)

RECURSIVE Route(_, _)
Route(parent, node) ==
  IF parent[node][1] = 0 THEN <<[node |-> node, label |-> ""]>>
  ELSE Append(Route(parent, parent[node][1]), [node |-> node, label |-> parent[node][2]])

PathAnswer ==
  LET found == Frontiers([parent |-> (input.from.node :> <<0, "">>), next |-> {input.from.node}],
                         input.depth)
      route == Route(found.parent, input.to.node)
  IN  IF CheckedRef(input.from) # "ok" THEN Refused(CheckedRef(input.from))
      ELSE IF CheckedRef(input.to) # "ok" THEN Refused(CheckedRef(input.to))
      ELSE IF {input.from.node, input.to.node} \subseteq Nodes
                /\ input.to.node \in DOMAIN found.parent
      THEN Answer(Bounded(<<Line(0, Len(route) - 1, 1)>> \o StepLines(route), ViewBudget, FALSE))
      ELSE Refused("no path")

(***************************************************************************)
(* The queries.                                                            *)
(***************************************************************************)
Init == input = NoValue /\ result = NoValue

Request ==
  /\ input = NoValue
  /\ \E family \in Inputs : \E graph \in family.graphs, query \in family.queries :
       input' = graph @@ query
  /\ UNCHANGED result

Query(op, answer) ==
  /\ input # NoValue /\ result = NoValue
  /\ input.op = op
  /\ result' = answer
  /\ UNCHANGED input

Search == Query("search", SearchAnswer)
View == Query("view", ViewAnswer)
ImpactOf == Query("impact", ImpactAnswer)
Path == Query("path", PathAnswer)

Next == Request \/ Search \/ View \/ ImpactOf \/ Path
Spec == Init /\ [][Next]_vars

(***************************************************************************)
(* Properties.                                                             *)
(***************************************************************************)
Told(lines) == {lines[k].node : k \in {j \in DOMAIN lines : lines[j].label # "note"}}
RECURSIVE Closed(_, _)
Closed(pairs, set) ==
  LET more == set \union {p[2] : p \in {q \in pairs : q[1] \in set}}
  IN  IF more = set THEN set ELSE Closed(pairs, more)
RECURSIVE WithinSteps(_, _, _)
WithinSteps(pairs, set, d) ==
  IF d = 0 THEN set
  ELSE WithinSteps(pairs, set \union {p[2] : p \in {q \in pairs : q[1] \in set}}, d - 1)

(* What a reader of the image would call next to a node, seen from `root`. *)
NextTo(root) ==
  LET calls == {<<e.from, e.to>> : e \in {f \in input.edges : f.kind # "import"}}
      imports == {<<e.from, e.to>> : e \in {f \in input.edges : f.kind = "import"}}
      typed == {i \in input.impls \union {<<j[2], j[1]>> : j \in input.impls} : Kind(i[1]) = "type"}
      inside == {<<n, c>> \in Nodes \X Nodes : c \in Container(n)}
      members == IF Kind(root) \in {"file", "type"} THEN {<<root, m>> : m \in {n \in Nodes : Parent(n) = root}}
                 ELSE {}
  IN  calls \union {<<c[2], c[1]>> : c \in calls} \union imports \union typed \union inside
        \union members

(* An override is of a member of a type above its own.                     *)
RECURSIVE Above(_, _)
Above(types, hops) ==
  IF hops = 0 THEN {}
  ELSE LET up == {i[2] : i \in {j \in input.impls : j[1] \in types}}
       IN  up \union Above(up, hops - 1)
Depends ==
  {<<e.from, e.to>> : e \in input.edges} \union input.impls
    \union {<<b, m>> \in Nodes \X Nodes :
              /\ Kind(b) = "function" /\ Kind(m) = "function"
              /\ input.nodes[b].name = input.nodes[m].name
              /\ Parent(b) \in Above({Parent(m)}, DispatchDepth)}
Back(pairs) == {<<p[2], p[1]>> : p \in pairs}

(* A search without the mark told every match, a view everything around    *)
(* its node, and an impact everything that can reach it; with the mark     *)
(* something is missing from an impact, and what is told is within the     *)
(* depth and the limit that were asked for (store.rs:884-1119, 8164-8292,  *)
(* 8309-8329, 8397-8412, graph.rs:132-157).  step_lines ends at a line     *)
(* that is too wide without the mark (store.rs:8353-8355): graphs with     *)
(* one are left out of impact and path.                                    *)
AllFit == \A n \in Nodes : Width(n) <= ViewBudget
OmissionsAreMarked ==
  result # NoValue /\ result.status = "ok" =>
    LET told == Told(result.lines)
        root == input.from.node
        reaching == Back(Depends)
    IN  /\ WidthOf(result.lines) + (IF result.truncated THEN MarkWidth ELSE 0)
              <= (IF input.op = "search" THEN SearchBudget ELSE ViewBudget)
        /\ input.op = "search" /\ ~ result.truncated =>
             told = {n \in Nodes : input.nodes[n].name = input.name
                                      /\ input.kind \in {NoValue, Kind(n)}}
        /\ input.op = "view" =>
             /\ told \subseteq WithinSteps(NextTo(root), {root}, input.depth)
             /\ Cardinality(told) <= input.limit
             /\ ~ result.truncated => told = Closed(NextTo(root), {root})
        /\ input.op = "impact" /\ AllFit =>
             /\ told \subseteq WithinSteps(reaching, {root}, input.depth)
             /\ Cardinality(told) <= input.limit + 1
             /\ result.truncated <=> told # Closed(reaching, {root})

(* A path is told if and only if one is short enough; it is no longer than *)
(* the shortest, each of its hops is an edge of its kind, and a node       *)
(* follows the lowest of those it could follow (graph.rs:159-219).         *)
PathsAreShortest ==
  result # NoValue /\ input.op = "path" /\ result.status \in {"ok", "no path"} =>
    LET pairs == Depends \union (IF input.undirected THEN Back(Depends) ELSE {})
        near(d) == WithinSteps(pairs, {input.from.node}, d)
        steps == Tail(result.lines)
        length == Len(steps) - 1
    IN  /\ result.status = "ok" <=>
             {input.from.node, input.to.node} \subseteq Nodes /\ input.to.node \in near(input.depth)
        /\ result.status = "ok" /\ AllFit /\ ~ result.truncated =>
             /\ steps[1].node = input.from.node /\ steps[Len(steps)].node = input.to.node
             /\ result.lines[1].label = length
             /\ length = 0 \/ input.to.node \notin near(length - 1)
             /\ \A k \in 1 .. length :
                  LET a == steps[k].node
                      b == steps[k + 1].node
                      label == steps[k + 1].label
                  IN  /\ (IF label[2] = "->" THEN <<a, b, label[1]>> ELSE <<b, a, label[1]>>)
                            \in CodeGraph
                      /\ \A c \in near(k - 1) : <<c, b>> \in pairs => a <= c

=============================================================================
