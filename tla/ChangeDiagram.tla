----------------------------- MODULE ChangeDiagram -----------------------------
(***************************************************************************)
(* What a review makes of its walks (src/src/store.rs): the risk of every  *)
(* changed symbol, the line of every flow, and the diagram, which is drawn *)
(* of as many symbols, paths and callers as its limits of nodes and of     *)
(* bytes let it.  The walks are ChangeFlow's.                              *)
(***************************************************************************)
EXTENDS ChangeFlow

CONSTANT DotBudget   \* DOT_BUDGET, in nodes and edges

Roots == Range(input.roots)

(***************************************************************************)
(* Scores, of ten thousand.                                                *)
(***************************************************************************)
Tested(n) == \E t \in Nodes : <<t, n>> \in input.tests

FlowCriticality(flow) ==
  LET count == Len(flow.order)
      Some(set) == Cardinality(flow.nodes \intersect set)
      files == Cardinality({File(n) : n \in flow.nodes})
      part == 2500 * Some(input.secure) + 1500 * (count - Cardinality({n \in flow.nodes : Tested(n)}))
  IN  750 * Min({files - 1, 4}) + 400 * Min({Some(input.unresolved), 5}) + 100 * Min({flow.depth, 10})
        + (2 * part + count) \div (2 * count)

Flows(flows) ==
  SetToSortSeq(flows, LAMBDA f, g : LET a == FlowCriticality(f)
                                        b == FlowCriticality(g)
                                    IN  a > b \/ (a = b /\ f.entry < g.entry))

(* The members of the types above that a member overrides.                 *)
Overridden(n) == Dispatch(n, TRUE)
Callers(n) == Called(n, TRUE) \union UNION {Called(b, TRUE) : b \in Overridden(n)}

(* The recursive query: rows in the order of the symbol they are for and   *)
(* of their node, until there are too many.                                *)
RECURSIVE CallersOf(_, _, _)
CallersOf(out, queue, limit) ==
  LET next == CHOOSE p \in queue : \A q \in queue : p[1] < q[1] \/ (p[1] = q[1] /\ p[2] <= q[2])
      met == {<<next[1], m>> : m \in Called(next[2], TRUE) \union Overridden(next[2])}
  IN  IF queue = {} \/ Cardinality(out) = limit THEN out
      ELSE CallersOf(out \union {next}, (queue \union met) \ (out \union {next}), limit)

NodeRiskCounts(ids) ==
  LET limit == input.limits.queries
      rows == CallersOf({}, {<<n, n>> : n \in ids}, limit + 1)
  IN  [callers |-> [n \in ids |-> Cardinality(Callers(n))],
       tests |-> [n \in ids |-> Cardinality({t \in Nodes : \E r \in rows : r[1] = n
                                                              /\ <<t, r[2]>> \in input.tests})],
       omitted |-> Cardinality(rows) > limit]

FanInComponent(callers) ==
  CASE callers = 0 -> 0 [] callers = 1 -> 250 [] callers \in 2 .. 3 -> 500
    [] callers \in 4 .. 15 -> 750 [] OTHER -> 1000
NodeRisk(n, flows, counts) ==
  LET test == Kind(n) = "test"
      tests == IF test THEN 5 ELSE counts.tests[n]
      crossing == SelectSeq(flows, LAMBDA f : n \in f.changed)
      flowing == FoldLeft(LAMBDA sum, f : sum + FlowCriticality(f), 0, crossing)
  IN  [score |-> Min({flowing, 2500}) + (3000 - 500 * Min({tests, 5}))
                   + (IF n \in input.secure THEN 2000 ELSE 0) + FanInComponent(counts.callers[n]),
       gap |-> ~ test /\ tests = 0,
       indirect |-> ~ test /\ tests > 0 /\ ~ Tested(n)]

(***************************************************************************)
(* flow_line: a route to the last of the changed nodes that was reached,   *)
(* and on to the nearest dependency when dependencies are a boundary.      *)
(***************************************************************************)
RECURSIVE Ancestry(_, _, _)
Ancestry(parents, from, to) ==
  IF to = from THEN <<to>>
  ELSE IF to \notin DOMAIN parents THEN <<>>
  ELSE LET before == Ancestry(parents, from, parents[to])
       IN  IF before = <<>> THEN <<>> ELSE Append(before, to)

Lower(a, b) ==
  \/ Len(a) < Len(b)
  \/ /\ Len(a) = Len(b)
     /\ \E k \in DOMAIN a : a[k] < b[k] /\ \A j \in 1 .. k - 1 : a[j] = b[j]
Dispatched(flow, n) == n \in DOMAIN flow.parents /\ <<flow.parents[n], n>> \notin input.calls
FlowLine(flow) ==
  LET changed == Last(SelectSeq(flow.order, LAMBDA n : n \in flow.changed))
      tails == {Tail(t) : t \in {Ancestry(flow.parents, changed, n) :
                                   n \in {m \in flow.nodes : Bounded(m)}} \ {<<>>}}
      tail == IF tails = {} THEN <<>>
              ELSE CHOOSE t \in tails : \A u \in tails : t = u \/ Lower(t, u)
      route == Ancestry(flow.parents, flow.entry, changed) \o tail
  IN  [k \in DOMAIN route |-> [node |-> route[k],
                               dispatch |-> k > 1 /\ Dispatched(flow, route[k])]]

(***************************************************************************)
(* change_dot.                                                             *)
(***************************************************************************)
FlowPath(flow, target) ==
  LET path == Ancestry(flow.parents, flow.entry, target)
      keep == input.depth + 1
  IN  SubSeq(path, Max({0, Len(path) - keep}) + 1, Len(path))
Paths(flows) ==
  FlattenSeq([k \in DOMAIN flows |->
               LET targets == ById(flows[k].changed)
               IN  [j \in DOMAIN targets |-> FlowPath(flows[k], targets[j])]])

(* Paths are taken while there is room for all of their nodes.             *)
TakePath(taken, path, limit) ==
  LET nodes == taken.nodes \union Range(path)
  IN  IF Cardinality(nodes) > limit THEN taken
      ELSE [nodes |-> nodes, paths |-> Append(taken.paths, path)]

(* A fault for checking the checks: a caller there is no room for is left  *)
(* out without a word.                                                     *)
DrawCallerIfRoom(drawn, edge, limit) ==
  IF edge[1] \notin drawn.nodes /\ Cardinality(drawn.nodes) = limit THEN drawn
  ELSE [drawn EXCEPT !.nodes = @ \union {edge[1]}, !.pending = Append(@, edge[1]),
                     !.edges = @ \union {<<edge[1], edge[2]>>}]

(* The callers of what is drawn, one after the other, while there is room. *)
DrawCaller(drawn, edge, limit) ==
  IF edge[1] \notin drawn.nodes /\ Cardinality(drawn.nodes) = limit
  THEN [drawn EXCEPT !.complete = FALSE]
  ELSE [drawn EXCEPT !.nodes = @ \union {edge[1]}, !.pending = Append(@, edge[1]),
                     !.edges = @ \union {<<edge[1], edge[2]>>}]

RECURSIVE DrawCallers(_, _, _, _)
DrawCallers(drawn, searched, calls, limit) ==
  IF drawn.pending = <<>> THEN drawn
  ELSE LET callee == Head(drawn.pending)
           into == SetToSortSeq({e \in calls : e[2] = callee},
                                LAMBDA a, b : a[1] < b[1] \/ (a[1] = b[1] /\ b[3]))
           rest == [drawn EXCEPT !.pending = Tail(@)]
       IN  IF callee \in searched THEN DrawCallers(rest, searched, calls, limit)
           ELSE DrawCallers(FoldLeft(LAMBDA d, e : DrawCaller(d, e, limit), rest, into),
                            searched \union {callee}, calls, limit)

(* render_change_dot.                                                      *)
EdgesOf(path) == {<<path[k], path[k + 1]>> : k \in 1 .. Len(path) - 1}
RenderChangeDot(direct, paths, calls, context, limit) ==
  LET affected == SelectSeq([k \in DOMAIN paths |-> Last(paths[k])],
                            LAMBDA n : n \notin Roots \/ Kind(n) = "file")
      base == [nodes |-> Range(direct) \union UNION {Range(paths[k]) : k \in DOMAIN paths},
               edges |-> UNION {EdgesOf(paths[k]) : k \in DOMAIN paths},
               pending |-> direct \o affected,
               complete |-> context \/ calls = {}]
      drawn == DrawCallers(base, {}, calls, limit)
      between == {<<e[1], e[2]>> : e \in {c \in calls : {c[1], c[2]} \subseteq drawn.nodes}}
  IN  IF ~ context THEN base ELSE [drawn EXCEPT !.edges = @ \union between]

(* A diagram that is too long loses a path, then the callers, then a       *)
(* changed symbol at a time.                                               *)
RECURSIVE Prune(_, _, _, _, _)
Prune(direct, paths, calls, context, limit) ==
  LET dot == RenderChangeDot(direct, paths, calls, context, limit)
      rendered == [direct |-> direct, paths |-> paths, nodes |-> dot.nodes, edges |-> dot.edges,
                   complete |-> dot.complete]
  IN  IF Cardinality(dot.nodes) + Cardinality(dot.edges) <= DotBudget THEN rendered
      ELSE IF paths # <<>> THEN Prune(direct, Front(paths), calls, context, limit)
      ELSE IF context /\ calls # {} THEN Prune(direct, paths, calls, FALSE, limit)
      ELSE IF direct = <<>> THEN rendered
      ELSE Prune(Front(direct), paths, calls, context, limit)

ChangeDot(roots, flows, calls) ==
  LET limit == input.limits.drawn
      changed == SelectSeq(roots, LAMBDA n : Kind(n) # "file")
      direct == Take(changed, limit)
      paths == Paths(flows)
      taken == FoldLeft(LAMBDA t, p : TakePath(t, p, limit),
                        [nodes |-> Range(direct), paths |-> <<>>], paths)
      dot == Prune(direct, taken.paths, calls, TRUE, limit)
  IN  [dot EXCEPT !.complete = @ /\ dot.direct = changed /\ dot.paths = paths]

(***************************************************************************)
(* Store::changes, from the walks to the report.                           *)
(***************************************************************************)
Report ==
  /\ input # NoValue /\ result = NoValue
  /\ \E analysis \in {AnalyzeChangedRoots},
        counts \in {NodeRiskCounts({n \in Roots : Kind(n) # "file"})} :
     \E flows \in {Flows(analysis.flows)} :
     \E risks \in {[n \in DOMAIN counts.tests |-> NodeRisk(n, flows, counts)]} :
       LET score(n) == IF n \in DOMAIN risks THEN risks[n].score ELSE 0
           roots == SetToSortSeq(Roots, LAMBDA a, b : score(a) > score(b)
                                                        \/ (score(a) = score(b) /\ a < b))
           walks == WalksFrom(roots, analysis)
       IN  result' = walks @@
                     [risks |-> risks, testsOmitted |-> counts.omitted,
                      lines |-> [k \in DOMAIN flows |-> FlowLine(flows[k])],
                      dot |-> ChangeDot(roots, flows, walks.edges)]
  /\ UNCHANGED input

Next == Request \/ Report
Spec == Init /\ [][Next]_vars

(***************************************************************************)
(* Properties.                                                             *)
(***************************************************************************)
RECURSIVE Callback(_)
Callback(set) ==
  LET more == set \union UNION {Called(n, TRUE) \union Overridden(n) : n \in set}
  IN  IF more = set THEN set ELSE Callback(more)
RECURSIVE Drawn(_, _)
Drawn(set, calls) ==
  LET more == set \union {c[1] : c \in {d \in calls : d[2] \in set}}
  IN  IF more = set THEN set ELSE Drawn(more, calls)

(* A symbol is said to lack a test only if none leads to it, and a symbol  *)
(* that is not has one, when the query was not cut off (node_risk_counts   *)
(* and analyze_changed_roots, store.rs:3020-3063, 3537-3607).              *)
TestGapsAreReal ==
  ~ result.testsOmitted =>
    \A n \in DOMAIN result.risks :
      LET direct == {t \in Nodes : <<t, n>> \in input.tests}
          any == {t \in Nodes : \E m \in Callback({n}) : <<t, m>> \in input.tests}
      IN  Kind(n) # "test" =>
            /\ result.risks[n].gap <=> any = {}
            /\ result.risks[n].indirect <=> any # {} /\ direct = {}

(* The line of a flow is a way through the code: from an entry, over calls *)
(* and over overriding members where it says so, through a changed         *)
(* function (flow_line, store.rs:5236-5345).                               *)
RoutesAreReal ==
  \A k \in DOMAIN result.lines :
    LET line == result.lines[k]
    IN  /\ Len(line) \in 1 .. input.limits.depth + 1
        /\ \E f \in result.flows : line[1].node = f.entry
        /\ \E j \in DOMAIN line : line[j].node \in ChangedFunctions
        /\ \A j \in 1 .. Len(line) - 1 :
             LET hop == <<line[j].node, line[j + 1].node>>
             IN  IF line[j + 1].dispatch THEN hop[2] \in Dispatch(hop[1], FALSE)
                 ELSE hop \in input.calls

(* The diagram is of its limits, draws no edge without its ends, and none  *)
(* that is not in the code; and when it is called complete, every changed  *)
(* symbol is in it, the ends of every flow, and every caller of them that  *)
(* was met, with its calls (change_dot and render_change_dot,              *)
(* store.rs:5377-5649).                                                    *)
DiagramIsHonest ==
  LET dot == result.dot
      changed == {n \in Roots : Kind(n) # "file"}
      ends == changed \union UNION {f.changed : f \in result.flows}
      calls == {<<e[1], e[2]>> : e \in result.edges}
  IN  /\ Cardinality(dot.nodes) <= input.limits.drawn
      /\ Cardinality(dot.nodes) + Cardinality(dot.edges) <= DotBudget
      /\ \A e \in dot.edges :
           /\ {e[1], e[2]} \subseteq dot.nodes
           /\ e \in input.calls \union input.tests \/ e[2] \in Dispatch(e[1], FALSE)
      /\ dot.complete =>
           /\ Drawn(ends, calls) \subseteq dot.nodes
           /\ {c \in calls : c[2] \in Drawn(ends, calls)} \subseteq dot.edges

ReportIsHonest == result # NoValue => TestGapsAreReal /\ RoutesAreReal /\ DiagramIsHonest

=============================================================================
