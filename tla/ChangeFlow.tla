------------------------------- MODULE ChangeFlow -------------------------------
(***************************************************************************)
(* What a review says around its changed symbols (src/src/store.rs):       *)
(* traverse_changes lists their neighbors, affected_entries and trace_flow *)
(* find the flows through them, import_cycles the cycles of imports their  *)
(* files are in.  Each walk has limits, and flags what they made it leave  *)
(* out.                                                                    *)
(*                                                                         *)
(* Nodes are numbered, as their rows are; files of a dependency belong to  *)
(* a package, and only the package is told when dependencies are a         *)
(* boundary.                                                               *)
(***************************************************************************)
EXTENDS Naturals, Sequences, FiniteSets, FiniteSetsExt, SequencesExt

CONSTANTS
  Inputs,      \* graphs, roots and requests
  ScanLimit,   \* DEPENDENCY_NEIGHBOR_SCAN_LIMIT
  NoPackage,
  NoValue

VARIABLES input, result
vars == <<input, result>>

Nodes == DOMAIN input.nodes
Kind(n) == input.nodes[n].kind
File(n) == input.nodes[n].file
Package(n) == input.package[File(n)]
Bounded(n) == input.mode = "boundary" /\ Package(n) # NoPackage

ById(set) == SetToSortSeq(set, <)
Take(seq, limit) == SubSeq(seq, 1, Min({limit, Len(seq)}))

(***************************************************************************)
(* traverse_changes.                                                       *)
(***************************************************************************)
Relations == <<"test", "caller", "impl", "call", "implements", "import">>
TypesOnly(relation) == relation \in {"impl", "implements"}

Related(relation, n) ==
  CASE relation = "test" -> {m \in Nodes : <<m, n>> \in input.tests}
    [] relation = "caller" -> {m \in Nodes : <<m, n>> \in input.calls}
    [] relation = "impl" -> {m \in Nodes : <<m, n>> \in input.impls}
    [] relation = "call" -> {m \in Nodes : <<n, m>> \in input.calls \union input.tests}
    [] relation = "implements" -> {m \in Nodes : <<n, m>> \in input.impls}
    [] relation = "import" -> {m \in Nodes : <<n, m>> \in input.imports}

(* Rows of dependencies come last.                                         *)
Rows(relation, n) ==
  LET own == {m \in Related(relation, n) : Package(m) = NoPackage}
  IN  ById(own) \o ById(Related(relation, n) \ own)

(* One row.  `full` is set when the walk ends with rows left.              *)
MeetRow(walk, relation, source, m) ==
  LET met == IF relation \in {"test", "caller"}
             THEN [walk EXCEPT !.edges = @ \union {<<m, source, relation = "test">>}] ELSE walk
  IN  IF walk.full \/ (Bounded(m) /\ Package(m) \in walk.packages) THEN walk
      ELSE IF Bounded(m)
      THEN IF Cardinality(walk.packages) = ScanLimit THEN [walk EXCEPT !.omitted = TRUE]
           ELSE [walk EXCEPT !.packages = @ \union {Package(m)}]
      ELSE IF m \in walk.visited THEN met
      ELSE IF walk.budget = 0 \/ Cardinality(walk.visited) >= walk.limit
      THEN [met EXCEPT !.full = TRUE]
      ELSE [met EXCEPT !.budget = @ - 1, !.visited = @ \union {m}, !.next = Append(@, m)]

(* A fault for checking the checks: only a row too many ends the walk.     *)
MeetSourceUnfilled(walk, relation, source) ==
  IF walk.full \/ (TypesOnly(relation) /\ Kind(source) # "type") THEN walk
  ELSE FoldLeft(LAMBDA w, m : MeetRow(w, relation, source, m), walk,
                Take(Rows(relation, source), walk.budget))

MeetSource(walk, relation, source) ==
  LET limit == walk.budget + (IF input.mode = "boundary" THEN ScanLimit ELSE 0)
      rows == Take(Rows(relation, source), limit)
      done == FoldLeft(LAMBDA w, m : MeetRow(w, relation, source, m), walk, rows)
  IN  IF walk.full \/ (TypesOnly(relation) /\ Kind(source) # "type") THEN walk
      ELSE IF walk.budget = 0 THEN [walk EXCEPT !.full = TRUE]
      ELSE [done EXCEPT !.full = @ \/ Len(rows) = limit]

Round(walk) ==
  LET sources == walk.next
  IN  FoldLeft(LAMBDA w, relation :
                 FoldLeft(LAMBDA v, source : MeetSource(v, relation, source), w, sources),
               [walk EXCEPT !.next = <<>>], Relations)

TraverseChanges(roots) ==
  LET start == [visited |-> Range(roots), next |-> roots, edges |-> {},
                packages |-> {}, budget |-> input.limits.nodes + 1,
                limit |-> Len(roots) + input.limits.nodes,
                omitted |-> FALSE, full |-> FALSE]
  IN  FoldLeft(LAMBDA w, d : IF w.full THEN w ELSE Round(w), start,
               [d \in 1 .. input.depth |-> d])

(***************************************************************************)
(* Flows: calls, and members of the same name in types above or below.     *)
(***************************************************************************)
Function(n) == Kind(n) = "function"

(* load_flow_neighbors: the types above an implementor, below a trait.     *)
Hops(incoming) == IF incoming THEN input.impls ELSE {<<i[2], i[1]>> : i \in input.impls}
RECURSIVE TypesFrom(_, _, _)
TypesFrom(types, incoming, hops) ==
  IF hops = 0 THEN {}
  ELSE LET far == {i[2] : i \in {j \in Hops(incoming) : j[1] \in types}}
       IN  far \union TypesFrom(far, incoming, hops - 1)
Dispatch(n, incoming) ==
  IF ~ Function(n) THEN {}
  ELSE {m \in Nodes \ {n} :
          /\ Function(m) /\ input.nodes[m].name = input.nodes[n].name
          /\ input.nodes[m].parent
               \in TypesFrom({input.nodes[n].parent}, incoming, input.limits.dispatch)}
Called(n, incoming) ==
  {m \in Nodes : (IF incoming THEN <<m, n>> ELSE <<n, m>>) \in input.calls}

FlowNeighbors(n, incoming, limit) ==
  LET boundary == input.mode = "boundary"
      wanted(m) == Function(m) \/ ~ incoming
      all == {m \in Called(n, incoming) \union Dispatch(n, incoming) :
                wanted(m) /\ ~ (boundary /\ Package(m) # NoPackage)}
      packed == {m \in Called(n, incoming) : wanted(m) /\ Bounded(m)}
      heads == {Min({m \in packed : Package(m) = p}) : p \in {Package(m) : m \in packed}}
  IN  [rows |-> Take(ById(all), limit) \o Take(ById(heads), ScanLimit),
       more |-> Cardinality(all) > limit \/ Cardinality(heads) > ScanLimit]

(* changed_flow_roots: functions, and those in the file of anything else.  *)
FunctionsOf(n) == Take(ById({m \in Nodes : Function(m) /\ File(m) = File(n)}), input.limits.nodes + 1)
AddFunction(roots, m) ==
  IF m \in Range(roots.nodes) \/ roots.stop THEN roots
  ELSE IF Len(roots.nodes) = input.limits.nodes THEN [roots EXCEPT !.omitted = TRUE, !.stop = TRUE]
  ELSE [roots EXCEPT !.nodes = Append(@, m)]
AddFlowRoot(roots, n) ==
  CASE Function(n) ->
         IF n \in Range(roots.nodes) THEN roots ELSE [roots EXCEPT !.nodes = Append(@, n)]
    [] Kind(n) = "test" \/ (~ Function(n) /\ File(n) \in roots.files) -> roots
    [] OTHER ->
         FoldLeft(AddFunction, [roots EXCEPT !.files = @ \union {File(n)}, !.stop = FALSE],
                  FunctionsOf(n))
ChangedFlowRoots ==
  FoldLeft(AddFlowRoot, [nodes |-> <<>>, files |-> {}, omitted |-> FALSE, stop |-> FALSE],
           input.roots)

(* A walk over calls, breadth first.  A node of a dependency stands for    *)
(* its package and is not walked on.                                       *)
Met(nodes) == [i \in DOMAIN nodes |-> [node |-> nodes[i], depth |-> 0]]
StartWalk(nodes, packed, queries) ==
  [queue |-> Met(nodes), visited |-> Range(nodes),
   packages |-> {Package(n) : n \in packed},
   own |-> Cardinality(Range(nodes) \ packed),
   queries |-> queries, nodes |-> nodes, parents |-> <<>>, reached |-> 0, entries |-> <<>>,
   omitted |-> FALSE, stop |-> FALSE]

MeetNeighbor(walk, from, m, depth) ==
  LET met == [walk EXCEPT !.visited = @ \union {m}, !.nodes = Append(@, m),
                          !.parents = @ @@ (m :> from), !.reached = Max({@, depth}),
                          !.queue = Append(@, [node |-> m, depth |-> depth])]
  IN  IF walk.stop \/ m \in walk.visited
           \/ (Bounded(m) /\ Package(m) \in walk.packages) THEN walk
      ELSE IF Bounded(m)
      THEN IF Cardinality(walk.packages) = ScanLimit THEN [walk EXCEPT !.omitted = TRUE]
           ELSE [met EXCEPT !.packages = @ \union {Package(m)}]
      ELSE IF walk.own = input.limits.scan
      THEN [walk EXCEPT !.omitted = TRUE, !.queue = <<>>, !.stop = TRUE]
      ELSE [met EXCEPT !.own = @ + 1]

(* The next node of the queue, and its neighbors when it may have some.    *)
Neighbors(walk, n, incoming) ==
  FlowNeighbors(n, incoming,
    Max({1, IF walk.own > input.limits.scan THEN 0 ELSE input.limits.scan - walk.own}))
MeetNeighbors(walk, from, found, depth) ==
  IF depth = input.limits.depth
  THEN [walk EXCEPT !.omitted = @ \/ Range(found.rows) \ walk.visited # {}]
  ELSE FoldLeft(LAMBDA w, m : MeetNeighbor(w, from, m, depth + 1), walk, found.rows)

(* conventional_entry, or nobody calls it.                                 *)
Entry(n, found) == Function(n) /\ (found.rows = <<>> \/ input.nodes[n].conventional)

RECURSIVE Walk(_, _)
Step(walk, incoming, n, depth, found) ==
  LET queried == [walk EXCEPT !.queue = Tail(@), !.queries = @ - 1,
                              !.omitted = @ \/ found.more]
      entry == incoming /\ Entry(n, found)
  IN  IF entry /\ Len(walk.entries) = input.limits.nodes
      THEN [queried EXCEPT !.omitted = TRUE, !.queue = <<>>]
      ELSE Walk(MeetNeighbors(IF entry THEN [queried EXCEPT !.entries = Append(@, n)]
                              ELSE queried, n, found, depth), incoming)
Walk(walk, incoming) ==
  IF walk.queue = <<>> THEN walk
  ELSE LET n == Head(walk.queue).node
       IN  IF Bounded(n) THEN Walk([walk EXCEPT !.queue = Tail(@)], incoming)
           ELSE IF walk.queries = 0 THEN [walk EXCEPT !.omitted = TRUE, !.queue = <<>>]
           ELSE Step(walk, incoming, n, Head(walk.queue).depth, Neighbors(walk, n, incoming))

AffectedEntries(roots) ==
  LET starts == SelectSeq(roots, LAMBDA n : Kind(n) # "test")
  IN  Walk(StartWalk(starts, {n \in Range(starts) : Bounded(n)}, input.limits.queries), TRUE)

(* trace_flow, one entry after the other.                                  *)
TraceFlow(flows, entry) ==
  LET packed == {n \in {entry} : Package(n) # NoPackage}
      walk == Walk(StartWalk(<<entry>>, packed, flows.queries), FALSE)
      changed == Range(walk.nodes) \intersect flows.roots
  IN  IF flows.queries = 0 THEN [flows EXCEPT !.omitted = TRUE]
      ELSE [flows EXCEPT
              !.queries = walk.queries,
              !.omitted = @ \/ walk.omitted,
              !.flows = IF Len(walk.nodes) < 2 \/ changed = {} THEN @
                        ELSE @ \union {[entry |-> entry, nodes |-> Range(walk.nodes),
                                        changed |-> changed, order |-> walk.nodes,
                                        parents |-> walk.parents, depth |-> walk.reached]}]

AnalyzeChangedRoots ==
  LET roots == ChangedFlowRoots
      walk == AffectedEntries(roots.nodes)
  IN  FoldLeft(TraceFlow,
               [roots |-> Range(roots.nodes), queries |-> walk.queries, flows |-> {},
                omitted |-> roots.omitted \/ walk.omitted],
               walk.entries)

(***************************************************************************)
(* import_cycles: strongly connected components by Tarjan's algorithm,     *)
(* then a shortest way around for every changed file in one.               *)
(***************************************************************************)
FileImports ==
  {<<File(i[1]), File(i[2])>> :
     i \in {j \in input.imports : File(j[1]) # File(j[2])
              /\ \A n \in {j[1], j[2]} : File(n) \notin input.rust /\ ~ Bounded(n)}}
Targets(f) == ById({i[2] : i \in {j \in FileImports : j[1] = f}})
Importing == UNION {{i[1], i[2]} : i \in FileImports}

(* index and low are 0 for what was not visited.                           *)
RECURSIVE Connect(_, _)
RECURSIVE PopTo(_, _, _)
PopTo(stack, f, popped) ==
  IF Last(stack) = f THEN popped \union {f}
  ELSE PopTo(Front(stack), f, popped \union {Last(stack)})

(* A fault: a file of a component that is done still counts.               *)
VisitTargetDone(s, f, t) ==
  IF s.index[t] = 0
  THEN LET deep == Connect(s, t)
       IN  [deep EXCEPT !.low[f] = Min({@, deep.low[t]})]
  ELSE [s EXCEPT !.low[f] = Min({@, s.index[t]})]

VisitTarget(s, f, t) ==
  IF s.index[t] = 0
  THEN LET deep == Connect(s, t)
       IN  [deep EXCEPT !.low[f] = Min({@, deep.low[t]})]
  ELSE IF t \in Range(s.stack) THEN [s EXCEPT !.low[f] = Min({@, s.index[t]})] ELSE s
Connect(s, f) ==
  LET opened == [s EXCEPT !.index[f] = s.next, !.low[f] = s.next, !.next = @ + 1,
                          !.stack = Append(@, f)]
      done == FoldLeft(LAMBDA w, t : VisitTarget(w, f, t), opened, Targets(f))
      component == PopTo(done.stack, f, {})
  IN  IF done.low[f] # done.index[f] THEN done
      ELSE [done EXCEPT !.components = @ \union {component},
                        !.stack = SubSeq(@, 1, Len(@) - Cardinality(component))]
Components ==
  FoldLeft(LAMBDA s, f : IF s.index[f] # 0 THEN s ELSE Connect(s, f),
           [index |-> [f \in Importing |-> 0], low |-> [f \in Importing |-> 0], next |-> 1,
            stack |-> <<>>, components |-> {}],
           ById(Importing)).components

(* Breadth first within the component until the start is met again.        *)
RECURSIVE RouteFrom(_, _, _, _)
RouteFrom(queue, seen, start, component) ==
  LET route == Head(queue)
      targets == Targets(Last(route))
      fresh == SelectSeq(targets, LAMBDA t : t \in component \ seen)
  IN  IF queue = <<>> THEN <<>>
      ELSE IF start \in Range(targets) THEN route
      ELSE RouteFrom(Tail(queue) \o [i \in DOMAIN fresh |-> Append(route, fresh[i])],
                     seen \union Range(fresh), start, component)

ChangedFiles == {File(n) : n \in Range(input.roots)}
ImportCycles ==
  LET cycles == {c \in Components : Cardinality(c) > 1 /\ c \intersect ChangedFiles # {}}
  IN  {[files |-> c, routes |-> [f \in c \intersect ChangedFiles |->
                                   RouteFrom(<<<<f>>>>, {f}, f, c)]] : c \in cycles}

(***************************************************************************)
(* Store::changes: the walks, from roots in some order.                    *)
(***************************************************************************)
WalksFrom(roots, flows) ==
  LET walk == TraverseChanges(roots)
  IN  [listed |-> walk.visited \ Range(roots),
       packages |-> walk.packages,
       edges |-> walk.edges,
       flows |-> flows.flows,
       cycles |-> ImportCycles,
       neighborhoodOmitted |-> walk.full \/ walk.omitted,
       flowOmitted |-> flows.omitted]

Init == input = NoValue /\ result = NoValue

Request ==
  /\ input = NoValue
  /\ input' \in Inputs
  /\ UNCHANGED result

(***************************************************************************)
(* Properties.                                                             *)
(***************************************************************************)
Own == {n \in Nodes : ~ Bounded(n)}
Near(n) == UNION {Related(r, n) : r \in {q \in Range(Relations) :
                                           TypesOnly(q) => Kind(n) = "type"}}
RECURSIVE Within(_, _)
Within(d, nodes) ==
  IF d = 0 THEN nodes
  ELSE Within(d - 1, nodes \union ((UNION {Near(n) : n \in nodes}) \intersect Own))

FlowStep(incoming) ==
  {p \in Own \X Nodes :
     \/ p[2] \in Called(p[1], incoming)
     \/ p[2] \in Dispatch(p[1], incoming) /\ p[2] \in Own}
RECURSIVE Closure(_, _)
Closure(steps, from) ==
  LET more == from \union {p[2] : p \in {q \in steps : q[1] \in from}}
  IN  IF more = from THEN from ELSE Closure(steps, more)
Along(incoming, nodes) ==
  Closure({p \in FlowStep(incoming) : incoming => Function(p[2])}, nodes)

ChangedFunctions ==
  {n \in Nodes : Function(n)
     /\ \E r \in Range(input.roots) : r = n \/ (Kind(r) \notin {"function", "test"}
                                                 /\ File(r) = File(n))}
Entries ==
  {n \in Along(TRUE, ChangedFunctions) \intersect Own :
     Function(n) /\ (input.nodes[n].conventional
                       \/ \A p \in FlowStep(TRUE) : p[1] = n => ~ Function(p[2]))}

(* A walk that flags no omission left nothing out: all that is within the  *)
(* depth asked for is listed, with every dependency met on the way, and    *)
(* every entry point from which a changed function can be reached has its  *)
(* flow, with all of its own code; what is listed is there, and no more    *)
(* than the limit (traverse_changes, store.rs:2816-2918; analyze_changed_  *)
(* roots to load_flow_neighbors, 2959-3443).  changed_flow_roots compares  *)
(* the number of roots with its limit by equality, and may pass it by      *)
(* roots that are functions: such requests are left out of the second      *)
(* half.                                                                   *)
CompleteMeansExhaustive ==
  result # NoValue =>
    LET roots == Range(input.roots)
        around == Within(input.depth, roots)
        before == IF input.depth = 0 THEN {} ELSE Within(input.depth - 1, roots)
        flows == [e \in Entries |-> Along(FALSE, {e})]
        entries == {e \in Entries : Cardinality(flows[e]) > 1
                                      /\ flows[e] \intersect ChangedFunctions # {}}
    IN  /\ result.listed \subseteq around
        /\ Cardinality(result.listed) <= input.limits.nodes
        /\ ~ result.neighborhoodOmitted =>
             /\ result.listed = around \ roots
             /\ result.packages =
                  {Package(m) : m \in {x \in UNION {Near(n) : n \in before} : Bounded(x)}}
        /\ Cardinality(ChangedFunctions) <= input.limits.nodes /\ ~ result.flowOmitted =>
             /\ {f.entry : f \in result.flows} = entries
             /\ \A f \in result.flows :
                  /\ f.nodes \intersect Own = flows[f.entry] \intersect Own
                  /\ {Package(n) : n \in f.nodes \ Own}
                       = {Package(n) : n \in flows[f.entry] \ Own}

(* The import cycles told are the strongly connected components with a     *)
(* changed file, and each route is a cycle of imports through its file     *)
(* that no shorter one replaces (import_cycles, store.rs:3645-3760).       *)
Beyond(f) == Closure(FileImports, {i[2] : i \in {j \in FileImports : j[1] = f}})
RECURSIVE Distance(_, _, _)
Distance(from, to, d) ==
  IF to \in from THEN d
  ELSE Distance({i[2] : i \in {j \in FileImports : j[1] \in from}}, to, d + 1)
CyclesAreReal ==
  result # NoValue =>
    /\ {c.files : c \in result.cycles} =
         {c \in {{g \in Beyond(f) : f \in Beyond(g)} : f \in Importing} :
            c \intersect ChangedFiles # {}}
    /\ \A c \in result.cycles : \A f \in DOMAIN c.routes :
         LET route == c.routes[f]
         IN  /\ route # <<>> /\ route[1] = f
             /\ \A i \in DOMAIN route :
                  <<route[i], route[(i % Len(route)) + 1]>> \in FileImports
             /\ Len(route) = Distance({i[2] : i \in {j \in FileImports : j[1] = f}}, f, 1)

=============================================================================
