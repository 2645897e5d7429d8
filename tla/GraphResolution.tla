-------------------------- MODULE GraphResolution --------------------------
(***************************************************************************)
(* How the references of a graph image find their targets.  A build from   *)
(* nothing resolves in memory and writes the result (resolve in            *)
(* src/src/index.rs; insert_graph in src/src/store.rs); an update of an    *)
(* existing image deletes and inserts the rows of the files that changed   *)
(* and resolves what that affects with other code, in SQL                  *)
(* (apply_incremental and the functions it calls, src/src/store.rs).  SCIP *)
(* evidence then upgrades calls that are still unresolved.                 *)
(*                                                                         *)
(* A source is a file as it is parsed: a path and the rows of its nodes,   *)
(* references and trait implementations.  Parsing is a constant.  Each     *)
(* operation is one transaction, so it is one step here.                   *)
(***************************************************************************)
EXTENDS Integers, FiniteSets, Sequences

CONSTANTS
  Sources,          \* ids of parsed files
  Path,             \* Path[s]: the path of s
  Nodes,            \* Nodes[s]: the ids of its nodes
  Node,             \* Node[n]: the columns of a node, see NodeColumns
  Refs,             \* Refs[s]: the ids of its references
  Ref,              \* Ref[r]: the columns of a reference, see RefColumns
  Implementations,  \* Implementations[s]: its `impl Trait for Type`, extends, ...
  Implementation,   \* Implementation[i]: [implementor, trait], two keys
  Names,            \* the names of nodes
  Keys,             \* lookup keys of definitions
  ExportValues,     \* the keys script:export-value:*
  Occurrences,      \* the SCIP index: [symbol, path, line, definition]
  SymbolName,       \* SymbolName[symbol]: its last descriptor
  KeyName,          \* KeyName[key]: the text after its last colon
  NoValue           \* SQL's NULL

(* A static method of an exported class has a key of its owner's key and   *)
(* its name: script:export-method:<owner>::<name>.                         *)
MethodKeys == [owner : ExportValues, name : Names]

AllNodes == UNION {Nodes[s] : s \in Sources}
AllRefs == UNION {Refs[s] : s \in Sources}
AllImplementations == UNION {Implementations[s] : s \in Sources}

(* file is the node of the file; owner is the key of the type a method is  *)
(* declared for; class and static are the keys script:class:* and          *)
(* script:static-method:*, which nothing else looks up.                    *)
NodeColumns ==
  [kind : {"file", "type", "function", "test"}, name : Names, keys : SUBSET Keys,
   file : AllNodes, parent : AllNodes \union {NoValue}, owner : Keys \union {NoValue},
   class : BOOLEAN, static : BOOLEAN, first : Nat, last : Nat]
RefColumns ==
  [source : AllNodes, kind : {"CALLS", "IMPORTS"}, line : Nat,
   keys : Seq(Keys \union MethodKeys), alias : Keys \union {NoValue}]

ASSUME ResolutionAssumption ==
  /\ ExportValues \subseteq Keys
  /\ Keys \intersect MethodKeys = {}
  /\ NoValue \notin AllNodes \union Keys \union MethodKeys
  /\ \A n \in AllNodes : Node[n] \in NodeColumns
  /\ \A r \in AllRefs : Ref[r] \in RefColumns
  /\ \A i \in AllImplementations : Implementation[i] \in [implementor : Keys, trait : Keys]
  /\ \A o \in Occurrences : SymbolName[o.symbol] \in Names
  /\ \A s \in Sources : \A r \in Refs[s] : Ref[r].source \in Nodes[s]
  /\ \A s \in Sources : \A n \in Nodes[s] :
       Node[n].file \in Nodes[s] /\ Node[n].parent \in Nodes[s] \union {NoValue}
  \* Static methods are declared inside of their class, and what a module
  \* exports is never a member of what it imports (javascript.rs).
  /\ \A n \in AllNodes : Node[n].static => Node[n].owner = NoValue
  /\ \A r \in AllRefs :
       Ref[r].alias # NoValue =>
         \A i \in DOMAIN Ref[r].keys : Ref[r].keys[i] \notin MethodKeys
  /\ IsFiniteSet(AllRefs)

VARIABLES
  image,   \* the tables of the graph image
  refused  \* the image's own checks refused the last operation

vars == <<image, refused>>

----------------------------------------------------------------------------
NodesOf(files) == UNION {Nodes[s] : s \in files}
RefsOf(files) == UNION {Refs[s] : s \in files}
ImplementationsOf(files) == UNION {Implementations[s] : s \in files}

KeysOf(r) == {Ref[r].keys[i] : i \in DOMAIN Ref[r].keys}

EdgeKind(r) ==
  IF Ref[r].kind = "IMPORTS" THEN "IMPORTS"
  ELSE IF Node[Ref[r].source].kind = "test" THEN "TEST_CALLS" ELSE "CALLS"
EdgeOf(r, target) == [source |-> Ref[r].source, target |-> target, kind |-> EdgeKind(r)]

(* A source of each path.                                                  *)
Trees == {t \in SUBSET Sources : \A s, u \in t : Path[s] = Path[u] => s = u}

----------------------------------------------------------------------------
(* Candidates.                                                             *)

Missing == [state |-> "missing", target |-> NoValue]
Ambiguous == [state |-> "ambiguous", target |-> NoValue]
Resolved(n) == [state |-> "resolved", target |-> n]

(* candidate: LIMIT 2 over the nodes that hold a key.                      *)
Candidate(holders) ==
  IF holders = {} THEN Missing
  ELSE IF \E n \in holders : holders = {n} THEN Resolved(CHOOSE n \in holders : TRUE)
  ELSE Ambiguous

MergeCandidates(direct, alias) ==
  IF Ambiguous \in {direct, alias} THEN Ambiguous
  ELSE Candidate({direct.target, alias.target} \ {NoValue})

(* The rows of node_keys for some nodes, and those for a key.              *)
KeyRows(nodes) == UNION {{<<k, n>> : k \in Node[n].keys} : n \in nodes}
Holders(im, key) == {row[2] : row \in {k \in im.keys : k[1] = key}}
Direct(im, key) == Candidate(Holders(im, key))

(* alias_candidate: what the references that export a key resolve to, of   *)
(* the nodes an outcome may count.                                         *)
AliasCandidate(refs, key, counts) ==
  LET exporters == {r \in DOMAIN refs : Ref[r].alias = key}
  IN  IF \E r \in exporters : refs[r].state = "ambiguous" THEN Ambiguous
      ELSE Candidate({refs[r].target : r \in exporters} \intersect counts)

Aliases(refs) == {Ref[r].alias : r \in refs} \ {NoValue}
Lookups(refs) == UNION {KeysOf(r) : r \in refs}

(* What each key that is looked up finds: among the nodes that hold it, or *)
(* also among what aliases find.                                           *)
DirectOutcomes(im, refs) == [key \in Lookups(refs) |-> Direct(im, key)]
MergedOutcomes(direct, refs) ==
  [key \in DOMAIN direct |-> MergeCandidates(direct[key], AliasCandidate(refs, key, AllNodes))]

(* The first of a reference's keys that is not missing decides.            *)
FirstFound(r, outcomes) ==
  LET found == {i \in DOMAIN Ref[r].keys : outcomes[Ref[r].keys[i]] # Missing}
  IN  IF found = {} THEN Missing
      ELSE outcomes[Ref[r].keys[CHOOSE i \in found : \A j \in found : i <= j]]

(* The aliases a whole graph exports: those of references that find        *)
(* nothing are left out, and two that find the same agree.                 *)
GraphAlias(refs, direct, key) ==
  LET found == {FirstFound(r, direct) : r \in {x \in refs : Ref[x].alias = key}} \ {Missing}
  IN  IF found = {} THEN Missing
      ELSE IF \E o \in found : found = {o} THEN CHOOSE o \in found : TRUE
      ELSE Ambiguous

(* What every reference of a whole graph finds.                            *)
GraphTargets(refs, direct) ==
  LET merged == [key \in DOMAIN direct |-> MergeCandidates(direct[key], GraphAlias(refs, direct, key))]
  IN  [r \in refs |-> FirstFound(r, IF Ref[r].alias = NoValue THEN merged ELSE direct)]
GraphOutcomes(im, refs) == GraphTargets(refs, DirectOutcomes(im, refs))

----------------------------------------------------------------------------
(* Moving references, and the edges with them.                             *)

Static(outcome) == [state |-> outcome.state, target |-> outcome.target, via |-> "static"]
Pending == [state |-> "pending", target |-> NoValue, via |-> "static"]

EdgeCount(edges, e) == IF e \in DOMAIN edges THEN edges[e] ELSE 0

(* Mutant: the edge to the old target keeps its support.                   *)
TransitionsKeeping(im, refs) ==
  LET changed == {r \in DOMAIN refs : refs[r] # im.refs[r]}
      Joining(e) == {r \in changed : refs[r].target # NoValue /\ EdgeOf(r, refs[r].target) = e}
      touched == {EdgeOf(r, refs[r].target) : r \in {c \in changed : refs[c].target # NoValue}}
  IN  [im EXCEPT !.refs = refs,
                 !.edges = [e \in DOMAIN im.edges \union touched |->
                              EdgeCount(im.edges, e) + Cardinality(Joining(e))]]

(* ReferenceTransitions::apply for every reference that changes: the edge  *)
(* to its old target loses one support, and goes with the last; the edge   *)
(* to its new target gains one.                                            *)
Transitions(im, refs) ==
  LET changed == {r \in DOMAIN refs : refs[r] # im.refs[r]}
      Moved(rows) == {r \in changed : rows[r].target # NoValue}
      Support(rows, e) == Cardinality({r \in Moved(rows) : EdgeOf(r, rows[r].target) = e})
      Count(e) == EdgeCount(im.edges, e) - Support(im.refs, e) + Support(refs, e)
      touched == DOMAIN im.edges \union {EdgeOf(r, refs[r].target) : r \in Moved(refs)}
  IN  IF refs = im.refs THEN im
      ELSE [im EXCEPT !.refs = refs,
                      !.edges = [e \in {t \in touched : Count(t) > 0} |-> Count(e)]]

(* The rows of some references after they are resolved; what does not      *)
(* change is left as it is.                                                *)
Resolve(rows, refs, outcomes) ==
  [r \in DOMAIN rows |->
     LET outcome == FirstFound(r, outcomes)
     IN  IF r \notin refs \/ (rows[r].state = outcome.state /\ rows[r].target = outcome.target)
         THEN rows[r] ELSE Static(outcome)]

(* The exporters first, which see no aliases, then the others with what    *)
(* the exporters found.                                                    *)
ResolveInOrder(im, due, direct) ==
  LET exporters == {r \in due : Ref[r].alias # NoValue}
      first == Resolve(im.refs, exporters, direct)
  IN  Transitions(im, Resolve(first, due \ exporters, MergedOutcomes(direct, first)))

(* resolve_references: the references given and those that look up a key   *)
(* they export.                                                            *)
ResolveReferences(im, references) ==
  LET exported == Aliases(references)
      due == references \union {r \in DOMAIN im.refs : KeysOf(r) \intersect exported # {}}
  IN  ResolveInOrder(im, due, DirectOutcomes(im, due))

(* Mutant: the keys of methods that are exported no more stay.             *)
RefreshExportMethodsKeeping(im) ==
  LET exports == ExportValues \intersect
                   ({row[1] : row \in im.keys} \union Aliases(DOMAIN im.refs))
      Owner(k) == MergeCandidates(Direct(im, k), AliasCandidate(im.refs, k, AllNodes)).target
      KeysFor(k, n) ==
        {<<[owner |-> k, name |-> Node[m].name], m>> :
           m \in {x \in DOMAIN im.parents : n # NoValue /\ im.parents[x] = n /\ Node[x].static}}
  IN  ResolveReferences([im EXCEPT !.keys = @ \union UNION {KeysFor(k, Owner(k)) : k \in exports}],
                        {r \in DOMAIN im.refs : KeysOf(r) \intersect MethodKeys # {}})

(* refresh_script_export_methods: every key that exports exactly one       *)
(* class, itself or through an alias, gives keys to the static methods of  *)
(* that class; the references that look up such a key are resolved again.  *)
RefreshExportMethods(im) ==
  LET static == {row \in im.keys : row[1] \notin MethodKeys}
      cleared == [im EXCEPT !.keys = static]
      exports == ExportValues \intersect ({row[1] : row \in static} \union Aliases(DOMAIN im.refs))
      Owner(k) == MergeCandidates(Direct(cleared, k), AliasCandidate(im.refs, k, AllNodes)).target
      Members(n) == {m \in DOMAIN im.parents : im.parents[m] = n /\ Node[m].static}
      KeysFor(k, n) ==
        IF n # NoValue /\ Node[n].class
        THEN {<<[owner |-> k, name |-> Node[m].name], m>> : m \in Members(n)} ELSE {}
  IN  ResolveReferences([im EXCEPT !.keys = static \union UNION {KeysFor(k, Owner(k)) : k \in exports}],
                        {r \in DOMAIN im.refs : KeysOf(r) \intersect MethodKeys # {}})

(* resolve_trait_implementations: both ends, among types only.             *)
ResolveImplementations(im, implementations) ==
  LET types == {n \in NodesOf(im.files) : Node[n].kind = "type"}
      End(key) ==
        MergeCandidates(Candidate(Holders(im, key) \intersect types),
                        AliasCandidate(im.refs, key, types)).target
  IN  [im EXCEPT !.implementations =
         [i \in DOMAIN @ |->
            IF i \in implementations
            THEN [implementor |-> End(Implementation[i].implementor),
                  trait |-> End(Implementation[i].trait)]
            ELSE @[i]]]

(* reparent_methods: the nodes declared for one of the owners belong to    *)
(* the one node that holds its key, or else to their file.                 *)
ReparentMethods(im, owners) ==
  [im EXCEPT !.parents =
     [n \in DOMAIN @ |->
        IF Node[n].owner \in owners
        THEN LET owner == Direct(im, Node[n].owner)
             IN  IF owner.state = "resolved" THEN owner.target ELSE Node[n].file
        ELSE @[n]]]

----------------------------------------------------------------------------
(* A build from nothing.                                                   *)

(* The references as resolved, and the edges they make.                    *)
EdgesOf(refs) ==
  LET linked == {r \in DOMAIN refs : refs[r].state = "resolved"}
      Edge(r) == EdgeOf(r, refs[r].target)
  IN  [e \in {Edge(r) : r \in linked} |-> Cardinality({r \in linked : Edge(r) = e})]

(* A method that its source leaves with the file goes to its unique owner. *)
ParentIn(rows, n) ==
  LET owner == Direct(rows, Node[n].owner)
  IN  IF /\ Node[n].owner # NoValue
         /\ Node[n].parent # NoValue
         /\ Node[Node[n].parent].kind = "file"
         /\ owner.state = "resolved"
      THEN owner.target ELSE Node[n].parent

(* What resolve of index.rs computes in memory and insert_graph writes: no *)
(* key of an exported method exists yet.                                   *)
GraphImage(tree, rows, outcomes) ==
  LET refs == [r \in RefsOf(tree) |-> Static(outcomes[r])]
  IN  [files |-> tree,
       refs |-> refs,
       edges |-> EdgesOf(refs),
       keys |-> rows.keys,
       implementations |->
         [i \in ImplementationsOf(tree) |-> [implementor |-> NoValue, trait |-> NoValue]],
       parents |-> [n \in NodesOf(tree) |-> ParentIn(rows, n)]]
ResolveRows(tree, rows) == GraphImage(tree, rows, GraphOutcomes(rows, RefsOf(tree)))
ResolveGraph(tree) == ResolveRows(tree, [keys |-> KeyRows(NodesOf(tree))])

(* The full branch of Store::index_with.                                   *)
FullBuild(tree) ==
  ResolveImplementations(RefreshExportMethods(ResolveGraph(tree)), ImplementationsOf(tree))

----------------------------------------------------------------------------
(* An update.                                                              *)

(* The keys whose holders or exporters an update changes.                  *)
AffectedKeys(im, removed, added) ==
  {row[1] : row \in {k \in im.keys : k[2] \in NodesOf(removed)} \union KeyRows(NodesOf(added))}
    \union Aliases(RefsOf(removed \union added))

(* The keys of types that come or go, and of the methods that do.          *)
AffectedOwners(im, removed, added) ==
  LET nodes == NodesOf(removed \union added)
      rows == {k \in im.keys : k[2] \in nodes} \union KeyRows(NodesOf(added))
  IN  {row[1] : row \in {k \in rows : Node[k[2]].kind = "type"}}
        \union ({Node[n].owner : n \in nodes} \ {NoValue})

(* Mutant: implementations that see an affected key through an alias are   *)
(* forgotten.                                                              *)
AffectedImplementationsDirect(im, keys) ==
  {i \in DOMAIN im.implementations :
     {Implementation[i].implementor, Implementation[i].trait} \intersect keys # {}}

(* The implementations that name an affected key, or a key that a          *)
(* reference to an affected key exports.                                   *)
AffectedImplementations(im, keys) ==
  LET exported == Aliases({r \in DOMAIN im.refs : KeysOf(r) \intersect keys # {}})
  IN  {i \in DOMAIN im.implementations :
         {Implementation[i].implementor, Implementation[i].trait}
           \intersect (keys \union exported) # {}}

(* Mutant: the reference to a deleted node stays.                          *)
OnDeleteKeep(n, kept) == n

(* ON DELETE SET NULL.                                                     *)
OnDelete(n, kept) == IF n \in kept THEN n ELSE NoValue

(* The rows after the deletions, with what SQLite's cascades do to the     *)
(* rows that stay, and the insertions: every reference is pending and      *)
(* there are no edges.                                                     *)
ReplaceRows(im, tree) ==
  LET nodes == NodesOf(tree)
      kept == NodesOf(tree \intersect im.files)
  IN  [files |-> tree,
       refs |-> [r \in RefsOf(tree) |-> Pending],
       edges |-> [e \in {} |-> 0],
       keys |-> {k \in im.keys : k[2] \in kept} \union KeyRows(NodesOf(tree \ im.files)),
       implementations |->
         [i \in ImplementationsOf(tree) |->
            IF i \in DOMAIN im.implementations
            THEN [implementor |-> OnDelete(im.implementations[i].implementor, kept),
                  trait |-> OnDelete(im.implementations[i].trait, kept)]
            ELSE [implementor |-> NoValue, trait |-> NoValue]],
       parents |->
         [n \in nodes |-> IF n \in kept THEN OnDelete(im.parents[n], kept) ELSE Node[n].parent]]

(* apply_incremental when something changed, be it only the gaps of the    *)
(* whole graph: a source that stays keeps its rows.                        *)
ApplyIncremental(im, tree) ==
  LET removed == im.files \ tree
      added == tree \ im.files
      affected ==
        AffectedImplementations(im, AffectedKeys(im, removed, added))
          \union ImplementationsOf(added)
      rows == ReplaceRows(im, tree)
      resolved == RefreshExportMethods(ResolveReferences(rows, RefsOf(tree)))
  IN  ReparentMethods(ResolveImplementations(resolved, affected),
                      AffectedOwners(im, removed, added))

----------------------------------------------------------------------------
(* SCIP evidence.                                                          *)

(* The node a symbol is: at every definition of it the innermost node of   *)
(* its name around the line, the same one everywhere, or none.             *)
SymbolTarget(im, symbol) ==
  LET definitions == {o \in Occurrences : o.symbol = symbol /\ o.definition}
      Around(o) ==
        {n \in UNION {Nodes[s] : s \in {f \in im.files : Path[f] = o.path}} :
           /\ Node[n].kind # "file" /\ Node[n].name = SymbolName[symbol]
           /\ Node[n].first <= o.line /\ o.line <= Node[n].last}
      Span(n) == Node[n].last - Node[n].first
      Innermost(o) == {n \in Around(o) : \A m \in Around(o) : Span(n) <= Span(m)}
      targets == {Candidate(Innermost(o)).target : o \in definitions}
  IN  IF \E n \in targets : targets = {n} THEN CHOOSE n \in targets : TRUE ELSE NoValue

(* The call a line is upgraded to: the line has one unresolved reference,  *)
(* a call that exports nothing, and its names match one target.            *)
ScipTarget(im, r) ==
  LET PathOf(x) == Path[CHOOSE s \in im.files : x \in Refs[s]]
      here == {x \in DOMAIN im.refs : PathOf(x) = PathOf(r) /\ Ref[x].line = Ref[r].line}
      unresolved == {x \in here : im.refs[x].state \in {"missing", "ambiguous"}}
      names == {IF k \in MethodKeys THEN k.name ELSE KeyName[k] : k \in KeysOf(r)}
      matching == {o \in Occurrences :
                     /\ ~ o.definition
                     /\ o.path = PathOf(r) /\ o.line = Ref[r].line
                     /\ SymbolName[o.symbol] \in names}
      targets == {SymbolTarget(im, o.symbol) : o \in matching} \ {NoValue}
  IN  IF /\ unresolved = {r}
         /\ Ref[r].kind = "CALLS"
         /\ Ref[r].alias = NoValue
      THEN Candidate(targets).target ELSE NoValue

(* resolve_scip_references.                                                *)
ResolveScip(im) ==
  Transitions(im,
    [r \in DOMAIN im.refs |->
       IF ScipTarget(im, r) = NoValue THEN im.refs[r]
       ELSE [state |-> "resolved", target |-> ScipTarget(im, r), via |-> "scip"]])

----------------------------------------------------------------------------
(* The checks of a transaction before it commits.                          *)

(* require_reference_candidates: what each reference resolves to is what   *)
(* its keys say; SCIP has only resolved what they leave open.              *)
Consistent(refs, expected) ==
  \A r \in DOMAIN refs :
    IF refs[r].via = "scip"
    THEN expected[r].state # "resolved" /\ refs[r].state = "resolved"
    ELSE refs[r] = Static(expected[r])
CandidatesHold(im) == Consistent(im.refs, GraphOutcomes(im, DOMAIN im.refs))

(* require_graph_invariants: no reference is pending, one is resolved when *)
(* it has a target, and the edges are the resolved references, counted.    *)
GraphInvariants(im) ==
  /\ \A r \in DOMAIN im.refs :
       /\ im.refs[r].state # "pending"
       /\ (im.refs[r].state = "resolved") = (im.refs[r].target # NoValue)
  /\ CandidatesHold(im)
  /\ im.edges = EdgesOf(im.refs)

Commit(im) ==
  IF GraphInvariants(im) THEN image' = im /\ refused' = FALSE
  ELSE refused' = TRUE /\ UNCHANGED image

----------------------------------------------------------------------------
Init ==
  /\ \E tree \in Trees : image = FullBuild(tree)
  /\ refused = ~ GraphInvariants(image)

(* The image is a seed for another tree, or gets other generated outputs.  *)
Update == \E tree \in Trees : Commit(ApplyIncremental(image, tree))

(* A seed for its own tree: apply_incremental returns early.               *)
Reuse == Commit(image)

Upgrade == Commit(ResolveScip(image))

Next == Update \/ Reuse \/ Upgrade

Spec == Init /\ [][Next]_vars

----------------------------------------------------------------------------
(* Correctness.                                                            *)

(* The tables refer to rows that exist: nothing dangles after a file goes. *)
TypeOK ==
  LET nodes == NodesOf(image.files) \union {NoValue}
  IN  /\ image.files \in Trees
      /\ image.refs \in
           [RefsOf(image.files) ->
              [state : {"resolved", "missing", "ambiguous"}, target : nodes,
               via : {"static", "scip"}]]
      /\ \A e \in DOMAIN image.edges :
           {e.source, e.target} \subseteq NodesOf(image.files) /\ image.edges[e] \in Nat
      /\ image.keys \subseteq ((Keys \union MethodKeys) \X NodesOf(image.files))
      /\ image.implementations \in
           [ImplementationsOf(image.files) -> [implementor : nodes, trait : nodes]]
      /\ image.parents \in [NodesOf(image.files) -> nodes]
      /\ refused \in BOOLEAN

(* No chain of updates and upgrades leads to an image that the checks of   *)
(* the transaction refuse (require_graph_invariants): such an image would  *)
(* fail every later build that starts from it.                             *)
NoBuildIsRefused == ~ refused

(* The same keys, and the same targets but for what SCIP resolves.         *)
ResolvedAs(im, full) ==
  /\ im.keys = full.keys
  /\ \A r \in DOMAIN im.refs :
       IF im.refs[r].via = "scip" THEN full.refs[r].target = NoValue
       ELSE im.refs[r] = full.refs[r]

(* However an image came about, its references resolve as those of a build *)
(* from nothing of the same files, except that SCIP has resolved some that *)
(* such a build leaves open; and exported classes export the same static   *)
(* methods.                                                                *)
ReferencesAreThoseOfAFullBuild == ResolvedAs(image, FullBuild(image.files))

(* An update looks again only at the trait implementations it thinks are   *)
(* affected (affected_implementations); they all end up as in a build from *)
(* nothing.                                                                *)
ImplementationsAreThoseOfAFullBuild ==
  image.implementations = FullBuild(image.files).implementations

(* What docs/superpowers/plans/2026-09-08-graphr-0.8.0-ripwire-lessons.md  *)
(* says of a method: the resolver reparents it only when its type's key is *)
(* unique.                                                                 *)
ReparentedOnlyWhenUnique ==
  \A n \in DOMAIN image.parents :
    image.parents[n] # Node[n].parent =>
      /\ Node[n].owner # NoValue
      /\ Direct(image, Node[n].owner) = Resolved(image.parents[n])
============================================================================
