------------------------ MODULE GraphResolutionProofs ------------------------
(***************************************************************************)
(* An image of GraphResolution is the one its files determine, for any     *)
(* sources and whatever chain of builds, updates and upgrades led to it.   *)
(*                                                                         *)
(* What a tree of files says is defined first, without any history: which  *)
(* nodes hold a key, what its exporting references find (Exported), what   *)
(* an alias stands for (AliasIn), which keys its exported static methods   *)
(* have (MethodRows), what every reference finds (Finds) and both ends of  *)
(* every implementation (EndsIn).  resolve of index.rs, which works in     *)
(* memory, the functions of store.rs, which work on rows, and the check    *)
(* before a commit are each shown to compute that.                         *)
(*                                                                         *)
(* Exporting references come first in the code and look up no alias, which *)
(* is why one pass is enough; they look up no static method either, which  *)
(* is why the refresh of exported methods need not be repeated.  An update *)
(* resolves all references again, so what it may get wrong is what it      *)
(* keeps: keys, implementations and parents.  An implementation that is    *)
(* not looked at again names keys that nothing which came or went holds or *)
(* exports, and that no reference exports which looks up one that does;    *)
(* EndsStay shows that its ends are then the same in the new tree.         *)
(***************************************************************************)
EXTENDS GraphResolution, FiniteSetTheorems, WellFoundedInduction, TLAPS

(***************************************************************************)
(* The first key that is not missing.                                      *)
(***************************************************************************)

(* A set of positions that is not empty has a first one.                   *)
LEMMA LeastPosition ==
  ASSUME NEW S \in SUBSET Nat, S # {}
  PROVE  \E m \in S : \A k \in S : m <= k
<1>1. IsWellFoundedOn(OpToRel(<, Nat), Nat)
  BY NatLessThanWellFounded
<1>2. PICK m \in S : \A k \in S : ~ (<<k, m>> \in OpToRel(<, Nat))
  BY <1>1, WFMin
<1>3. \A k \in S : ~ (k < m)
  BY <1>2 DEF OpToRel
<1> QED
  BY <1>3

(* The kinds of results, and that a candidate is one.                      *)
Outcomes == {Missing, Ambiguous} \union {Resolved(n) : n \in AllNodes}

LEMMA CandidateIsOutcome ==
  ASSUME NEW H, H \subseteq AllNodes
  PROVE  Candidate(H) \in Outcomes
<1>1. CASE H = {}
  BY <1>1 DEF Candidate, Outcomes
<1>2. CASE H # {} /\ \E n \in H : H = {n}
  <2>1. (CHOOSE n \in H : TRUE) \in AllNodes
    BY <1>2
  <2> QED
    BY <1>2, <2>1 DEF Candidate, Outcomes
<1>3. CASE H # {} /\ ~ \E n \in H : H = {n}
  BY <1>3 DEF Candidate, Outcomes
<1> QED
  BY <1>1, <1>2, <1>3

(* The target of a candidate is among the nodes it was chosen from.        *)
LEMMA CandidateTarget ==
  ASSUME NEW H
  PROVE  Candidate(H).target \in H \union {NoValue}
<1>1. CASE H # {} /\ \E n \in H : H = {n}
  <2>1. (CHOOSE n \in H : TRUE) \in H
    BY <1>1
  <2>2. Candidate(H) = Resolved(CHOOSE n \in H : TRUE)
    BY <1>1 DEF Candidate
  <2> QED
    BY <2>1, <2>2 DEF Resolved
<1>2. CASE ~ (H # {} /\ \E n \in H : H = {n})
  BY <1>2 DEF Candidate, Missing, Ambiguous
<1> QED
  BY <1>1, <1>2

(* An outcome has a target when it is resolved, and only then.             *)
LEMMA OutcomeFacts ==
  ASSUME NEW o \in Outcomes
  PROVE  /\ o.state \in {"missing", "ambiguous", "resolved"}
         /\ o.target \in AllNodes \union {NoValue}
         /\ o.state = "resolved" <=> o.target # NoValue
         /\ o.state = "missing" <=> o = Missing
         /\ o.state = "ambiguous" <=> o = Ambiguous
         /\ o = [state |-> o.state, target |-> o.target]
  BY ResolutionAssumption DEF Outcomes, Missing, Ambiguous, Resolved

(* Merging two outcomes gives one.                                         *)
LEMMA MergeIsOutcome ==
  ASSUME NEW o \in Outcomes, NEW p \in Outcomes
  PROVE  MergeCandidates(o, p) \in Outcomes
<1>1. {o.target, p.target} \ {NoValue} \subseteq AllNodes
  BY OutcomeFacts
<1>2. Candidate({o.target, p.target} \ {NoValue}) \in Outcomes
  BY <1>1, CandidateIsOutcome
<1>3. Ambiguous \in Outcomes
  BY DEF Outcomes
<1> QED
  BY <1>2, <1>3 DEF MergeCandidates

(* What ResolutionAssumption says of one reference.                        *)
LEMMA KeysOfRef ==
  ASSUME NEW r \in AllRefs
  PROVE  /\ KeysOf(r) \subseteq Keys \union MethodKeys
         /\ DOMAIN Ref[r].keys \subseteq Nat
         /\ Ref[r].alias \in Keys \union {NoValue}
         /\ Ref[r].source \in AllNodes
         /\ Ref[r].alias # NoValue => KeysOf(r) \subseteq Keys
         /\ \A i \in DOMAIN Ref[r].keys : Ref[r].keys[i] \in KeysOf(r)
<1>1. Ref[r] \in RefColumns
  BY ResolutionAssumption
<1>2. /\ Ref[r].keys \in Seq(Keys \union MethodKeys)
      /\ Ref[r].alias \in Keys \union {NoValue}
      /\ Ref[r].source \in AllNodes
  BY <1>1 DEF RefColumns
<1>3. DOMAIN Ref[r].keys = 1 .. Len(Ref[r].keys) /\ Len(Ref[r].keys) \in Nat
  BY <1>2
<1>4. \A i \in DOMAIN Ref[r].keys : Ref[r].keys[i] \in Keys \union MethodKeys
  BY <1>2, <1>3
<1>5. KeysOf(r) \subseteq Keys \union MethodKeys
  BY <1>4 DEF KeysOf
<1>6. Ref[r].alias # NoValue => KeysOf(r) \subseteq Keys
  BY <1>4, ResolutionAssumption DEF KeysOf
<1>7. DOMAIN Ref[r].keys \subseteq Nat
  BY <1>3
<1>8. \A i \in DOMAIN Ref[r].keys : Ref[r].keys[i] \in KeysOf(r)
  BY DEF KeysOf
<1> QED
  BY <1>2, <1>5, <1>6, <1>7, <1>8

(* What a reference finds is what one of its keys finds, or nothing.       *)
LEMMA FirstFoundIsOfAKey ==
  ASSUME NEW r \in AllRefs, NEW o
  PROVE  \/ FirstFound(r, o) = Missing
         \/ \E k \in KeysOf(r) : FirstFound(r, o) = o[k] /\ o[k] # Missing
<1> DEFINE found == {i \in DOMAIN Ref[r].keys : o[Ref[r].keys[i]] # Missing}
<1> DEFINE c == CHOOSE i \in found : \A j \in found : i <= j
<1>1. CASE found = {}
  BY <1>1 DEF FirstFound
<1>2. CASE found # {}
  <2>1. found \in SUBSET Nat
    BY KeysOfRef
  <2>2. \E i \in found : \A j \in found : i <= j
    BY <1>2, <2>1, LeastPosition
  <2>3. c \in found
    BY <2>2
  <2>4. Ref[r].keys[c] \in KeysOf(r) /\ o[Ref[r].keys[c]] # Missing
    BY <2>3, KeysOfRef
  <2>5. FirstFound(r, o) = o[Ref[r].keys[c]]
    BY <1>2 DEF FirstFound
  <2> QED
    BY <2>4, <2>5
<1> QED
  BY <1>1, <1>2

(* It depends on what its keys find and on nothing else.                   *)
LEMMA FirstFoundAgrees ==
  ASSUME NEW r \in AllRefs, NEW o, NEW p, \A k \in KeysOf(r) : o[k] = p[k]
  PROVE  FirstFound(r, o) = FirstFound(r, p)
<1> DEFINE found == {i \in DOMAIN Ref[r].keys : o[Ref[r].keys[i]] # Missing}
<1> DEFINE same == {i \in DOMAIN Ref[r].keys : p[Ref[r].keys[i]] # Missing}
<1> DEFINE c == CHOOSE i \in found : \A j \in found : i <= j
<1>1. \A i \in DOMAIN Ref[r].keys : o[Ref[r].keys[i]] = p[Ref[r].keys[i]]
  BY KeysOfRef
<1>2. found = same
  BY <1>1
<1>3. CASE found = {}
  BY <1>2, <1>3 DEF FirstFound
<1>4. CASE found # {}
  <2>1. found \in SUBSET Nat
    BY KeysOfRef
  <2>2. \E i \in found : \A j \in found : i <= j
    BY <1>4, <2>1, LeastPosition
  <2>3. c \in DOMAIN Ref[r].keys
    BY <2>2
  <2>4. FirstFound(r, o) = o[Ref[r].keys[c]]
    BY <1>4 DEF FirstFound
  <2>5. FirstFound(r, p) = p[Ref[r].keys[CHOOSE i \in same : \A j \in same : i <= j]]
    BY <1>2, <1>4 DEF FirstFound
  <2>6. FirstFound(r, p) = p[Ref[r].keys[c]]
    BY <1>2, <2>5
  <2> QED
    BY <1>1, <2>3, <2>4, <2>6
<1> QED
  BY <1>3, <1>4

(* What a reference finds is an outcome if its keys find outcomes.         *)
LEMMA FirstFoundIsOutcome ==
  ASSUME NEW r \in AllRefs, NEW o, \A k \in KeysOf(r) : o[k] \in Outcomes
  PROVE  FirstFound(r, o) \in Outcomes
<1>1. Missing \in Outcomes
  BY DEF Outcomes
<1> QED
  BY <1>1, FirstFoundIsOfAKey

(***************************************************************************)
(* What a tree says, apart from any history: which nodes hold a key, what  *)
(* its exporting references find, what an alias stands for, which keys its *)
(* exported static methods have, and what each reference finds.            *)
(***************************************************************************)
StaticRows(tree) == KeyRows(NodesOf(tree))
HoldersIn(tree, key) == {n \in NodesOf(tree) : key \in Node[n].keys}

Exporter(r) == Ref[r].alias # NoValue
Exported(tree, r) == FirstFound(r, [k \in Keys |-> Candidate(HoldersIn(tree, k))])

AliasIn(tree, key, counts) ==
  LET exporters == {r \in RefsOf(tree) : Ref[r].alias = key}
  IN  IF \E r \in exporters : Exported(tree, r) = Ambiguous THEN Ambiguous
      ELSE Candidate({Exported(tree, r).target : r \in exporters} \intersect counts)

ExportsOf(tree) ==
  ExportValues \intersect ({row[1] : row \in StaticRows(tree)} \union Aliases(RefsOf(tree)))
OwnerOf(tree, k) ==
  MergeCandidates(Candidate(HoldersIn(tree, k)), AliasIn(tree, k, AllNodes)).target
MembersOf(tree, n) == {m \in NodesOf(tree) : Node[m].parent = n /\ Node[m].static}
MethodRowsFor(tree, k) ==
  IF OwnerOf(tree, k) # NoValue /\ Node[OwnerOf(tree, k)].class
  THEN {<<[owner |-> k, name |-> Node[m].name], m>> : m \in MembersOf(tree, OwnerOf(tree, k))}
  ELSE {}
MethodRows(tree) == UNION {MethodRowsFor(tree, k) : k \in ExportsOf(tree)}
AllRows(tree) == StaticRows(tree) \union MethodRows(tree)

(* What r finds in the key rows of im, if aliases are those of the tree.   *)
FindsIn(im, tree, r) ==
  IF Exporter(r) THEN Exported(tree, r)
  ELSE FirstFound(r, [k \in Keys \union MethodKeys |->
                        MergeCandidates(Direct(im, k), AliasIn(tree, k, AllNodes))])
Finds(tree, r) == FindsIn([keys |-> AllRows(tree)], tree, r)

(* The rows of node_keys that no refresh has inserted are those of the     *)
(* tree.                                                                   *)
HasRowsOf(im, tree) == {row \in im.keys : row[1] \notin MethodKeys} = StaticRows(tree)

(* The rows of exporting references hold what the tree says.               *)
ExportersHold(rows, tree) ==
  /\ DOMAIN rows = RefsOf(tree)
  /\ \A r \in RefsOf(tree) :
       Exporter(r) => /\ rows[r].state = Exported(tree, r).state
                      /\ rows[r].target = Exported(tree, r).target

(* The rows of a tree are rows of the program.                             *)
LEMMA RowsOfATree ==
  ASSUME NEW tree, tree \subseteq Sources
  PROVE  /\ NodesOf(tree) \subseteq AllNodes
         /\ RefsOf(tree) \subseteq AllRefs
         /\ ImplementationsOf(tree) \subseteq AllImplementations
  BY DEF NodesOf, RefsOf, ImplementationsOf, AllNodes, AllRefs, AllImplementations

(* What ResolutionAssumption says of one node.                             *)
LEMMA NodeHasColumns ==
  ASSUME NEW n \in AllNodes
  PROVE  /\ Node[n].keys \subseteq Keys
         /\ Node[n].name \in Names
         /\ Node[n].file \in AllNodes
         /\ Node[n].parent \in AllNodes \union {NoValue}
         /\ Node[n].owner \in Keys \union {NoValue}
         /\ Node[n].static \in BOOLEAN
         /\ Node[n].class \in BOOLEAN
<1>1. Node[n] \in NodeColumns
  BY ResolutionAssumption
<1> QED
  BY <1>1 DEF NodeColumns

(* KeyRows has a row for each key of each node, and none for methods.      *)
LEMMA StaticRowsAre ==
  ASSUME NEW nodes, nodes \subseteq AllNodes
  PROVE  /\ KeyRows(nodes) \subseteq Keys \X nodes
         /\ \A row : row \in KeyRows(nodes) <=>
              \E n \in nodes : \E k \in Node[n].keys : row = <<k, n>>
         /\ \A row \in KeyRows(nodes) : row[1] \notin MethodKeys
<1>1. \A row : row \in KeyRows(nodes) <=>
               \E n \in nodes : \E k \in Node[n].keys : row = <<k, n>>
  BY DEF KeyRows
<1>2. KeyRows(nodes) \subseteq Keys \X nodes
  BY <1>1, NodeHasColumns
<1>3. \A row \in KeyRows(nodes) : row[1] \notin MethodKeys
  BY <1>2, ResolutionAssumption
<1> QED
  BY <1>1, <1>2, <1>3

(* A lookup of a key in the table finds the nodes of the tree that have it.*)
LEMMA HoldersAreOfTheTree ==
  ASSUME NEW tree, tree \subseteq Sources, NEW im, HasRowsOf(im, tree), NEW key \in Keys
  PROVE  Holders(im, key) = HoldersIn(tree, key)
<1>1. key \notin MethodKeys
  BY ResolutionAssumption
<1>2. {k \in im.keys : k[1] = key} = {k \in StaticRows(tree) : k[1] = key}
  BY <1>1 DEF HasRowsOf
<1>3. \A row : row \in StaticRows(tree) <=>
               \E n \in NodesOf(tree) : \E k \in Node[n].keys : row = <<k, n>>
  BY RowsOfATree, StaticRowsAre DEF StaticRows
<1>4. Holders(im, key) = {row[2] : row \in {k \in StaticRows(tree) : k[1] = key}}
  BY <1>2 DEF Holders
<1>5. \A n : n \in Holders(im, key) => n \in HoldersIn(tree, key)
  BY <1>3, <1>4 DEF HoldersIn
<1>6. ASSUME NEW n \in HoldersIn(tree, key)
      PROVE  n \in Holders(im, key)
  <2>1. <<key, n>> \in {k \in StaticRows(tree) : k[1] = key}
    BY <1>3 DEF HoldersIn
  <2>2. <<key, n>>[2] = n
    OBVIOUS
  <2> QED
    BY <1>4, <2>1, <2>2
<1> QED
  BY <1>5, <1>6

(* What an exporting reference finds is an outcome.                        *)
LEMMA ExportedIsOutcome ==
  ASSUME NEW tree, tree \subseteq Sources, NEW r \in AllRefs, Exporter(r)
  PROVE  Exported(tree, r) \in Outcomes
<1>1. \A k \in Keys : HoldersIn(tree, k) \subseteq AllNodes
  BY RowsOfATree DEF HoldersIn
<1>2. \A k \in Keys : Candidate(HoldersIn(tree, k)) \in Outcomes
  BY <1>1, CandidateIsOutcome
<1>3. KeysOf(r) \subseteq Keys
  BY KeysOfRef DEF Exporter
<1> QED
  BY <1>2, <1>3, FirstFoundIsOutcome DEF Exported

(* So is what an alias stands for.                                         *)
LEMMA AliasIsOutcome ==
  ASSUME NEW tree, tree \subseteq Sources, NEW key, NEW counts, counts \subseteq AllNodes
  PROVE  AliasIn(tree, key, counts) \in Outcomes
<1> DEFINE targets == {Exported(tree, r).target : r \in {x \in RefsOf(tree) : Ref[x].alias = key}}
<1>1. targets \intersect counts \subseteq AllNodes
  OBVIOUS
<1>2. Candidate(targets \intersect counts) \in Outcomes
  BY <1>1, CandidateIsOutcome
<1>3. Ambiguous \in Outcomes
  BY DEF Outcomes
<1> QED
  BY <1>2, <1>3 DEF AliasIn

(* alias_candidate reads in the rows what the tree says.                   *)
LEMMA AliasIsOfTheTree ==
  ASSUME NEW tree, tree \subseteq Sources, NEW rows, ExportersHold(rows, tree),
         NEW key, key # NoValue, NEW counts
  PROVE  AliasCandidate(rows, key, counts) = AliasIn(tree, key, counts)
<1> DEFINE exporters == {r \in RefsOf(tree) : Ref[r].alias = key}
<1>1. {r \in DOMAIN rows : Ref[r].alias = key} = exporters
  BY DEF ExportersHold
<1>2. \A r \in exporters : /\ rows[r].state = Exported(tree, r).state
                           /\ rows[r].target = Exported(tree, r).target
  BY DEF ExportersHold, Exporter
<1>3. \A r \in exporters : (rows[r].state = "ambiguous") = (Exported(tree, r) = Ambiguous)
  BY <1>2, RowsOfATree, ExportedIsOutcome, OutcomeFacts DEF Exporter
<1>4. {rows[r].target : r \in exporters} = {Exported(tree, r).target : r \in exporters}
  BY <1>2
<1>5. AliasCandidate(rows, key, counts) =
        IF \E r \in exporters : rows[r].state = "ambiguous" THEN Ambiguous
        ELSE Candidate({rows[r].target : r \in exporters} \intersect counts)
  BY <1>1 DEF AliasCandidate
<1>6. AliasIn(tree, key, counts) =
        IF \E r \in exporters : Exported(tree, r) = Ambiguous THEN Ambiguous
        ELSE Candidate({Exported(tree, r).target : r \in exporters} \intersect counts)
  BY DEF AliasIn
<1> QED
  BY <1>3, <1>4, <1>5, <1>6

(* Only keys of exported values own exported methods.                      *)
LEMMA ExportsAreKeys ==
  ASSUME NEW tree, tree \subseteq Sources
  PROVE  ExportsOf(tree) \subseteq ExportValues
  BY DEF ExportsOf

(* The keys of exported methods are held by nodes of the tree.             *)
LEMMA MethodRowsAre ==
  ASSUME NEW tree, tree \subseteq Sources
  PROVE  MethodRows(tree) \subseteq MethodKeys \X NodesOf(tree)
<1>1. ASSUME NEW k \in ExportsOf(tree), NEW row \in MethodRowsFor(tree, k)
      PROVE  row \in MethodKeys \X NodesOf(tree)
  <2>1. PICK m \in MembersOf(tree, OwnerOf(tree, k)) :
          row = <<[owner |-> k, name |-> Node[m].name], m>>
    BY DEF MethodRowsFor
  <2>2. m \in NodesOf(tree) /\ Node[m].name \in Names
    BY RowsOfATree, NodeHasColumns DEF MembersOf
  <2>3. [owner |-> k, name |-> Node[m].name] \in MethodKeys
    BY <2>2, ExportsAreKeys DEF MethodKeys
  <2> QED
    BY <2>1, <2>2, <2>3
<1> QED
  BY <1>1 DEF MethodRows

(* Clearing the keys of exported methods leaves those of the nodes.        *)
LEMMA AllRowsHold ==
  ASSUME NEW tree, tree \subseteq Sources
  PROVE  \A im : im.keys = AllRows(tree) \/ im.keys = StaticRows(tree) => HasRowsOf(im, tree)
<1>1. \A row \in StaticRows(tree) : row[1] \notin MethodKeys
  BY RowsOfATree, StaticRowsAre DEF StaticRows
<1>2. \A row \in MethodRows(tree) : row[1] \in MethodKeys
  BY MethodRowsAre
<1> QED
  BY <1>1, <1>2 DEF HasRowsOf, AllRows

(* One holder resolves.                                                    *)
LEMMA CandidateOfOne ==
  ASSUME NEW n
  PROVE  Candidate({n}) = Resolved(n)
<1>1. {n} # {} /\ \E m \in {n} : {n} = {m}
  OBVIOUS
<1>2. (CHOOSE m \in {n} : TRUE) = n
  OBVIOUS
<1> QED
  BY <1>1, <1>2 DEF Candidate

(* resolve of index.rs and alias_candidate of store.rs agree on what an    *)
(* alias stands for: the one leaves out what finds nothing and compares    *)
(* results, the other counts ambiguous rows and distinct targets.          *)
LEMMA GraphAliasIsOfTheTree ==
  ASSUME NEW tree, tree \subseteq Sources, NEW direct, NEW key, key # NoValue,
         \A r \in RefsOf(tree) : Exporter(r) => FirstFound(r, direct) = Exported(tree, r)
  PROVE  GraphAlias(RefsOf(tree), direct, key) = AliasIn(tree, key, AllNodes)
<1> DEFINE exporters == {r \in RefsOf(tree) : Ref[r].alias = key}
<1> DEFINE found == {Exported(tree, r) : r \in exporters} \ {Missing}
<1> DEFINE targets == {Exported(tree, r).target : r \in exporters} \intersect AllNodes
<1>1. \A r \in exporters : Exported(tree, r) \in Outcomes
  BY RowsOfATree, ExportedIsOutcome DEF Exporter
<1>2. {FirstFound(r, direct) : r \in exporters} = {Exported(tree, r) : r \in exporters}
  BY DEF Exporter
<1>3. GraphAlias(RefsOf(tree), direct, key) =
        IF found = {} THEN Missing
        ELSE IF \E o \in found : found = {o} THEN CHOOSE o \in found : TRUE
        ELSE Ambiguous
  BY <1>2 DEF GraphAlias
<1>4. AliasIn(tree, key, AllNodes) =
        IF \E r \in exporters : Exported(tree, r) = Ambiguous THEN Ambiguous
        ELSE Candidate(targets)
  BY DEF AliasIn
<1>5. Missing # Ambiguous /\ \A n \in AllNodes : Resolved(n) \notin {Missing, Ambiguous}
  BY DEF Missing, Ambiguous, Resolved
<1>6. \A o \in found : o = Ambiguous \/ \E n \in AllNodes : o = Resolved(n)
  BY <1>1 DEF Outcomes
<1>7. \A n : n \in targets <=> n \in AllNodes /\ Resolved(n) \in found
  <2>1. ASSUME NEW n \in targets
        PROVE  n \in AllNodes /\ Resolved(n) \in found
    <3>1. PICK r \in exporters : Exported(tree, r).target = n
      OBVIOUS
    <3>2. Exported(tree, r) = Resolved(n)
      BY <1>1, <3>1, ResolutionAssumption DEF Outcomes, Missing, Ambiguous, Resolved
    <3> QED
      BY <1>5, <3>2
  <2>2. ASSUME NEW n \in AllNodes, Resolved(n) \in found
        PROVE  n \in targets
    <3>1. PICK r \in exporters : Exported(tree, r) = Resolved(n)
      BY <2>2
    <3>2. Exported(tree, r).target = n
      BY <3>1 DEF Resolved
    <3> QED
      BY <3>2
  <2> QED
    BY <2>1, <2>2
<1>8. (\E r \in exporters : Exported(tree, r) = Ambiguous) <=> Ambiguous \in found
  BY <1>5
<1> HIDE DEF found, targets
<1>9. CASE Ambiguous \in found
  BY <1>3, <1>4, <1>8, <1>9
<1>10. CASE Ambiguous \notin found /\ found = {}
  <2>1. targets = {}
    BY <1>7, <1>10
  <2> QED
    BY <1>3, <1>4, <1>8, <1>10, <2>1 DEF Candidate
<1>11. CASE Ambiguous \notin found /\ \E o \in found : found = {o}
  <2>1. PICK o \in found : found = {o}
    BY <1>11
  <2>2. PICK n \in AllNodes : o = Resolved(n)
    BY <1>6, <1>11, <2>1
  <2>3. \A m : Resolved(m) = Resolved(n) => m = n
    BY DEF Resolved
  <2>4. targets = {n}
    BY <1>7, <2>1, <2>2, <2>3
  <2>5. (CHOOSE x \in found : TRUE) = Resolved(n)
    BY <2>1, <2>2
  <2> QED
    BY <1>3, <1>4, <1>8, <1>11, <2>4, <2>5, CandidateOfOne
<1>12. CASE Ambiguous \notin found /\ found # {} /\ ~ \E o \in found : found = {o}
  <2>1. PICK o \in found, p \in found : o # p
    BY <1>12
  <2>2. PICK n \in AllNodes : o = Resolved(n)
    BY <1>6, <1>12
  <2>3. PICK m \in AllNodes : p = Resolved(m)
    BY <1>6, <1>12
  <2>4. n # m /\ n \in targets /\ m \in targets
    BY <1>7, <2>1, <2>2, <2>3
  <2>5. Candidate(targets) = Ambiguous
    BY <2>4 DEF Candidate
  <2> QED
    BY <1>3, <1>4, <1>8, <1>12, <2>5
<1> QED
  BY <1>9, <1>10, <1>11, <1>12

(* What a key finds directly does not depend on the references that ask.   *)
LEMMA DirectIsOfTheKey ==
  ASSUME NEW im, NEW refs, NEW r \in refs
  PROVE  \A k \in KeysOf(r) : /\ k \in DOMAIN DirectOutcomes(im, refs)
                              /\ DirectOutcomes(im, refs)[k] = Direct(im, k)
<1>1. KeysOf(r) \subseteq Lookups(refs)
  BY DEF Lookups
<1> QED
  BY <1>1 DEF DirectOutcomes

(* An exporting reference looks up no alias and no method.                 *)
LEMMA ExporterFindsDirectly ==
  ASSUME NEW tree, tree \subseteq Sources, NEW im, HasRowsOf(im, tree),
         NEW refs, NEW r \in refs, r \in AllRefs, Exporter(r)
  PROVE  FirstFound(r, DirectOutcomes(im, refs)) = Exported(tree, r)
<1> DEFINE o == [k \in Keys |-> Candidate(HoldersIn(tree, k))]
<1> DEFINE d == DirectOutcomes(im, refs)
<1>1. KeysOf(r) \subseteq Keys
  BY KeysOfRef DEF Exporter
<1>2. \A k \in KeysOf(r) : d[k] = Direct(im, k)
  BY DirectIsOfTheKey
<1>3. \A k \in KeysOf(r) : Direct(im, k) = Candidate(HoldersIn(tree, k))
  BY <1>1, HoldersAreOfTheTree DEF Direct
<1>4. \A k \in KeysOf(r) : d[k] = o[k]
  BY <1>1, <1>2, <1>3
<1> HIDE DEF o, d
<1>5. FirstFound(r, d) = FirstFound(r, o)
  BY <1>4, FirstFoundAgrees
<1> QED
  BY <1>5 DEF Exported, o, d

(* resolve of index.rs, and the check before a commit.                     *)
LEMMA GraphOutcomesAre ==
  ASSUME NEW tree, tree \subseteq Sources, NEW im, HasRowsOf(im, tree), NEW r \in RefsOf(tree)
  PROVE  GraphOutcomes(im, RefsOf(tree))[r] = FindsIn(im, tree, r)
<1> DEFINE refs == RefsOf(tree)
<1> DEFINE d == DirectOutcomes(im, refs)
<1> DEFINE merged == [key \in DOMAIN d |-> MergeCandidates(d[key], GraphAlias(refs, d, key))]
<1> DEFINE o == [k \in Keys \union MethodKeys |->
                   MergeCandidates(Direct(im, k), AliasIn(tree, k, AllNodes))]
<1>1. r \in AllRefs /\ refs \subseteq AllRefs
  BY RowsOfATree
<1>2. GraphOutcomes(im, refs)[r] = FirstFound(r, IF Ref[r].alias = NoValue THEN merged ELSE d)
  BY DEF GraphOutcomes, GraphTargets
<1>3. CASE Exporter(r)
  <2>1. FirstFound(r, d) = Exported(tree, r)
    BY <1>1, <1>3, ExporterFindsDirectly
  <2> QED
    BY <1>2, <1>3, <2>1 DEF FindsIn, Exporter
<1>4. CASE ~ Exporter(r)
  <2>1. \A x \in refs : Exporter(x) => FirstFound(x, d) = Exported(tree, x)
    BY <1>1, ExporterFindsDirectly
  <2>2. \A k \in KeysOf(r) : k \in Keys \union MethodKeys /\ k # NoValue
    BY <1>1, KeysOfRef, ResolutionAssumption
  <2>3. \A k \in KeysOf(r) : GraphAlias(refs, d, k) = AliasIn(tree, k, AllNodes)
    BY <2>1, <2>2, GraphAliasIsOfTheTree
  <2>4. \A k \in KeysOf(r) : k \in DOMAIN d /\ d[k] = Direct(im, k)
    BY DirectIsOfTheKey
  <2>5. \A k \in KeysOf(r) : merged[k] = o[k]
    BY <2>2, <2>3, <2>4
  <2>6. GraphOutcomes(im, refs)[r] = FirstFound(r, merged)
    BY <1>2, <1>4 DEF Exporter
  <2> HIDE DEF merged, o
  <2>7. FirstFound(r, merged) = FirstFound(r, o)
    BY <1>1, <2>5, FirstFoundAgrees
  <2> QED
    BY <1>4, <2>6, <2>7 DEF FindsIn, o
<1> QED
  BY <1>3, <1>4

(* Of keys that are looked up, those of exported methods are the only ones *)
(* a refresh adds: what looks up none of them finds the same without.      *)
LEMMA FindsWithoutMethods ==
  ASSUME NEW tree, tree \subseteq Sources, NEW im, HasRowsOf(im, tree), NEW r \in RefsOf(tree),
         KeysOf(r) \intersect MethodKeys = {}
  PROVE  FindsIn(im, tree, r) = Finds(tree, r)
<1> DEFINE full == [keys |-> AllRows(tree)]
<1> DEFINE o == [k \in Keys \union MethodKeys |->
                   MergeCandidates(Direct(im, k), AliasIn(tree, k, AllNodes))]
<1> DEFINE p == [k \in Keys \union MethodKeys |->
                   MergeCandidates(Direct(full, k), AliasIn(tree, k, AllNodes))]
<1>1. r \in AllRefs
  BY RowsOfATree
<1>2. KeysOf(r) \subseteq Keys
  BY <1>1, KeysOfRef
<1>3. HasRowsOf(full, tree)
  BY AllRowsHold
<1>4. \A k \in KeysOf(r) : Direct(im, k) = Direct(full, k)
  BY <1>2, <1>3, HoldersAreOfTheTree DEF Direct
<1>5. \A k \in KeysOf(r) : o[k] = p[k]
  BY <1>2, <1>4
<1> HIDE DEF o, p
<1>6. FirstFound(r, o) = FirstFound(r, p)
  BY <1>1, <1>5, FirstFoundAgrees
<1> QED
  BY <1>6 DEF FindsIn, Finds, o, p

(***************************************************************************)
(* Edges are the resolved references, counted.                             *)
(***************************************************************************)
RefRows ==
  [state : {"pending", "resolved", "missing", "ambiguous"},
   target : AllNodes \union {NoValue}, via : {"static", "scip"}]

(* A reference is resolved when it has a target.                           *)
WellFormed(rows) ==
  \A r \in DOMAIN rows : rows[r].state = "resolved" <=> rows[r].target # NoValue

Supporters(rows, e) ==
  {r \in DOMAIN rows : rows[r].target # NoValue /\ EdgeOf(r, rows[r].target) = e}

(* The edges a build from nothing makes count the references behind them.  *)
LEMMA EdgesCountSupporters ==
  ASSUME NEW rows, WellFormed(rows)
  PROVE  /\ EdgesOf(rows) =
              [e \in {EdgeOf(r, rows[r].target) : r \in {x \in DOMAIN rows : rows[x].target # NoValue}}
                 |-> Cardinality(Supporters(rows, e))]
         /\ \A e : EdgeCount(EdgesOf(rows), e) = Cardinality(Supporters(rows, e))
<1> DEFINE linked == {r \in DOMAIN rows : rows[r].state = "resolved"}
<1> DEFINE edges == {EdgeOf(r, rows[r].target) : r \in linked}
<1>1. linked = {x \in DOMAIN rows : rows[x].target # NoValue}
  BY DEF WellFormed
<1>2. \A e : {r \in linked : EdgeOf(r, rows[r].target) = e} = Supporters(rows, e)
  BY <1>1 DEF Supporters
<1>3. EdgesOf(rows) =
        [e \in edges |-> Cardinality({r \in linked : EdgeOf(r, rows[r].target) = e})]
  BY DEF EdgesOf
<1>4. EdgesOf(rows) = [e \in edges |-> Cardinality(Supporters(rows, e))]
  BY <1>2, <1>3
<1>5. ASSUME NEW e
      PROVE  EdgeCount(EdgesOf(rows), e) = Cardinality(Supporters(rows, e))
  <2>1. CASE e \in edges
    BY <1>4, <2>1 DEF EdgeCount
  <2>2. CASE e \notin edges
    <3>1. Supporters(rows, e) = {}
      BY <1>1, <2>2 DEF Supporters
    <3>2. Cardinality(Supporters(rows, e)) = 0
      BY <3>1, FS_EmptySet
    <3> QED
      BY <1>4, <2>2, <3>2 DEF EdgeCount
  <2> QED
    BY <2>1, <2>2
<1> QED
  BY <1>1, <1>4, <1>5

(* Moving references one by one, as ReferenceTransitions does, keeps the   *)
(* counts right.                                                           *)
LEMMA CountsMove ==
  ASSUME NEW D, D \subseteq AllRefs, NEW old \in [D -> RefRows], NEW new \in [D -> RefRows], NEW e
  PROVE  LET changed == {r \in D : new[r] # old[r]}
             Support(rows) ==
               Cardinality({r \in {c \in changed : rows[c].target # NoValue} :
                              EdgeOf(r, rows[r].target) = e})
         IN  Cardinality(Supporters(old, e)) - Support(old) + Support(new) =
               Cardinality(Supporters(new, e))
<1> DEFINE changed == {r \in D : new[r] # old[r]}
<1> DEFINE S(rows) == {r \in {c \in changed : rows[c].target # NoValue} :
                         EdgeOf(r, rows[r].target) = e}
<1> DEFINE A == Supporters(old, e)
<1> DEFINE B == Supporters(new, e)
<1>1. DOMAIN old = D /\ DOMAIN new = D
  OBVIOUS
<1>2. A \subseteq D /\ B \subseteq D
  BY <1>1 DEF Supporters
<1>3. S(old) = A \intersect changed /\ S(new) = B \intersect changed
  BY <1>1 DEF Supporters
<1>4. B \ changed = A \ changed
  BY <1>1 DEF Supporters
<1>5. IsFiniteSet(D)
  BY FS_Subset, ResolutionAssumption
<1>6. IsFiniteSet(A) /\ IsFiniteSet(B)
  BY <1>2, <1>5, FS_Subset
<1> HIDE DEF A, B, changed
<1>7. Cardinality(A \ changed) = Cardinality(A) - Cardinality(A \intersect changed)
  BY <1>6, FS_Difference
<1>8. Cardinality(B \ changed) = Cardinality(B) - Cardinality(B \intersect changed)
  BY <1>6, FS_Difference
<1>9. IsFiniteSet(A \intersect changed) /\ IsFiniteSet(B \intersect changed)
  BY <1>6, FS_Intersection
<1>10. /\ Cardinality(A) \in Nat /\ Cardinality(B) \in Nat
       /\ Cardinality(A \intersect changed) \in Nat
       /\ Cardinality(B \intersect changed) \in Nat
  BY <1>6, <1>9, FS_CardinalityType
<1>11. Cardinality(B \ changed) = Cardinality(A) - Cardinality(A \intersect changed)
  BY <1>4, <1>7
<1>12. \A a, b, c, d \in Nat : b - d = a - c => a - c + d = b
  OBVIOUS
<1>13. Cardinality(A) - Cardinality(A \intersect changed) + Cardinality(B \intersect changed) =
         Cardinality(B)
  BY <1>8, <1>10, <1>11, <1>12
<1> QED
  BY <1>3, <1>13 DEF A, B, changed

(* The rows of an image, as a record.                                      *)
IsImage(im) ==
  im = [files |-> im.files, refs |-> im.refs, edges |-> im.edges, keys |-> im.keys,
        implementations |-> im.implementations, parents |-> im.parents]

(* An image with other references and edges keeps its other tables.        *)
LEMMA WithRefsAndEdges ==
  ASSUME NEW im, IsImage(im), NEW refs, NEW edges
  PROVE  [im EXCEPT !.refs = refs, !.edges = edges] =
           [files |-> im.files, refs |-> refs, edges |-> edges, keys |-> im.keys,
            implementations |-> im.implementations, parents |-> im.parents]
<1>1. PICK a, b, c, d, e, f :
        im = [files |-> a, refs |-> b, edges |-> c, keys |-> d, implementations |-> e, parents |-> f]
  BY DEF IsImage
<1>2. /\ im.files = a /\ im.keys = d /\ im.implementations = e /\ im.parents = f
  BY <1>1
<1> DEFINE x == [im EXCEPT !.refs = refs, !.edges = edges]
<1>3. x \in [files : {a}, refs : {refs}, edges : {edges}, keys : {d}, implementations : {e},
             parents : {f}]
  BY <1>1
<1> HIDE DEF x
<1>4. x = [files |-> a, refs |-> refs, edges |-> edges, keys |-> d, implementations |-> e,
           parents |-> f]
  BY <1>3
<1> QED
  BY <1>2, <1>4 DEF x

(* After Transitions the edges are those a build from nothing would make.  *)
LEMMA TransitionsCount ==
  ASSUME NEW im, IsImage(im), NEW D, D \subseteq AllRefs,
         im.refs \in [D -> RefRows], WellFormed(im.refs), im.edges = EdgesOf(im.refs),
         NEW refs \in [D -> RefRows], WellFormed(refs)
  PROVE  Transitions(im, refs) =
           [files |-> im.files, refs |-> refs, edges |-> EdgesOf(refs), keys |-> im.keys,
            implementations |-> im.implementations, parents |-> im.parents]
<1> DEFINE changed == {r \in DOMAIN refs : refs[r] # im.refs[r]}
<1> DEFINE Moved(rows) == {r \in changed : rows[r].target # NoValue}
<1> DEFINE Support(rows, e) == Cardinality({r \in Moved(rows) : EdgeOf(r, rows[r].target) = e})
<1> DEFINE Count(e) == EdgeCount(im.edges, e) - Support(im.refs, e) + Support(refs, e)
<1> DEFINE touched == DOMAIN im.edges \union {EdgeOf(r, refs[r].target) : r \in Moved(refs)}
<1> DEFINE linked == {EdgeOf(r, refs[r].target) : r \in {x \in DOMAIN refs : refs[x].target # NoValue}}
<1>1. DOMAIN refs = D /\ DOMAIN im.refs = D
  OBVIOUS
<1>2. changed = {r \in D : refs[r] # im.refs[r]}
  BY <1>1
<1>3. \A e : Count(e) = Cardinality(Supporters(refs, e))
  <2> TAKE e
  <2>1. EdgeCount(im.edges, e) = Cardinality(Supporters(im.refs, e))
    BY EdgesCountSupporters
  <2>2. Cardinality(Supporters(im.refs, e)) - Support(im.refs, e) + Support(refs, e) =
          Cardinality(Supporters(refs, e))
    BY <1>2, CountsMove
  <2> QED
    BY <2>1, <2>2
<1>4. \A e : Cardinality(Supporters(refs, e)) > 0 <=> e \in linked
  <2> TAKE e
  <2>1. Supporters(refs, e) \subseteq AllRefs
    BY <1>1 DEF Supporters
  <2>2. IsFiniteSet(Supporters(refs, e))
    BY <2>1, FS_Subset, ResolutionAssumption
  <2>3. Cardinality(Supporters(refs, e)) \in Nat
    BY <2>2, FS_CardinalityType
  <2>4. Cardinality(Supporters(refs, e)) = 0 <=> Supporters(refs, e) = {}
    BY <2>2, FS_EmptySet
  <2>5. Supporters(refs, e) # {} <=> e \in linked
    BY DEF Supporters
  <2> QED
    BY <2>3, <2>4, <2>5
<1>5. linked \subseteq touched
  <2>1. ASSUME NEW r \in D, refs[r].target # NoValue
        PROVE  EdgeOf(r, refs[r].target) \in touched
    <3>1. CASE refs[r] # im.refs[r]
      <4>1. r \in Moved(refs)
        BY <1>1, <2>1, <3>1
      <4> QED
        BY <4>1
    <3>2. CASE refs[r] = im.refs[r]
      <4> DEFINE old == {EdgeOf(x, im.refs[x].target) :
                           x \in {y \in DOMAIN im.refs : im.refs[y].target # NoValue}}
      <4>1. EdgesOf(im.refs) = [e \in old |-> Cardinality(Supporters(im.refs, e))]
        BY EdgesCountSupporters
      <4>2. DOMAIN im.edges = old
        BY <4>1
      <4>3. EdgeOf(r, im.refs[r].target) \in old
        BY <1>1, <2>1, <3>2
      <4> QED
        BY <3>2, <4>2, <4>3
    <3> QED
      BY <3>1, <3>2
  <2> QED
    BY <1>1, <2>1
<1>6. {t \in touched : Count(t) > 0} = linked
  BY <1>3, <1>4, <1>5
<1>7. [e \in {t \in touched : Count(t) > 0} |-> Count(e)] =
        [e \in linked |-> Cardinality(Supporters(refs, e))]
  BY <1>3, <1>6
<1>8. EdgesOf(refs) = [e \in linked |-> Cardinality(Supporters(refs, e))]
  BY EdgesCountSupporters
<1>9. Transitions(im, refs) =
        IF refs = im.refs THEN im
        ELSE [im EXCEPT !.refs = refs,
                        !.edges = [e \in {t \in touched : Count(t) > 0} |-> Count(e)]]
  BY DEF Transitions
<1>10. CASE refs = im.refs
  BY <1>9, <1>10 DEF IsImage
<1>11. CASE refs # im.refs
  BY <1>7, <1>8, <1>9, <1>11, WithRefsAndEdges
<1> QED
  BY <1>10, <1>11

(***************************************************************************)
(* Resolving references in the tables.                                     *)
(***************************************************************************)
Holds(rows, r, o) == rows[r].state = o.state /\ rows[r].target = o.target

(* The tables of an image of a tree, whatever its references have found    *)
(* and whatever keys of exported methods are left.                         *)
TablesOf(im, tree) ==
  /\ IsImage(im)
  /\ im.files = tree
  /\ im.refs \in [RefsOf(tree) -> RefRows]
  /\ WellFormed(im.refs)
  /\ im.edges = EdgesOf(im.refs)
  /\ im.keys \subseteq (Keys \union MethodKeys) \X AllNodes
  /\ HasRowsOf(im, tree)

(* An outcome makes a row, which is the only static one with its columns.  *)
LEMMA StaticIsARow ==
  ASSUME NEW o \in Outcomes
  PROVE  /\ Static(o) \in RefRows
         /\ Static(o).state = o.state /\ Static(o).target = o.target /\ Static(o).via = "static"
         /\ \A x \in RefRows :
              x.state = o.state /\ x.target = o.target /\ x.via = "static" => x = Static(o)
<1>1. o.state \in {"missing", "ambiguous", "resolved"} /\ o.target \in AllNodes \union {NoValue}
  BY OutcomeFacts
<1> QED
  BY <1>1 DEF Static, RefRows

(* Resolve gives those it is asked about what they find and leaves the     *)
(* rest.                                                                   *)
FoundFor(D, refs, outcomes) ==
  \A r \in D \intersect refs : FirstFound(r, outcomes) \in Outcomes

Resolves(new, D, rows, refs, outcomes) ==
  /\ new \in [D -> RefRows]
  /\ WellFormed(new)
  /\ \A r \in D :
       /\ r \notin refs => new[r] = rows[r]
       /\ r \in refs => Holds(new, r, FirstFound(r, outcomes))
       /\ rows[r].via = "static" => new[r].via = "static"

LEMMA ResolvedRows ==
  ASSUME NEW D, D \subseteq AllRefs, NEW rows \in [D -> RefRows], WellFormed(rows),
         NEW refs, NEW outcomes, FoundFor(D, refs, outcomes)
  PROVE  Resolves(Resolve(rows, refs, outcomes), D, rows, refs, outcomes)
<1> DEFINE new == Resolve(rows, refs, outcomes)
<1>0. \A r \in D \intersect refs : FirstFound(r, outcomes) \in Outcomes
  BY DEF FoundFor
<1>1. new = [r \in D |->
               IF r \notin refs \/ (/\ rows[r].state = FirstFound(r, outcomes).state
                                    /\ rows[r].target = FirstFound(r, outcomes).target)
               THEN rows[r] ELSE Static(FirstFound(r, outcomes))]
  BY DEF Resolve
<1> HIDE DEF new
<1>2. \A r \in D \intersect refs : Static(FirstFound(r, outcomes)) \in RefRows
  BY <1>0, StaticIsARow
<1>3. new \in [D -> RefRows]
  BY <1>1, <1>2
<1>4. \A r \in D : r \notin refs => new[r] = rows[r]
  BY <1>1
<1>5. \A r \in D : r \in refs => Holds(new, r, FirstFound(r, outcomes))
  BY <1>0, <1>1, StaticIsARow DEF Holds
<1>6. \A r \in D : rows[r].via = "static" => new[r].via = "static"
  BY <1>0, <1>1, StaticIsARow
<1>7. \A r \in D : new[r].state = "resolved" <=> new[r].target # NoValue
  <2> TAKE r \in D
  <2>1. CASE r \notin refs
    BY <1>4, <2>1 DEF WellFormed
  <2>2. CASE r \in refs
    BY <1>0, <1>5, <2>2, OutcomeFacts DEF Holds
  <2> QED
    BY <2>1, <2>2
<1>8. WellFormed(new)
  BY <1>3, <1>7 DEF WellFormed
<1>9. Resolves(new, D, rows, refs, outcomes)
  BY <1>3, <1>4, <1>5, <1>6, <1>8 DEF Resolves
<1> QED
  BY <1>9 DEF new

(* What a reference finds is an outcome.                                   *)
LEMMA FindsIsOutcome ==
  ASSUME NEW tree, tree \subseteq Sources, NEW im,
         im.keys \subseteq (Keys \union MethodKeys) \X AllNodes, NEW r \in RefsOf(tree)
  PROVE  FindsIn(im, tree, r) \in Outcomes
<1> DEFINE o == [k \in Keys \union MethodKeys |->
                   MergeCandidates(Direct(im, k), AliasIn(tree, k, AllNodes))]
<1>1. r \in AllRefs
  BY RowsOfATree
<1>2. CASE Exporter(r)
  BY <1>1, <1>2, ExportedIsOutcome DEF FindsIn
<1>3. CASE ~ Exporter(r)
  <2>1. \A k : Holders(im, k) \subseteq AllNodes
    BY DEF Holders
  <2>2. \A k : Direct(im, k) \in Outcomes
    BY <2>1, CandidateIsOutcome DEF Direct
  <2>3. \A k : AliasIn(tree, k, AllNodes) \in Outcomes
    BY AliasIsOutcome
  <2>4. \A k \in Keys \union MethodKeys : o[k] \in Outcomes
    BY <2>2, <2>3, MergeIsOutcome
  <2>5. KeysOf(r) \subseteq Keys \union MethodKeys
    BY <1>1, KeysOfRef
  <2> HIDE DEF o
  <2>6. FirstFound(r, o) \in Outcomes
    BY <1>1, <2>4, <2>5, FirstFoundIsOutcome
  <2> QED
    BY <1>3, <2>6 DEF FindsIn, o
<1> QED
  BY <1>2, <1>3

(* Every key is held by a node of the tree.                                *)
LEMMA AllRowsAreTyped ==
  ASSUME NEW tree, tree \subseteq Sources
  PROVE  AllRows(tree) \subseteq (Keys \union MethodKeys) \X NodesOf(tree)
<1>1. StaticRows(tree) \subseteq Keys \X NodesOf(tree)
  BY RowsOfATree, StaticRowsAre DEF StaticRows
<1> QED
  BY <1>1, MethodRowsAre DEF AllRows

(* resolve_references: what is given finds what the tree says, if the      *)
(* exporters that are not given have already found it.                     *)
LEMMA ResolveReferencesFinds ==
  ASSUME NEW tree, tree \subseteq Sources, NEW im, TablesOf(im, tree),
         NEW references, references \subseteq RefsOf(tree),
         \A r \in RefsOf(tree) \ references : Exporter(r) => Holds(im.refs, r, Exported(tree, r))
  PROVE  LET new == ResolveReferences(im, references)
         IN  /\ TablesOf(new, tree)
             /\ new.keys = im.keys
             /\ new.implementations = im.implementations
             /\ new.parents = im.parents
             /\ \A r \in RefsOf(tree) :
                  /\ im.refs[r].via = "static" => new.refs[r].via = "static"
                  /\ r \in references => Holds(new.refs, r, FindsIn(im, tree, r))
                  /\ r \notin references /\ KeysOf(r) \intersect Aliases(references) = {} =>
                       new.refs[r] = im.refs[r]
<1> DEFINE due == references \union
                    {r \in DOMAIN im.refs : KeysOf(r) \intersect Aliases(references) # {}}
<1> DEFINE exporters == {r \in due : Ref[r].alias # NoValue}
<1> DEFINE direct == DirectOutcomes(im, due)
<1> DEFINE first == Resolve(im.refs, exporters, direct)
<1> DEFINE merged == MergedOutcomes(direct, first)
<1> DEFINE last == Resolve(first, due \ exporters, merged)
<1> DEFINE D == RefsOf(tree)
<1>1. D \subseteq AllRefs
  BY RowsOfATree
<1>2. im.refs \in [D -> RefRows] /\ WellFormed(im.refs) /\ im.edges = EdgesOf(im.refs)
  BY DEF TablesOf
<1>3. due \subseteq D
  BY <1>2
<1>4. HasRowsOf(im, tree)
  BY DEF TablesOf
<1>5. \A r \in exporters : FirstFound(r, direct) = Exported(tree, r)
  BY <1>1, <1>3, <1>4, ExporterFindsDirectly DEF Exporter
<1>6. \A r \in exporters : Exported(tree, r) \in Outcomes
  BY <1>1, <1>3, ExportedIsOutcome DEF Exporter
<1> HIDE DEF due, direct
<1>7. /\ first \in [D -> RefRows]
      /\ WellFormed(first)
      /\ \A r \in D :
           /\ r \notin exporters => first[r] = im.refs[r]
           /\ r \in exporters => Holds(first, r, Exported(tree, r))
           /\ im.refs[r].via = "static" => first[r].via = "static"
  <2>1. \A r \in D \intersect exporters : FirstFound(r, direct) \in Outcomes
    BY <1>5, <1>6
  <2> HIDE DEF exporters
  <2>2. /\ first \in [D -> RefRows]
        /\ WellFormed(first)
        /\ \A r \in D :
             /\ r \notin exporters => first[r] = im.refs[r]
             /\ r \in exporters => Holds(first, r, FirstFound(r, direct))
             /\ im.refs[r].via = "static" => first[r].via = "static"
    <3>1. FoundFor(D, exporters, direct)
      BY <2>1 DEF FoundFor
    <3> HIDE DEF D
    <3>2. Resolves(first, D, im.refs, exporters, direct)
      BY <1>1, <1>2, <3>1, ResolvedRows
    <3> HIDE DEF first
    <3> QED
      BY <3>2 DEF Resolves
  <2> HIDE DEF first
  <2> QED
    BY <1>5, <2>2
<1> HIDE DEF first
<1>8. ASSUME NEW r \in D, Exporter(r)
      PROVE  first[r].state = Exported(tree, r).state /\ first[r].target = Exported(tree, r).target
  <2>1. CASE r \in due
    BY <1>7, <1>8, <2>1 DEF Holds, Exporter
  <2>2. CASE r \notin due
    <3>1. r \notin references
      BY <2>2 DEF due
    <3> QED
      BY <1>7, <1>8, <2>2, <3>1 DEF Holds, Exporter
  <2> QED
    BY <2>1, <2>2
<1>9. ExportersHold(first, tree)
  BY <1>7, <1>8 DEF ExportersHold
<1>10. ASSUME NEW r \in due, r \notin exporters
       PROVE  FirstFound(r, merged) = FindsIn(im, tree, r)
  <2> DEFINE o == [k \in Keys \union MethodKeys |->
                     MergeCandidates(Direct(im, k), AliasIn(tree, k, AllNodes))]
  <2>1. r \in AllRefs /\ ~ Exporter(r)
    BY <1>1, <1>3, <1>10 DEF Exporter
  <2>2. \A k \in KeysOf(r) : k \in Keys \union MethodKeys /\ k # NoValue
    BY <2>1, KeysOfRef, ResolutionAssumption
  <2>3. \A k \in KeysOf(r) : AliasCandidate(first, k, AllNodes) = AliasIn(tree, k, AllNodes)
    BY <1>9, <2>2, AliasIsOfTheTree
  <2>4. \A k \in KeysOf(r) : k \in DOMAIN direct /\ direct[k] = Direct(im, k)
    BY DirectIsOfTheKey DEF direct
  <2>5. \A k \in KeysOf(r) : merged[k] = o[k]
    BY <2>2, <2>3, <2>4 DEF MergedOutcomes
  <2> HIDE DEF merged, o
  <2>6. FirstFound(r, merged) = FirstFound(r, o)
    BY <2>1, <2>5, FirstFoundAgrees
  <2> QED
    BY <2>1, <2>6 DEF FindsIn, o
<1>11. \A r \in due : FindsIn(im, tree, r) \in Outcomes
  BY <1>3, FindsIsOutcome DEF TablesOf
<1> HIDE DEF merged
<1>12. /\ last \in [D -> RefRows]
       /\ WellFormed(last)
       /\ \A r \in D :
            /\ r \notin due \ exporters => last[r] = first[r]
            /\ r \in due \ exporters => Holds(last, r, FindsIn(im, tree, r))
            /\ first[r].via = "static" => last[r].via = "static"
  <2> DEFINE others == due \ exporters
  <2>1. \A r \in others : FirstFound(r, merged) = FindsIn(im, tree, r)
    BY <1>10
  <2>2. \A r \in D \intersect others : FirstFound(r, merged) \in Outcomes
    BY <1>11, <2>1
  <2> HIDE DEF others
  <2>3. /\ Resolve(first, others, merged) \in [D -> RefRows]
        /\ WellFormed(Resolve(first, others, merged))
        /\ \A r \in D :
             /\ r \notin others => Resolve(first, others, merged)[r] = first[r]
             /\ r \in others => Holds(Resolve(first, others, merged), r, FirstFound(r, merged))
             /\ first[r].via = "static" => Resolve(first, others, merged)[r].via = "static"
    <3>1. first \in [D -> RefRows] /\ WellFormed(first)
      BY <1>7
    <3>2. FoundFor(D, others, merged)
      BY <2>2 DEF FoundFor
    <3> HIDE DEF D
    <3>3. Resolves(Resolve(first, others, merged), D, first, others, merged)
      BY <1>1, <3>1, <3>2, ResolvedRows
    <3> QED
      BY <3>3 DEF Resolves
  <2> QED
    BY <2>1, <2>3 DEF others
<1> HIDE DEF last
<1> DEFINE new == ResolveReferences(im, references)
<1>13. new = Transitions(im, last)
  BY DEF ResolveReferences, ResolveInOrder, due, direct, first, merged, last
<1>14. new = [files |-> im.files, refs |-> last, edges |-> EdgesOf(last), keys |-> im.keys,
              implementations |-> im.implementations, parents |-> im.parents]
  BY <1>1, <1>2, <1>12, <1>13, TransitionsCount DEF TablesOf
<1> HIDE DEF new
<1>15. /\ new.files = im.files /\ new.refs = last /\ new.edges = EdgesOf(last)
       /\ new.keys = im.keys /\ new.implementations = im.implementations
       /\ new.parents = im.parents
  BY <1>14
<1>16. IsImage(new)
  BY <1>14, <1>15 DEF IsImage
<1>17. HasRowsOf(new, tree)
  BY <1>4, <1>15 DEF HasRowsOf
<1>18. TablesOf(new, tree)
  BY <1>12, <1>15, <1>16, <1>17 DEF TablesOf
<1>19. \A r \in D : im.refs[r].via = "static" => last[r].via = "static"
  BY <1>7, <1>12
<1>20. ASSUME NEW r \in references
       PROVE  Holds(last, r, FindsIn(im, tree, r))
  <2>1. r \in due /\ r \in D
    BY <1>3 DEF due
  <2>2. CASE r \in exporters
    BY <1>7, <1>12, <2>1, <2>2 DEF Holds, FindsIn, Exporter
  <2>3. CASE r \notin exporters
    BY <1>12, <2>1, <2>3
  <2> QED
    BY <2>2, <2>3
<1>21. ASSUME NEW r \in D, r \notin references, KeysOf(r) \intersect Aliases(references) = {}
       PROVE  last[r] = im.refs[r]
  <2>1. r \notin due
    BY <1>21 DEF due
  <2> QED
    BY <1>7, <1>12, <2>1
<1> QED
  BY <1>15, <1>18, <1>19, <1>20, <1>21 DEF new

(***************************************************************************)
(* The keys of exported methods.                                           *)
(***************************************************************************)

(* Parents are nodes of the tree.  Nobody moves static methods to another  *)
(* one: they have no owner.                                                *)
ParentsHold(parents, tree) ==
  /\ parents \in [NodesOf(tree) -> NodesOf(tree) \union {NoValue}]
  /\ \A m \in NodesOf(tree) : Node[m].static => parents[m] = Node[m].parent

LookingUpMethods(tree) == {r \in RefsOf(tree) : KeysOf(r) \intersect MethodKeys # {}}

(* The file and the parent of a node are of the same tree.                 *)
LEMMA ColumnsOfATree ==
  ASSUME NEW tree, tree \subseteq Sources, NEW n \in NodesOf(tree)
  PROVE  /\ Node[n].file \in NodesOf(tree)
         /\ Node[n].parent \in NodesOf(tree) \union {NoValue}
<1>1. PICK s \in tree : n \in Nodes[s]
  BY DEF NodesOf
<1>2. Node[n].file \in Nodes[s] /\ Node[n].parent \in Nodes[s] \union {NoValue}
  BY <1>1, ResolutionAssumption
<1>3. Nodes[s] \subseteq NodesOf(tree)
  BY <1>1 DEF NodesOf
<1> QED
  BY <1>2, <1>3

(* What a key finds directly is a node of the tree.                        *)
LEMMA DirectTarget ==
  ASSUME NEW tree, NEW im, im.keys \subseteq (Keys \union MethodKeys) \X NodesOf(tree), NEW key
  PROVE  Direct(im, key).target \in NodesOf(tree) \union {NoValue}
<1>1. Holders(im, key) \subseteq NodesOf(tree)
  BY DEF Holders
<1> QED
  BY <1>1, CandidateTarget DEF Direct

(* An image with other keys keeps its other tables.                        *)
LEMMA WithKeys ==
  ASSUME NEW im, IsImage(im), NEW keys
  PROVE  /\ IsImage([im EXCEPT !.keys = keys])
         /\ [im EXCEPT !.keys = keys].keys = keys
         /\ [im EXCEPT !.keys = keys].files = im.files
         /\ [im EXCEPT !.keys = keys].refs = im.refs
         /\ [im EXCEPT !.keys = keys].edges = im.edges
         /\ [im EXCEPT !.keys = keys].implementations = im.implementations
         /\ [im EXCEPT !.keys = keys].parents = im.parents
<1>1. PICK a, b, c, d, e, f :
        im = [files |-> a, refs |-> b, edges |-> c, keys |-> d, implementations |-> e, parents |-> f]
  BY DEF IsImage
<1> DEFINE x == [im EXCEPT !.keys = keys]
<1>2. x \in [files : {a}, refs : {b}, edges : {c}, keys : {keys}, implementations : {e}, parents : {f}]
  BY <1>1
<1> HIDE DEF x
<1>3. x = [files |-> a, refs |-> b, edges |-> c, keys |-> keys, implementations |-> e, parents |-> f]
  BY <1>2
<1>4. IsImage(x)
  BY <1>3 DEF IsImage
<1>5. /\ x.files = a /\ x.refs = b /\ x.edges = c /\ x.keys = keys /\ x.implementations = e
      /\ x.parents = f
  BY <1>3
<1>6. /\ im.files = a /\ im.refs = b /\ im.edges = c /\ im.implementations = e
      /\ im.parents = f
  BY <1>1
<1> QED
  BY <1>4, <1>5, <1>6 DEF x

(* A refresh gives the tables the keys that the tree says.                 *)
LEMMA RefreshIsOfTheTree ==
  ASSUME NEW tree, tree \subseteq Sources, NEW im, IsImage(im), HasRowsOf(im, tree),
         ExportersHold(im.refs, tree), ParentsHold(im.parents, tree)
  PROVE  RefreshExportMethods(im) =
           ResolveReferences([im EXCEPT !.keys = AllRows(tree)], LookingUpMethods(tree))
<1> DEFINE static == {row \in im.keys : row[1] \notin MethodKeys}
<1> DEFINE cleared == [im EXCEPT !.keys = static]
<1> DEFINE exports == ExportValues \intersect
                        ({row[1] : row \in static} \union Aliases(DOMAIN im.refs))
<1> DEFINE Owner(k) == MergeCandidates(Direct(cleared, k), AliasCandidate(im.refs, k, AllNodes)).target
<1> DEFINE Members(n) == {m \in DOMAIN im.parents : im.parents[m] = n /\ Node[m].static}
<1> DEFINE KeysFor(k, n) ==
             IF n # NoValue /\ Node[n].class
             THEN {<<[owner |-> k, name |-> Node[m].name], m>> : m \in Members(n)} ELSE {}
<1>1. static = StaticRows(tree)
  BY DEF HasRowsOf
<1>2. DOMAIN im.refs = RefsOf(tree)
  BY DEF ExportersHold
<1>3. exports = ExportsOf(tree)
  BY <1>1, <1>2 DEF ExportsOf
<1>4. HasRowsOf(cleared, tree)
  <2>1. cleared.keys = static
    BY WithKeys
  <2> HIDE DEF cleared, static
  <2> QED
    BY <1>1, <2>1, AllRowsHold
<1>5. ASSUME NEW k \in ExportsOf(tree)
      PROVE  Owner(k) = OwnerOf(tree, k)
  <2>1. k \in Keys /\ k # NoValue
    BY ExportsAreKeys, ResolutionAssumption
  <2>2. Direct(cleared, k) = Candidate(HoldersIn(tree, k))
    BY <1>4, <2>1, HoldersAreOfTheTree DEF Direct
  <2>3. AliasCandidate(im.refs, k, AllNodes) = AliasIn(tree, k, AllNodes)
    BY <2>1, AliasIsOfTheTree
  <2> QED
    BY <2>2, <2>3 DEF OwnerOf
<1>6. \A n : Members(n) = MembersOf(tree, n)
  BY DEF ParentsHold, MembersOf
<1>7. \A k \in ExportsOf(tree) : KeysFor(k, Owner(k)) = MethodRowsFor(tree, k)
  BY <1>5, <1>6 DEF MethodRowsFor
<1>8. UNION {KeysFor(k, Owner(k)) : k \in exports} = MethodRows(tree)
  BY <1>3, <1>7 DEF MethodRows
<1>9. {r \in DOMAIN im.refs : KeysOf(r) \intersect MethodKeys # {}} = LookingUpMethods(tree)
  BY <1>2 DEF LookingUpMethods
<1>10. RefreshExportMethods(im) =
         ResolveReferences([im EXCEPT !.keys = static \union UNION {KeysFor(k, Owner(k)) : k \in exports}],
                           {r \in DOMAIN im.refs : KeysOf(r) \intersect MethodKeys # {}})
  BY DEF RefreshExportMethods
<1> QED
  BY <1>1, <1>8, <1>9, <1>10 DEF AllRows

(* What a build from nothing and an update come to: references and keys    *)
(* are a function of the tree.                                             *)
FoundRefs(tree) == [r \in RefsOf(tree) |-> Static(Finds(tree, r))]

(* After a refresh all references have found what the tree says.           *)
LEMMA RefreshFinds ==
  ASSUME NEW tree, tree \subseteq Sources, NEW im, TablesOf(im, tree),
         ParentsHold(im.parents, tree),
         \A r \in RefsOf(tree) :
           /\ im.refs[r].via = "static"
           /\ KeysOf(r) \intersect MethodKeys = {} => Holds(im.refs, r, Finds(tree, r))
  PROVE  LET new == RefreshExportMethods(im)
         IN  /\ TablesOf(new, tree)
             /\ new.keys = AllRows(tree)
             /\ new.refs = FoundRefs(tree)
             /\ new.implementations = im.implementations
             /\ new.parents = im.parents
<1> DEFINE due == LookingUpMethods(tree)
<1> DEFINE with == [im EXCEPT !.keys = AllRows(tree)]
<1> DEFINE new == ResolveReferences(with, due)
<1>1. RefsOf(tree) \subseteq AllRefs /\ due \subseteq RefsOf(tree) /\ NodesOf(tree) \subseteq AllNodes
  BY RowsOfATree DEF LookingUpMethods
<1>2. IsImage(im) /\ HasRowsOf(im, tree)
  BY DEF TablesOf
<1>3. \A r \in RefsOf(tree) : Exporter(r) => KeysOf(r) \intersect MethodKeys = {}
  BY <1>1, KeysOfRef, ResolutionAssumption DEF Exporter
<1>4. \A r \in RefsOf(tree) : Exporter(r) => Holds(im.refs, r, Exported(tree, r))
  BY <1>3 DEF Finds, FindsIn
<1>5. ExportersHold(im.refs, tree)
  BY <1>4 DEF ExportersHold, Holds, TablesOf
<1>6. RefreshExportMethods(im) = new
  BY <1>2, <1>5, RefreshIsOfTheTree
<1>7. /\ IsImage(with) /\ with.keys = AllRows(tree) /\ with.files = im.files
      /\ with.refs = im.refs /\ with.edges = im.edges
      /\ with.implementations = im.implementations /\ with.parents = im.parents
  BY <1>2, WithKeys
<1> HIDE DEF with, due
<1>8. HasRowsOf(with, tree)
  BY <1>7, AllRowsHold
<1>9. AllRows(tree) \subseteq (Keys \union MethodKeys) \X AllNodes
  BY <1>1, AllRowsAreTyped
<1>10. TablesOf(with, tree)
  BY <1>7, <1>8, <1>9 DEF TablesOf
<1>11. Aliases(due) = {}
  BY <1>3 DEF Aliases, due, LookingUpMethods, Exporter
<1>12. \A r \in RefsOf(tree) \ due : Exporter(r) => Holds(with.refs, r, Exported(tree, r))
  BY <1>4, <1>7
<1>13. /\ TablesOf(new, tree)
       /\ new.keys = with.keys
       /\ new.implementations = with.implementations
       /\ new.parents = with.parents
       /\ \A r \in RefsOf(tree) :
            /\ with.refs[r].via = "static" => new.refs[r].via = "static"
            /\ r \in due => Holds(new.refs, r, FindsIn(with, tree, r))
            /\ r \notin due /\ KeysOf(r) \intersect Aliases(due) = {} =>
                 new.refs[r] = with.refs[r]
  BY <1>1, <1>10, <1>12, ResolveReferencesFinds
<1> HIDE DEF new
<1>14. \A r : FindsIn(with, tree, r) = Finds(tree, r)
  BY <1>7 DEF Finds, FindsIn, Direct, Holders
<1>15. ASSUME NEW r \in RefsOf(tree)
       PROVE  new.refs[r].via = "static" /\ Holds(new.refs, r, Finds(tree, r))
  <2>1. new.refs[r].via = "static"
    BY <1>7, <1>13
  <2>2. CASE r \in due
    BY <1>13, <1>14, <2>1, <2>2
  <2>3. CASE r \notin due
    <3>1. new.refs[r] = im.refs[r]
      BY <1>7, <1>11, <1>13, <2>3
    <3>2. KeysOf(r) \intersect MethodKeys = {}
      BY <2>3 DEF due, LookingUpMethods
    <3> QED
      BY <2>1, <3>1, <3>2 DEF Holds
  <2> QED
    BY <2>2, <2>3
<1>16. \A r \in RefsOf(tree) : Finds(tree, r) \in Outcomes
  BY <1>9, FindsIsOutcome DEF Finds
<1>17. new.refs \in [RefsOf(tree) -> RefRows]
  BY <1>13 DEF TablesOf
<1>18. \A r \in RefsOf(tree) : new.refs[r] = Static(Finds(tree, r))
  BY <1>15, <1>16, <1>17, StaticIsARow DEF Holds
<1>19. new.refs = FoundRefs(tree)
  BY <1>17, <1>18 DEF FoundRefs
<1> QED
  BY <1>6, <1>7, <1>13, <1>19

(***************************************************************************)
(* Trait implementations, and a build from nothing.                        *)
(***************************************************************************)
TypesOf(tree) == {n \in NodesOf(tree) : Node[n].kind = "type"}
EndIn(tree, key) ==
  MergeCandidates(Candidate(HoldersIn(tree, key) \intersect TypesOf(tree)),
                  AliasIn(tree, key, TypesOf(tree))).target
EndsIn(tree, i) ==
  [implementor |-> EndIn(tree, Implementation[i].implementor),
   trait |-> EndIn(tree, Implementation[i].trait)]
FoundImplementations(tree) == [i \in ImplementationsOf(tree) |-> EndsIn(tree, i)]

(* The same for implementations.                                           *)
LEMMA WithImplementations ==
  ASSUME NEW im, IsImage(im), NEW x
  PROVE  /\ IsImage([im EXCEPT !.implementations = x])
         /\ [im EXCEPT !.implementations = x].implementations = x
         /\ [im EXCEPT !.implementations = x].files = im.files
         /\ [im EXCEPT !.implementations = x].refs = im.refs
         /\ [im EXCEPT !.implementations = x].edges = im.edges
         /\ [im EXCEPT !.implementations = x].keys = im.keys
         /\ [im EXCEPT !.implementations = x].parents = im.parents
<1>1. PICK a, b, c, d, e, f :
        im = [files |-> a, refs |-> b, edges |-> c, keys |-> d, implementations |-> e, parents |-> f]
  BY DEF IsImage
<1> DEFINE y == [im EXCEPT !.implementations = x]
<1>2. y \in [files : {a}, refs : {b}, edges : {c}, keys : {d}, implementations : {x}, parents : {f}]
  BY <1>1
<1> HIDE DEF y
<1>3. y = [files |-> a, refs |-> b, edges |-> c, keys |-> d, implementations |-> x, parents |-> f]
  BY <1>2
<1>4. IsImage(y)
  BY <1>3 DEF IsImage
<1>5. /\ y.files = a /\ y.refs = b /\ y.edges = c /\ y.keys = d /\ y.implementations = x
      /\ y.parents = f
  BY <1>3
<1>6. /\ im.files = a /\ im.refs = b /\ im.edges = c /\ im.keys = d /\ im.parents = f
  BY <1>1
<1> QED
  BY <1>4, <1>5, <1>6 DEF y

(* The same for parents.                                                   *)
LEMMA WithParents ==
  ASSUME NEW im, IsImage(im), NEW x
  PROVE  /\ IsImage([im EXCEPT !.parents = x])
         /\ [im EXCEPT !.parents = x].parents = x
         /\ [im EXCEPT !.parents = x].files = im.files
         /\ [im EXCEPT !.parents = x].refs = im.refs
         /\ [im EXCEPT !.parents = x].edges = im.edges
         /\ [im EXCEPT !.parents = x].keys = im.keys
         /\ [im EXCEPT !.parents = x].implementations = im.implementations
<1>1. PICK a, b, c, d, e, f :
        im = [files |-> a, refs |-> b, edges |-> c, keys |-> d, implementations |-> e, parents |-> f]
  BY DEF IsImage
<1> DEFINE y == [im EXCEPT !.parents = x]
<1>2. y \in [files : {a}, refs : {b}, edges : {c}, keys : {d}, implementations : {e}, parents : {x}]
  BY <1>1
<1> HIDE DEF y
<1>3. y = [files |-> a, refs |-> b, edges |-> c, keys |-> d, implementations |-> e, parents |-> x]
  BY <1>2
<1>4. IsImage(y)
  BY <1>3 DEF IsImage
<1>5. /\ y.files = a /\ y.refs = b /\ y.edges = c /\ y.keys = d /\ y.implementations = e
      /\ y.parents = x
  BY <1>3
<1>6. /\ im.files = a /\ im.refs = b /\ im.edges = c /\ im.keys = d /\ im.implementations = e
  BY <1>1
<1> QED
  BY <1>4, <1>5, <1>6 DEF y

(* resolve_trait_implementations gives those it is asked about the ends    *)
(* that the tree says.                                                     *)
LEMMA ImplementationsFind ==
  ASSUME NEW tree, tree \subseteq Sources, NEW im, TablesOf(im, tree),
         ExportersHold(im.refs, tree), NEW asked,
         DOMAIN im.implementations = ImplementationsOf(tree)
  PROVE  LET new == ResolveImplementations(im, asked)
         IN  /\ TablesOf(new, tree)
             /\ new.keys = im.keys
             /\ new.refs = im.refs
             /\ new.parents = im.parents
             /\ new.implementations =
                  [i \in ImplementationsOf(tree) |->
                     IF i \in asked THEN EndsIn(tree, i) ELSE im.implementations[i]]
<1> DEFINE types == {n \in NodesOf(im.files) : Node[n].kind = "type"}
<1> DEFINE End(key) ==
             MergeCandidates(Candidate(Holders(im, key) \intersect types),
                             AliasCandidate(im.refs, key, types)).target
<1> DEFINE rows == [i \in DOMAIN im.implementations |->
                      IF i \in asked
                      THEN [implementor |-> End(Implementation[i].implementor),
                            trait |-> End(Implementation[i].trait)]
                      ELSE im.implementations[i]]
<1> DEFINE new == [im EXCEPT !.implementations = rows]
<1>1. IsImage(im) /\ HasRowsOf(im, tree) /\ types = TypesOf(tree)
  BY DEF TablesOf, TypesOf
<1>2. ResolveImplementations(im, asked) = new
  BY DEF ResolveImplementations
<1>3. ASSUME NEW key \in Keys
      PROVE  End(key) = EndIn(tree, key)
  <2>1. Holders(im, key) = HoldersIn(tree, key)
    BY <1>1, HoldersAreOfTheTree
  <2>2. AliasCandidate(im.refs, key, types) = AliasIn(tree, key, types)
    BY AliasIsOfTheTree, ResolutionAssumption
  <2> QED
    BY <1>1, <2>1, <2>2 DEF EndIn
<1>4. ASSUME NEW i \in ImplementationsOf(tree)
      PROVE  [implementor |-> End(Implementation[i].implementor),
              trait |-> End(Implementation[i].trait)] = EndsIn(tree, i)
  <2>1. Implementation[i] \in [implementor : Keys, trait : Keys]
    BY RowsOfATree, ResolutionAssumption
  <2>2. Implementation[i].implementor \in Keys /\ Implementation[i].trait \in Keys
    BY <2>1
  <2> QED
    BY <1>3, <2>2 DEF EndsIn
<1>5. rows = [i \in ImplementationsOf(tree) |->
                IF i \in asked THEN EndsIn(tree, i) ELSE im.implementations[i]]
  BY <1>4
<1> HIDE DEF rows
<1>6. /\ IsImage(new) /\ new.implementations = rows /\ new.files = im.files
      /\ new.refs = im.refs /\ new.edges = im.edges /\ new.keys = im.keys
      /\ new.parents = im.parents
  BY <1>1, WithImplementations
<1> HIDE DEF new
<1>7. TablesOf(new, tree)
  BY <1>6 DEF TablesOf, HasRowsOf
<1> QED
  BY <1>2, <1>5, <1>6, <1>7

(* The keys, references and implementations of an image are those that the *)
(* tree says.                                                              *)
ImageOf(im, tree) ==
  /\ TablesOf(im, tree)
  /\ im.keys = AllRows(tree)
  /\ im.implementations = FoundImplementations(tree)
  /\ ParentsHold(im.parents, tree)

(* What references find includes what exporters do.                        *)
LEMMA FoundRefsHold ==
  ASSUME NEW tree, tree \subseteq Sources
  PROVE  ExportersHold(FoundRefs(tree), tree)
<1>1. \A r \in RefsOf(tree) : Exporter(r) => Finds(tree, r) = Exported(tree, r)
  BY DEF Finds, FindsIn
<1>2. \A o : Static(o).state = o.state /\ Static(o).target = o.target
  BY DEF Static
<1>3. DOMAIN FoundRefs(tree) = RefsOf(tree)
  BY DEF FoundRefs
<1>4. \A r \in RefsOf(tree) : FoundRefs(tree)[r] = Static(Finds(tree, r))
  BY DEF FoundRefs
<1> QED
  BY <1>1, <1>2, <1>3, <1>4 DEF ExportersHold

(* What resolve of index.rs leaves.                                        *)
LEMMA ResolveGraphFinds ==
  ASSUME NEW tree, tree \subseteq Sources
  PROVE  LET new == ResolveGraph(tree)
         IN  /\ TablesOf(new, tree)
             /\ ParentsHold(new.parents, tree)
             /\ DOMAIN new.implementations = ImplementationsOf(tree)
             /\ \A r \in RefsOf(tree) :
                  /\ new.refs[r].via = "static"
                  /\ KeysOf(r) \intersect MethodKeys = {} => Holds(new.refs, r, Finds(tree, r))
<1> DEFINE rows == [keys |-> KeyRows(NodesOf(tree))]
<1> DEFINE refs == [r \in RefsOf(tree) |-> Static(GraphOutcomes(rows, RefsOf(tree))[r])]
<1> DEFINE new == ResolveGraph(tree)
<1>1. RefsOf(tree) \subseteq AllRefs /\ NodesOf(tree) \subseteq AllNodes
  BY RowsOfATree
<1>2. rows.keys = StaticRows(tree) /\ HasRowsOf(rows, tree)
  BY AllRowsHold DEF StaticRows
<1>3. rows.keys \subseteq (Keys \union MethodKeys) \X AllNodes
  BY <1>1, <1>2, StaticRowsAre DEF StaticRows
<1>4. new = [files |-> tree, refs |-> refs, edges |-> EdgesOf(refs), keys |-> rows.keys,
             implementations |->
               [i \in ImplementationsOf(tree) |-> [implementor |-> NoValue, trait |-> NoValue]],
             parents |-> [n \in NodesOf(tree) |-> ParentIn(rows, n)]]
  BY DEF ResolveGraph, ResolveRows, GraphImage
<1> HIDE DEF new
<1>5. /\ new.files = tree /\ new.refs = refs /\ new.edges = EdgesOf(refs)
      /\ new.keys = rows.keys
      /\ new.implementations =
           [i \in ImplementationsOf(tree) |-> [implementor |-> NoValue, trait |-> NoValue]]
      /\ new.parents = [n \in NodesOf(tree) |-> ParentIn(rows, n)]
  BY <1>4
<1>6. IsImage(new)
  BY <1>4, <1>5 DEF IsImage
<1> HIDE DEF rows
<1>7. \A r \in RefsOf(tree) : /\ GraphOutcomes(rows, RefsOf(tree))[r] = FindsIn(rows, tree, r)
                              /\ FindsIn(rows, tree, r) \in Outcomes
  BY <1>2, <1>3, GraphOutcomesAre, FindsIsOutcome
<1>8. refs = [r \in RefsOf(tree) |-> Static(FindsIn(rows, tree, r))]
  BY <1>7
<1> HIDE DEF refs
<1>9. refs \in [RefsOf(tree) -> RefRows]
  BY <1>7, <1>8, StaticIsARow
<1>10. \A r \in RefsOf(tree) : Holds(refs, r, FindsIn(rows, tree, r)) /\ refs[r].via = "static"
  BY <1>7, <1>8, StaticIsARow DEF Holds
<1>11. WellFormed(refs)
  BY <1>7, <1>9, <1>10, OutcomeFacts DEF WellFormed, Holds
<1>12. HasRowsOf(new, tree)
  BY <1>2, <1>5 DEF HasRowsOf
<1>13. TablesOf(new, tree)
  BY <1>3, <1>5, <1>6, <1>9, <1>11, <1>12 DEF TablesOf
<1>14. ParentsHold(new.parents, tree)
  <2>1. ASSUME NEW n \in NodesOf(tree), Node[n].static
        PROVE  ParentIn(rows, n) = Node[n].parent
    <3>1. Node[n].owner = NoValue
      BY <1>1, <2>1, ResolutionAssumption
    <3> QED
      BY <3>1 DEF ParentIn
  <2>2. ASSUME NEW n \in NodesOf(tree)
        PROVE  ParentIn(rows, n) \in NodesOf(tree) \union {NoValue}
    <3>1. rows.keys \subseteq (Keys \union MethodKeys) \X NodesOf(tree)
      BY <1>1, <1>2, StaticRowsAre DEF StaticRows
    <3>2. Direct(rows, Node[n].owner).target \in NodesOf(tree) \union {NoValue}
      BY <3>1, DirectTarget
    <3>3. Node[n].parent \in NodesOf(tree) \union {NoValue}
      BY ColumnsOfATree
    <3> QED
      BY <3>2, <3>3 DEF ParentIn
  <2> QED
    BY <1>5, <2>1, <2>2 DEF ParentsHold
<1>15. \A r \in RefsOf(tree) : KeysOf(r) \intersect MethodKeys = {} =>
         FindsIn(rows, tree, r) = Finds(tree, r)
  BY <1>2, FindsWithoutMethods
<1> QED
  BY <1>5, <1>10, <1>13, <1>14, <1>15 DEF new, Holds

(* The full branch of Store::index_with.                                   *)
LEMMA FullBuildIs ==
  ASSUME NEW tree, tree \subseteq Sources
  PROVE  ImageOf(FullBuild(tree), tree) /\ FullBuild(tree).refs = FoundRefs(tree)
<1> DEFINE graph == ResolveGraph(tree)
<1> DEFINE refreshed == RefreshExportMethods(graph)
<1> DEFINE asked == ImplementationsOf(tree)
<1> DEFINE new == ResolveImplementations(refreshed, asked)
<1>1. /\ TablesOf(graph, tree)
      /\ ParentsHold(graph.parents, tree)
      /\ DOMAIN graph.implementations = ImplementationsOf(tree)
      /\ \A r \in RefsOf(tree) :
           /\ graph.refs[r].via = "static"
           /\ KeysOf(r) \intersect MethodKeys = {} => Holds(graph.refs, r, Finds(tree, r))
  BY ResolveGraphFinds
<1> HIDE DEF graph
<1>2. /\ TablesOf(refreshed, tree)
      /\ refreshed.keys = AllRows(tree)
      /\ refreshed.refs = FoundRefs(tree)
      /\ refreshed.implementations = graph.implementations
      /\ refreshed.parents = graph.parents
  BY <1>1, RefreshFinds
<1> HIDE DEF refreshed
<1>3. ExportersHold(refreshed.refs, tree)
  BY <1>2, FoundRefsHold
<1>4. DOMAIN refreshed.implementations = ImplementationsOf(tree)
  BY <1>1, <1>2
<1>5. /\ TablesOf(new, tree)
      /\ new.keys = refreshed.keys
      /\ new.refs = refreshed.refs
      /\ new.parents = refreshed.parents
      /\ new.implementations =
           [i \in ImplementationsOf(tree) |->
              IF i \in asked THEN EndsIn(tree, i) ELSE refreshed.implementations[i]]
  BY <1>2, <1>3, <1>4, ImplementationsFind
<1> HIDE DEF new
<1>6. new.implementations = FoundImplementations(tree)
  BY <1>5 DEF FoundImplementations
<1>7. ImageOf(new, tree) /\ new.refs = FoundRefs(tree)
  BY <1>1, <1>2, <1>5, <1>6 DEF ImageOf
<1>8. FullBuild(tree) = new
  BY DEF FullBuild, new, refreshed, graph
<1> QED
  BY <1>7, <1>8

(***************************************************************************)
(* An update.                                                              *)
(***************************************************************************)

(* What the deletions and insertions leave: the tables of the new tree,    *)
(* with nothing found yet.  Keys of exported methods may be left from the  *)
(* old one.                                                                *)
LEMMA ReplacedRows ==
  ASSUME NEW old, old \subseteq Sources, NEW tree, tree \subseteq Sources,
         NEW im, ImageOf(im, old)
  PROVE  LET rows == ReplaceRows(im, tree)
         IN  /\ TablesOf(rows, tree)
             /\ ParentsHold(rows.parents, tree)
             /\ \A r \in RefsOf(tree) : rows.refs[r].via = "static"
<1> DEFINE kept == NodesOf(tree \intersect old)
<1> DEFINE rows == ReplaceRows(im, tree)
<1> DEFINE keys == {k \in im.keys : k[2] \in kept} \union KeyRows(NodesOf(tree \ old))
<1> DEFINE parents == [n \in NodesOf(tree) |->
                         IF n \in kept THEN OnDelete(im.parents[n], kept) ELSE Node[n].parent]
<1> DEFINE refs == [r \in RefsOf(tree) |-> Pending]
<1>1. im.files = old /\ im.keys = AllRows(old) /\ ParentsHold(im.parents, old)
  BY DEF ImageOf, TablesOf
<1>2. /\ rows.files = tree /\ rows.refs = refs /\ rows.edges = [e \in {} |-> 0]
      /\ rows.keys = keys /\ rows.parents = parents
      /\ IsImage(rows)
  BY <1>1 DEF ReplaceRows, IsImage
<1> HIDE DEF rows
<1>3. refs \in [RefsOf(tree) -> RefRows]
  BY DEF RefRows, Pending
<1>4. WellFormed(refs) /\ \A r \in RefsOf(tree) : refs[r].target = NoValue /\ refs[r].via = "static"
  BY DEF WellFormed, Pending
<1>5. EdgesOf(refs) = [e \in {} |-> 0]
  <2> DEFINE linked == {EdgeOf(r, refs[r].target) : r \in {x \in DOMAIN refs : refs[x].target # NoValue}}
  <2>1. linked = {}
    BY <1>4
  <2>2. EdgesOf(refs) = [e \in linked |-> Cardinality(Supporters(refs, e))]
    BY <1>4, EdgesCountSupporters
  <2> HIDE DEF linked
  <2> QED
    BY <2>1, <2>2
<1>6. NodesOf(tree) = kept \union NodesOf(tree \ old) /\ kept \subseteq NodesOf(old)
  BY DEF NodesOf
<1>7. NodesOf(tree) \subseteq AllNodes /\ NodesOf(old) \subseteq AllNodes
  BY RowsOfATree
<1>8. \A row : row \in KeyRows(NodesOf(tree \ old)) <=>
               \E n \in NodesOf(tree \ old) : \E k \in Node[n].keys : row = <<k, n>>
  BY <1>6, <1>7, StaticRowsAre
<1>9. \A row : row \in StaticRows(tree) <=>
               \E n \in NodesOf(tree) : \E k \in Node[n].keys : row = <<k, n>>
  BY <1>7, StaticRowsAre DEF StaticRows
<1>10. \A row : row \in StaticRows(old) <=>
                \E n \in NodesOf(old) : \E k \in Node[n].keys : row = <<k, n>>
  BY <1>7, StaticRowsAre DEF StaticRows
<1>11. keys \subseteq (Keys \union MethodKeys) \X AllNodes
  <2>1. NodesOf(tree \ old) \subseteq AllNodes
    BY <1>6, <1>7
  <2>2. KeyRows(NodesOf(tree \ old)) \subseteq Keys \X NodesOf(tree \ old)
    BY <2>1, StaticRowsAre
  <2>3. im.keys \subseteq (Keys \union MethodKeys) \X AllNodes
    BY DEF ImageOf, TablesOf
  <2> QED
    BY <2>1, <2>2, <2>3
<1>12. {row \in im.keys : row[1] \notin MethodKeys} = StaticRows(old)
  BY DEF ImageOf, TablesOf, HasRowsOf
<1>13. \A row \in KeyRows(NodesOf(tree \ old)) : row[1] \notin MethodKeys
  BY <1>6, <1>7, StaticRowsAre
<1>14. {row \in keys : row[1] \notin MethodKeys} =
         {row \in StaticRows(old) : row[2] \in kept} \union KeyRows(NodesOf(tree \ old))
  BY <1>12, <1>13
<1>15. {row \in StaticRows(old) : row[2] \in kept} \union KeyRows(NodesOf(tree \ old)) =
         StaticRows(tree)
  <2>1. ASSUME NEW row \in StaticRows(tree)
        PROVE  row \in {x \in StaticRows(old) : x[2] \in kept} \union KeyRows(NodesOf(tree \ old))
    <3>1. PICK n \in NodesOf(tree) : \E k \in Node[n].keys : row = <<k, n>>
      BY <1>9
    <3>2. CASE n \in kept
      <4>1. row \in StaticRows(old)
        BY <1>6, <1>10, <3>1, <3>2
      <4>2. row[2] = n
        BY <3>1
      <4> QED
        BY <3>2, <4>1, <4>2
    <3>3. CASE n \notin kept
      BY <1>6, <1>8, <3>1, <3>3
    <3> QED
      BY <3>2, <3>3
  <2>2. ASSUME NEW row \in StaticRows(old), row[2] \in kept
        PROVE  row \in StaticRows(tree)
    <3>1. PICK n \in NodesOf(old) : \E k \in Node[n].keys : row = <<k, n>>
      BY <1>10
    <3>2. n \in NodesOf(tree)
      BY <1>6, <2>2, <3>1
    <3> QED
      BY <1>9, <3>1, <3>2
  <2>3. ASSUME NEW row \in KeyRows(NodesOf(tree \ old))
        PROVE  row \in StaticRows(tree)
    BY <1>6, <1>8, <1>9
  <2> QED
    BY <2>1, <2>2, <2>3
<1>16. HasRowsOf(rows, tree)
  BY <1>2, <1>14, <1>15 DEF HasRowsOf
<1>17. TablesOf(rows, tree)
  BY <1>2, <1>3, <1>4, <1>5, <1>11, <1>16 DEF TablesOf
<1>18. ParentsHold(parents, tree)
  <2>1. ASSUME NEW n \in NodesOf(tree), Node[n].static, n \in kept
        PROVE  OnDelete(im.parents[n], kept) = Node[n].parent
    <3>1. im.parents[n] = Node[n].parent
      BY <1>1, <1>6, <2>1 DEF ParentsHold
    <3>2. PICK s \in tree \intersect old : n \in Nodes[s]
      BY <2>1 DEF NodesOf
    <3>3. Node[n].parent \in Nodes[s] \union {NoValue}
      BY <3>2, ResolutionAssumption
    <3>4. Nodes[s] \subseteq kept
      BY <3>2 DEF NodesOf
    <3> QED
      BY <3>1, <3>3, <3>4 DEF OnDelete
  <2>2. ASSUME NEW n \in NodesOf(tree)
        PROVE  parents[n] \in NodesOf(tree) \union {NoValue}
    <3>1. OnDelete(im.parents[n], kept) \in NodesOf(tree) \union {NoValue}
      BY <1>6 DEF OnDelete
    <3>2. Node[n].parent \in NodesOf(tree) \union {NoValue}
      BY ColumnsOfATree
    <3> QED
      BY <3>1, <3>2
  <2> QED
    BY <2>1, <2>2 DEF ParentsHold
<1> QED
  BY <1>2, <1>4, <1>17, <1>18 DEF rows

(* The references of an update.                                            *)
LEMMA UpdateResolves ==
  ASSUME NEW old, old \subseteq Sources, NEW tree, tree \subseteq Sources,
         NEW im, ImageOf(im, old)
  PROVE  LET new == RefreshExportMethods(ResolveReferences(ReplaceRows(im, tree), RefsOf(tree)))
         IN  /\ TablesOf(new, tree)
             /\ new.keys = AllRows(tree)
             /\ new.refs = FoundRefs(tree)
             /\ new.implementations = ReplaceRows(im, tree).implementations
             /\ ParentsHold(new.parents, tree)
<1> DEFINE rows == ReplaceRows(im, tree)
<1> DEFINE all == RefsOf(tree)
<1> DEFINE resolved == ResolveReferences(rows, all)
<1> DEFINE new == RefreshExportMethods(resolved)
<1>1. /\ TablesOf(rows, tree)
      /\ ParentsHold(rows.parents, tree)
      /\ \A r \in RefsOf(tree) : rows.refs[r].via = "static"
  BY ReplacedRows
<1> HIDE DEF rows
<1>2. /\ TablesOf(resolved, tree)
      /\ resolved.implementations = rows.implementations
      /\ resolved.parents = rows.parents
      /\ \A r \in RefsOf(tree) :
           /\ rows.refs[r].via = "static" => resolved.refs[r].via = "static"
           /\ r \in all => Holds(resolved.refs, r, FindsIn(rows, tree, r))
  <2>1. \A r \in RefsOf(tree) \ all : Exporter(r) => Holds(rows.refs, r, Exported(tree, r))
    OBVIOUS
  <2>2. all \subseteq RefsOf(tree)
    OBVIOUS
  <2> HIDE DEF all
  <2> QED
    BY <1>1, <2>1, <2>2, ResolveReferencesFinds
<1> HIDE DEF resolved
<1>3. HasRowsOf(rows, tree)
  BY <1>1 DEF TablesOf
<1>4. \A r \in RefsOf(tree) :
        /\ resolved.refs[r].via = "static"
        /\ KeysOf(r) \intersect MethodKeys = {} => Holds(resolved.refs, r, Finds(tree, r))
  BY <1>1, <1>2, <1>3, FindsWithoutMethods
<1>5. /\ TablesOf(new, tree)
      /\ new.keys = AllRows(tree)
      /\ new.refs = FoundRefs(tree)
      /\ new.implementations = resolved.implementations
      /\ new.parents = resolved.parents
  BY <1>1, <1>2, <1>4, RefreshFinds
<1> QED
  BY <1>1, <1>2, <1>5 DEF resolved, rows

(***************************************************************************)
(* The implementations an update does not look at.                         *)
(***************************************************************************)
(* A key that no removed and no added node has is held by nodes that stay, *)
(* before and after.                                                       *)
LEMMA HoldersStay ==
  ASSUME NEW old, old \subseteq Sources, NEW tree, tree \subseteq Sources,
         NEW im, ImageOf(im, old), NEW key \in Keys,
         key \notin AffectedKeys(im, old \ tree, tree \ old)
  PROVE  /\ HoldersIn(old, key) = HoldersIn(tree, key)
         /\ HoldersIn(tree, key) \subseteq NodesOf(tree \intersect old)
<1> DEFINE kept == NodesOf(tree \intersect old)
<1> DEFINE rows == {k \in im.keys : k[2] \in NodesOf(old \ tree)} \union KeyRows(NodesOf(tree \ old))
<1>1. \A row \in rows : row[1] # key
  BY DEF AffectedKeys
<1>2. StaticRows(old) \subseteq im.keys
  BY DEF ImageOf, AllRows
<1>3. NodesOf(tree) \subseteq AllNodes /\ NodesOf(old) \subseteq AllNodes
  BY RowsOfATree
<1>4. /\ NodesOf(old) = kept \union NodesOf(old \ tree)
      /\ NodesOf(tree) = kept \union NodesOf(tree \ old)
  BY DEF NodesOf
<1>5. ASSUME NEW n \in HoldersIn(old, key)
      PROVE  n \in kept
  <2>1. n \in NodesOf(old) /\ key \in Node[n].keys
    BY DEF HoldersIn
  <2>2. <<key, n>> \in StaticRows(old)
    BY <1>3, <2>1, StaticRowsAre DEF StaticRows
  <2>3. <<key, n>> \in im.keys
    BY <1>2, <2>2
  <2>4. n \notin NodesOf(old \ tree)
    <3>1. SUFFICES ASSUME n \in NodesOf(old \ tree)
                   PROVE  FALSE
      OBVIOUS
    <3>2. <<key, n>>[1] = key /\ <<key, n>>[2] = n
      OBVIOUS
    <3>3. <<key, n>> \in rows
      BY <2>3, <3>1, <3>2
    <3> QED
      BY <1>1, <3>2, <3>3
  <2> QED
    BY <1>4, <2>1, <2>4
<1>6. ASSUME NEW n \in HoldersIn(tree, key)
      PROVE  n \in kept
  <2>1. n \in NodesOf(tree) /\ key \in Node[n].keys
    BY DEF HoldersIn
  <2>2. n \notin NodesOf(tree \ old)
    <3>1. SUFFICES ASSUME n \in NodesOf(tree \ old)
                   PROVE  FALSE
      OBVIOUS
    <3>2. NodesOf(tree \ old) \subseteq AllNodes
      BY <1>3, <1>4
    <3>3. <<key, n>> \in KeyRows(NodesOf(tree \ old))
      BY <2>1, <3>1, <3>2, StaticRowsAre
    <3>4. <<key, n>>[1] = key
      OBVIOUS
    <3> QED
      BY <1>1, <3>3, <3>4
  <2> QED
    BY <1>4, <2>1, <2>2
<1> QED
  BY <1>4, <1>5, <1>6 DEF HoldersIn

(* So the ends of an implementation stay if no exporter of a key of its    *)
(* comes, goes or looks up a key that does.                                *)
LEMMA EndsStay ==
  ASSUME NEW old, old \subseteq Sources, NEW tree, tree \subseteq Sources,
         NEW im, ImageOf(im, old), NEW key \in Keys,
         key \notin AffectedKeys(im, old \ tree, tree \ old),
         key \notin Aliases({r \in DOMAIN im.refs :
                      KeysOf(r) \intersect AffectedKeys(im, old \ tree, tree \ old) # {}})
  PROVE  /\ EndIn(old, key) = EndIn(tree, key)
         /\ EndIn(tree, key) \in NodesOf(tree \intersect old) \union {NoValue}
<1> DEFINE kept == NodesOf(tree \intersect old)
<1> DEFINE affected == AffectedKeys(im, old \ tree, tree \ old)
<1> DEFINE before == {r \in RefsOf(old) : Ref[r].alias = key}
<1> DEFINE after == {r \in RefsOf(tree) : Ref[r].alias = key}
<1>1. key # NoValue
  BY ResolutionAssumption
<1>2. kept \subseteq NodesOf(old) /\ kept \subseteq NodesOf(tree) /\ kept \subseteq AllNodes
  BY RowsOfATree DEF NodesOf
<1>3. key \notin Aliases(RefsOf((old \ tree) \union (tree \ old)))
  BY DEF AffectedKeys
<1>4. before = after
  BY <1>1, <1>3 DEF Aliases, RefsOf
<1>5. DOMAIN im.refs = RefsOf(old)
  BY DEF ImageOf, TablesOf
<1>6. \A r \in after : KeysOf(r) \intersect affected = {}
  BY <1>1, <1>4, <1>5 DEF Aliases
<1>7. \A r \in after : r \in AllRefs /\ Exporter(r) /\ KeysOf(r) \subseteq Keys
  BY <1>1, RowsOfATree, KeysOfRef DEF Exporter
<1> HIDE DEF affected, before, after, kept
<1>8. ASSUME NEW r \in after
      PROVE  /\ Exported(old, r) = Exported(tree, r)
             /\ Exported(tree, r).target \in kept \union {NoValue}
  <2> DEFINE o == [k \in Keys |-> Candidate(HoldersIn(old, k))]
  <2> DEFINE p == [k \in Keys |-> Candidate(HoldersIn(tree, k))]
  <2>1. \A k \in KeysOf(r) : k \in Keys /\ k \notin affected
    BY <1>6, <1>7
  <2>2. \A k \in KeysOf(r) : /\ HoldersIn(old, k) = HoldersIn(tree, k)
                             /\ HoldersIn(tree, k) \subseteq kept
    BY <2>1, HoldersStay DEF affected, kept
  <2>3. \A k \in KeysOf(r) : o[k] = p[k] /\ p[k].target \in kept \union {NoValue}
    BY <2>1, <2>2, CandidateTarget
  <2> HIDE DEF o, p
  <2>4. FirstFound(r, o) = FirstFound(r, p)
    BY <1>7, <2>3, FirstFoundAgrees
  <2>5. FirstFound(r, p) = Missing \/ \E k \in KeysOf(r) : FirstFound(r, p) = p[k]
    BY <1>7, FirstFoundIsOfAKey
  <2>6. FirstFound(r, p).target \in kept \union {NoValue}
    BY <2>3, <2>5 DEF Missing
  <2> QED
    BY <2>4, <2>6 DEF Exported, o, p
<1>9. \A n \in kept \union {NoValue} : n \in TypesOf(old) <=> n \in TypesOf(tree)
  <2>1. NoValue \notin NodesOf(old) /\ NoValue \notin NodesOf(tree)
    BY RowsOfATree, ResolutionAssumption
  <2> QED
    BY <1>2, <2>1 DEF TypesOf
<1> DEFINE then == {Exported(old, r).target : r \in before} \intersect TypesOf(old)
<1> DEFINE now == {Exported(tree, r).target : r \in after} \intersect TypesOf(tree)
<1>10. then = now
  BY <1>4, <1>8, <1>9
<1>11. (\E r \in before : Exported(old, r) = Ambiguous) <=>
         (\E r \in after : Exported(tree, r) = Ambiguous)
  BY <1>4, <1>8
<1>12. AliasIn(old, key, TypesOf(old)) =
         IF \E r \in before : Exported(old, r) = Ambiguous THEN Ambiguous
         ELSE Candidate(then)
  BY DEF AliasIn, before
<1>13. AliasIn(tree, key, TypesOf(tree)) =
         IF \E r \in after : Exported(tree, r) = Ambiguous THEN Ambiguous
         ELSE Candidate(now)
  BY DEF AliasIn, after
<1> DEFINE alias == AliasIn(tree, key, TypesOf(tree))
<1> DEFINE direct == Candidate(HoldersIn(tree, key) \intersect TypesOf(tree))
<1>14. AliasIn(old, key, TypesOf(old)) = alias
  <2> HIDE DEF then, now
  <2> QED
    BY <1>10, <1>11, <1>12, <1>13
<1>15. /\ HoldersIn(old, key) = HoldersIn(tree, key)
       /\ HoldersIn(tree, key) \subseteq kept
  BY HoldersStay DEF kept
<1>16. HoldersIn(old, key) \intersect TypesOf(old) = HoldersIn(tree, key) \intersect TypesOf(tree)
  BY <1>9, <1>15
<1>17. EndIn(old, key) = EndIn(tree, key)
  BY <1>14, <1>16 DEF EndIn
<1>18. direct.target \in kept \union {NoValue}
  BY <1>15, CandidateTarget
<1>19. alias.target \in kept \union {NoValue}
  <2>1. \A x \in {Exported(tree, r).target : r \in after} : x \in kept \union {NoValue}
    BY <1>8
  <2>2. Ambiguous.target = NoValue
    BY DEF Ambiguous
  <2> QED
    BY <1>13, <2>1, <2>2, CandidateTarget
<1> HIDE DEF alias, direct
<1>20. MergeCandidates(direct, alias).target \in kept \union {NoValue}
  <2>1. Candidate({direct.target, alias.target} \ {NoValue}).target \in
          ({direct.target, alias.target} \ {NoValue}) \union {NoValue}
    BY CandidateTarget
  <2>2. Ambiguous.target = NoValue
    BY DEF Ambiguous
  <2> QED
    BY <1>18, <1>19, <2>1, <2>2 DEF MergeCandidates
<1> QED
  BY <1>17, <1>20 DEF EndIn, alias, direct, kept

(* apply_incremental.                                                      *)
LEMMA ApplyIncrementalIs ==
  ASSUME NEW old, old \subseteq Sources, NEW tree, tree \subseteq Sources,
         NEW im, ImageOf(im, old)
  PROVE  /\ ImageOf(ApplyIncremental(im, tree), tree)
         /\ ApplyIncremental(im, tree).refs = FoundRefs(tree)
<1> DEFINE removed == old \ tree
<1> DEFINE added == tree \ old
<1> DEFINE keys == AffectedKeys(im, removed, added)
<1> DEFINE affected == AffectedImplementations(im, keys) \union ImplementationsOf(added)
<1> DEFINE kept == NodesOf(tree \intersect old)
<1> DEFINE rows == ReplaceRows(im, tree)
<1> DEFINE resolved == RefreshExportMethods(ResolveReferences(rows, RefsOf(tree)))
<1> DEFINE linked == ResolveImplementations(resolved, affected)
<1> DEFINE owners == AffectedOwners(im, removed, added)
<1> DEFINE parents == [n \in DOMAIN linked.parents |->
                         IF Node[n].owner \in owners
                         THEN LET owner == Direct(linked, Node[n].owner)
                              IN  IF owner.state = "resolved" THEN owner.target ELSE Node[n].file
                         ELSE linked.parents[n]]
<1> DEFINE new == [linked EXCEPT !.parents = parents]
<1>1. im.files = old
  BY DEF ImageOf, TablesOf
<1>2. ApplyIncremental(im, tree) = new
  BY <1>1 DEF ApplyIncremental, ReparentMethods
<1>3. im.implementations = FoundImplementations(old) /\ im.keys = AllRows(old)
  BY DEF ImageOf
<1>4. DOMAIN im.implementations = ImplementationsOf(old)
  BY <1>3 DEF FoundImplementations
<1>5. rows.implementations =
        [i \in ImplementationsOf(tree) |->
           IF i \in DOMAIN im.implementations
           THEN [implementor |-> OnDelete(im.implementations[i].implementor, kept),
                 trait |-> OnDelete(im.implementations[i].trait, kept)]
           ELSE [implementor |-> NoValue, trait |-> NoValue]]
  BY <1>1 DEF ReplaceRows
<1>6. /\ TablesOf(resolved, tree)
      /\ resolved.keys = AllRows(tree)
      /\ resolved.refs = FoundRefs(tree)
      /\ resolved.implementations = rows.implementations
      /\ ParentsHold(resolved.parents, tree)
  BY UpdateResolves
<1> HIDE DEF rows, resolved
<1>7. ExportersHold(resolved.refs, tree)
  BY <1>6, FoundRefsHold
<1>8. DOMAIN resolved.implementations = ImplementationsOf(tree)
  BY <1>5, <1>6
<1>9. /\ TablesOf(linked, tree)
      /\ linked.keys = resolved.keys
      /\ linked.refs = resolved.refs
      /\ linked.parents = resolved.parents
      /\ linked.implementations =
           [i \in ImplementationsOf(tree) |->
              IF i \in affected THEN EndsIn(tree, i) ELSE resolved.implementations[i]]
  <2> HIDE DEF affected
  <2> QED
    BY <1>6, <1>7, <1>8, ImplementationsFind
<1> HIDE DEF linked
<1>10. ASSUME NEW i \in ImplementationsOf(tree), i \notin affected
       PROVE  resolved.implementations[i] = EndsIn(tree, i)
  <2>1. i \in ImplementationsOf(old)
    BY <1>10 DEF ImplementationsOf
  <2>2. i \in DOMAIN im.implementations
    BY <1>4, <2>1
  <2> DEFINE impl == Implementation[i].implementor
  <2> DEFINE trait == Implementation[i].trait
  <2>3. Implementation[i] \in [implementor : Keys, trait : Keys]
    BY RowsOfATree, ResolutionAssumption
  <2>4. impl \in Keys /\ trait \in Keys
    BY <2>3
  <2>5. {impl, trait} \intersect
          (keys \union Aliases({r \in DOMAIN im.refs : KeysOf(r) \intersect keys # {}})) = {}
    BY <1>10, <2>2 DEF AffectedImplementations
  <2>6. \A key \in {impl, trait} :
           /\ key \in Keys
           /\ key \notin AffectedKeys(im, old \ tree, tree \ old)
           /\ key \notin Aliases({r \in DOMAIN im.refs :
                            KeysOf(r) \intersect AffectedKeys(im, old \ tree, tree \ old) # {}})
    BY <2>4, <2>5
  <2> HIDE DEF keys, affected, kept, impl, trait
  <2>7. /\ EndIn(old, impl) = EndIn(tree, impl)
        /\ EndIn(tree, impl) \in kept \union {NoValue}
    BY <2>6, EndsStay DEF kept
  <2>8. /\ EndIn(old, trait) = EndIn(tree, trait)
        /\ EndIn(tree, trait) \in kept \union {NoValue}
    BY <2>6, EndsStay DEF kept
  <2>9. im.implementations[i] = [implementor |-> EndIn(old, impl), trait |-> EndIn(old, trait)]
    BY <1>3, <2>1 DEF FoundImplementations, EndsIn, impl, trait
  <2>10. resolved.implementations[i] =
          [implementor |-> OnDelete(EndIn(old, impl), kept),
           trait |-> OnDelete(EndIn(old, trait), kept)]
    BY <1>5, <1>6, <2>2, <2>9
  <2>11. \A x \in kept \union {NoValue} : OnDelete(x, kept) = x
    BY DEF OnDelete
  <2> QED
    BY <2>7, <2>8, <2>10, <2>11 DEF EndsIn, impl, trait
<1>11. linked.implementations = FoundImplementations(tree)
  BY <1>9, <1>10 DEF FoundImplementations
<1>12. NoValue \notin owners
  <2>1. im.keys \subseteq (Keys \union MethodKeys) \X AllNodes
    BY DEF ImageOf, TablesOf
  <2>2. KeyRows(NodesOf(added)) \subseteq Keys \X NodesOf(added)
    <3>1. NodesOf(added) \subseteq AllNodes
      BY RowsOfATree
    <3> QED
      BY <3>1, StaticRowsAre
  <2>3. NoValue \notin Keys \union MethodKeys
    BY ResolutionAssumption
  <2> QED
    BY <2>1, <2>2, <2>3 DEF AffectedOwners
<1> HIDE DEF owners
<1>13. ParentsHold(parents, tree)
  <2>1. DOMAIN linked.parents = NodesOf(tree)
    BY <1>6, <1>9 DEF ParentsHold
  <2>2. ASSUME NEW n \in NodesOf(tree), Node[n].static
        PROVE  parents[n] = Node[n].parent
    <3>1. Node[n].owner = NoValue
      BY <2>2, RowsOfATree, ResolutionAssumption
    <3>2. parents[n] = linked.parents[n]
      BY <1>12, <2>1, <3>1
    <3> QED
      BY <1>6, <1>9, <2>2, <3>2 DEF ParentsHold
  <2>3. ASSUME NEW n \in NodesOf(tree)
        PROVE  parents[n] \in NodesOf(tree) \union {NoValue}
    <3>1. linked.keys \subseteq (Keys \union MethodKeys) \X NodesOf(tree)
      BY <1>6, <1>9, AllRowsAreTyped
    <3>2. Direct(linked, Node[n].owner).target \in NodesOf(tree) \union {NoValue}
      BY <3>1, DirectTarget
    <3>3. Node[n].file \in NodesOf(tree)
      BY ColumnsOfATree
    <3>4. linked.parents[n] \in NodesOf(tree) \union {NoValue}
      BY <1>6, <1>9 DEF ParentsHold
    <3> QED
      BY <2>1, <3>2, <3>3, <3>4
  <2> QED
    BY <2>1, <2>2, <2>3 DEF ParentsHold
<1> HIDE DEF parents
<1>14. /\ IsImage(new) /\ new.parents = parents /\ new.files = linked.files
       /\ new.refs = linked.refs /\ new.edges = linked.edges /\ new.keys = linked.keys
       /\ new.implementations = linked.implementations
  BY <1>9, WithParents DEF TablesOf
<1> HIDE DEF new
<1>15. TablesOf(new, tree)
  BY <1>9, <1>14 DEF TablesOf, HasRowsOf
<1>16. ImageOf(new, tree)
  BY <1>6, <1>9, <1>11, <1>13, <1>14, <1>15 DEF ImageOf
<1> QED
  BY <1>2, <1>6, <1>9, <1>14, <1>16

(***************************************************************************)
(* SCIP evidence, and the checks before a commit.                          *)
(***************************************************************************)

(* What a reference of an image has found is what the tree says, unless    *)
(* SCIP has resolved what the tree leaves open; it leaves exporters alone. *)
FoundOrUpgraded(rows, tree) ==
  \A r \in RefsOf(tree) :
    IF rows[r].via = "scip"
    THEN /\ ~ Exporter(r)
         /\ Finds(tree, r).state # "resolved"
         /\ rows[r].state = "resolved"
         /\ rows[r].target \in NodesOf(tree)
    ELSE rows[r] = Static(Finds(tree, r))

(* SCIP upgrades an unresolved call that exports nothing to a node of the  *)
(* tree.                                                                   *)
LEMMA ScipTargetIs ==
  ASSUME NEW im, im.files \subseteq Sources, NEW r, ScipTarget(im, r) # NoValue
  PROVE  /\ ScipTarget(im, r) \in NodesOf(im.files)
         /\ im.refs[r].state \in {"missing", "ambiguous"}
         /\ ~ Exporter(r)
<1>1. ASSUME NEW symbol
      PROVE  SymbolTarget(im, symbol) \in NodesOf(im.files) \union {NoValue}
  <2> DEFINE definitions == {o \in Occurrences : o.symbol = symbol /\ o.definition}
  <2> DEFINE Near(o) ==
               {n \in UNION {Nodes[s] : s \in {f \in im.files : Path[f] = o.path}} :
                  /\ Node[n].kind # "file" /\ Node[n].name = SymbolName[symbol]
                  /\ Node[n].first <= o.line /\ o.line <= Node[n].last}
  <2> DEFINE Span(n) == Node[n].last - Node[n].first
  <2> DEFINE Innermost(o) == {n \in Near(o) : \A m \in Near(o) : Span(n) <= Span(m)}
  <2> DEFINE targets == {Candidate(Innermost(o)).target : o \in definitions}
  <2>1. \A o : Innermost(o) \subseteq NodesOf(im.files)
    BY DEF NodesOf
  <2>2. \A o : Candidate(Innermost(o)).target \in NodesOf(im.files) \union {NoValue}
    BY <2>1, CandidateTarget
  <2>3. targets \subseteq NodesOf(im.files) \union {NoValue}
    BY <2>2
  <2>4. SymbolTarget(im, symbol) =
          IF \E n \in targets : targets = {n} THEN CHOOSE n \in targets : TRUE ELSE NoValue
    BY DEF SymbolTarget
  <2> HIDE DEF targets
  <2>5. (\E n \in targets : targets = {n}) => (CHOOSE n \in targets : TRUE) \in targets
    OBVIOUS
  <2> QED
    BY <2>3, <2>4, <2>5
<1> DEFINE PathOf(x) == Path[CHOOSE s \in im.files : x \in Refs[s]]
<1> DEFINE here == {x \in DOMAIN im.refs : PathOf(x) = PathOf(r) /\ Ref[x].line = Ref[r].line}
<1> DEFINE unresolved == {x \in here : im.refs[x].state \in {"missing", "ambiguous"}}
<1> DEFINE names == {IF k \in MethodKeys THEN k.name ELSE KeyName[k] : k \in KeysOf(r)}
<1> DEFINE matching == {o \in Occurrences :
                          /\ ~ o.definition
                          /\ o.path = PathOf(r) /\ o.line = Ref[r].line
                          /\ SymbolName[o.symbol] \in names}
<1> DEFINE targets == {SymbolTarget(im, o.symbol) : o \in matching} \ {NoValue}
<1>2. ScipTarget(im, r) =
        IF /\ unresolved = {r}
           /\ Ref[r].kind = "CALLS"
           /\ Ref[r].alias = NoValue
        THEN Candidate(targets).target ELSE NoValue
  BY DEF ScipTarget
<1>3. \A x \in unresolved : im.refs[x].state \in {"missing", "ambiguous"}
  OBVIOUS
<1>4. targets \subseteq NodesOf(im.files)
  BY <1>1
<1> HIDE DEF unresolved, targets
<1>5. unresolved = {r} /\ Ref[r].alias = NoValue /\ ScipTarget(im, r) = Candidate(targets).target
  BY <1>2
<1>6. Candidate(targets).target \in targets \union {NoValue}
  BY CandidateTarget
<1> QED
  BY <1>3, <1>4, <1>5, <1>6 DEF Exporter

(* resolve_scip_references.                                                *)
LEMMA ResolveScipIs ==
  ASSUME NEW tree, tree \subseteq Sources, NEW im, ImageOf(im, tree),
         FoundOrUpgraded(im.refs, tree)
  PROVE  ImageOf(ResolveScip(im), tree) /\ FoundOrUpgraded(ResolveScip(im).refs, tree)
<1> DEFINE rows == [r \in DOMAIN im.refs |->
                      IF ScipTarget(im, r) = NoValue THEN im.refs[r]
                      ELSE [state |-> "resolved", target |-> ScipTarget(im, r), via |-> "scip"]]
<1> DEFINE new == ResolveScip(im)
<1>1. /\ IsImage(im) /\ im.files = tree
      /\ im.refs \in [RefsOf(tree) -> RefRows]
      /\ WellFormed(im.refs) /\ im.edges = EdgesOf(im.refs)
  BY DEF ImageOf, TablesOf
<1>2. RefsOf(tree) \subseteq AllRefs /\ NodesOf(tree) \subseteq AllNodes
  BY RowsOfATree
<1>3. \A r : ScipTarget(im, r) # NoValue =>
               /\ ScipTarget(im, r) \in NodesOf(tree)
               /\ ScipTarget(im, r) \in AllNodes
               /\ im.refs[r].state \in {"missing", "ambiguous"}
               /\ ~ Exporter(r)
  BY <1>1, <1>2, ScipTargetIs
<1>4. /\ DOMAIN rows = RefsOf(tree)
      /\ \A r \in RefsOf(tree) :
           rows[r] = IF ScipTarget(im, r) = NoValue THEN im.refs[r]
                     ELSE [state |-> "resolved", target |-> ScipTarget(im, r), via |-> "scip"]
      /\ rows = [r \in RefsOf(tree) |-> rows[r]]
  BY <1>1
<1> HIDE DEF rows
<1>5. \A t \in AllNodes : [state |-> "resolved", target |-> t, via |-> "scip"] \in RefRows
  BY DEF RefRows
<1>6. \A r \in RefsOf(tree) : rows[r] \in RefRows
  BY <1>1, <1>3, <1>4, <1>5
<1>7. rows \in [RefsOf(tree) -> RefRows]
  BY <1>4, <1>6
<1>8. WellFormed(rows)
  BY <1>1, <1>4 DEF WellFormed
<1>9. new = Transitions(im, rows)
  BY DEF ResolveScip, rows
<1>10. new = [files |-> im.files, refs |-> rows, edges |-> EdgesOf(rows), keys |-> im.keys,
              implementations |-> im.implementations, parents |-> im.parents]
  BY <1>1, <1>2, <1>7, <1>8, <1>9, TransitionsCount
<1> HIDE DEF new
<1>11. /\ new.files = im.files /\ new.refs = rows /\ new.edges = EdgesOf(rows)
       /\ new.keys = im.keys /\ new.implementations = im.implementations
       /\ new.parents = im.parents
  BY <1>10
<1>12. IsImage(new)
  BY <1>10, <1>11 DEF IsImage
<1>13. TablesOf(new, tree)
  BY <1>1, <1>7, <1>8, <1>11, <1>12 DEF ImageOf, TablesOf, HasRowsOf
<1>14. ImageOf(new, tree)
  BY <1>11, <1>13 DEF ImageOf
<1>15. ASSUME NEW r \in RefsOf(tree)
       PROVE  IF rows[r].via = "scip"
              THEN /\ ~ Exporter(r) /\ Finds(tree, r).state # "resolved"
                   /\ rows[r].state = "resolved" /\ rows[r].target \in NodesOf(tree)
              ELSE rows[r] = Static(Finds(tree, r))
  <2>1. CASE ScipTarget(im, r) = NoValue
    <3>1. rows[r] = im.refs[r]
      BY <1>4, <2>1
    <3> QED
      BY <3>1 DEF FoundOrUpgraded
  <2>2. CASE ScipTarget(im, r) # NoValue
    <3>1. /\ rows[r].via = "scip" /\ rows[r].state = "resolved" /\ ~ Exporter(r)
          /\ rows[r].target \in NodesOf(tree)
      BY <1>3, <1>4, <2>2
    <3>2. im.refs[r].state \in {"missing", "ambiguous"}
      BY <1>3, <2>2
    <3>3. im.refs[r] = Static(Finds(tree, r))
      BY <3>2 DEF FoundOrUpgraded
    <3>4. Finds(tree, r).state # "resolved"
      BY <3>2, <3>3 DEF Static
    <3> QED
      BY <3>1, <3>4
  <2> QED
    BY <2>1, <2>2
<1> QED
  BY <1>11, <1>14, <1>15 DEF FoundOrUpgraded, new

(* require_graph_invariants accepts every such image: the third way to     *)
(* resolve, that of the check, agrees with the other two.                  *)
LEMMA ChecksAccept ==
  ASSUME NEW tree, tree \subseteq Sources, NEW im, ImageOf(im, tree),
         FoundOrUpgraded(im.refs, tree)
  PROVE  GraphInvariants(im)
<1> DEFINE expected == GraphOutcomes(im, DOMAIN im.refs)
<1>1. /\ im.refs \in [RefsOf(tree) -> RefRows]
      /\ WellFormed(im.refs) /\ im.edges = EdgesOf(im.refs)
      /\ HasRowsOf(im, tree) /\ im.keys = AllRows(tree)
      /\ im.keys \subseteq (Keys \union MethodKeys) \X AllNodes
  BY DEF ImageOf, TablesOf
<1>2. \A r \in RefsOf(tree) : expected[r] = FindsIn(im, tree, r)
  BY <1>1, GraphOutcomesAre
<1>3. \A r : FindsIn(im, tree, r) = Finds(tree, r)
  BY <1>1 DEF Finds, FindsIn, Direct, Holders
<1>4. \A r \in RefsOf(tree) : Finds(tree, r) \in Outcomes
  BY <1>1, <1>3, FindsIsOutcome
<1> HIDE DEF expected
<1>5. \A r \in RefsOf(tree) :
        IF im.refs[r].via = "scip"
        THEN expected[r].state # "resolved" /\ im.refs[r].state = "resolved"
        ELSE im.refs[r] = Static(expected[r])
  BY <1>2, <1>3 DEF FoundOrUpgraded
<1>6. CandidatesHold(im)
  BY <1>1, <1>5 DEF CandidatesHold, Consistent, expected
<1>7. \A r \in RefsOf(tree) : im.refs[r].state # "pending"
  <2> TAKE r \in RefsOf(tree)
  <2>1. CASE im.refs[r].via = "scip"
    BY <2>1 DEF FoundOrUpgraded
  <2>2. CASE im.refs[r].via # "scip"
    <3>1. im.refs[r] = Static(Finds(tree, r))
      BY <2>2 DEF FoundOrUpgraded
    <3>2. Finds(tree, r).state \in {"missing", "ambiguous", "resolved"}
      BY <1>4, OutcomeFacts
    <3> QED
      BY <3>1, <3>2 DEF Static
  <2> QED
    BY <2>1, <2>2
<1>8. \A r \in DOMAIN im.refs :
        /\ im.refs[r].state # "pending"
        /\ (im.refs[r].state = "resolved") = (im.refs[r].target # NoValue)
  BY <1>1, <1>7 DEF WellFormed
<1> QED
  BY <1>1, <1>6, <1>8 DEF GraphInvariants

(* A build from nothing leaves nothing upgraded.                           *)
LEMMA FoundIsFound ==
  ASSUME NEW tree, tree \subseteq Sources
  PROVE  FoundOrUpgraded(FoundRefs(tree), tree)
<1>1. \A o : Static(o).via = "static"
  BY DEF Static
<1>2. \A r \in RefsOf(tree) : FoundRefs(tree)[r] = Static(Finds(tree, r))
  BY DEF FoundRefs
<1> QED
  BY <1>1, <1>2 DEF FoundOrUpgraded

(***************************************************************************)
(* The invariant and the theorems.                                         *)
(***************************************************************************)

(* The image is the one its files determine, but for what SCIP has added.  *)
IInv ==
  /\ image.files \in Trees
  /\ ImageOf(image, image.files)
  /\ FoundOrUpgraded(image.refs, image.files)
  /\ refused = FALSE

(* A tree has only sources.                                                *)
LEMMA TreesAreSources ==
  ASSUME NEW tree \in Trees
  PROVE  tree \subseteq Sources
  BY DEF Trees

(* The first image is sound.                                               *)
LEMMA InitIsSound == Init => IInv
<1> SUFFICES ASSUME Init
             PROVE  IInv
  OBVIOUS
<1>1. PICK tree \in Trees : image = FullBuild(tree)
  BY DEF Init
<1>2. tree \subseteq Sources
  BY TreesAreSources
<1>3. ImageOf(FullBuild(tree), tree) /\ FullBuild(tree).refs = FoundRefs(tree)
  BY <1>2, FullBuildIs
<1>4. FoundOrUpgraded(image.refs, tree)
  BY <1>1, <1>2, <1>3, FoundIsFound
<1>5. ImageOf(image, tree)
  BY <1>1, <1>3
<1>6. GraphInvariants(image)
  BY <1>2, <1>4, <1>5, ChecksAccept
<1>7. image.files = tree
  BY <1>5 DEF ImageOf, TablesOf
<1> QED
  BY <1>4, <1>5, <1>6, <1>7 DEF IInv, Init

(* A transaction that leads to a sound image commits.                      *)
LEMMA CommitIsSound ==
  ASSUME NEW tree \in Trees, NEW im, ImageOf(im, tree), FoundOrUpgraded(im.refs, tree),
         Commit(im)
  PROVE  IInv'
<1>1. tree \subseteq Sources
  BY TreesAreSources
<1>2. GraphInvariants(im)
  BY <1>1, ChecksAccept
<1>3. image' = im /\ refused' = FALSE
  BY <1>2 DEF Commit
<1>4. im.files = tree
  BY DEF ImageOf, TablesOf
<1> QED
  BY <1>3, <1>4 DEF IInv

(* Every transaction keeps the image sound.                                *)
LEMMA StepIsSound == IInv /\ [Next]_vars => IInv'
<1> SUFFICES ASSUME IInv, [Next]_vars
             PROVE  IInv'
  OBVIOUS
<1>1. PICK im : im = image
  OBVIOUS
<1>2. PICK old \in Trees : old = im.files
  BY <1>1 DEF IInv
<1>3. ImageOf(im, old) /\ FoundOrUpgraded(im.refs, old)
  BY <1>1, <1>2 DEF IInv
<1>4. old \subseteq Sources
  BY <1>2, TreesAreSources
<1>5. CASE Update
  <2>1. PICK tree \in Trees : Commit(ApplyIncremental(im, tree))
    BY <1>1, <1>5 DEF Update
  <2>2. tree \subseteq Sources
    BY <2>1, TreesAreSources
  <2>3. /\ ImageOf(ApplyIncremental(im, tree), tree)
        /\ ApplyIncremental(im, tree).refs = FoundRefs(tree)
    BY <1>3, <1>4, <2>2, ApplyIncrementalIs
  <2>4. FoundOrUpgraded(ApplyIncremental(im, tree).refs, tree)
    BY <2>2, <2>3, FoundIsFound
  <2> QED
    BY <2>1, <2>3, <2>4, CommitIsSound
<1>6. CASE Reuse
  <2>1. Commit(im)
    BY <1>1, <1>6 DEF Reuse
  <2> QED
    BY <1>2, <1>3, <2>1, CommitIsSound
<1>7. CASE Upgrade
  <2>1. Commit(ResolveScip(im))
    BY <1>1, <1>7 DEF Upgrade
  <2>2. ImageOf(ResolveScip(im), old) /\ FoundOrUpgraded(ResolveScip(im).refs, old)
    BY <1>3, <1>4, ResolveScipIs
  <2> QED
    BY <1>2, <2>1, <2>2, CommitIsSound
<1>8. CASE UNCHANGED vars
  <2>1. image' = image /\ refused' = refused
    BY <1>8 DEF vars
  <2> QED
    BY <2>1 DEF IInv
<1> QED
  BY <1>5, <1>6, <1>7, <1>8 DEF Next

(* Whatever chain of builds, updates and upgrades led to an image, its keys *)
(* and implementations are those its files determine, and so is what its   *)
(* references have found, but for calls that SCIP has resolved; and the    *)
(* checks accepted it.                                                     *)
THEOREM ImagesAreOfTheirFiles == Spec => []IInv
<1> QED
  BY InitIsSound, StepIsSound, PTL DEF Spec

(* No chain of builds, updates and upgrades leads to an image that         *)
(* require_graph_invariants refuses (NoBuildIsRefused).                    *)
THEOREM NoUpdateIsRefused == Spec => []NoBuildIsRefused
<1>1. IInv => NoBuildIsRefused
  BY DEF IInv, NoBuildIsRefused
<1> QED
  BY <1>1, ImagesAreOfTheirFiles, PTL

(* A sound image resolves as a build from nothing of its files.            *)
LEMMA SoundImageResolves == IInv => ReferencesAreThoseOfAFullBuild
<1> SUFFICES ASSUME IInv
             PROVE  ResolvedAs(image, FullBuild(image.files))
  BY DEF ReferencesAreThoseOfAFullBuild
<1> DEFINE tree == image.files
<1> DEFINE full == FullBuild(tree)
<1>1. tree \subseteq Sources
  BY TreesAreSources DEF IInv
<1>2. ImageOf(full, tree) /\ full.refs = FoundRefs(tree)
  BY <1>1, FullBuildIs
<1>3. image.keys = full.keys
  BY <1>2 DEF IInv, ImageOf
<1>4. DOMAIN image.refs = RefsOf(tree)
  BY DEF IInv, ImageOf, TablesOf
<1>5. ASSUME NEW r \in RefsOf(tree)
      PROVE  IF image.refs[r].via = "scip" THEN full.refs[r].target = NoValue
             ELSE image.refs[r] = full.refs[r]
  <2>1. full.refs[r] = Static(Finds(tree, r))
    BY <1>2 DEF FoundRefs
  <2>2. AllRows(tree) \subseteq (Keys \union MethodKeys) \X AllNodes
    BY <1>1, AllRowsAreTyped, RowsOfATree
  <2>3. Finds(tree, r) \in Outcomes
    BY <1>1, <2>2, FindsIsOutcome DEF Finds
  <2>4. CASE image.refs[r].via = "scip"
    <3>1. Finds(tree, r).state # "resolved"
      BY <2>4 DEF IInv, FoundOrUpgraded
    <3>2. Finds(tree, r).target = NoValue
      BY <2>3, <3>1, OutcomeFacts
    <3> QED
      BY <2>1, <2>4, <3>2 DEF Static
  <2>5. CASE image.refs[r].via # "scip"
    BY <2>1, <2>5 DEF IInv, FoundOrUpgraded
  <2> QED
    BY <2>4, <2>5
<1> QED
  BY <1>3, <1>4, <1>5 DEF ResolvedAs

(* However an image came about, its references resolve as those of a build *)
(* from nothing of its files, except for those that SCIP has resolved and  *)
(* such a build leaves open; and the keys of exported static methods are   *)
(* the same (ReferencesAreThoseOfAFullBuild).                              *)
THEOREM UpdatesResolveAsBuilds == Spec => []ReferencesAreThoseOfAFullBuild
<1> QED
  BY SoundImageResolves, ImagesAreOfTheirFiles, PTL

(* The implementations that affected_implementations leaves out are those  *)
(* whose ends are still the same: all are as in a build from nothing       *)
(* (ImplementationsAreThoseOfAFullBuild).                                  *)
THEOREM UpdatesImplementAsBuilds == Spec => []ImplementationsAreThoseOfAFullBuild
<1>1. ASSUME IInv
      PROVE  ImplementationsAreThoseOfAFullBuild
  <2>1. image.files \subseteq Sources
    BY <1>1, TreesAreSources DEF IInv
  <2>2. ImageOf(FullBuild(image.files), image.files)
    BY <2>1, FullBuildIs
  <2> QED
    BY <1>1, <2>2 DEF IInv, ImageOf, ImplementationsAreThoseOfAFullBuild
<1> QED
  BY <1>1, ImagesAreOfTheirFiles, PTL

(***************************************************************************)
(* Types: nothing dangles.                                                 *)
(***************************************************************************)

(* What is found is a node of the tree.                                    *)
LEMMA FoundInTheTree ==
  ASSUME NEW tree, tree \subseteq Sources
  PROVE  /\ \A r \in RefsOf(tree) : Finds(tree, r).target \in NodesOf(tree) \union {NoValue}
         /\ \A key \in Keys : EndIn(tree, key) \in NodesOf(tree) \union {NoValue}
<1> DEFINE nodes == NodesOf(tree) \union {NoValue}
<1>1. \A H : H \subseteq NodesOf(tree) => Candidate(H).target \in nodes
  BY CandidateTarget
<1>2. \A k : Candidate(HoldersIn(tree, k)).target \in nodes
  BY <1>1 DEF HoldersIn
<1>3. Missing.target \in nodes /\ Ambiguous.target \in nodes
  BY DEF Missing, Ambiguous
<1>4. ASSUME NEW r \in RefsOf(tree), Exporter(r)
      PROVE  Exported(tree, r).target \in nodes
  <2> DEFINE o == [k \in Keys |-> Candidate(HoldersIn(tree, k))]
  <2>1. r \in AllRefs /\ KeysOf(r) \subseteq Keys
    BY <1>4, RowsOfATree, KeysOfRef DEF Exporter
  <2>2. \A k \in Keys : o[k].target \in nodes
    BY <1>2
  <2> HIDE DEF o
  <2>3. FirstFound(r, o).target \in nodes
    BY <1>3, <2>1, <2>2, FirstFoundIsOfAKey
  <2> QED
    BY <2>3 DEF Exported, o
<1>5. ASSUME NEW k, k # NoValue, NEW counts
      PROVE  AliasIn(tree, k, counts).target \in nodes
  <2> DEFINE targets == {Exported(tree, r).target : r \in {x \in RefsOf(tree) : Ref[x].alias = k}}
  <2>1. targets \subseteq nodes
    BY <1>4, <1>5 DEF Exporter
  <2>2. Candidate(targets \intersect counts).target \in nodes
    BY <2>1, CandidateTarget
  <2> HIDE DEF targets
  <2>3. AliasIn(tree, k, counts) \in {Ambiguous, Candidate(targets \intersect counts)}
    BY DEF AliasIn, targets
  <2> QED
    BY <1>3, <2>2, <2>3
<1>6. ASSUME NEW o, NEW p, o.target \in nodes, p.target \in nodes
      PROVE  MergeCandidates(o, p).target \in nodes
  <2>1. {o.target, p.target} \ {NoValue} \subseteq NodesOf(tree)
    BY <1>6
  <2>2. Candidate({o.target, p.target} \ {NoValue}).target \in nodes
    BY <1>1, <2>1
  <2> QED
    BY <1>3, <2>2 DEF MergeCandidates
<1>7. ASSUME NEW r \in RefsOf(tree)
      PROVE  Finds(tree, r).target \in nodes
  <2>1. CASE Exporter(r)
    BY <1>4, <2>1 DEF Finds, FindsIn
  <2>2. CASE ~ Exporter(r)
    <3> DEFINE rows == [keys |-> AllRows(tree)]
    <3> DEFINE o == [k \in Keys \union MethodKeys |->
                       MergeCandidates(Direct(rows, k), AliasIn(tree, k, AllNodes))]
    <3>1. r \in AllRefs /\ KeysOf(r) \subseteq Keys \union MethodKeys
      BY RowsOfATree, KeysOfRef
    <3>2. rows.keys \subseteq (Keys \union MethodKeys) \X NodesOf(tree)
      BY AllRowsAreTyped
    <3> HIDE DEF rows
    <3>3. \A k : Direct(rows, k).target \in nodes
      BY <3>2, DirectTarget
    <3>4. NoValue \notin Keys \union MethodKeys
      BY ResolutionAssumption
    <3>5. \A k \in Keys \union MethodKeys : AliasIn(tree, k, AllNodes).target \in nodes
      BY <1>5, <3>4
    <3>6. \A k \in Keys \union MethodKeys : o[k].target \in nodes
      BY <1>6, <3>3, <3>5
    <3> HIDE DEF o
    <3>7. FirstFound(r, o).target \in nodes
      BY <1>3, <3>1, <3>6, FirstFoundIsOfAKey
    <3> QED
      BY <2>2, <3>7 DEF Finds, FindsIn, o, rows
  <2> QED
    BY <2>1, <2>2
<1>8. ASSUME NEW key \in Keys
      PROVE  EndIn(tree, key) \in nodes
  <2>1. Candidate(HoldersIn(tree, key) \intersect TypesOf(tree)).target \in nodes
    BY <1>1 DEF HoldersIn
  <2>2. AliasIn(tree, key, TypesOf(tree)).target \in nodes
    BY <1>5, ResolutionAssumption
  <2> QED
    BY <1>6, <2>1, <2>2 DEF EndIn
<1> QED
  BY <1>7, <1>8

(* Edges join nodes of the tree and are counted.                           *)
LEMMA EdgesAreOfTheTree ==
  ASSUME NEW tree, tree \subseteq Sources, NEW rows, WellFormed(rows), DOMAIN rows = RefsOf(tree),
         \A r \in RefsOf(tree) : rows[r].target \in NodesOf(tree) \union {NoValue},
         NEW e \in DOMAIN EdgesOf(rows)
  PROVE  {e.source, e.target} \subseteq NodesOf(tree) /\ EdgesOf(rows)[e] \in Nat
<1>1. /\ e \in {EdgeOf(r, rows[r].target) : r \in {x \in DOMAIN rows : rows[x].target # NoValue}}
      /\ EdgesOf(rows)[e] = Cardinality(Supporters(rows, e))
  BY EdgesCountSupporters
<1>2. PICK r \in RefsOf(tree) : rows[r].target # NoValue /\ e = EdgeOf(r, rows[r].target)
  BY <1>1
<1>3. e.source = Ref[r].source /\ e.target = rows[r].target
  BY <1>2 DEF EdgeOf
<1>4. Ref[r].source \in NodesOf(tree)
  <2>1. PICK s \in tree : r \in Refs[s]
    BY DEF RefsOf
  <2>2. Ref[r].source \in Nodes[s]
    BY <2>1, ResolutionAssumption
  <2> QED
    BY <2>2 DEF NodesOf
<1>5. IsFiniteSet(RefsOf(tree))
  BY RowsOfATree, FS_Subset, ResolutionAssumption
<1>6. Supporters(rows, e) \subseteq RefsOf(tree)
  BY DEF Supporters
<1>7. Cardinality(Supporters(rows, e)) \in Nat
  BY <1>5, <1>6, FS_Subset, FS_CardinalityType
<1> QED
  BY <1>1, <1>2, <1>3, <1>4, <1>7

(* A sound image is typed.                                                 *)
LEMMA SoundImageIsTyped == IInv => TypeOK
<1> SUFFICES ASSUME IInv
             PROVE  TypeOK
  OBVIOUS
<1> DEFINE tree == image.files
<1> DEFINE nodes == NodesOf(tree) \union {NoValue}
<1>1. tree \in Trees /\ tree \subseteq Sources
  BY TreesAreSources DEF IInv
<1>2. /\ image.refs \in [RefsOf(tree) -> RefRows] /\ WellFormed(image.refs)
      /\ image.edges = EdgesOf(image.refs)
      /\ image.keys = AllRows(tree)
      /\ image.implementations = FoundImplementations(tree)
      /\ ParentsHold(image.parents, tree)
      /\ FoundOrUpgraded(image.refs, tree)
  BY DEF IInv, ImageOf, TablesOf
<1>3. ASSUME NEW r \in RefsOf(tree)
      PROVE  /\ image.refs[r].state \in {"resolved", "missing", "ambiguous"}
             /\ image.refs[r].target \in nodes
             /\ image.refs[r] \in RefRows
  <2>1. Finds(tree, r).target \in nodes
    BY <1>1, FoundInTheTree
  <2>2. Finds(tree, r) \in Outcomes
    BY <1>1, AllRowsAreTyped, RowsOfATree, FindsIsOutcome DEF Finds
  <2>3. Finds(tree, r).state \in {"resolved", "missing", "ambiguous"}
    BY <2>2, OutcomeFacts
  <2>4. CASE image.refs[r].via = "scip"
    BY <1>2, <2>4 DEF FoundOrUpgraded
  <2>5. CASE image.refs[r].via # "scip"
    <3>1. image.refs[r] = Static(Finds(tree, r))
      BY <1>2, <2>5 DEF FoundOrUpgraded
    <3> QED
      BY <1>2, <2>1, <2>3, <3>1 DEF Static
  <2> QED
    BY <1>2, <2>4, <2>5
<1>4. image.refs \in [RefsOf(tree) -> [state : {"resolved", "missing", "ambiguous"},
                                       target : nodes, via : {"static", "scip"}]]
  <2>1. \A x \in RefRows :
           /\ x.state \in {"resolved", "missing", "ambiguous"}
           /\ x.target \in nodes
           => x \in [state : {"resolved", "missing", "ambiguous"}, target : nodes,
                     via : {"static", "scip"}]
    BY DEF RefRows
  <2> QED
    BY <1>2, <1>3, <2>1
<1>5. \A e \in DOMAIN image.edges :
        {e.source, e.target} \subseteq NodesOf(tree) /\ image.edges[e] \in Nat
  BY <1>1, <1>2, <1>3, EdgesAreOfTheTree
<1>6. image.keys \subseteq (Keys \union MethodKeys) \X NodesOf(tree)
  BY <1>1, <1>2, AllRowsAreTyped
<1>7. ASSUME NEW i \in ImplementationsOf(tree)
      PROVE  EndsIn(tree, i) \in [implementor : nodes, trait : nodes]
  <2>1. Implementation[i] \in [implementor : Keys, trait : Keys]
    BY <1>1, RowsOfATree, ResolutionAssumption
  <2>2. Implementation[i].implementor \in Keys /\ Implementation[i].trait \in Keys
    BY <2>1
  <2>3. /\ EndIn(tree, Implementation[i].implementor) \in nodes
        /\ EndIn(tree, Implementation[i].trait) \in nodes
    BY <1>1, <2>2, FoundInTheTree
  <2> QED
    BY <2>3 DEF EndsIn
<1>8. image.implementations \in [ImplementationsOf(tree) -> [implementor : nodes, trait : nodes]]
  BY <1>2, <1>7 DEF FoundImplementations
<1>9. refused \in BOOLEAN
  BY DEF IInv
<1>10. image.parents \in [NodesOf(tree) -> nodes]
  BY <1>2 DEF ParentsHold
<1> QED
  BY <1>1, <1>4, <1>5, <1>6, <1>8, <1>9, <1>10 DEF TypeOK

(* Nothing dangles after a file goes: all that an image refers to is in    *)
(* one of its files (TypeOK).                                              *)
THEOREM NothingDangles == Spec => []TypeOK
<1> QED
  BY SoundImageIsTyped, ImagesAreOfTheirFiles, PTL

=============================================================================
