------------------------ MODULE SnapshotCacheProofs ------------------------
(***************************************************************************)
(* What SnapshotCache promises, for every number of processes, builders    *)
(* and snapshots, and however their snapshots share graphs and reviews.    *)
(*                                                                         *)
(* Two invariants carry the proofs.  While no outside fault has happened,  *)
(* files only appear, and each builder's knowledge of them stays true      *)
(* whoever else moves (CalmInv).  While one builder is alone, faults from  *)
(* before it started may have left anything on disk, but the builder's     *)
(* catalog and locals describe exactly what it finds (AloneInv), unless it *)
(* lacks the source it should add evidence to and gives up.                *)
(***************************************************************************)
EXTENDS SnapshotCache, TLAPS

Attaching == {"list", "load", "check", "reconcile"}
Quarantining == {"q_check", "q_rename", "q_forget"}
Opening == {"base_link", "base_open"}
Publishing ==
  {"review_link", "review_read", "graph_link", "graph_open", "base_check",
   "manifest_link"}

(* Names are moved out of the way, and `back` is what comes next.          *)
Before(l, back) == l.pc \in Quarantining /\ l.back = back

(* A builder that has attached makes room for its snapshot ...             *)
Preparing(l) ==
  \/ l.pc \in {"prepare", "review", "sweep"}
  \/ Before(l, "review") \/ Before(l, "sweep") \/ Before(l, "entries")

(* ... and looks for a graph, however often it must quarantine one.        *)
Evicting(l) ==
  \/ l.pc \in {"affected", "evict"}
  \/ Before(l, "affected") \/ Before(l, "evict")
Wanting(l) == l.pc \in {"entries", "pin", "seed"} \/ Evicting(l)

----------------------------------------------------------------------------
(* Types: which locals hold a value at which step.  No graph has been      *)
(* settled before the head's is, and the base's comes second.              *)
SameSettled(l, j) ==
  /\ l.target = j.target /\ l.role = j.role
  /\ l.own = j.own /\ l.exact = j.exact /\ l.base = j.base
NothingSettled(l) ==
  l.role = "head" /\ ~ l.own /\ l.exact = NoValue /\ l.base = NoValue
HeadSettled(l) ==
  /\ l.role = "base"
  /\ l.own => l.exact = NoValue
  /\ ~ l.own => l.exact \in Images

(* A build that adds evidence holds its source until the head's graph is   *)
(* settled, or has lost it and gives up.                                   *)
Adding(l) == l.role = "head" /\ SourceOf[l.target] # NoValue
GivingUp(l) == Evicting(l) /\ Adding(l) /\ l.source = NoValue

LocalsOK(l) ==
  /\ l.pc \in Steps \ Attaching => l.target \in Snapshots
  /\ l.pc = "source" => SourceOf[l.target] # NoValue
  /\ l.source # NoValue => l.target \in Snapshots /\ SourceOf[l.target] # NoValue
  /\ (Preparing(l) \/ l.pc \in {"entries", "pin", "seed"}) /\ Adding(l) =>
       l.source # NoValue
  /\ l.pc = "check" => /\ l.current \in Snapshots
                       /\ l.held \in Manifest \union {Junk}
  /\ l.pc \in Quarantining =>
       l.back \in {"review", "sweep", "entries", "affected", "evict"}
  /\ l.pc = "q_rename" => l.current \in l.names
  /\ l.pc = "q_forget" => l.current \in {ManifestName(s) : s \in Snapshots}
  /\ Evicting(l) => l.victim \in Graphs
  /\ l.pc \in Attaching \union {"source"} \/ Preparing(l) => NothingSettled(l)
  /\ Wanting(l) =>
       \/ NothingSettled(l)
       \/ HeadSettled(l) /\ l.base = NoValue /\ BaseOf[l.target] \in Graphs
  /\ l.pc \in Opening =>
       HeadSettled(l) /\ l.base = NoValue /\ BaseOf[l.target] \in Graphs
  /\ l.pc \in Publishing =>
       IF BaseOf[l.target] = NoValue THEN l.base = NoValue ELSE l.base \in Images
  /\ l.pc \in {"review_link", "review_read", "graph_link"} => HeadSettled(l)
  /\ l.pc = "graph_link" => l.own
  /\ l.pc = "graph_open" => l.own \/ l.exact \in Images
  /\ l.pc \in {"base_check", "manifest_link"} => l.exact \in Images
  /\ l.pc = "final_check" => l.held \in Manifest \union {Junk}

LocalInv == \A b \in Builders : LocalsOK(job[b])

TypeInv == TypeOK /\ LocalInv

----------------------------------------------------------------------------
(* Without faults.  Nothing on disk is broken.                             *)
CalmDisk ==
  /\ damaged = {}
  /\ \A r \in Reviews : reviews[r] # "bad"
  /\ \A s \in Snapshots : manifests[s] # NoValue => Loadable(s)

(* The catalogs hold what is on disk and have rejected nothing.            *)
CalmCatalogs ==
  \A p \in Processes, s \in Snapshots :
    /\ rejected[p][s] = NoValue
    /\ loaded[p][s] # NoValue => loaded[p][s] = manifests[s]

(* An image a builder holds by its content key.                            *)
Linked(g, image) == image # NoValue /\ graphs[g] = image

(* What a builder has seen is still there, and it has quarantined nothing. *)
CalmBuilder(l) ==
  /\ l.pc \notin Quarantining \union {"affected", "evict"}
  /\ l.pc = "failed" => l.target \in Snapshots /\ SourceOf[l.target] # NoValue
  /\ l.source # NoValue => Linked(GraphOf[SourceOf[l.target]], l.source)
  /\ l.pc \in {"load", "check"} =>
       \A s \in l.unread : manifests[s] # NoValue
  /\ l.pc = "check" => l.held = manifests[l.current]
  /\ \A e \in l.entries : Linked(GraphOf[e.snapshot], e.image)
  /\ l.pc \in Steps \ Attaching /\ l.exact # NoValue =>
       Linked(GraphOf[l.target], l.exact)
  /\ l.pc \in Publishing /\ l.base # NoValue => Linked(BaseOf[l.target], l.base)
  /\ l.pc = "base_open" => graphs[BaseOf[l.target]] # NoValue
  /\ l.pc \in Publishing \ {"review_link"} => reviews[ReviewOf[l.target]] = "good"
  /\ l.pc = "graph_open" => graphs[GraphOf[l.target]] # NoValue
  /\ l.pc = "final_read" => manifests[l.target] # NoValue
  /\ l.pc = "final_check" => /\ l.held # NoValue
                             /\ l.held = manifests[l.target]

CalmInv ==
  faults = 0 => CalmDisk /\ CalmCatalogs /\ \A b \in Builders : CalmBuilder(job[b])

----------------------------------------------------------------------------
(* Left alone.  What a catalog says of a snapshot it has looked at.        *)
Known(p, s) ==
  \/ manifests[s] = NoValue /\ loaded[p][s] = NoValue /\ rejected[p][s] = NoValue
  \/ manifests[s] # NoValue /\ Loadable(s)
       /\ loaded[p][s] = manifests[s] /\ rejected[p][s] = NoValue
  \/ manifests[s] # NoValue /\ ~ Loadable(s)
       /\ loaded[p][s] = NoValue /\ rejected[p][s] \in Repairable

(* The rejected manifests that wait for quarantine on the way to `back`.   *)
Waiting(p, l) ==
  {s \in Snapshots : /\ rejected[p][s] \in Repairable
                     /\ l.back = "review" => s = l.target
                     /\ l.pc = "q_forget" => ManifestName(s) # l.current}

(* Everything is known, but for the manifest just moved away.              *)
AllKnown(p, l) ==
  \A s \in Snapshots :
    IF l.pc = "q_forget" /\ l.current = ManifestName(s)
      THEN manifests[s] = NoValue
      ELSE Known(p, s)

(* No manifest is left that cannot be loaded.                              *)
DiskRepaired == \A s \in Snapshots : manifests[s] # NoValue => Loadable(s)
Repaired(p) ==
  /\ DiskRepaired
  /\ \A s \in Snapshots : Known(p, s)

(* The catalog is being filled.                                            *)
AloneAttaching(p, l) ==
  /\ l.pc \in {"load", "check", "reconcile"} =>
       /\ l.ids = {s \in Snapshots : manifests[s] # NoValue}
       /\ l.unread \subseteq l.ids
       /\ \A s \in l.ids \ l.unread : Known(p, s)
  /\ l.pc = "check" => /\ l.current \in l.unread
                       /\ l.held = manifests[l.current]
  /\ l.pc = "reconcile" => l.unread = {}
  /\ l.pc = "source" => \A s \in Snapshots : Known(p, s)

(* What is broken is being moved out of the way.                           *)
AlonePreparing(p, l) ==
  /\ Preparing(l) => AllKnown(p, l)
  /\ l.pc \in {"review", "sweep"} \/ Before(l, "sweep") \/ Before(l, "entries")
       => \/ rejected[p][l.target] \notin Repairable
          \/ l.pc = "q_forget" /\ l.current = ManifestName(l.target)
  /\ l.pc = "sweep" \/ Before(l, "entries") \/ Wanting(l)
       \/ l.pc \in Opening \union {"review_link"}
       => reviews[ReviewOf[l.target]] # "bad"
  /\ Before(l, "review") \/ Before(l, "entries") =>
       l.names = {ManifestName(s) : s \in Waiting(p, l)}
  /\ Before(l, "sweep") =>
       /\ l.names = {ReviewName(ReviewOf[l.target])}
       /\ reviews[ReviewOf[l.target]] = "bad"
       /\ l.pc # "q_forget"
  /\ Preparing(l) /\ Adding(l) => Healthy(GraphOf[SourceOf[l.target]], l.source)

WantedGraph(l) == IF l.role = "head" THEN GraphOf[l.target] ELSE BaseOf[l.target]

(* The graphs are being found or built.                                    *)
AloneWanting(p, l) ==
  /\ Wanting(l) \/ l.pc \in Opening \union Publishing => Repaired(p)
  /\ Wanting(l) /\ l.pc # "entries" =>
       \A e \in l.entries : Healthy(GraphOf[e.snapshot], e.image)
  /\ Before(l, "affected") =>
       /\ l.names = {GraphName(l.victim)}
       /\ graphs[l.victim] # NoValue /\ graphs[l.victim] \in damaged
       /\ l.pc # "q_forget"
  /\ Before(l, "affected") \/ l.pc = "affected" =>
       /\ l.ids = {l.target}
       /\ manifests[l.target] = NoValue
  /\ Before(l, "evict") =>
       /\ l.pc = "q_check"
       /\ l.names \subseteq {ManifestName(l.target)}
       /\ manifests[l.target] = NoValue
  /\ Evicting(l) => l.victim = WantedGraph(l)
  /\ l.pc \in {"affected", "evict", "seed"} \/ Before(l, "evict") =>
       graphs[WantedGraph(l)] = NoValue

(* What the builder has settled of the graphs is so.                       *)
AloneHead(l) ==
  /\ ~ l.own
       /\ ((Wanting(l) /\ l.role = "base") \/ l.pc \in Opening \union Publishing)
       => Healthy(GraphOf[l.target], l.exact)
  /\ l.own
       /\ \/ Wanting(l) /\ l.role = "base"
          \/ l.pc \in Opening \union {"review_link", "review_read", "graph_link"}
       => graphs[GraphOf[l.target]] = NoValue
  /\ l.pc = "base_link" => graphs[BaseOf[l.target]] = NoValue
  /\ l.pc = "base_open" =>
       Healthy(BaseOf[l.target], graphs[BaseOf[l.target]])
  /\ Wanting(l) /\ Adding(l) => Healthy(GraphOf[SourceOf[l.target]], l.source)

AlonePublishing(l) ==
  /\ l.pc \in Publishing /\ BaseOf[l.target] # NoValue =>
       Healthy(BaseOf[l.target], l.base)
  /\ l.pc \in Publishing \ {"review_link"} =>
       reviews[ReviewOf[l.target]] = "good"
  /\ l.pc = "graph_open" =>
       /\ Healthy(GraphOf[l.target], graphs[GraphOf[l.target]])
       /\ l.exact \in {NoValue, graphs[GraphOf[l.target]]}
  /\ l.pc \in {"base_check", "manifest_link"} =>
       Healthy(GraphOf[l.target], l.exact)
  /\ l.pc \in {"final_read", "final_check"} =>
       /\ manifests[l.target] # NoValue
       /\ Loadable(l.target)
  /\ l.pc = "final_check" => l.held = manifests[l.target]
  /\ l.pc = "completed" /\ l.target # NoValue => Loadable(l.target)
  /\ l.pc = "failed" => /\ l.target \in Snapshots
                        /\ SourceOf[l.target] # NoValue
                        /\ ~ Loadable(SourceOf[l.target])

AloneWorking(p, l) ==
  AloneAttaching(p, l) /\ AlonePreparing(p, l) /\ AloneWanting(p, l) /\ AloneHead(l)
    /\ AlonePublishing(l)

(* The source cannot be loaded: its graph, and the manifests that name it, *)
(* are moved away before the build fails.                                  *)
AloneGivingUp(l) ==
  /\ GivingUp(l) /\ l.pc # "q_forget"
  /\ ~ Loadable(SourceOf[l.target])
  /\ l.victim = GraphOf[SourceOf[l.target]]
  /\ l.pc = "q_rename" => Exists(l.current)
  /\ Before(l, "affected") => l.names = {GraphName(l.victim)}
  /\ Before(l, "affected") \/ l.pc = "affected" => l.ids = {SourceOf[l.target]}
  /\ Before(l, "evict") =>
       \A n \in l.names : \E s \in Snapshots : n = ManifestName(s) /\ Uses(s, l.victim)

AloneBuilder(p, l) == AloneWorking(p, l) \/ AloneGivingUp(l)

(* Damage is done to images that exist.                                    *)
PastInv ==
  /\ \A i \in damaged : i < nextImage
  /\ \A g \in Graphs : graphs[g] # NoValue => graphs[g] < nextImage

AloneInv == PastInv /\ \A b \in Builders : alone[b] => AloneBuilder(Host[b], job[b])

----------------------------------------------------------------------------
(* A field of a record of locals may be set to any value of its type.      *)
LEMMA LocalsUpdate ==
  ASSUME NEW l \in Locals
  PROVE  /\ \A v \in Resting \union Steps : [l EXCEPT !.pc = v] \in Locals
         /\ \A v \in {"head", "base"} : [l EXCEPT !.role = v] \in Locals
         /\ \A v \in SUBSET Snapshots : /\ [l EXCEPT !.ids = v] \in Locals
                                       /\ [l EXCEPT !.unread = v] \in Locals
         /\ \A v \in Snapshots \union Names \union {NoValue} :
              [l EXCEPT !.current = v] \in Locals
         /\ \A v \in Manifest \union {Junk, NoValue} : [l EXCEPT !.held = v] \in Locals
         /\ \A v \in SUBSET Names : [l EXCEPT !.names = v] \in Locals
         /\ \A v \in Steps : [l EXCEPT !.back = v] \in Locals
         /\ \A v \in Graphs \union {NoValue} : [l EXCEPT !.victim = v] \in Locals
         /\ \A v \in SUBSET Entries : [l EXCEPT !.entries = v] \in Locals
         /\ \A v \in BOOLEAN : [l EXCEPT !.own = v] \in Locals
         /\ \A v \in Images \union {NoValue} : /\ [l EXCEPT !.exact = v] \in Locals
                                              /\ [l EXCEPT !.base = v] \in Locals
                                              /\ [l EXCEPT !.source = v] \in Locals
<1> USE DEF Locals
<1>1. \A v \in Resting \union Steps : [l EXCEPT !.pc = v] \in Locals
  OBVIOUS
<1>2. \A v \in {"head", "base"} : [l EXCEPT !.role = v] \in Locals
  OBVIOUS
<1>3. \A v \in SUBSET Snapshots : /\ [l EXCEPT !.ids = v] \in Locals
                                /\ [l EXCEPT !.unread = v] \in Locals
  OBVIOUS
<1>4. \A v \in Snapshots \union Names \union {NoValue} : [l EXCEPT !.current = v] \in Locals
  OBVIOUS
<1>5. \A v \in Manifest \union {Junk, NoValue} : [l EXCEPT !.held = v] \in Locals
  OBVIOUS
<1>6. \A v \in SUBSET Names : [l EXCEPT !.names = v] \in Locals
  OBVIOUS
<1>7. \A v \in Steps : [l EXCEPT !.back = v] \in Locals
  OBVIOUS
<1>8. \A v \in Graphs \union {NoValue} : [l EXCEPT !.victim = v] \in Locals
  OBVIOUS
<1>9. \A v \in SUBSET Entries : [l EXCEPT !.entries = v] \in Locals
  OBVIOUS
<1>10. \A v \in BOOLEAN : [l EXCEPT !.own = v] \in Locals
  OBVIOUS
<1>11. \A v \in Images \union {NoValue} : /\ [l EXCEPT !.exact = v] \in Locals
                                        /\ [l EXCEPT !.base = v] \in Locals
                                        /\ [l EXCEPT !.source = v] \in Locals
  OBVIOUS
<1> HIDE DEF Locals
<1> QED
  BY <1>1, <1>2, <1>3, <1>4, <1>5, <1>6, <1>7, <1>8, <1>9, <1>10, <1>11

(* The fields a record of locals has, and what they may hold.              *)
LEMMA LocalsFields ==
  ASSUME NEW l \in Locals
  PROVE  /\ DOMAIN l = {"pc", "target", "role", "ids", "unread", "current", "held",
                        "names", "back", "victim", "entries", "own", "exact", "base", "source"}
         /\ l.pc \in Resting \union Steps
         /\ l.target \in Snapshots \union {NoValue}
         /\ l.role \in {"head", "base"}
         /\ l.ids \in SUBSET Snapshots
         /\ l.unread \in SUBSET Snapshots
         /\ l.current \in Snapshots \union Names \union {NoValue}
         /\ l.held \in Manifest \union {Junk, NoValue}
         /\ l.names \in SUBSET Names
         /\ l.back \in Steps
         /\ l.victim \in Graphs \union {NoValue}
         /\ l.entries \in SUBSET Entries
         /\ l.own \in BOOLEAN
         /\ l.exact \in Images \union {NoValue}
         /\ l.base \in Images \union {NoValue}
         /\ l.source \in Images \union {NoValue}
<1>1. DOMAIN l = {"pc", "target", "role", "ids", "unread", "current", "held",
                  "names", "back", "victim", "entries", "own", "exact", "base", "source"}
  BY Zenon DEF Locals
<1> QED BY <1>1 DEF Locals

(* Two records of locals agree on the snapshot and on what is settled.     *)
SameGraphs(l, j) ==
  /\ l.target = j.target /\ l.role = j.role
  /\ l.own = j.own /\ l.exact = j.exact /\ l.base = j.base
  /\ l.source = j.source

(* What a builder starts and ends with.                                    *)
LEMMA IdleLocals ==
  ASSUME NEW t \in Snapshots \union {NoValue}, NEW pc \in Resting \union {"list"}
  PROVE  /\ [Idle EXCEPT !.pc = pc, !.target = t] \in Locals
         /\ [Idle EXCEPT !.pc = pc, !.target = t].pc = pc
         /\ [Idle EXCEPT !.pc = pc, !.target = t].target = t
         /\ LocalsOK([Idle EXCEPT !.pc = pc, !.target = t])
<1> DEFINE l == [Idle EXCEPT !.pc = pc, !.target = t]
<1>1. Idle \in Locals
  BY DEF Idle, Locals, Steps, Resting
<1>2. l \in Locals
  BY DEF Idle, Locals, Steps, Resting
<1>3. l.pc = pc /\ l.target = t /\ l.source = NoValue /\ NothingSettled(l)
  BY DEF Idle, NothingSettled
<1>4. LocalsOK(l)
  BY <1>3 DEF LocalsOK, Attaching, Quarantining, Preparing, Evicting, Wanting, Adding,
              Before, Opening, Publishing, Resting, Steps
<1> QED BY <1>2, <1>3, <1>4

(* A builder's step replaces its own locals and nobody else's.             *)
LEMMA BecomesType ==
  ASSUME job \in [Builders -> Locals], NEW b \in Builders, NEW l \in Locals,
         Becomes(b, l)
  PROVE  /\ job' \in [Builders -> Locals]
         /\ job'[b] = l
         /\ \A c \in Builders \ {b} : job'[c] = job[c]
  BY DEF Becomes

LEMMA BecomesInv ==
  ASSUME TypeInv, NEW b \in Builders, NEW l \in Locals, LocalsOK(l), Becomes(b, l)
  PROVE  job' \in [Builders -> Locals] /\ LocalInv'
<1>1. /\ job' \in [Builders -> Locals]
      /\ job'[b] = l
      /\ \A c \in Builders \ {b} : job'[c] = job[c]
  BY BecomesType DEF TypeInv, TypeOK
<1>2. ASSUME NEW c \in Builders
      PROVE  LocalsOK(job[c])'
  <2>1. LocalsOK(job'[c])
    BY <1>1 DEF TypeInv, LocalInv
  <2> QED BY <2>1 DEF LocalsOK, Preparing, Evicting, Wanting, Adding, Before, NothingSettled,
                      HeadSettled
<1> QED BY <1>1, <1>2 DEF LocalInv

LEMMA RestInv ==
  ASSUME TypeInv, NEW b \in Builders, NEW how \in Resting, Rest(b, how)
  PROVE  job' \in [Builders -> Locals] /\ LocalInv'
<1>1. job[b].target \in Snapshots \union {NoValue}
  BY LocalsFields DEF TypeInv, TypeOK
<1> DEFINE l == [Idle EXCEPT !.pc = how, !.target = job[b].target]
<1>2. l \in Locals /\ LocalsOK(l) /\ Becomes(b, l)
  BY <1>1, IdleLocals DEF Rest
<1> HIDE DEF l
<1> QED BY <1>2, BecomesInv

(* A builder looks for a graph, or starts on the quarantine of one.        *)
LEMMA WantingLocals ==
  ASSUME TypeInv, NEW b \in Builders, Wanting(job[b]) \/ job[b].pc = "source",
         NEW l \in Locals, SameSettled(l, job[b]), l.source \in {job[b].source, NoValue},
         Becomes(b, l),
         \/ l.pc \in {"pin", "seed"} /\ (Adding(l) => l.source # NoValue)
         \/ l.pc = "q_check" /\ l.back \in {"affected", "evict"} /\ l.victim \in Graphs
  PROVE  job' \in [Builders -> Locals] /\ LocalInv'
<1> DEFINE j == job[b]
<1>0. j \in Locals /\ LocalsOK(j)
  BY DEF TypeInv, TypeOK, LocalInv
<1>1. /\ l.target \in Snapshots
      /\ \/ NothingSettled(l)
         \/ HeadSettled(l) /\ l.base = NoValue /\ BaseOf[l.target] \in Graphs
  BY <1>0 DEF LocalsOK, SameSettled, HeadSettled, NothingSettled, Wanting, Evicting, Before,
     Attaching, Quarantining, Steps
<1>a. l.source # NoValue => SourceOf[l.target] # NoValue
  BY <1>0 DEF LocalsOK, SameSettled
<1>2. LocalsOK(l)
  BY <1>1, <1>a DEF LocalsOK, Attaching, Quarantining, Preparing, Evicting, Wanting, Adding, Before, Opening,
     Publishing
<1> QED BY <1>2, BecomesInv

LEMMA QuarantineGraphLocals ==
  ASSUME TypeInv, NEW b \in Builders, job[b].pc \in {"source", "pin", "seed"}, NEW g \in Graphs,
         NEW s \in Snapshots, NEW entries \in SUBSET Entries,
         NEW source \in {job[b].source, NoValue}, QuarantineGraph(b, g, s, entries, source)
  PROVE  job' \in [Builders -> Locals] /\ LocalInv'
<1> DEFINE j == job[b]
           l == [j EXCEPT !.pc = "q_check", !.names = {GraphName(g)}, !.back = "affected",
                          !.victim = g, !.ids = {s}, !.entries = entries,
                          !.source = source]
<1>0. j \in Locals /\ LocalsOK(j)
  BY DEF TypeInv, TypeOK, LocalInv
<1>1. /\ GraphName(g) \in Names
      /\ "q_check" \in Resting \union Steps /\ "affected" \in Steps
  BY DEF Names, GraphName, Steps
<1>2. l \in Locals
  <2>1. PICK k1 \in Locals : k1 = [j EXCEPT !.pc = "q_check"]
    BY <1>0, <1>1, LocalsUpdate
  <2>2. PICK k2 \in Locals : k2 = [k1 EXCEPT !.names = {GraphName(g)}]
    BY <1>1, LocalsUpdate
  <2>3. PICK k3 \in Locals : k3 = [k2 EXCEPT !.back = "affected"]
    BY <1>1, LocalsUpdate
  <2>4. PICK k4 \in Locals : k4 = [k3 EXCEPT !.victim = g]
    BY LocalsUpdate
  <2>5. PICK k5 \in Locals : k5 = [k4 EXCEPT !.ids = {s}]
    BY LocalsUpdate
  <2>6. PICK k6 \in Locals : k6 = [k5 EXCEPT !.entries = entries]
    BY LocalsUpdate
  <2>7. source \in Images \union {NoValue}
    BY <1>0, LocalsFields
  <2>8. PICK k7 \in Locals : k7 = [k6 EXCEPT !.source = source]
    BY <2>7, LocalsUpdate
  <2> HIDE DEF j
  <2>9. l = k7
    BY <2>1, <2>2, <2>3, <2>4, <2>5, <2>6, <2>8
  <2> QED BY <2>9
<1>3. /\ l.pc = "q_check" /\ l.back = "affected" /\ l.victim = g /\ SameSettled(l, j)
      /\ l.source = source
  BY <1>0, LocalsFields DEF SameSettled
<1> QED BY <1>2, <1>3, WantingLocals DEF QuarantineGraph, Wanting

(* Each step of `attach` leaves locals of their types.                     *)
LEMMA AttachLocals ==
  ASSUME TypeInv, NEW b \in Builders, Attach(b)
  PROVE  job' \in [Builders -> Locals] /\ LocalInv'
<1> DEFINE j == job[b]
<1>0. j \in Locals /\ LocalsOK(j)
  BY DEF TypeInv, TypeOK, LocalInv
<1>a. {"reconcile", "load", "check", "prepare", "source"} \subseteq Resting \union Steps
  BY DEF Steps
<1> USE DEF At, AfterLoad
<1>b. ASSUME NEW l \in Locals, l.pc \in {"reconcile", "load"}, SameGraphs(l, j), j.pc \in Attaching
      PROVE  LocalsOK(l)
  BY <1>0, <1>b DEF SameGraphs, LocalsOK, Attaching, Quarantining, Preparing, Evicting, Wanting, Adding,
              Before, Opening, Publishing, NothingSettled
<1>1. CASE List(b)
  <2> DEFINE present == {s \in Snapshots : manifests[s] # NoValue}
             l == [j EXCEPT !.pc = AfterLoad(present), !.ids = present,
                            !.unread = present]
  <2>1. l \in Locals
    BY <1>0, <1>a, LocalsUpdate
  <2>2. l.pc \in {"reconcile", "load"} /\ SameGraphs(l, j)
    BY <1>0, LocalsFields DEF SameGraphs
  <2>3. LocalsOK(l)
    BY <1>1, <1>b, <2>1, <2>2 DEF List, Attaching
  <2> QED BY <1>1, <2>1, <2>3, BecomesInv DEF List
<1>2. ASSUME NEW s \in Snapshots, LoadManifest(b, s)
      PROVE  job' \in [Builders -> Locals] /\ LocalInv'
  <2> DEFINE rest == [j EXCEPT !.pc = AfterLoad(j.unread \ {s}),
                               !.unread = @ \ {s}]
             l == [j EXCEPT !.pc = "check", !.current = s, !.held = manifests[s]]
  <2>1. rest \in Locals 
    BY <1>0, <1>a, LocalsFields, LocalsUpdate
  <2>2. rest.pc \in {"reconcile", "load"} /\ SameGraphs(rest, j)
    BY <1>0, LocalsFields DEF SameGraphs
  <2>3. LocalsOK(rest)
    BY <1>2, <1>b, <2>1, <2>2 DEF LoadManifest, Attaching
  <2>4. l \in Locals
    BY <1>0, <1>a, LocalsFields, LocalsUpdate DEF TypeInv, TypeOK
  <2>5. l.pc = "check" /\ l.current = s /\ l.held = manifests[s] /\ SameGraphs(l, j)
    BY <1>0, LocalsFields DEF SameGraphs
  <2>6. ASSUME manifests[s] # NoValue PROVE LocalsOK(l)
    <3>1. manifests[s] \in Manifest \union {Junk}
      BY <2>6 DEF TypeInv, TypeOK
    <3>2. NothingSettled(l) /\ LocalsOK(j) /\ l.source = j.source /\ l.target = j.target
      BY <1>0, <1>2, <2>5 DEF LocalsOK, Attaching, NothingSettled, SameGraphs, LoadManifest
    <3> HIDE DEF l, j
    <3> QED BY <2>5, <3>1, <3>2 DEF LocalsOK, Attaching, Quarantining, Preparing, Evicting, Wanting, Adding,
              Before, Opening, Publishing
  <2> QED BY <1>2, <2>1, <2>3, <2>4, <2>6, BecomesInv DEF LoadManifest
<1>3. CASE CheckFiles(b)
  <2> DEFINE s == j.current
             l == [j EXCEPT !.pc = AfterLoad(j.unread \ {s}), !.unread = @ \ {s},
                            !.current = NoValue, !.held = NoValue]
  <2>1. l \in Locals
    BY <1>0, <1>a, LocalsFields, LocalsUpdate
  <2>2. l.pc \in {"reconcile", "load"} /\ SameGraphs(l, j)
    BY <1>0, LocalsFields DEF SameGraphs
  <2>3. LocalsOK(l)
    BY <1>3, <1>b, <2>1, <2>2 DEF CheckFiles, Attaching
  <2> QED BY <1>3, <2>1, <2>3, BecomesInv DEF CheckFiles
<1>4. CASE Reconcile(b)
  <2> DEFINE pc == IF SourceOf[j.target] = NoValue THEN "prepare" ELSE "source"
             l == [j EXCEPT !.ids = {}, !.pc = pc]
  <2>1. l \in Locals
    BY <1>0, <1>a, LocalsFields, LocalsUpdate
  <2>2. l.pc = pc /\ SameGraphs(l, j)
    BY <1>0, LocalsFields DEF SameGraphs
  <2>3. ASSUME j.target # NoValue PROVE LocalsOK(l)
    <3>1. l.target \in Snapshots
      BY <1>0, <2>2, <2>3, LocalsFields DEF SameGraphs
    <3>2. NothingSettled(l)
      BY <1>0, <1>4, <2>2 DEF LocalsOK, Attaching, NothingSettled, SameGraphs, Reconcile
    <3>3. /\ l.source # NoValue => SourceOf[l.target] # NoValue
          /\ l.pc = IF SourceOf[l.target] = NoValue THEN "prepare" ELSE "source"
      BY <1>0, <2>2 DEF LocalsOK, SameGraphs
    <3> HIDE DEF l, pc
    <3> QED BY <3>1, <3>2, <3>3 DEF LocalsOK, Attaching, Quarantining, Preparing, Evicting,
               Wanting, Adding, Before, Opening, Publishing
  <2> QED BY <1>4, <2>1, <2>3, BecomesInv, RestInv DEF Reconcile, Resting
<1>5. CASE ValidateSource(b)
  <2> DEFINE s == SourceOf[j.target]
             entry == loaded[Host[b]][s]
             l == [j EXCEPT !.pc = "prepare", !.source = entry.graph]
  <2>1. j.target \in Snapshots /\ s \in Snapshots /\ NothingSettled(j) /\ j.pc = "source"
    BY <1>0, <1>5, CacheAssumption DEF ValidateSource, LocalsOK, Attaching, Steps
  <2>2. entry \in Manifest \union {NoValue} /\ GraphOf[s] \in Graphs
    BY <2>1, CacheAssumption DEF TypeInv, TypeOK
  <2>3. CASE entry # NoValue /\ Becomes(b, l)
    <3>1. entry.graph \in Images /\ entry.graph # NoValue
      <4>1. \A m \in Manifest : m.graph \in Images
        BY DEF Manifest
      <4>2. NoValue \notin Images
        BY CacheAssumption DEF Images
      <4> QED BY <2>2, <2>3, <4>1, <4>2
    <3>2. l \in Locals
      BY <1>0, <1>a, <3>1, LocalsUpdate
    <3>3. l.pc = "prepare" /\ l.source = entry.graph /\ SameSettled(l, j)
      BY <1>0, LocalsFields DEF SameSettled
    <3>4. /\ l.target \in Snapshots /\ SourceOf[l.target] # NoValue /\ NothingSettled(l)
      BY <2>1, <3>3, CacheAssumption DEF SameSettled, NothingSettled
    <3> HIDE DEF l
    <3>5. LocalsOK(l)
      BY <3>1, <3>3, <3>4 DEF LocalsOK, Attaching, Quarantining, Preparing, Evicting,
               Wanting, Adding, Before, Opening, Publishing
    <3> QED BY <2>3, <3>2, <3>5, BecomesInv
  <2>4. CASE QuarantineGraph(b, GraphOf[s], s, {}, NoValue)
    BY <2>1, <2>2, <2>4, QuarantineGraphLocals
  <2> QED BY <1>5, <2>3, <2>4, RestInv DEF ValidateSource, Resting
<1> QED BY <1>1, <1>2, <1>3, <1>4, <1>5 DEF Attach

(* So does each step that makes room for the snapshot;                     *)
LEMMA QuarantineLocals ==
  ASSUME TypeInv, NEW b \in Builders, NEW names \in SUBSET Names,
         NEW back \in {"review", "sweep", "entries"}, Quarantine(b, names, back),
         job[b].pc \in {"prepare", "review", "sweep"}
  PROVE  job' \in [Builders -> Locals] /\ LocalInv'
<1> DEFINE j == job[b]
           pc == IF names = {} THEN back ELSE "q_check"
           l == [j EXCEPT !.pc = pc, !.names = names, !.back = back]
<1>0. j \in Locals /\ LocalsOK(j)
  BY DEF TypeInv, TypeOK, LocalInv
<1>1. pc \in Resting \union Steps /\ back \in Steps
  BY DEF Steps
<1>2. l \in Locals
  BY <1>0, <1>1, LocalsUpdate
<1>3. /\ l.pc = pc /\ l.back = back /\ l.names = names /\ SameGraphs(l, j)
  BY <1>0, LocalsFields DEF SameGraphs
<1>4. /\ l.target \in Snapshots /\ NothingSettled(l)
      /\ l.source # NoValue => SourceOf[l.target] # NoValue
      /\ Adding(l) => l.source # NoValue
  BY <1>0, <1>3 DEF LocalsOK, Preparing, Attaching, Steps, SameGraphs, NothingSettled, Adding
<1> HIDE DEF l
<1>5. LocalsOK(l)
  BY <1>3, <1>4 DEF LocalsOK, Attaching, Quarantining, Preparing, Evicting,
                    Wanting, Adding, Before, Opening, Publishing
<1> QED BY <1>2, <1>5, BecomesInv DEF Quarantine, l

LEMMA PreparingGoto ==
  ASSUME TypeInv, NEW b \in Builders, NEW pc \in {"review", "sweep"}, Goto(b, pc),
         job[b].pc \in {"prepare", "review"}
  PROVE  job' \in [Builders -> Locals] /\ LocalInv'
<1> DEFINE j == job[b]
           l == [j EXCEPT !.pc = pc]
<1>0. j \in Locals /\ LocalsOK(j)
  BY DEF TypeInv, TypeOK, LocalInv
<1>1. l \in Locals
  BY <1>0, LocalsUpdate DEF Steps
<1>2. l.pc = pc /\ SameGraphs(l, j)
  BY <1>0, LocalsFields DEF SameGraphs
<1>3. /\ l.target \in Snapshots /\ NothingSettled(l)
      /\ l.source # NoValue => SourceOf[l.target] # NoValue
      /\ Adding(l) => l.source # NoValue
  BY <1>0, <1>2 DEF LocalsOK, Preparing, Attaching, Steps, SameGraphs, NothingSettled, Adding
<1>4. LocalsOK(l)
  BY <1>2, <1>3 DEF LocalsOK, Attaching, Quarantining, Preparing, Evicting,
                    Wanting, Adding, Before, Opening, Publishing
<1> QED BY <1>1, <1>4, BecomesInv DEF Goto

(* A name is settled and the next one, or what comes after, is up.         *)
LEMMA QuarantinedLocals ==
  ASSUME TypeInv, NEW b \in Builders, NEW n \in job[b].names, Quarantined(b, n),
         job[b].pc \in Quarantining
  PROVE  job' \in [Builders -> Locals] /\ LocalInv'
<1> DEFINE j == job[b]
           rest == j.names \ {n}
           f == [j EXCEPT !.pc = "q_forget", !.current = n, !.names = rest]
           l == [j EXCEPT !.pc = NextName(b, rest), !.current = NoValue,
                          !.names = rest]
<1>0. j \in Locals /\ LocalsOK(j)
  BY DEF TypeInv, TypeOK, LocalInv
<1>1. /\ n \in Names /\ rest \in SUBSET Names
      /\ NextName(b, rest) \in Resting \union Steps /\ "q_forget" \in Resting \union Steps
  BY <1>0, LocalsFields DEF NextName, Steps
<1>2. CASE Forgets(b, n)
  <2>1. f \in Locals
    BY <1>0, <1>1, LocalsUpdate
  <2>2. f.pc = "q_forget" /\ f.current = n /\ f.back = j.back /\ SameGraphs(f, j)
    BY <1>0, LocalsFields DEF SameGraphs
  <2>3. n \in {ManifestName(s) : s \in Snapshots}
    BY <1>1, <1>2 DEF Forgets, Names, ManifestName
  <2>4. /\ f.target \in Snapshots /\ NothingSettled(f)
        /\ f.source # NoValue => SourceOf[f.target] # NoValue
        /\ Adding(f) => f.source # NoValue
    BY <1>0, <1>2, <2>2 DEF LocalsOK, Preparing, Before, Attaching, Quarantining, Steps, SameGraphs,
                  NothingSettled, Forgets, Adding
  <2>5. LocalsOK(f)
    BY <1>2, <2>2, <2>3, <2>4
    DEF Forgets, LocalsOK, Attaching, Quarantining, Preparing, Evicting, Wanting, Adding, Before, Opening,
        Publishing
  <2> QED BY <1>2, <2>1, <2>5, BecomesInv DEF Quarantined
<1>3. CASE ~ Forgets(b, n)
  <2>1. l \in Locals
    BY <1>0, <1>1, LocalsUpdate
  <2>2. /\ l.pc \in {j.back, "q_check"} /\ l.back = j.back /\ l.victim = j.victim
        /\ SameGraphs(l, j)
    BY <1>0, LocalsFields DEF SameGraphs, NextName
  <2>3. /\ j.back \in {"review", "sweep", "entries", "affected", "evict"}
        /\ l.target \in Snapshots
    BY <1>0, <2>2 DEF LocalsOK, Attaching, Quarantining, Steps, SameGraphs
  <2>4. /\ Preparing(j) => NothingSettled(l)
        /\ l.source # NoValue => SourceOf[l.target] # NoValue
        /\ Preparing(j) /\ Adding(l) => l.source # NoValue
        /\ Evicting(j) => l.victim \in Graphs
        /\ Wanting(j) =>
             \/ NothingSettled(l)
             \/ HeadSettled(l) /\ l.base = NoValue /\ BaseOf[l.target] \in Graphs
    BY <1>0, <2>2 DEF LocalsOK, SameGraphs, NothingSettled, HeadSettled, Adding
  <2>5. LocalsOK(l)
    <3>1. \/ l.pc = "q_check"
          \/ l.pc = j.back
      BY <2>2
    <3> HIDE DEF l, j
    <3> QED
      BY <2>2, <2>3, <2>4, <3>1 DEF LocalsOK, Attaching, Quarantining, Preparing, Evicting, Wanting, Adding, Before,
         Opening, Publishing, j
  <2> QED BY <1>3, <2>1, <2>5, BecomesInv DEF Quarantined
<1> QED BY <1>2, <1>3

LEMMA PrepareLocals ==
  ASSUME TypeInv, NEW b \in Builders, Prepare(b)
  PROVE  job' \in [Builders -> Locals] /\ LocalInv'
<1> DEFINE j == job[b]
<1>0. j \in Locals /\ LocalsOK(j)
  BY DEF TypeInv, TypeOK, LocalInv
<1> USE DEF At
<1>a. ASSUME j.pc \in {"prepare", "review", "sweep"}
      PROVE  j.target \in Snapshots
  BY <1>0, <1>a DEF LocalsOK, Attaching, Steps
<1>b. \A s \in Snapshots : ManifestName(s) \in Names
  BY DEF Names, ManifestName
<1>1. CASE PrepareManifest(b)
  <2>1. {ManifestName(j.target)} \in SUBSET Names
    BY <1>1, <1>a, <1>b DEF PrepareManifest
  <2> QED BY <1>1, <2>1, RestInv, QuarantineLocals, PreparingGoto DEF PrepareManifest, Resting
<1>2. CASE PrepareReview(b)
  <2>1. {ReviewName(ReviewOf[j.target])} \in SUBSET Names
    BY <1>2, <1>a, CacheAssumption DEF PrepareReview, Names, ReviewName
  <2> QED BY <1>2, <2>1, QuarantineLocals, PreparingGoto DEF PrepareReview
<1>3. CASE Sweep(b)
  <2> DEFINE names == {ManifestName(s) : s \in {t \in Snapshots :
                         t # job[b].target /\ rejected[Host[b]][t] \in Repairable}}
  <2>1. names \in SUBSET Names
    BY <1>b
  <2> QED BY <1>3, <2>1, QuarantineLocals DEF Sweep
<1>4. ASSUME NEW n \in Names, QuarantineCheck(b, n)
      PROVE  job' \in [Builders -> Locals] /\ LocalInv'
  <2> DEFINE l == [j EXCEPT !.pc = "q_rename", !.current = n]
  <2>1. l \in Locals
    BY <1>0, LocalsUpdate DEF Steps
  <2>2. /\ l.pc = "q_rename" /\ l.current = n /\ l.back = j.back /\ l.names = j.names
        /\ l.victim = j.victim /\ SameGraphs(l, j)
    BY <1>0, LocalsFields DEF SameGraphs
  <2>3. LocalsOK(l)
    BY <1>0, <1>4, <2>2 DEF QuarantineCheck, LocalsOK, Attaching, Quarantining, Preparing, Evicting, Wanting, Adding,
       Before, Opening, Publishing, NothingSettled, HeadSettled, SameGraphs, Steps
  <2> QED BY <1>4, <2>1, <2>3, BecomesInv, QuarantinedLocals DEF QuarantineCheck, Quarantining
<1>5. CASE QuarantineRename(b)
  <2>1. j.current \in j.names
    BY <1>0, <1>5 DEF QuarantineRename, LocalsOK
  <2> QED BY <1>5, <2>1, RestInv, QuarantinedLocals DEF QuarantineRename, Quarantining, Resting
<1>6. CASE QuarantineForget(b)
  <2> DEFINE l == [j EXCEPT !.pc = NextName(b, j.names), !.current = NoValue]
  <2>1. NextName(b, j.names) \in Resting \union Steps
    BY <1>0, LocalsFields DEF NextName, Steps
  <2>2. l \in Locals
    BY <1>0, <2>1, LocalsUpdate
  <2>3. /\ l.pc \in {j.back, "q_check"} /\ l.back = j.back /\ l.victim = j.victim
        /\ SameGraphs(l, j)
    BY <1>0, LocalsFields DEF SameGraphs, NextName
  <2>4. LocalsOK(l)
    <3>1. \/ l.pc = "q_check"
          \/ l.pc = j.back
      BY <2>3
    <3>2. j.pc = "q_forget"
      BY <1>6 DEF QuarantineForget
    <3> HIDE DEF l, j
    <3> QED
      BY <1>0, <2>3, <3>1, <3>2 DEF LocalsOK, Attaching, Quarantining, Preparing, Evicting, Wanting, Adding,
         Before, Opening, Publishing, NothingSettled, HeadSettled, SameGraphs, Steps
  <2> QED BY <1>6, <2>2, <2>4, BecomesInv DEF QuarantineForget
<1> QED BY <1>1, <1>2, <1>3, <1>4, <1>5, <1>6 DEF Prepare

(* So does each step that settles a graph,                                 *)
LEMMA PinnedLocals ==
  ASSUME TypeInv, NEW b \in Builders, NEW image \in Images, Pinned(b, image),
         job[b].pc \in {"pin", "base_open"}
  PROVE  job' \in [Builders -> Locals] /\ LocalInv'
<1> DEFINE j == job[b]
           h == [j EXCEPT !.pc = AfterHead(b), !.role = "base", !.exact = image,
                          !.entries = {}]
           l == [j EXCEPT !.pc = "review_link", !.base = image, !.entries = {}]
<1>0. j \in Locals /\ LocalsOK(j)
  BY DEF TypeInv, TypeOK, LocalInv
<1>1. AfterHead(b) \in Resting \union Steps /\ "review_link" \in Resting \union Steps
  BY DEF AfterHead, Steps
<1>a. j.target \in Snapshots
  BY <1>0 DEF LocalsOK, Attaching, Steps
<1>2. CASE j.role = "head"
  <2>1. h \in Locals
    BY <1>0, <1>1, LocalsUpdate
  <2>2. /\ h.pc = AfterHead(b) /\ h.role = "base" /\ h.exact = image
        /\ h.own = j.own /\ h.base = j.base /\ h.target = j.target
        /\ h.source = j.source
    BY <1>0, LocalsFields
  <2>3. /\ HeadSettled(h) /\ h.base = NoValue
        /\ h.source # NoValue => SourceOf[h.target] # NoValue
    BY <1>0, <1>2, <2>2 DEF LocalsOK, Wanting, Opening, HeadSettled, NothingSettled
  <2>4. CASE BaseOf[j.target] = NoValue
    <3>1. h.pc = "review_link"
      BY <2>2, <2>4 DEF AfterHead
    <3> QED BY <1>a, <1>2, <2>1, <2>2, <2>3, <2>4, <3>1, BecomesInv
            DEF Pinned, LocalsOK, Attaching, Quarantining, Preparing, Evicting, Wanting, Adding, Before,
                Opening, Publishing
  <2>5. CASE BaseOf[j.target] # NoValue
    <3>1. h.pc = "entries" /\ BaseOf[j.target] \in Graphs
      BY <1>a, <2>2, <2>5, CacheAssumption DEF AfterHead
    <3> QED BY <1>a, <1>2, <2>1, <2>2, <2>3, <2>5, <3>1, BecomesInv
            DEF Pinned, LocalsOK, Attaching, Quarantining, Preparing, Evicting, Wanting, Adding, Before,
                Opening, Publishing
  <2> QED BY <2>4, <2>5
<1>3. CASE j.role # "head"
  <2>1. l \in Locals
    BY <1>0, <1>1, LocalsUpdate
  <2>2. /\ l.pc = "review_link" /\ l.role = j.role /\ l.exact = j.exact
        /\ l.own = j.own /\ l.base = image /\ l.target = j.target
        /\ l.source = j.source
    BY <1>0, LocalsFields
  <2>3. /\ HeadSettled(l) /\ BaseOf[l.target] \in Graphs
        /\ l.source # NoValue => SourceOf[l.target] # NoValue
    BY <1>0, <1>3, <2>2 DEF LocalsOK, Wanting, Opening, HeadSettled, NothingSettled
  <2>4. BaseOf[l.target] # NoValue
    BY <2>3, CacheAssumption
  <2>5. LocalsOK(l)
    BY <1>a, <2>2, <2>3, <2>4 DEF LocalsOK, Attaching, Quarantining, Preparing, Evicting, Wanting, Adding,
       Before, Opening, Publishing
  <2> QED BY <1>3, <2>1, <2>5, BecomesInv DEF Pinned
<1> QED BY <1>2, <1>3

LEMMA BuiltLocals ==
  ASSUME TypeInv, NEW b \in Builders, Built(b), job[b].pc = "seed"
  PROVE  job' \in [Builders -> Locals] /\ LocalInv'
<1> DEFINE j == job[b]
           h == [j EXCEPT !.pc = AfterHead(b), !.role = "base", !.own = TRUE,
                          !.entries = {}]
           l == [j EXCEPT !.pc = "base_link", !.entries = {}]
<1>0. j \in Locals /\ LocalsOK(j)
  BY DEF TypeInv, TypeOK, LocalInv
<1>1. AfterHead(b) \in Resting \union Steps /\ "base_link" \in Resting \union Steps
  BY DEF AfterHead, Steps
<1>a. j.target \in Snapshots
  BY <1>0 DEF LocalsOK, Attaching, Steps
<1>2. CASE j.role = "head"
  <2>1. h \in Locals
    BY <1>0, <1>1, LocalsUpdate
  <2>2. /\ h.pc = AfterHead(b) /\ h.role = "base" /\ h.exact = j.exact
        /\ h.own = TRUE /\ h.base = j.base /\ h.target = j.target
        /\ h.source = j.source
    BY <1>0, LocalsFields
  <2>3. /\ HeadSettled(h) /\ h.base = NoValue
        /\ h.source # NoValue => SourceOf[h.target] # NoValue
    BY <1>0, <1>2, <2>2 DEF LocalsOK, Wanting, HeadSettled, NothingSettled
  <2>4. CASE BaseOf[j.target] = NoValue
    <3>1. h.pc = "review_link"
      BY <2>2, <2>4 DEF AfterHead
    <3> QED BY <1>a, <1>2, <2>1, <2>2, <2>3, <2>4, <3>1, BecomesInv
            DEF Built, LocalsOK, Attaching, Quarantining, Preparing, Evicting, Wanting, Adding, Before,
                Opening, Publishing
  <2>5. CASE BaseOf[j.target] # NoValue
    <3>1. h.pc = "entries" /\ BaseOf[j.target] \in Graphs
      BY <1>a, <2>2, <2>5, CacheAssumption DEF AfterHead
    <3> QED BY <1>a, <1>2, <2>1, <2>2, <2>3, <2>5, <3>1, BecomesInv
            DEF Built, LocalsOK, Attaching, Quarantining, Preparing, Evicting, Wanting, Adding, Before,
                Opening, Publishing
  <2> QED BY <2>4, <2>5
<1>3. CASE j.role # "head"
  <2>1. l \in Locals
    BY <1>0, <1>1, LocalsUpdate
  <2>2. l.pc = "base_link" /\ SameGraphs(l, j)
    BY <1>0, LocalsFields DEF SameGraphs
  <2>3. /\ HeadSettled(l) /\ BaseOf[l.target] \in Graphs /\ l.base = NoValue
        /\ l.source # NoValue => SourceOf[l.target] # NoValue
    BY <1>0, <1>3, <2>2 DEF LocalsOK, Wanting, HeadSettled, NothingSettled, SameGraphs
  <2>4. LocalsOK(l)
    BY <1>a, <2>2, <2>3 DEF LocalsOK, Attaching, Quarantining, Preparing, Evicting, Wanting, Adding,
       Before, Opening, Publishing, SameGraphs
  <2> QED BY <1>3, <2>1, <2>4, BecomesInv DEF Built
<1> QED BY <1>2, <1>3

LEMMA BuildLocals ==
  ASSUME TypeInv, NEW b \in Builders, Build(b)
  PROVE  job' \in [Builders -> Locals] /\ LocalInv'
<1> DEFINE j == job[b]
<1>0. j \in Locals /\ LocalsOK(j)
  BY DEF TypeInv, TypeOK, LocalInv
<1> USE DEF At
<1>a. ASSUME j.pc \in {"entries", "pin", "seed", "affected", "evict", "base_link", "base_open"}
      PROVE  /\ j.target \in Snapshots
             /\ Wanting(j) => Wanted(b) \in Graphs
  BY <1>0, <1>a, CacheAssumption DEF LocalsOK, Attaching, Steps, Wanted, NothingSettled, HeadSettled
<1>1. CASE TakeEntries(b)
  <2> DEFINE catalog == loaded[Host[b]]
             entries == {[snapshot |-> s, image |-> catalog[s].graph] :
                           s \in {t \in Snapshots : catalog[t] # NoValue}}
             l == [j EXCEPT !.pc = "pin", !.entries = entries]
  <2>1. \A s \in Snapshots : catalog[s] \in Manifest \union {NoValue}
    BY CacheAssumption DEF TypeInv, TypeOK
  <2>2. entries \in SUBSET Entries
    BY <2>1 DEF Entries, Manifest
  <2> HIDE DEF entries
  <2>3. l \in Locals
    BY <1>0, <2>2, LocalsUpdate DEF Steps
  <2>4. l.pc = "pin" /\ SameSettled(l, j) /\ l.source = j.source
    BY <1>0, LocalsFields DEF SameSettled
  <2>5. Adding(l) => l.source # NoValue
    BY <1>0, <1>1, <2>4 DEF TakeEntries, LocalsOK, Adding, SameSettled
  <2> QED BY <1>1, <2>3, <2>4, <2>5, WantingLocals DEF TakeEntries, Wanting, entries
<1>2. CASE PinExact(b)
  <2> DEFINE g == Wanted(b)
             l == [j EXCEPT !.pc = "seed"]
  <2>0. g \in Graphs /\ j.pc = "pin"
    BY <1>2, <1>a DEF PinExact, Wanting
  <2>1. graphs[g] # NoValue => graphs[g] \in Images
    BY <2>0 DEF TypeInv, TypeOK
  <2>2. l \in Locals
    BY <1>0, LocalsUpdate DEF Steps
  <2>3. l.pc = "seed" /\ SameSettled(l, j) /\ l.source = j.source
    BY <1>0, LocalsFields DEF SameSettled
  <2>a. Adding(l) => l.source # NoValue
    BY <1>0, <2>0, <2>3 DEF LocalsOK, Adding, SameSettled
  <2>4. CASE Goto(b, "seed")
    BY <2>0, <2>2, <2>3, <2>4, <2>a, WantingLocals DEF Goto, Wanting
  <2>5. CASE Healthy(g, graphs[g]) /\ Pinned(b, graphs[g])
    BY <2>0, <2>1, <2>5, PinnedLocals DEF Healthy
  <2>6. CASE QuarantineGraph(b, g, j.target, j.entries, j.source)
    BY <1>0, <1>a, <2>0, <2>6, LocalsFields, QuarantineGraphLocals
  <2> QED BY <1>2, <2>4, <2>5, <2>6 DEF PinExact
<1>3. CASE Seed(b)
  <2>0. j.pc = "seed"
    BY <1>3 DEF Seed
  <2>1. ASSUME NEW e \in Candidates(b),
               QuarantineGraph(b, GraphOf[e.snapshot], e.snapshot, j.entries \ {e}, NoValue)
        PROVE  job' \in [Builders -> Locals] /\ LocalInv'
    <3>1. j.entries \in SUBSET Entries /\ j.target \in Snapshots
      BY <1>0, <1>a, <2>0, LocalsFields
    <3>2. e.snapshot \in Snapshots
      BY <2>1, <3>1, CacheAssumption DEF Candidates, NeedsSource, Entries
    <3>3. GraphOf[e.snapshot] \in Graphs
      BY <3>2, CacheAssumption
    <3> QED BY <2>0, <2>1, <3>1, <3>2, <3>3, QuarantineGraphLocals
  <2> QED BY <1>3, <2>0, <2>1, BuiltLocals DEF Seed
<1>4. CASE QuarantineAffected(b)
  <2> DEFINE ids == j.ids \union
                      {s \in Snapshots : loaded[Host[b]][s] # NoValue /\ Uses(s, j.victim)}
             names == {ManifestName(s) : s \in ids}
             l == [j EXCEPT !.pc = "q_check", !.ids = ids, !.back = "evict",
                            !.names = names]
  <2>1. ids \in SUBSET Snapshots
    BY <1>0, LocalsFields
  <2>2. names \in SUBSET Names
    BY <2>1 DEF Names, ManifestName
  <2>3. j.victim \in Graphs
    BY <1>0, <1>4 DEF QuarantineAffected, LocalsOK, Evicting
  <2> HIDE DEF ids, names
  <2>4. l \in Locals
    BY <1>0, <2>1, <2>2, LocalsUpdate DEF Steps
  <2>5. /\ l.pc = "q_check" /\ l.back = "evict" /\ l.victim = j.victim
        /\ SameSettled(l, j) /\ l.source = j.source
    BY <1>0, LocalsFields DEF SameSettled
  <2>6. Becomes(b, l)
    BY <1>4 DEF QuarantineAffected, ids, names
  <2>7. Wanting(j)
    BY <1>4 DEF QuarantineAffected, Wanting, Evicting
  <2> HIDE DEF l
  <2> QED BY <2>3, <2>4, <2>5, <2>6, <2>7, WantingLocals
<1>5. CASE Evict(b)
  <2> DEFINE l == [j EXCEPT !.pc = "seed", !.ids = {}, !.victim = NoValue]
  <2>1. l \in Locals
    BY <1>0, LocalsUpdate DEF Steps
  <2>2. l.pc = "seed" /\ SameSettled(l, j) /\ l.source = j.source
    BY <1>0, LocalsFields DEF SameSettled
  <2>3. Wanting(j)
    BY <1>5 DEF Evict, Wanting, Evicting
  <2>4. CASE NeedsSource(b) /\ j.source = NoValue
    BY <1>5, <2>4, RestInv DEF Evict, Resting
  <2>5. CASE ~ (NeedsSource(b) /\ j.source = NoValue)
    <3>1. Adding(l) => l.source # NoValue
      BY <2>2, <2>5 DEF NeedsSource, Adding, SameSettled
    <3> QED BY <1>5, <2>1, <2>2, <2>3, <2>5, <3>1, WantingLocals DEF Evict
  <2> QED BY <2>4, <2>5
<1>6. CASE LinkBase(b)
  <2> DEFINE l == [j EXCEPT !.pc = "base_open"]
  <2>1. l \in Locals
    BY <1>0, LocalsUpdate DEF Steps
  <2>2. l.pc = "base_open" /\ SameGraphs(l, j)
    BY <1>0, LocalsFields DEF SameGraphs
  <2>3. LocalsOK(l)
    BY <1>0, <1>6, <1>a, <2>2 DEF LinkBase, LocalsOK, Attaching, Quarantining, Preparing, Evicting,
       Wanting, Adding, Before, Opening, Publishing, SameGraphs, HeadSettled
  <2> QED BY <1>6, <2>1, <2>3, BecomesInv DEF LinkBase, Goto
<1>7. CASE OpenBase(b)
  <2> DEFINE g == BaseOf[j.target]
  <2>1. g \in Graphs
    BY <1>0, <1>7 DEF OpenBase, LocalsOK, Opening
  <2>2. graphs[g] # NoValue => graphs[g] \in Images
    BY <2>1 DEF TypeInv, TypeOK
  <2> QED BY <1>7, <2>2, PinnedLocals, RestInv DEF OpenBase, Healthy, Resting
<1> QED BY <1>1, <1>2, <1>3, <1>4, <1>5, <1>6, <1>7 DEF Build

(* and each step that publishes.                                           *)
LEMMA PublishLocals ==
  ASSUME TypeInv, NEW b \in Builders, Publish(b)
  PROVE  job' \in [Builders -> Locals] /\ LocalInv'
<1> DEFINE j == job[b]
<1>0. j \in Locals /\ LocalsOK(j)
  BY DEF TypeInv, TypeOK, LocalInv
<1> USE DEF At
<1>a. {"review_read", "graph_link", "graph_open", "base_check", "manifest_link", "final_read",
       "final_check"} \subseteq Resting \union Steps
  BY DEF Steps
<1>b. ASSUME j.pc \in Publishing \union {"final_read", "final_check"}
      PROVE  /\ j.target \in Snapshots
             /\ GraphOf[j.target] \in Graphs
  BY <1>0, <1>b, CacheAssumption DEF LocalsOK, Attaching, Publishing, Steps
<1>c. ASSUME j.pc \in Publishing,
             NEW pc \in Publishing \union {"final_read"}, Goto(b, pc),
             pc = "review_read" => j.pc = "review_link",
             pc = "graph_link" => j.own /\ j.pc = "review_read",
             pc = "graph_open" => j.own \/ j.pc = "review_read",
             pc = "manifest_link" => j.pc = "base_check",
             pc \notin {"review_link", "base_check"}
      PROVE  job' \in [Builders -> Locals] /\ LocalInv'
  <2> DEFINE l == [j EXCEPT !.pc = pc]
  <2>1. l \in Locals
    BY <1>0, <1>c, LocalsUpdate DEF Publishing, Steps
  <2>2. l.pc = pc /\ SameGraphs(l, j)
    BY <1>0, LocalsFields DEF SameGraphs
  <2>3. LocalsOK(l)
    BY <1>0, <1>b, <1>c, <2>2 DEF LocalsOK, Attaching, Quarantining, Preparing, Evicting,
       Wanting, Adding, Before, Opening, Publishing, SameGraphs, HeadSettled
  <2> QED BY <1>c, <2>1, <2>3, BecomesInv DEF Goto
<1>1. CASE LinkReview(b)
  BY <1>1, <1>c DEF LinkReview, Publishing
<1>2. CASE ReadReview(b)
  BY <1>2, <1>c, RestInv DEF ReadReview, Publishing, Resting
<1>3. CASE LinkHead(b)
  BY <1>0, <1>3, <1>c DEF LinkHead, Publishing, LocalsOK
<1>4. CASE OpenHead(b)
  <2> DEFINE g == GraphOf[j.target]
             l == [j EXCEPT !.pc = "base_check", !.exact = graphs[g]]
  <2>1. graphs[g] \in Images \union {NoValue}
    BY <1>4, <1>b DEF OpenHead, Publishing, TypeInv, TypeOK
  <2>2. l \in Locals
    BY <1>0, <1>a, <2>1, LocalsUpdate
  <2>3. /\ l.pc = "base_check" /\ l.exact = graphs[g] /\ l.target = j.target /\ l.base = j.base
        /\ l.source = j.source
    BY <1>0, LocalsFields
  <2>4. ASSUME graphs[g] # NoValue PROVE LocalsOK(l)
    BY <1>0, <1>4, <1>b, <2>1, <2>3, <2>4 DEF OpenHead, LocalsOK, Attaching, Quarantining,
       Preparing, Evicting, Wanting, Adding, Before, Opening, Publishing
  <2> QED BY <1>4, <2>2, <2>4, BecomesInv, RestInv DEF OpenHead, Healthy, Resting
<1>5. CASE CheckBase(b)
  BY <1>5, <1>c, RestInv DEF CheckBase, Publishing, Resting
<1>6. CASE LinkManifest(b)
  BY <1>6, <1>c DEF LinkManifest, Publishing
<1>7. CASE FinalRead(b)
  <2> DEFINE m == manifests[j.target]
             l == [j EXCEPT !.pc = "final_check", !.held = m]
  <2>1. m \in Manifest \union {Junk, NoValue}
    BY <1>7, <1>b DEF FinalRead, TypeInv, TypeOK
  <2>2. l \in Locals
    BY <1>0, <1>a, <2>1, LocalsUpdate
  <2>3. l.pc = "final_check" /\ l.held = m /\ l.target = j.target /\ l.source = j.source
    BY <1>0, LocalsFields
  <2>4. ASSUME m # NoValue PROVE LocalsOK(l)
    BY <1>0, <1>7, <1>b, <2>1, <2>3, <2>4 DEF FinalRead, LocalsOK, Attaching, Quarantining,
       Preparing, Evicting, Wanting, Adding, Before, Opening, Publishing
  <2> QED BY <1>7, <2>2, <2>4, BecomesInv, RestInv DEF FinalRead, Resting
<1>8. CASE FinalCheck(b)
  BY <1>8, RestInv DEF FinalCheck, Resting
<1> QED BY <1>1, <1>2, <1>3, <1>4, <1>5, <1>6, <1>7, <1>8 DEF Publish

(* A builder starts, is cancelled, or dies with its process.               *)
LEMMA StartLocals ==
  ASSUME TypeInv, NEW b \in Builders, NEW t \in Snapshots \union {NoValue}, Start(b, t)
  PROVE  job' \in [Builders -> Locals] /\ LocalInv'
<1> DEFINE l == [Idle EXCEPT !.pc = "list", !.target = t]
<1>1. l \in Locals /\ LocalsOK(l) /\ Becomes(b, l)
  BY IdleLocals DEF Start
<1> HIDE DEF l
<1> QED BY <1>1, BecomesInv

LEMMA CrashLocals ==
  ASSUME TypeInv, NEW p \in Processes, Crash(p)
  PROVE  job' \in [Builders -> Locals] /\ LocalInv'
<1>1. Idle \in Locals
  BY DEF Idle, Locals, Resting, Steps
<1>2. LocalsOK(Idle)
  BY DEF Idle, LocalsOK, Attaching, Quarantining, Preparing, Evicting, Wanting, Adding, Before,
         Opening, Publishing, Steps
<1>3. ASSUME NEW b \in Builders
      PROVE  job'[b] \in Locals /\ LocalsOK(job'[b])
  BY <1>1, <1>2 DEF Crash, TypeInv, TypeOK, LocalInv
<1>4. job' \in [Builders -> Locals]
  BY <1>3 DEF Crash
<1> QED BY <1>3, <1>4 DEF LocalInv, LocalsOK, Preparing, Evicting, Wanting, Adding, Before, NothingSettled,
                      HeadSettled

(* Whoever moves, the locals have their types.                             *)
LEMMA LocalsStep ==
  ASSUME TypeInv, Next
  PROVE  job' \in [Builders -> Locals] /\ LocalInv'
<1>1. ASSUME NEW b \in Builders, Moves(b)
      PROVE  job' \in [Builders -> Locals] /\ LocalInv'
  BY <1>1, AttachLocals, PrepareLocals, BuildLocals, PublishLocals DEF Moves, Step
<1>2. CASE Fault
  BY <1>2 DEF Fault, TypeInv, TypeOK, LocalInv
<1> QED BY <1>1, <1>2, StartLocals, RestInv, CrashLocals DEF Next, Cancel, Resting

----------------------------------------------------------------------------
(* What changes the catalogs, and the loss of a name, keep the types.      *)
LEMMA EntryType ==
  ASSUME NEW T, NEW f \in [Processes -> [Snapshots -> T]],
         NEW p \in Processes, NEW s \in Snapshots, NEW v \in T
  PROVE  [f EXCEPT ![p][s] = v] \in [Processes -> [Snapshots -> T]]
<1>1. [f[p] EXCEPT ![s] = v] \in [Snapshots -> T]
  OBVIOUS
<1> QED BY <1>1

LEMMA CatalogType ==
  ASSUME TypeOK, NEW p \in Processes, NEW s \in Snapshots
  PROVE  /\ \A m \in Manifest : Accept(p, s, m) =>
              /\ loaded' \in [Processes -> [Snapshots -> Manifest \union {NoValue}]]
              /\ rejected' \in [Processes -> [Snapshots -> Rejections \union {NoValue}]]
         /\ \A kind \in Rejections : Reject(p, s, kind) =>
              /\ loaded' \in [Processes -> [Snapshots -> Manifest \union {NoValue}]]
              /\ rejected' \in [Processes -> [Snapshots -> Rejections \union {NoValue}]]
<1>1. ASSUME NEW m \in Manifest \union {NoValue}
      PROVE  [loaded EXCEPT ![p][s] = m] \in [Processes -> [Snapshots -> Manifest \union {NoValue}]]
  BY EntryType DEF TypeOK
<1>2. ASSUME NEW kind \in Rejections \union {NoValue}
      PROVE  [rejected EXCEPT ![p][s] = kind]
               \in [Processes -> [Snapshots -> Rejections \union {NoValue}]]
  BY EntryType DEF TypeOK
<1>3. ASSUME NEW m \in Manifest, Accept(p, s, m)
      PROVE  /\ loaded' \in [Processes -> [Snapshots -> Manifest \union {NoValue}]]
             /\ rejected' \in [Processes -> [Snapshots -> Rejections \union {NoValue}]]
  <2>1. /\ loaded' = [loaded EXCEPT ![p][s] = m]
        /\ rejected' = [rejected EXCEPT ![p][s] = NoValue]
    BY <1>3 DEF Accept
  <2>2. loaded' \in [Processes -> [Snapshots -> Manifest \union {NoValue}]]
    BY <1>1, <2>1
  <2>3. rejected' \in [Processes -> [Snapshots -> Rejections \union {NoValue}]]
    BY <1>2, <2>1
  <2> QED BY <2>2, <2>3
<1>4. ASSUME NEW kind \in Rejections, Reject(p, s, kind)
      PROVE  /\ loaded' \in [Processes -> [Snapshots -> Manifest \union {NoValue}]]
             /\ rejected' \in [Processes -> [Snapshots -> Rejections \union {NoValue}]]
  <2>1. /\ loaded' = [loaded EXCEPT ![p][s] = NoValue]
        /\ rejected' = [rejected EXCEPT ![p][s] = kind]
    BY <1>4 DEF Reject
  <2>2. loaded' \in [Processes -> [Snapshots -> Manifest \union {NoValue}]]
    BY <1>1, <2>1
  <2>3. rejected' \in [Processes -> [Snapshots -> Rejections \union {NoValue}]]
    BY <1>2, <2>1
  <2> QED BY <2>2, <2>3
<1> QED BY <1>3, <1>4

(* Only the entry of that snapshot changes.                                *)
LEMMA AcceptValues ==
  ASSUME TypeOK, NEW p \in Processes, NEW s \in Snapshots, NEW m, Accept(p, s, m),
         NEW q \in Processes, NEW u \in Snapshots
  PROVE  /\ loaded'[q][u] = IF q = p /\ u = s THEN m ELSE loaded[q][u]
         /\ rejected'[q][u] = IF q = p /\ u = s THEN NoValue ELSE rejected[q][u]
<1>1. /\ DOMAIN loaded = Processes /\ DOMAIN loaded[q] = Snapshots
      /\ DOMAIN loaded[p] = Snapshots
  BY DEF TypeOK
<1>2. /\ DOMAIN rejected = Processes /\ DOMAIN rejected[q] = Snapshots
      /\ DOMAIN rejected[p] = Snapshots
  BY DEF TypeOK
<1> QED BY <1>1, <1>2 DEF Accept

LEMMA RejectValues ==
  ASSUME TypeOK, NEW p \in Processes, NEW s \in Snapshots, NEW k, Reject(p, s, k),
         NEW q \in Processes, NEW u \in Snapshots
  PROVE  /\ loaded'[q][u] = IF q = p /\ u = s THEN NoValue ELSE loaded[q][u]
         /\ rejected'[q][u] = IF q = p /\ u = s THEN k ELSE rejected[q][u]
<1>1. /\ DOMAIN loaded = Processes /\ DOMAIN loaded[q] = Snapshots
      /\ DOMAIN loaded[p] = Snapshots
  BY DEF TypeOK
<1>2. /\ DOMAIN rejected = Processes /\ DOMAIN rejected[q] = Snapshots
      /\ DOMAIN rejected[p] = Snapshots
  BY DEF TypeOK
<1> QED BY <1>1, <1>2 DEF Reject

LEMMA ForgetType ==
  ASSUME TypeOK, NEW p \in Processes, NEW ids, Forget(p, ids)
  PROVE  /\ loaded' \in [Processes -> [Snapshots -> Manifest \union {NoValue}]]
         /\ rejected' \in [Processes -> [Snapshots -> Rejections \union {NoValue}]]
  BY DEF TypeOK, Forget

LEMMA UnlinkType ==
  ASSUME TypeOK, NEW n, Unlink(n)
  PROVE  /\ graphs' \in [Graphs -> Images \union {NoValue}]
         /\ reviews' \in [Reviews -> {"absent", "good", "bad"}]
         /\ manifests' \in [Snapshots -> Manifest \union {Junk, NoValue}]
  BY DEF TypeOK, Unlink

LEMMA LinkGraphType ==
  ASSUME TypeOK, NEW g \in Graphs, LinkGraph(g)
  PROVE  /\ graphs' \in [Graphs -> Images \union {NoValue}]
         /\ nextImage' \in 1 .. MaxImages + 1
  BY CacheAssumption DEF TypeOK, LinkGraph, Images

CatalogTypes ==
  /\ loaded \in [Processes -> [Snapshots -> Manifest \union {NoValue}]]
  /\ rejected \in [Processes -> [Snapshots -> Rejections \union {NoValue}]]
DiskTypes ==
  /\ graphs \in [Graphs -> Images \union {NoValue}]
  /\ damaged \in SUBSET Images
  /\ reviews \in [Reviews -> {"absent", "good", "bad"}]
  /\ manifests \in [Snapshots -> Manifest \union {Junk, NoValue}]
  /\ nextImage \in 1 .. MaxImages + 1
  /\ faults \in 0 .. MaxFaults

(* The catalogs hold values of their types whatever a builder does,        *)
LEMMA CatalogStep ==
  ASSUME TypeInv, NEW b \in Builders, Step(b)
  PROVE  CatalogTypes'
<1>0. TypeOK /\ Host[b] \in Processes
  BY CacheAssumption DEF TypeInv
<1> USE DEF CatalogTypes
<1>a. "hard" \in Rejections /\ \A s, m : Rejection(s, m) \in Rejections
  BY DEF Rejection, Rejections, Repairable
<1>b. ValidateSource(b) => UNCHANGED catalogVars
  BY DEF ValidateSource
<1>1. CASE UNCHANGED catalogVars
  BY <1>0, <1>1 DEF catalogVars, TypeOK
<1>2. ASSUME NEW s \in Snapshots, LoadManifest(b, s)
      PROVE  CatalogTypes'
  BY <1>0, <1>1, <1>2, <1>a, CatalogType DEF LoadManifest
<1>3. CASE CheckFiles(b)
  <2>1. job[b].current \in Snapshots
    BY <1>3 DEF CheckFiles, At, TypeInv, LocalInv, LocalsOK
  <2>2. Loads(job[b].current, job[b].held) => job[b].held \in Manifest
    BY DEF Loads
  <2> QED BY <1>0, <1>3, <1>a, <2>1, <2>2, CatalogType DEF CheckFiles
<1>4. CASE Reconcile(b)
  BY <1>0, <1>4, ForgetType DEF Reconcile
<1>5. CASE QuarantineForget(b)
  BY <1>0, <1>5, ForgetType DEF QuarantineForget
<1>6. CASE Evict(b)
  BY <1>0, <1>6 DEF Evict, TypeOK
<1>7. CASE FinalCheck(b)
  <2>1. job[b].target \in Snapshots
    BY <1>7 DEF FinalCheck, At, TypeInv, LocalInv, LocalsOK, Attaching, Steps
  <2>2. Loads(job[b].target, job[b].held) => job[b].held \in Manifest
    BY DEF Loads
  <2> QED BY <1>0, <1>1, <1>7, <2>1, <2>2, CatalogType DEF FinalCheck
<1> QED
  BY <1>b, <1>1, <1>2, <1>3, <1>4, <1>5, <1>6, <1>7
  DEF Step, Attach, Prepare, Build, Publish, List, PrepareManifest, PrepareReview, Sweep,
      QuarantineCheck, QuarantineRename, TakeEntries, PinExact, Seed, QuarantineAffected,
      LinkBase, OpenBase, LinkReview, ReadReview, LinkHead, OpenHead, CheckBase, LinkManifest,
      FinalRead

(* and so does the disk.                                                   *)
LEMMA DiskStep ==
  ASSUME TypeInv, NEW b \in Builders, Step(b)
  PROVE  DiskTypes'
<1>0. TypeOK
  BY DEF TypeInv
<1> USE DEF DiskTypes
<1>a. ASSUME job[b].pc \in Steps \ Attaching
      PROVE  job[b].target \in Snapshots
  BY <1>a DEF TypeInv, LocalInv, LocalsOK
<1>b. ValidateSource(b) => UNCHANGED diskVars
  BY DEF ValidateSource
<1>1. CASE UNCHANGED diskVars
  BY <1>0, <1>1 DEF diskVars, fileVars, TypeOK
<1>2. CASE QuarantineRename(b)
  <2>1. CASE UNCHANGED fileVars
    BY <1>0, <1>2, <2>1 DEF QuarantineRename, fileVars, TypeOK
  <2>2. CASE Unlink(job[b].current)
    BY <1>0, <1>2, <2>2, UnlinkType DEF QuarantineRename, TypeOK
  <2> QED BY <1>2, <2>1, <2>2 DEF QuarantineRename
<1>3. CASE LinkBase(b)
  <2>1. BaseOf[job[b].target] \in Graphs
    BY <1>3 DEF LinkBase, At, TypeInv, LocalInv, LocalsOK, Opening
  <2> QED BY <1>0, <1>3, <2>1, LinkGraphType DEF LinkBase, TypeOK
<1>4. CASE LinkReview(b)
  BY <1>0, <1>4 DEF LinkReview, TypeOK
<1>5. CASE LinkHead(b)
  <2>1. GraphOf[job[b].target] \in Graphs
    BY <1>5, <1>a, CacheAssumption DEF LinkHead, At, Steps, Attaching
  <2> QED BY <1>0, <1>5, <2>1, LinkGraphType DEF LinkHead, TypeOK
<1>6. CASE LinkManifest(b)
  <2>1. job[b].exact \in Images
    BY <1>6 DEF LinkManifest, At, TypeInv, LocalInv, LocalsOK
  <2>2. job[b].base \in Images \union {NoValue}
    BY LocalsFields DEF TypeInv, TypeOK
  <2>3. [graph |-> job[b].exact, base |-> job[b].base] \in Manifest
    BY <2>1, <2>2 DEF Manifest
  <2> QED BY <1>0, <1>6, <2>3 DEF LinkManifest, TypeOK
<1> QED
  BY <1>b, <1>1, <1>2, <1>3, <1>4, <1>5, <1>6
  DEF Step, Attach, Prepare, Build, Publish, List, LoadManifest, CheckFiles, Reconcile,
      PrepareManifest, PrepareReview, Sweep, QuarantineCheck, QuarantineForget, TakeEntries,
      PinExact, Seed, QuarantineAffected, Evict, OpenBase, ReadReview, OpenHead, CheckBase,
      FinalRead, FinalCheck

LEMMA TypeInit == Init => TypeInv
<1> SUFFICES ASSUME Init PROVE TypeInv
  OBVIOUS
<1>1. Idle \in Locals
  BY DEF Idle, Locals, Resting, Steps
<1>2. LocalsOK(Idle)
  BY DEF Idle, LocalsOK, Attaching, Quarantining, Preparing, Evicting, Wanting, Adding, Before,
         Opening, Publishing, Steps
<1>3. TypeOK
  BY <1>1, CacheAssumption DEF Init, TypeOK, Images
<1> QED BY <1>2, <1>3 DEF Init, TypeInv, LocalInv

LEMMA TypeStep == TypeInv /\ [Next]_vars => TypeInv'
<1> SUFFICES ASSUME TypeInv, [Next]_vars PROVE TypeInv'
  OBVIOUS
<1>0. TypeOK
  BY DEF TypeInv
<1>1. CASE UNCHANGED vars
  BY <1>0, <1>1 DEF TypeInv, TypeOK, LocalInv, vars, diskVars, fileVars, catalogVars, LocalsOK, Preparing, Evicting,
                    Wanting, Adding, Before, NothingSettled, HeadSettled
<1>2. CASE Next
  <2>1. job' \in [Builders -> Locals] /\ LocalInv'
    BY <1>2, LocalsStep
  <2>2. \A b \in Builders : alone[b] \in BOOLEAN
    BY <1>0 DEF TypeOK
  <2>3. alone' \in [Builders -> BOOLEAN]
    BY <1>2, <2>2 DEF Next, Moves
  <2>4. DiskTypes' /\ CatalogTypes'
    <3>1. CASE UNCHANGED diskVars /\ UNCHANGED catalogVars
      BY <1>0, <3>1 DEF diskVars, fileVars, catalogVars, TypeOK, DiskTypes, CatalogTypes
    <3>2. ASSUME NEW b \in Builders, Step(b)
          PROVE  DiskTypes' /\ CatalogTypes'
      BY <3>2, DiskStep, CatalogStep
    <3>3. CASE Fault
      <4>1. faults' \in 0 .. MaxFaults /\ nextImage' \in 1 .. MaxImages + 1 /\ CatalogTypes'
        BY <1>0, <3>3, CacheAssumption DEF Fault, TypeOK, CatalogTypes, catalogVars
      <4>2. ASSUME NEW g \in Graphs, DamageGraph(g)
            PROVE  DiskTypes'
        BY <1>0, <4>1, <4>2 DEF DamageGraph, fileVars, TypeOK, DiskTypes
      <4>3. ASSUME NEW n \in Names, Overwrite(n)
            PROVE  DiskTypes'
        BY <1>0, <4>1, <4>3 DEF Overwrite, TypeOK, DiskTypes
      <4>4. ASSUME NEW n \in Names, Delete(n)
            PROVE  DiskTypes'
        BY <1>0, <4>1, <4>4, UnlinkType DEF Delete, TypeOK, DiskTypes
      <4> QED BY <3>3, <4>1, <4>2, <4>3, <4>4 DEF Fault
    <3>4. ASSUME NEW p \in Processes, Crash(p)
          PROVE  DiskTypes' /\ CatalogTypes'
      BY <1>0, <3>4 DEF Crash, diskVars, fileVars, TypeOK, DiskTypes, CatalogTypes
    <3> QED BY <1>2, <3>1, <3>2, <3>3, <3>4 DEF Next, Moves, Start, Cancel
  <2> QED BY <2>1, <2>3, <2>4 DEF TypeInv, TypeOK, DiskTypes, CatalogTypes
<1> QED BY <1>1, <1>2

(* The disk, the catalogs and the locals of every builder always hold      *)
(* values of their types.                                                  *)
THEOREM TypesHold == Spec => []TypeOK
<1>1. Spec => []TypeInv
  BY TypeInit, TypeStep, PTL DEF Spec
<1>2. TypeInv => TypeOK
  BY DEF TypeInv
<1> QED BY <1>1, <1>2, PTL

----------------------------------------------------------------------------
(* Without faults: files only appear.                                      *)
Grows ==
  /\ damaged' = damaged
  /\ \A g \in Graphs : graphs[g] # NoValue => graphs'[g] = graphs[g]
  /\ \A r \in Reviews : reviews[r] = "good" => reviews'[r] = "good"
  /\ \A s \in Snapshots : manifests[s] # NoValue => manifests'[s] = manifests[s]

LEMMA LoadsGrows ==
  ASSUME NEW s \in Snapshots, NEW m, Loads(s, m), Grows
  PROVE  Loads(s, m)'
<1>1. /\ m.graph # NoValue /\ graphs[GraphOf[s]] = m.graph /\ GraphOf[s] \in Graphs
      /\ ReviewOf[s] \in Reviews
      /\ BaseOf[s] # NoValue =>
           m.base # NoValue /\ graphs[BaseOf[s]] = m.base /\ BaseOf[s] \in Graphs
  BY CacheAssumption DEF Loads, Healthy
<1> QED BY <1>1 DEF Loads, Healthy, Grows

LEMMA LinkedGrows ==
  ASSUME NEW g \in Graphs, NEW image, Linked(g, image), Grows
  PROVE  Linked(g, image)'
  BY DEF Linked, Grows

(* Nothing broken appears in CalmDisk but a manifest.                      *)
LEMMA CalmDiskGrows ==
  ASSUME CalmDisk, Grows, UNCHANGED manifests,
         \A r \in Reviews : reviews'[r] \in {reviews[r], "good"}
  PROVE  CalmDisk'
<1>1. ASSUME NEW s \in Snapshots, manifests'[s] # NoValue
      PROVE  Loadable(s)'
  <2>1. Loads(s, manifests[s])' => Loadable(s)'
    BY DEF Loadable
  <2>2. Loads(s, manifests[s])
    BY <1>1 DEF CalmDisk, Loadable
  <2> QED BY <2>1, <2>2, LoadsGrows DEF Loadable, Loads, Healthy
<1> QED BY <1>1 DEF CalmDisk, Grows

(* What a builder has seen stays true while others only add files.         *)
LEMMA CalmBuilderGrows ==
  ASSUME NEW l \in Locals, LocalsOK(l), CalmBuilder(l), Grows
  PROVE  CalmBuilder(l)'
<1>1. /\ l.pc \in Steps \ Attaching => l.target \in Snapshots
      /\ l.pc = "check" => l.current \in Snapshots /\ l.held # NoValue
      /\ l.pc = "final_check" => l.held # NoValue
      /\ l.pc = "base_open" => BaseOf[l.target] \in Graphs
      /\ l.pc \in Publishing /\ l.base # NoValue => BaseOf[l.target] \in Graphs
  BY CacheAssumption DEF LocalsOK, Attaching, Steps, Opening, Manifest, Publishing, Images
<1>2. \A e \in l.entries : e.snapshot \in Snapshots
  BY LocalsFields DEF Entries
<1>3. l.unread \in SUBSET Snapshots
  BY LocalsFields
<1>4. \A s \in Snapshots : GraphOf[s] \in Graphs /\ ReviewOf[s] \in Reviews
  BY CacheAssumption
<1>5. /\ \A e \in l.entries : Linked(GraphOf[e.snapshot], e.image)'
      /\ l.pc \in Steps \ Attaching /\ l.exact # NoValue =>
           Linked(GraphOf[l.target], l.exact)'
      /\ l.pc \in Publishing /\ l.base # NoValue => Linked(BaseOf[l.target], l.base)'
  BY <1>1, <1>2, <1>4, LinkedGrows DEF CalmBuilder
<1>6. l.source # NoValue => Linked(GraphOf[SourceOf[l.target]], l.source)'
  BY <1>4, CacheAssumption, LinkedGrows DEF CalmBuilder, LocalsOK
<1>7. l.pc \in Publishing \union {"final_read", "final_check"} => l.pc \in Steps \ Attaching
  BY DEF Publishing, Attaching, Steps
<1> QED BY <1>1, <1>3, <1>4, <1>5, <1>7, <1>6 DEF CalmBuilder, Grows, Publishing

(* A step of one builder that files, catalogs and its own locals survive.  *)
LEMMA CalmMove ==
  ASSUME TypeInv, CalmInv, faults = 0, UNCHANGED faults, Grows, CalmDisk', CalmCatalogs',
         NEW b \in Builders, NEW l \in Locals, Becomes(b, l), CalmBuilder(l)'
  PROVE  CalmInv'
<1>1. /\ job'[b] = l
      /\ \A c \in Builders \ {b} : job'[c] = job[c]
  BY BecomesType DEF TypeInv, TypeOK
<1>2. ASSUME NEW c \in Builders
      PROVE  CalmBuilder(job[c])'
  <2>1. CASE c = b
    BY <1>1, <2>1 DEF CalmBuilder, Linked
  <2>2. CASE c # b
    <3>1. job[c] \in Locals /\ LocalsOK(job[c]) /\ CalmBuilder(job[c])
      BY DEF TypeInv, TypeOK, LocalInv, CalmInv
    <3> DEFINE k == job[c]
    <3> HIDE DEF k
    <3>2. ASSUME NEW m \in Locals, LocalsOK(m), CalmBuilder(m) PROVE CalmBuilder(m)'
      BY <3>2, CalmBuilderGrows
    <3>3. job'[c] = job[c]
      BY <1>1, <2>2
    <3> QED BY <3>1, <3>2, <3>3 DEF CalmBuilder, Linked
  <2> QED BY <2>1, <2>2
<1> QED BY <1>2 DEF CalmInv

LEMMA CalmQuiet ==
  ASSUME TypeInv, CalmInv, faults = 0, UNCHANGED diskVars, CalmCatalogs',
         NEW b \in Builders, NEW l \in Locals, Becomes(b, l), CalmBuilder(l)
  PROVE  CalmInv'
<1>1. Grows
  BY DEF Grows, diskVars, fileVars
<1>2. CalmDisk'
  BY DEF CalmInv, CalmDisk, Loadable, Loads, Healthy, diskVars, fileVars
<1>3. CalmBuilder(l)'
  BY DEF CalmBuilder, Linked, diskVars, fileVars
<1> QED BY <1>1, <1>2, <1>3, CalmMove DEF diskVars

LEMMA CalmCatalogsQuiet ==
  ASSUME CalmInv, faults = 0, UNCHANGED catalogVars, Grows
  PROVE  CalmCatalogs'
  BY DEF CalmInv, CalmCatalogs, Grows, catalogVars

(* A builder that starts, or ends other than by failing, holds nothing.    *)
LEMMA CalmRest ==
  ASSUME NEW t, NEW pc \in {"idle", "list", "completed", "cancelled"}
  PROVE  CalmBuilder([Idle EXCEPT !.pc = pc, !.target = t])
<1> DEFINE l == [Idle EXCEPT !.pc = pc, !.target = t]
<1>1. l.pc = pc /\ l.unread = {} /\ l.entries = {} /\ l.exact = NoValue /\ l.base = NoValue
      /\ l.source = NoValue
  BY DEF Idle
<1> QED BY <1>1 DEF CalmBuilder, Publishing, Quarantining

LEMMA CalmEnd ==
  ASSUME TypeInv, CalmInv, faults = 0, UNCHANGED diskVars, CalmCatalogs',
         NEW b \in Builders, NEW how \in {"completed", "cancelled"}, Rest(b, how)
  PROVE  CalmInv'
<1> DEFINE t == job[b].target
           l == [Idle EXCEPT !.pc = how, !.target = t]
<1>1. t \in Snapshots \union {NoValue}
  BY LocalsFields DEF TypeInv, TypeOK
<1>2. l \in Locals
  BY <1>1, IdleLocals DEF Resting
<1>3. CalmBuilder(l)
  BY CalmRest
<1>4. Becomes(b, l)
  BY DEF Rest
<1> QED BY <1>2, <1>3, <1>4, CalmQuiet

LEMMA CalmAttach ==
  ASSUME TypeInv, CalmInv, faults = 0, NEW b \in Builders, Attach(b)
  PROVE  CalmInv'
<1> DEFINE j == job[b]
<1>0. j \in Locals /\ LocalsOK(j) /\ CalmBuilder(j) /\ CalmDisk /\ CalmCatalogs
  BY DEF TypeInv, TypeOK, LocalInv, CalmInv
<1>a. {"reconcile", "load", "check", "prepare", "source"} \subseteq Resting \union Steps
  BY DEF Steps
<1>b. Host[b] \in Processes
  BY CacheAssumption
<1>c. ASSUME UNCHANGED diskVars, UNCHANGED catalogVars
      PROVE  CalmCatalogs'
  BY <1>c, <1>0 DEF CalmCatalogs, diskVars, fileVars, catalogVars
<1> USE DEF At, AfterLoad
<1>1. CASE List(b)
  <2> DEFINE present == {s \in Snapshots : manifests[s] # NoValue}
             l == [j EXCEPT !.pc = AfterLoad(present), !.ids = present,
                            !.unread = present]
  <2>1. l \in Locals
    BY <1>0, <1>a, LocalsUpdate
  <2>2. /\ l.pc \in {"reconcile", "load"} /\ l.unread = present
        /\ l.entries = j.entries /\ l.source = j.source /\ l.target = j.target
    BY <1>0, LocalsFields
  <2>3. CalmBuilder(l)
    BY <1>0, <2>2 DEF CalmBuilder, Quarantining, Publishing, Attaching
  <2> QED BY <1>1, <1>c, <2>1, <2>3, CalmQuiet DEF List
<1>2. ASSUME NEW s \in Snapshots, LoadManifest(b, s)
      PROVE  CalmInv'
  <2> DEFINE l == [j EXCEPT !.pc = "check", !.current = s, !.held = manifests[s]]
  <2>1. l \in Locals
    BY <1>0, <1>a, LocalsFields, LocalsUpdate DEF TypeInv, TypeOK
  <2>2. /\ l.pc = "check" /\ l.unread = j.unread /\ l.current = s
        /\ l.held = manifests[s] /\ l.entries = j.entries
        /\ l.source = j.source /\ l.target = j.target
    BY <1>0, LocalsFields
  <2>3. CalmBuilder(l)
    BY <1>0, <1>2, <2>2 DEF LoadManifest, CalmBuilder, Quarantining, Publishing, Attaching
  <2>4. manifests[s] # NoValue
    BY <1>0, <1>2 DEF LoadManifest, CalmBuilder
  <2> QED BY <1>2, <1>c, <2>1, <2>3, <2>4, CalmQuiet DEF LoadManifest
<1>3. CASE CheckFiles(b)
  <2> DEFINE s == j.current
             l == [j EXCEPT !.pc = AfterLoad(j.unread \ {s}), !.unread = @ \ {s},
                            !.current = NoValue, !.held = NoValue]
  <2>1. l \in Locals
    BY <1>0, <1>a, LocalsFields, LocalsUpdate
  <2>2. /\ l.pc \in {"reconcile", "load"} /\ l.unread = j.unread \ {s}
        /\ l.entries = j.entries /\ l.source = j.source /\ l.target = j.target
    BY <1>0, LocalsFields
  <2>3. CalmBuilder(l)
    BY <1>0, <1>3, <2>2 DEF CheckFiles, CalmBuilder, Quarantining, Publishing, Attaching
  <2>4. s \in Snapshots /\ j.held = manifests[s] /\ j.held # NoValue
    BY <1>0, <1>3, CacheAssumption DEF CheckFiles, CalmBuilder, LocalsOK, Manifest, Images
  <2>5. Loads(s, j.held)
    BY <1>0, <2>4 DEF CalmDisk, Loadable
  <2>6. CalmCatalogs'
    BY <1>0, <1>3, <1>b, <2>4, <2>5, AcceptValues
    DEF CheckFiles, CalmCatalogs, diskVars, fileVars, TypeInv
  <2> QED BY <1>3, <2>1, <2>3, <2>6, CalmQuiet DEF CheckFiles
<1>4. CASE Reconcile(b)
  <2> DEFINE pc == IF SourceOf[j.target] = NoValue THEN "prepare" ELSE "source"
             l == [j EXCEPT !.ids = {}, !.pc = pc]
  <2>1. l \in Locals
    BY <1>0, <1>a, LocalsFields, LocalsUpdate
  <2>2. /\ l.pc = pc /\ l.entries = j.entries /\ l.exact = j.exact
        /\ l.source = j.source /\ l.target = j.target
    BY <1>0, LocalsFields
  <2>3. CalmBuilder(l)
    BY <1>0, <1>4, <2>2 DEF Reconcile, CalmBuilder, Quarantining, Publishing, LocalsOK,
       Attaching, NothingSettled
  <2>4. CalmCatalogs'
    BY <1>0, <1>b, <1>4 DEF Reconcile, Forget, CalmCatalogs, diskVars, fileVars, TypeInv, TypeOK
  <2>5. CASE Rest(b, "completed")
    BY <1>4, <2>4, <2>5, CalmEnd DEF Reconcile
  <2>6. CASE Becomes(b, l)
    BY <1>4, <2>1, <2>3, <2>4, <2>6, CalmQuiet DEF Reconcile
  <2> QED BY <1>4, <2>5, <2>6 DEF Reconcile
<1>5. CASE ValidateSource(b)
  <2> DEFINE s == SourceOf[j.target]
             entry == loaded[Host[b]][s]
             l == [j EXCEPT !.pc = "prepare", !.source = entry.graph]
             k == [Idle EXCEPT !.pc = "failed", !.target = j.target]
  <2>0. UNCHANGED diskVars /\ UNCHANGED catalogVars
    BY <1>5 DEF ValidateSource
  <2>1. j.target \in Snapshots /\ s \in Snapshots /\ NothingSettled(j) /\ j.pc = "source"
    BY <1>0, <1>5, CacheAssumption DEF ValidateSource, LocalsOK, Attaching, Steps
  <2>2. CASE entry # NoValue /\ Becomes(b, l)
    <3>1. Loads(s, entry)
      BY <1>0, <1>b, <2>1, <2>2 DEF CalmCatalogs, CalmDisk, Loadable
    <3>2. Linked(GraphOf[s], entry.graph) /\ entry.graph \in Images
      BY <3>1 DEF Loads, Healthy, Linked, Manifest
    <3>3. l \in Locals
      BY <1>0, <1>a, <3>2, LocalsUpdate
    <3>4. /\ l.pc = "prepare" /\ l.entries = j.entries /\ l.exact = j.exact
          /\ l.source = entry.graph /\ l.target = j.target
      BY <1>0, LocalsFields
    <3>5. CalmBuilder(l)
      BY <1>0, <2>1, <3>2, <3>4 DEF CalmBuilder, Quarantining, Publishing, NothingSettled
    <3> HIDE DEF l
    <3> QED BY <1>c, <2>0, <2>2, <3>3, <3>5, CalmQuiet
  <2>3. CASE Becomes(b, k)
    <3>1. k \in Locals /\ k.pc = "failed" /\ k.target = j.target
      BY <2>1, IdleLocals DEF Resting
    <3>2. k.unread = {} /\ k.entries = {} /\ k.source = NoValue
      BY DEF Idle
    <3> HIDE DEF k
    <3>3. CalmBuilder(k)
      BY <2>1, <3>1, <3>2, CacheAssumption
      DEF CalmBuilder, Publishing, Quarantining, Steps, Attaching
    <3> QED BY <1>c, <2>0, <2>3, <3>1, <3>3, CalmQuiet
  <2>4. rejected[Host[b]][s] # "corrupt"
    BY <1>0, <1>b, <2>1, CacheAssumption DEF CalmCatalogs, Rejections, Repairable
  <2> QED BY <1>5, <2>2, <2>3, <2>4 DEF ValidateSource, Rest
<1> QED BY <1>1, <1>2, <1>3, <1>4, <1>5 DEF Attach

(* Without faults there is nothing to quarantine.                          *)
LEMMA CalmPrepare ==
  ASSUME TypeInv, CalmInv, faults = 0, NEW b \in Builders, Prepare(b)
  PROVE  CalmInv'
<1> DEFINE j == job[b]
<1>0. j \in Locals /\ LocalsOK(j) /\ CalmBuilder(j) /\ CalmDisk /\ CalmCatalogs
  BY DEF TypeInv, TypeOK, LocalInv, CalmInv
<1> USE DEF At
<1>a. Host[b] \in Processes
  BY CacheAssumption
<1>b. j.pc \in {"prepare", "review", "sweep"} /\ UNCHANGED <<diskVars, catalogVars>>
  BY <1>0 DEF Prepare, PrepareManifest, PrepareReview, Sweep, QuarantineCheck, QuarantineRename,
     QuarantineForget, CalmBuilder, Quarantining
<1>c. j.target \in Snapshots
  BY <1>0, <1>b DEF LocalsOK, Attaching, Steps
<1>d. CalmCatalogs'
  BY <1>b, <1>0 DEF CalmCatalogs, diskVars, fileVars, catalogVars
<1>1. ASSUME NEW pc \in {"review", "sweep"}, Goto(b, pc)
      PROVE  CalmInv'
  <2> DEFINE l == [j EXCEPT !.pc = pc]
  <2>1. l \in Locals
    BY <1>0, LocalsUpdate DEF Steps
  <2>2. /\ l.pc = pc /\ l.entries = j.entries /\ l.exact = j.exact /\ l.target = j.target
        /\ l.source = j.source
    BY <1>0, LocalsFields
  <2>3. CalmBuilder(l)
    BY <1>0, <1>b, <2>2 DEF CalmBuilder, Quarantining, Publishing, LocalsOK, Preparing,
       NothingSettled
  <2> QED BY <1>1, <1>b, <1>d, <2>1, <2>3, CalmQuiet DEF Goto
<1>2. CASE Sweep(b)
  <2> DEFINE names == {ManifestName(s) : s \in {t \in Snapshots :
                         t # job[b].target /\ rejected[Host[b]][t] \in Repairable}}
             l == [j EXCEPT !.pc = "entries", !.names = names, !.back = "entries"]
  <2>1. names = {}
    BY <1>0, <1>a, CacheAssumption DEF CalmCatalogs, Rejections
  <2>2. l \in Locals
    BY <1>0, <2>1, LocalsUpdate DEF Steps
  <2>3. /\ l.pc = "entries" /\ l.entries = j.entries /\ l.exact = j.exact /\ l.target = j.target
        /\ l.source = j.source
    BY <1>0, LocalsFields
  <2>4. CalmBuilder(l)
    BY <1>0, <1>b, <2>3 DEF CalmBuilder, Quarantining, Publishing, LocalsOK, Preparing,
       NothingSettled
  <2>5. Becomes(b, l)
    BY <1>2, <2>1 DEF Sweep, Quarantine
  <2> QED BY <1>b, <1>d, <2>2, <2>4, <2>5, CalmQuiet
<1>3. CASE PrepareManifest(b)
  BY <1>0, <1>1, <1>3, <1>a, <1>c, CacheAssumption
  DEF PrepareManifest, CalmCatalogs, Rejections
<1>4. CASE PrepareReview(b)
  BY <1>0, <1>1, <1>4, <1>c, CacheAssumption DEF PrepareReview, CalmDisk
<1> QED
  BY <1>2, <1>3, <1>4, <1>b DEF Prepare, QuarantineCheck, QuarantineRename, QuarantineForget

(* A graph that is there is healthy, and is the one the catalog knows.     *)
LEMMA CalmHealthy ==
  ASSUME CalmDisk, NEW g \in Graphs
  PROVE  /\ graphs[g] # NoValue => Healthy(g, graphs[g])
         /\ \A image : Linked(g, image) => Healthy(g, image)
  BY DEF CalmDisk, Healthy, Linked

LEMMA CalmPinned ==
  ASSUME TypeInv, CalmInv, faults = 0, NEW b \in Builders, job[b].pc \in {"pin", "base_open"},
         NEW image \in Images, Pinned(b, image), UNCHANGED <<diskVars, catalogVars>>,
         Linked(Wanted(b), image)
  PROVE  CalmInv'
<1> DEFINE j == job[b]
           h == [j EXCEPT !.pc = AfterHead(b), !.role = "base", !.exact = image,
                          !.entries = {}]
           l == [j EXCEPT !.pc = "review_link", !.base = image, !.entries = {}]
<1>0. j \in Locals /\ LocalsOK(j) /\ CalmBuilder(j)
  BY DEF TypeInv, TypeOK, LocalInv, CalmInv
<1>a. CalmCatalogs'
  BY DEF CalmInv, CalmCatalogs, diskVars, fileVars, catalogVars
<1>1. AfterHead(b) \in Resting \union Steps /\ "review_link" \in Resting \union Steps
  BY DEF AfterHead, Steps
<1>2. CASE j.role = "head"
  <2>1. h \in Locals
    BY <1>0, <1>1, LocalsUpdate
  <2>2. /\ h.pc \in {"review_link", "entries"} /\ h.exact = image
        /\ h.base = j.base /\ h.target = j.target /\ h.entries = {}
        /\ h.source = j.source
    BY <1>0, LocalsFields DEF AfterHead
  <2>3. j.base = NoValue
    BY <1>0, <1>2 DEF LocalsOK, Wanting, Opening, HeadSettled, NothingSettled
  <2>4. CalmBuilder(h)
    BY <1>0, <1>2, <2>2, <2>3 DEF CalmBuilder, Quarantining, Publishing, Wanted
  <2> QED BY <1>2, <1>a, <2>1, <2>4, CalmQuiet DEF Pinned
<1>3. CASE j.role # "head"
  <2>1. l \in Locals
    BY <1>0, <1>1, LocalsUpdate
  <2>2. /\ l.pc = "review_link" /\ l.exact = j.exact
        /\ l.base = image /\ l.target = j.target /\ l.entries = {}
        /\ l.source = j.source
    BY <1>0, LocalsFields
  <2>3. CalmBuilder(l)
    BY <1>0, <1>3, <2>2 DEF CalmBuilder, Quarantining, Publishing, Wanted, Steps, Attaching
  <2> QED BY <1>3, <1>a, <2>1, <2>3, CalmQuiet DEF Pinned
<1> QED BY <1>2, <1>3

LEMMA CalmBuilt ==
  ASSUME TypeInv, CalmInv, faults = 0, NEW b \in Builders, job[b].pc = "seed", Built(b),
         UNCHANGED <<diskVars, catalogVars>>
  PROVE  CalmInv'
<1> DEFINE j == job[b]
           h == [j EXCEPT !.pc = AfterHead(b), !.role = "base", !.own = TRUE,
                          !.entries = {}]
           l == [j EXCEPT !.pc = "base_link", !.entries = {}]
<1>0. j \in Locals /\ LocalsOK(j) /\ CalmBuilder(j)
  BY DEF TypeInv, TypeOK, LocalInv, CalmInv
<1>a. CalmCatalogs'
  BY DEF CalmInv, CalmCatalogs, diskVars, fileVars, catalogVars
<1>1. AfterHead(b) \in Resting \union Steps /\ "base_link" \in Resting \union Steps
  BY DEF AfterHead, Steps
<1>2. CASE j.role = "head"
  <2>1. h \in Locals
    BY <1>0, <1>1, LocalsUpdate
  <2>2. /\ h.pc \in {"review_link", "entries"} /\ h.exact = j.exact
        /\ h.base = j.base /\ h.target = j.target /\ h.entries = {}
        /\ h.source = j.source
    BY <1>0, LocalsFields DEF AfterHead
  <2>3. j.base = NoValue /\ j.exact = NoValue
    BY <1>0, <1>2 DEF LocalsOK, Wanting, HeadSettled, NothingSettled
  <2>4. CalmBuilder(h)
    BY <1>0, <1>2, <2>2, <2>3 DEF CalmBuilder, Quarantining, Publishing
  <2> QED BY <1>2, <1>a, <2>1, <2>4, CalmQuiet DEF Built
<1>3. CASE j.role # "head"
  <2>1. l \in Locals
    BY <1>0, <1>1, LocalsUpdate
  <2>2. /\ l.pc = "base_link" /\ l.exact = j.exact /\ l.target = j.target /\ l.entries = {}
        /\ l.source = j.source
    BY <1>0, LocalsFields
  <2>3. CalmBuilder(l)
    BY <1>0, <2>2 DEF CalmBuilder, Quarantining, Publishing, Steps, Attaching
  <2> QED BY <1>3, <1>a, <2>1, <2>3, CalmQuiet DEF Built
<1> QED BY <1>2, <1>3

LEMMA CalmBuild ==
  ASSUME TypeInv, CalmInv, faults = 0, NEW b \in Builders, Build(b)
  PROVE  CalmInv'
<1> DEFINE j == job[b]
<1>0. /\ j \in Locals /\ LocalsOK(j) /\ CalmBuilder(j) /\ CalmDisk /\ CalmCatalogs
      /\ Host[b] \in Processes
  BY CacheAssumption DEF TypeInv, TypeOK, LocalInv, CalmInv
<1> USE DEF At
<1>a. ASSUME UNCHANGED <<diskVars, catalogVars>>
      PROVE  CalmCatalogs'
  BY <1>0, <1>a DEF CalmCatalogs, diskVars, fileVars, catalogVars
<1>b. ASSUME j.pc \in {"entries", "pin", "seed", "base_link", "base_open"}
      PROVE  /\ j.target \in Snapshots
             /\ Wanted(b) \in Graphs
  BY <1>0, <1>b, CacheAssumption
  DEF LocalsOK, Attaching, Steps, Wanted, NothingSettled, HeadSettled, Wanting, Opening
<1>c. \A e \in j.entries : e.snapshot \in Snapshots /\ GraphOf[e.snapshot] \in Graphs
  BY <1>0, LocalsFields, CacheAssumption DEF Entries
<1>1. CASE TakeEntries(b)
  <2> DEFINE catalog == loaded[Host[b]]
             entries == {[snapshot |-> s, image |-> catalog[s].graph] :
                           s \in {t \in Snapshots : catalog[t] # NoValue}}
             l == [j EXCEPT !.pc = "pin", !.entries = entries]
  <2>1. \A s \in Snapshots : catalog[s] \in Manifest \union {NoValue}
    BY <1>0 DEF TypeInv, TypeOK
  <2>2. entries \in SUBSET Entries
    BY <2>1 DEF Entries, Manifest
  <2>3. \A e \in entries : Linked(GraphOf[e.snapshot], e.image)
    <3> SUFFICES ASSUME NEW s \in Snapshots, catalog[s] # NoValue
                 PROVE  Linked(GraphOf[s], catalog[s].graph)
      OBVIOUS
    <3>1. Loads(s, catalog[s])
      BY <1>0 DEF CalmCatalogs, CalmDisk, Loadable
    <3> QED BY <3>1 DEF Loads, Healthy, Linked
  <2> HIDE DEF entries
  <2>4. l \in Locals
    BY <1>0, <2>2, LocalsUpdate DEF Steps
  <2>5. /\ l.pc = "pin" /\ l.entries = entries /\ l.exact = j.exact /\ l.target = j.target
        /\ l.source = j.source
    BY <1>0, LocalsFields
  <2>6. CalmBuilder(l)
    BY <1>0, <1>1, <2>3, <2>5
    DEF TakeEntries, CalmBuilder, Quarantining, Publishing, Attaching, Steps
  <2> QED BY <1>1, <1>a, <2>4, <2>6, CalmQuiet DEF TakeEntries, entries
<1>2. CASE PinExact(b)
  <2> DEFINE g == Wanted(b)
             known == {e.image : e \in {x \in j.entries : GraphOf[x.snapshot] = g}}
             l == [j EXCEPT !.pc = "seed"]
  <2>0. g \in Graphs /\ j.pc = "pin"
    BY <1>2, <1>b DEF PinExact
  <2>1. known \subseteq {graphs[g]}
    BY <1>0 DEF CalmBuilder, Linked
  <2>2. graphs[g] # NoValue => Healthy(g, graphs[g])
    BY <1>0, <2>0, CalmHealthy
  <2>3. CASE Goto(b, "seed")
    <3>1. l \in Locals
      BY <1>0, LocalsUpdate DEF Steps
    <3>2. /\ l.pc = "seed" /\ l.entries = j.entries /\ l.exact = j.exact /\ l.target = j.target
          /\ l.source = j.source
      BY <1>0, LocalsFields
    <3>3. CalmBuilder(l)
      BY <1>0, <2>0, <3>2 DEF CalmBuilder, Quarantining, Publishing, Attaching, Steps
    <3> QED BY <1>2, <1>a, <2>3, <3>1, <3>3, CalmQuiet DEF PinExact, Goto
  <2>4. CASE Healthy(g, graphs[g]) /\ Pinned(b, graphs[g])
    <3>1. graphs[g] \in Images /\ Linked(g, graphs[g])
      BY <2>0, <2>4 DEF TypeInv, TypeOK, Healthy, Linked
    <3> QED BY <1>2, <2>0, <2>4, <3>1, CalmPinned DEF PinExact
  <2> QED BY <1>2, <2>1, <2>2, <2>3, <2>4 DEF PinExact
<1>3. CASE Seed(b)
  <2>1. \A e \in j.entries : Healthy(GraphOf[e.snapshot], e.image)
    BY <1>0, <1>c, CalmHealthy DEF CalmBuilder
  <2>2. NeedsSource(b) => Healthy(GraphOf[SourceOf[j.target]], j.source)
    <3>1. CASE NeedsSource(b)
      <4>1. j.pc = "seed" /\ j.source # NoValue
        BY <1>0, <1>3, <3>1 DEF Seed, NeedsSource, LocalsOK, Adding
      <4>2. SourceOf[j.target] \in Snapshots
        BY <1>b, <3>1, <4>1, CacheAssumption DEF NeedsSource
      <4>3. GraphOf[SourceOf[j.target]] \in Graphs /\ Linked(GraphOf[SourceOf[j.target]], j.source)
        BY <1>0, <4>1, <4>2, CacheAssumption DEF CalmBuilder
      <4> QED BY <1>0, <4>3, CalmHealthy
    <3> QED BY <3>1
  <2>3. \A e \in Candidates(b) : Healthy(GraphOf[e.snapshot], e.image)
    BY <2>1, <2>2 DEF Candidates
  <2> QED BY <1>3, <2>3, CalmBuilt DEF Seed
<1>4. CASE LinkBase(b)
  <2> DEFINE g == BaseOf[j.target]
  <2>0. g \in Graphs
    BY <1>0, <1>4 DEF LinkBase, LocalsOK, Opening
  <2>1. Grows
    BY <1>4, <2>0 DEF LinkBase, Grows, LinkGraph, TypeInv, TypeOK
  <2>2. graphs'[g] # NoValue
    BY <1>4, <2>0, CacheAssumption DEF LinkBase, LinkGraph, TypeInv, TypeOK, Images
  <2>3. CalmDisk'
    BY <1>0, <1>4, <2>1, CalmDiskGrows DEF LinkBase
  <2>4. CalmCatalogs'
    BY <1>4, <2>1, CalmCatalogsQuiet DEF LinkBase
  <2>5. PICK k \in Locals : k = j
    BY <1>0
  <2>6. PICK l \in Locals : l = [k EXCEPT !.pc = "base_open"]
    BY LocalsUpdate DEF Steps
  <2>7. l.pc = "base_open" /\ SameGraphs(l, k) /\ l.entries = k.entries
    BY <2>6, LocalsFields DEF SameGraphs
  <2>8. CalmBuilder(k)'
    BY <1>0, <2>1, <2>5, CalmBuilderGrows
  <2>9. k.pc = "base_link" /\ BaseOf[k.target] = g
    BY <1>4, <2>5 DEF LinkBase
  <2>10. CalmBuilder(l)'
    BY <2>2, <2>7, <2>8, <2>9
    DEF CalmBuilder, SameGraphs, Quarantining, Publishing, Attaching, Steps, Linked
  <2> QED BY <1>4, <2>1, <2>3, <2>4, <2>5, <2>6, <2>10, CalmMove DEF LinkBase, Goto
<1>5. CASE OpenBase(b)
  <2> DEFINE g == BaseOf[j.target]
  <2>1. /\ g \in Graphs /\ g = Wanted(b) /\ graphs[g] # NoValue
    BY <1>0, <1>5 DEF OpenBase, LocalsOK, Opening, HeadSettled, Wanted, CalmBuilder
  <2>2. Healthy(g, graphs[g]) /\ graphs[g] \in Images /\ Linked(g, graphs[g])
    BY <1>0, <2>1, CalmHealthy DEF TypeInv, TypeOK, Linked
  <2> QED BY <1>5, <2>1, <2>2, CalmPinned DEF OpenBase
<1>6. ~ QuarantineAffected(b) /\ ~ Evict(b)
  BY <1>0 DEF QuarantineAffected, Evict, CalmBuilder
<1> QED BY <1>1, <1>2, <1>3, <1>4, <1>5, <1>6 DEF Build

(* A step of `publish` that moves to the next.                             *)
LEMMA CalmPublishGoto ==
  ASSUME TypeInv, CalmInv, faults = 0, NEW b \in Builders, job[b].pc \in Publishing,
         NEW pc \in Publishing \union {"final_read"}, Goto(b, pc),
         Grows, CalmDisk', UNCHANGED <<faults, catalogVars>>,
         pc # "review_link",
         pc \in Publishing => reviews'[ReviewOf[job[b].target]] = "good",
         pc = "graph_open" => graphs'[GraphOf[job[b].target]] # NoValue,
         pc = "final_read" => manifests'[job[b].target] # NoValue
  PROVE  CalmInv'
<1>1. PICK k \in Locals : k = job[b]
  BY DEF TypeInv, TypeOK
<1>2. LocalsOK(k) /\ CalmBuilder(k) /\ k.pc \in Publishing
  BY <1>1 DEF TypeInv, LocalInv, CalmInv
<1>3. PICK l \in Locals : l = [k EXCEPT !.pc = pc]
  BY LocalsUpdate DEF Publishing, Steps
<1>4. l.pc = pc /\ SameGraphs(l, k) /\ l.entries = k.entries
  BY <1>3, LocalsFields DEF SameGraphs
<1>5. CalmBuilder(k)'
  BY <1>2, CalmBuilderGrows
<1>6. CalmBuilder(l)'
  BY <1>1, <1>2, <1>4, <1>5
  DEF CalmBuilder, SameGraphs, Quarantining, Publishing, Attaching, Steps, Linked
<1>7. CalmCatalogs'
  BY CalmCatalogsQuiet
<1> QED BY <1>1, <1>3, <1>6, <1>7, CalmMove DEF Goto

LEMMA CalmPublish ==
  ASSUME TypeInv, CalmInv, faults = 0, NEW b \in Builders, Publish(b)
  PROVE  CalmInv'
<1> DEFINE j == job[b]
           t == j.target
<1>0. /\ j \in Locals /\ LocalsOK(j) /\ CalmBuilder(j) /\ CalmDisk /\ CalmCatalogs
      /\ Host[b] \in Processes
  BY CacheAssumption DEF TypeInv, TypeOK, LocalInv, CalmInv
<1> USE DEF At
<1>a. ASSUME UNCHANGED <<diskVars, catalogVars>>
      PROVE  /\ CalmCatalogs' /\ Grows /\ CalmDisk'
             /\ UNCHANGED <<faults, catalogVars, graphs, reviews, manifests>>
  BY <1>0, <1>a DEF CalmCatalogs, CalmDisk, Grows, diskVars, fileVars, catalogVars, Loadable,
     Loads, Healthy
<1>b. t \in Snapshots /\ GraphOf[t] \in Graphs /\ ReviewOf[t] \in Reviews
  BY <1>0, CacheAssumption
  DEF LocalsOK, Attaching, Steps, Publish, LinkReview, ReadReview, LinkHead, OpenHead, CheckBase,
      LinkManifest, FinalRead, FinalCheck
<1>c. j.exact # NoValue => j.exact \in Images
  BY <1>0, LocalsFields
<1>1. CASE LinkReview(b)
  <2>1. /\ reviews'[ReviewOf[t]] = "good"
        /\ \A r \in Reviews : reviews'[r] \in {reviews[r], "good"}
    BY <1>0, <1>1, <1>b DEF LinkReview, CalmDisk, TypeInv, TypeOK
  <2>2. Grows
    BY <1>1, <2>1 DEF LinkReview, Grows
  <2>3. CalmDisk'
    BY <1>0, <1>1, <2>1, <2>2, CalmDiskGrows DEF LinkReview
  <2> QED BY <1>1, <2>1, <2>2, <2>3, CalmPublishGoto DEF LinkReview, Publishing
<1>2. CASE ReadReview(b)
  <2>1. reviews[ReviewOf[t]] = "good"
    BY <1>0, <1>2 DEF ReadReview, CalmBuilder, Publishing
  <2>2. ~ j.own => graphs[GraphOf[t]] # NoValue
    BY <1>0, <1>2, CacheAssumption
    DEF ReadReview, CalmBuilder, LocalsOK, HeadSettled, Images, Linked, Attaching, Steps
  <2>3. Goto(b, IF j.own THEN "graph_link" ELSE "graph_open")
    BY <1>2, <2>1 DEF ReadReview
  <2> QED BY <1>2, <1>a, <2>1, <2>2, <2>3, CalmPublishGoto DEF ReadReview, Publishing
<1>3. CASE LinkHead(b)
  <2>1. Grows
    BY <1>3, <1>b DEF LinkHead, Grows, LinkGraph, TypeInv, TypeOK
  <2>2. graphs'[GraphOf[t]] # NoValue
    BY <1>3, <1>b, CacheAssumption DEF LinkHead, LinkGraph, TypeInv, TypeOK, Images
  <2>3. CalmDisk'
    BY <1>0, <1>3, <2>1, CalmDiskGrows DEF LinkHead
  <2>4. reviews'[ReviewOf[t]] = "good"
    BY <1>0, <1>3 DEF LinkHead, CalmBuilder, Publishing
  <2> QED BY <1>3, <2>1, <2>2, <2>3, <2>4, CalmPublishGoto DEF LinkHead, Publishing
<1>4. CASE OpenHead(b)
  <2> DEFINE g == GraphOf[t]
             l == [j EXCEPT !.pc = "base_check", !.exact = graphs[g]]
  <2>1. graphs[g] # NoValue /\ Healthy(g, graphs[g]) /\ graphs[g] \in Images
    BY <1>0, <1>4, <1>b, CalmHealthy DEF OpenHead, CalmBuilder, TypeInv, TypeOK
  <2>2. j.exact \in {NoValue, graphs[g]}
    BY <1>0, <1>4 DEF OpenHead, CalmBuilder, Linked, Attaching, Steps
  <2>3. l \in Locals
    BY <1>0, <2>1, LocalsUpdate DEF Steps
  <2>4. /\ l.pc = "base_check" /\ l.exact = graphs[g] /\ l.target = t
        /\ l.base = j.base /\ l.entries = j.entries
        /\ l.source = j.source
    BY <1>0, LocalsFields
  <2>5. CalmBuilder(l)
    BY <1>0, <1>4, <2>1, <2>4 DEF OpenHead, CalmBuilder, Quarantining, Publishing, Linked
  <2> QED BY <1>4, <1>a, <2>1, <2>2, <2>3, <2>5, CalmQuiet DEF OpenHead
<1>5. CASE CheckBase(b)
  <2>1. BaseOf[t] # NoValue => Healthy(BaseOf[t], j.base)
    BY <1>0, <1>5, <1>b, CacheAssumption, CalmHealthy
    DEF CheckBase, CalmBuilder, LocalsOK, Publishing, Images
  <2>2. reviews[ReviewOf[t]] = "good"
    BY <1>0, <1>5 DEF CheckBase, CalmBuilder, Publishing
  <2> QED BY <1>5, <1>a, <2>1, <2>2, CalmPublishGoto DEF CheckBase, Publishing
<1>6. CASE LinkManifest(b)
  <2> DEFINE m == [graph |-> j.exact, base |-> j.base]
  <2>1. /\ j.exact \in Images /\ Healthy(GraphOf[t], j.exact)
        /\ reviews[ReviewOf[t]] = "good"
        /\ j.base \in Images \union {NoValue}
        /\ BaseOf[t] # NoValue => Healthy(BaseOf[t], j.base)
    BY <1>0, <1>6, <1>b, CacheAssumption, CalmHealthy, LocalsFields
    DEF LinkManifest, CalmBuilder, LocalsOK, Publishing, Attaching, Steps, Images
  <2>2. m \in Manifest /\ m # NoValue
    BY <2>1, CacheAssumption DEF Manifest, Images
  <2>3. Loads(t, m)
    BY <2>1, <2>2 DEF Loads
  <2>4. Grows
    BY <1>6, <1>b DEF LinkManifest, Grows, TypeInv, TypeOK
  <2>5. /\ manifests'[t] = IF manifests[t] = NoValue THEN m ELSE manifests[t]
        /\ \A s \in Snapshots \ {t} : manifests'[s] = manifests[s]
        /\ manifests'[t] # NoValue
    BY <1>6, <1>b, <2>2 DEF LinkManifest, TypeInv, TypeOK
  <2>6. CalmDisk'
    <3>1. ASSUME NEW s \in Snapshots, manifests'[s] # NoValue
          PROVE  Loadable(s)'
      <4>1. Loads(s, manifests'[s])
        BY <1>0, <2>3, <2>5, <3>1 DEF CalmDisk, Loadable
      <4> QED BY <1>6, <4>1 DEF LinkManifest, Loadable, Loads, Healthy
    <3> QED BY <1>0, <1>6, <3>1 DEF CalmDisk, LinkManifest
  <2> QED BY <1>6, <2>4, <2>5, <2>6, CalmPublishGoto DEF LinkManifest, Publishing
<1>7. CASE FinalRead(b)
  <2> DEFINE m == manifests[t]
             l == [j EXCEPT !.pc = "final_check", !.held = m]
  <2>1. m # NoValue /\ m \in Manifest \union {Junk, NoValue}
    BY <1>0, <1>7, <1>b DEF FinalRead, CalmBuilder, TypeInv, TypeOK
  <2>2. l \in Locals
    BY <1>0, <2>1, LocalsUpdate DEF Steps
  <2>3. /\ l.pc = "final_check" /\ l.held = m /\ l.target = t /\ l.exact = j.exact
        /\ l.entries = j.entries /\ l.source = j.source /\ l.target = j.target
    BY <1>0, LocalsFields
  <2>4. CalmBuilder(l)
    BY <1>0, <1>7, <2>1, <2>3
    DEF FinalRead, CalmBuilder, Quarantining, Publishing, Attaching, Steps
  <2> QED BY <1>7, <1>a, <2>1, <2>2, <2>4, CalmQuiet DEF FinalRead
<1>8. CASE FinalCheck(b)
  <2>1. j.held = manifests[t] /\ j.held # NoValue
    BY <1>0, <1>8 DEF FinalCheck, CalmBuilder
  <2>2. Loads(t, j.held)
    BY <1>0, <1>b, <2>1 DEF CalmDisk, Loadable
  <2>3. CalmCatalogs'
    BY <1>0, <1>8, <1>b, <2>1, <2>2, AcceptValues
    DEF FinalCheck, CalmCatalogs, diskVars, fileVars, TypeInv
  <2> QED BY <1>8, <2>2, <2>3, CalmEnd DEF FinalCheck
<1> QED BY <1>1, <1>2, <1>3, <1>4, <1>5, <1>6, <1>7, <1>8 DEF Publish

(* Only a fault is counted as one.                                         *)
LEMMA MovesAreNoFault ==
  ASSUME NEW b \in Builders, Moves(b)
  PROVE  UNCHANGED faults
<1>1. ASSUME Attach(b) PROVE UNCHANGED faults
  BY <1>1 DEF Attach, diskVars, List, LoadManifest, CheckFiles, Reconcile, ValidateSource
<1>2. ASSUME Prepare(b) PROVE UNCHANGED faults
  BY <1>2 DEF Prepare, diskVars, PrepareManifest, PrepareReview, Sweep, QuarantineCheck,
     QuarantineRename, QuarantineForget
<1>3. ASSUME Build(b) PROVE UNCHANGED faults
  BY <1>3 DEF Build, diskVars, TakeEntries, PinExact, Seed, QuarantineAffected, Evict, LinkBase,
     OpenBase
<1>4. ASSUME Publish(b) PROVE UNCHANGED faults
  BY <1>4 DEF Publish, diskVars, LinkReview, ReadReview, LinkHead, OpenHead, CheckBase,
     LinkManifest, FinalRead, FinalCheck
<1> QED BY <1>1, <1>2, <1>3, <1>4 DEF Moves, Step

LEMMA CalmStep == TypeInv /\ CalmInv /\ [Next]_vars => CalmInv'
<1> SUFFICES ASSUME TypeInv, CalmInv, [Next]_vars PROVE CalmInv'
  OBVIOUS
<1>a. faults \in Nat
  BY CacheAssumption DEF TypeInv, TypeOK
<1>1. CASE UNCHANGED vars
  BY <1>1 DEF CalmInv, CalmDisk, CalmCatalogs, CalmBuilder, Linked, Loadable, Loads, Healthy,
     vars, diskVars, fileVars, catalogVars
<1>2. CASE Fault
  BY <1>2, <1>a DEF Fault, CalmInv
<1>3. ASSUME Next, ~ Fault PROVE CalmInv'
  <2>1. UNCHANGED faults
    BY <1>3, MovesAreNoFault DEF Next, Start, Cancel, Crash, diskVars
  <2>2. CASE faults # 0
    BY <2>1, <2>2 DEF CalmInv
  <2>3. CASE faults = 0
    <3>1. ASSUME NEW b \in Builders, Moves(b)
          PROVE  CalmInv'
      BY <2>3, <3>1, CalmAttach, CalmPrepare, CalmBuild, CalmPublish DEF Moves, Step
    <3>2. ASSUME UNCHANGED <<diskVars, catalogVars>>
          PROVE  CalmCatalogs'
      BY <2>3, <3>2 DEF CalmInv, CalmCatalogs, diskVars, fileVars, catalogVars
    <3>3. ASSUME NEW b \in Builders, NEW t \in Snapshots \union {NoValue}, Start(b, t)
          PROVE  CalmInv'
      <4> DEFINE l == [Idle EXCEPT !.pc = "list", !.target = t]
      <4>1. l \in Locals /\ CalmBuilder(l) /\ Becomes(b, l)
        BY <3>3, IdleLocals, CalmRest DEF Start
      <4> HIDE DEF l
      <4> QED BY <2>3, <3>2, <3>3, <4>1, CalmQuiet DEF Start
    <3>4. ASSUME NEW b \in Builders, Cancel(b)
          PROVE  CalmInv'
      BY <2>3, <3>2, <3>4, CalmEnd DEF Cancel
    <3>5. ASSUME NEW p \in Processes, Crash(p)
          PROVE  CalmInv'
      <4>1. CalmBuilder(Idle)
        BY DEF CalmBuilder, Idle, Publishing, Quarantining
      <4>2. ASSUME NEW c \in Builders
            PROVE  CalmBuilder(job[c])'
        <5>1. CalmBuilder(job'[c])
          BY <2>3, <3>5, <4>1 DEF Crash, CalmInv
        <5>2. UNCHANGED <<graphs, reviews, manifests>>
          BY <3>5 DEF Crash, diskVars, fileVars
        <5> QED BY <5>1, <5>2 DEF CalmBuilder, Linked
      <4>3. CalmDisk'
        BY <2>3, <3>5 DEF CalmInv, CalmDisk, Loadable, Loads, Healthy, Crash, diskVars, fileVars
      <4>4. CalmCatalogs'
        BY <2>3, <3>5 DEF CalmInv, CalmCatalogs, Crash, diskVars, fileVars, TypeInv, TypeOK
      <4> QED BY <4>2, <4>3, <4>4 DEF CalmInv
    <3> QED BY <1>3, <3>1, <3>3, <3>4, <3>5 DEF Next
  <2> QED BY <2>2, <2>3
<1> QED BY <1>1, <1>2, <1>3

LEMMA CalmInit == Init => CalmInv
  BY DEF Init, CalmInv, CalmDisk, CalmCatalogs, CalmBuilder, Idle, Publishing, Quarantining

LEMMA CalmHolds == Spec => []CalmInv
<1>1. Spec => [](TypeInv /\ CalmInv)
  BY TypeInit, TypeStep, CalmInit, CalmStep, PTL DEF Spec
<1> QED BY <1>1, PTL

(* A manifest is on disk only when every file it names is, with the        *)
(* checksums it records, and a catalog holds nothing but what is on disk.  *)
THEOREM PublicationHolds == Spec => []PublicationIsAtomic
<1>1. CalmInv => PublicationIsAtomic
  BY DEF CalmInv, CalmDisk, CalmCatalogs, PublicationIsAtomic
<1> QED BY <1>1, CalmHolds, PTL

(* No build fails as long as nothing outside touches the cache, but one    *)
(* that adds evidence to a snapshot the catalog does not hold.             *)
THEOREM RacesEndWell == Spec => []RacingBuildsSucceed
<1>1. CalmInv => RacingBuildsSucceed
  BY CacheAssumption DEF CalmInv, CalmBuilder, RacingBuildsSucceed, Source
<1> QED BY <1>1, CalmHolds, PTL

----------------------------------------------------------------------------
(* Left alone: what is known of a builder is known of its locals.          *)
LEMMA NotRepairable == NoValue \notin Repairable
  BY CacheAssumption DEF Rejections

LEMMA AloneAt ==
  ASSUME NEW b \in Builders, NEW l, job'[b] = l, AloneWorking(Host[b], l)'
  PROVE  AloneWorking(Host[b], job[b])'
<1>1. /\ AloneAttaching(Host[b], l)' /\ AlonePreparing(Host[b], l)' /\ AloneWanting(Host[b], l)'
      /\ AloneHead(l)' /\ AlonePublishing(l)'
  BY DEF AloneWorking
<1>2. AloneAttaching(Host[b], job[b])'
  BY <1>1 DEF AloneAttaching
<1>3. AlonePreparing(Host[b], job[b])'
  BY <1>1 DEF AlonePreparing, Preparing, Evicting, Wanting, Adding, Before, AllKnown, Waiting,
     Healthy
<1>4. AloneWanting(Host[b], job[b])'
  BY <1>1 DEF AloneWanting, Wanting, Before, WantedGraph
<1>5. AloneHead(job[b])'
  BY <1>1 DEF AloneHead, Wanting, Evicting, Before, Adding, Healthy
<1>6. AlonePublishing(job[b])'
  BY <1>1 DEF AlonePublishing, Healthy, Loadable, Loads
<1> QED BY <1>2, <1>3, <1>4, <1>5, <1>6 DEF AloneWorking

LEMMA AloneMove ==
  ASSUME TypeInv, NEW b \in Builders, NEW l \in Locals, Becomes(b, l),
         AloneWorking(Host[b], l)'
  PROVE  AloneWorking(Host[b], job[b])'
<1>1. job'[b] = l
  BY BecomesType DEF TypeInv, TypeOK
<1> QED BY <1>1, AloneAt

(* What does not touch files or catalogs changes nothing that is known of  *)
(* a builder's locals.                                                     *)
LEMMA AloneSame ==
  ASSUME NEW p, NEW l, AloneWorking(p, l), UNCHANGED <<diskVars, catalogVars>>
  PROVE  AloneWorking(p, l)'
<1>1. /\ graphs' = graphs /\ reviews' = reviews /\ manifests' = manifests /\ damaged' = damaged
      /\ loaded' = loaded /\ rejected' = rejected
  BY DEF diskVars, fileVars, catalogVars
<1>2. \A g, i : Healthy(g, i)' <=> Healthy(g, i)
  BY <1>1 DEF Healthy
<1>3. \A s : Loadable(s)' <=> Loadable(s)
  BY <1>1, <1>2 DEF Loadable, Loads
<1>4. \A s : Known(p, s)' <=> Known(p, s)
  BY <1>1, <1>3 DEF Known
<1>5. Repaired(p)' <=> Repaired(p)
  BY <1>1, <1>3, <1>4 DEF Repaired, DiskRepaired
<1>6. Waiting(p, l)' = Waiting(p, l)
  BY <1>1 DEF Waiting
<1>7. AllKnown(p, l)' <=> AllKnown(p, l)
  BY <1>1, <1>4 DEF AllKnown
<1>8. AloneAttaching(p, l)'
  BY <1>1, <1>4 DEF AloneWorking, AloneAttaching
<1>9. AlonePreparing(p, l)'
  BY <1>1, <1>2, <1>6, <1>7 DEF AloneWorking, AlonePreparing
<1>10. AloneWanting(p, l)'
  BY <1>1, <1>2, <1>5 DEF AloneWorking, AloneWanting, WantedGraph
<1>11. AloneHead(l)'
  BY <1>1, <1>2 DEF AloneWorking, AloneHead
<1>12. AlonePublishing(l)'
  BY <1>1, <1>2, <1>3 DEF AloneWorking, AlonePublishing
<1> QED BY <1>8, <1>9, <1>10, <1>11, <1>12 DEF AloneWorking

LEMMA AloneQuiet ==
  ASSUME TypeInv, NEW b \in Builders, NEW l \in Locals, Becomes(b, l),
         AloneWorking(Host[b], l), UNCHANGED <<diskVars, catalogVars>>
  PROVE  AloneWorking(Host[b], job[b])'
<1>1. AloneWorking(Host[b], l)'
  BY AloneSame
<1> QED BY <1>1, AloneMove

(* A builder that starts or ends knows nothing of files.                   *)
LEMMA AloneRest ==
  ASSUME NEW p, NEW l, l.pc \in {"list", "completed", "cancelled"},
         l.pc = "completed" /\ l.target # NoValue => Loadable(l.target)
  PROVE  AloneWorking(p, l)
  BY DEF AloneWorking, AloneAttaching, AlonePreparing, AloneWanting, AloneHead,
     AlonePublishing, Preparing, Evicting, Wanting, Adding, Before, Opening, Publishing, Quarantining

(* The same for each group of steps a builder goes through.                *)
LEMMA AloneInAttach ==
  ASSUME NEW p, NEW l, l.pc \in {"load", "check", "reconcile"}, AloneAttaching(p, l)
  PROVE  AloneWorking(p, l)
  BY DEF AloneWorking, AlonePreparing, AloneWanting, AloneHead,
     AlonePublishing, Preparing, Evicting, Wanting, Adding, Before, Opening, Publishing, Quarantining

LEMMA AloneInPrepare ==
  ASSUME NEW p, NEW l, Preparing(l), AlonePreparing(p, l)
  PROVE  AloneWorking(p, l)
  BY DEF AloneWorking, AloneAttaching, AloneWanting, AloneHead,
     AlonePublishing, Preparing, Evicting, Wanting, Adding, Before, Opening, Publishing, Quarantining

LEMMA AloneInWanting ==
  ASSUME NEW p, NEW l, Wanting(l), reviews[ReviewOf[l.target]] # "bad",
         AloneWanting(p, l), AloneHead(l)
  PROVE  AloneWorking(p, l)
  BY DEF AloneWorking, AloneAttaching, AlonePreparing,
     AlonePublishing, Preparing, Evicting, Wanting, Adding, Before, Opening, Publishing, Quarantining

LEMMA AloneInOpening ==
  ASSUME NEW p, NEW l, l.pc \in Opening, reviews[ReviewOf[l.target]] # "bad",
         Repaired(p), AloneHead(l)
  PROVE  AloneWorking(p, l)
  BY DEF AloneWorking, AloneAttaching, AlonePreparing, AloneWanting,
     AlonePublishing, Preparing, Evicting, Wanting, Adding, Before, Opening, Publishing, Quarantining

LEMMA AloneInPublishing ==
  ASSUME NEW p, NEW l, l.pc \in Publishing,
         l.pc = "review_link" => reviews[ReviewOf[l.target]] # "bad",
         Repaired(p), AloneHead(l), AlonePublishing(l)
  PROVE  AloneWorking(p, l)
  BY DEF AloneWorking, AloneAttaching, AlonePreparing, AloneWanting,
     Preparing, Evicting, Wanting, Adding, Before, Opening, Publishing, Quarantining

LEMMA AloneInFinal ==
  ASSUME NEW p, NEW l, l.pc \in {"final_read", "final_check"}, AlonePublishing(l)
  PROVE  AloneWorking(p, l)
  BY DEF AloneWorking, AloneAttaching, AlonePreparing, AloneWanting, AloneHead,
     Preparing, Evicting, Wanting, Adding, Before, Opening, Publishing, Quarantining

(* Reading the cache: what has been read is known.                         *)
LEMMA AloneAttach ==
  ASSUME TypeInv, NEW b \in Builders, AloneWorking(Host[b], job[b]), Attach(b),
         ~ ValidateSource(b)
  PROVE  AloneWorking(Host[b], job[b])'
<1> DEFINE j == job[b]
           p == Host[b]
<1>0. /\ j \in Locals /\ LocalsOK(j) /\ p \in Processes
      /\ AloneAttaching(p, j)
  BY CacheAssumption DEF TypeInv, TypeOK, LocalInv, AloneWorking
<1>a. {"reconcile", "load", "check", "prepare", "source"} \subseteq Resting \union Steps
  BY DEF Steps
<1> USE DEF At, AfterLoad
<1>1. CASE List(b)
  <2> DEFINE present == {s \in Snapshots : manifests[s] # NoValue}
  <2>1. PICK l \in Locals : l = [j EXCEPT !.pc = AfterLoad(present), !.ids = present,
                                          !.unread = present]
    BY <1>0, <1>a, LocalsUpdate
  <2>2. /\ l.pc = IF present = {} THEN "reconcile" ELSE "load"
        /\ l.unread = present /\ l.ids = present
    BY <1>0, <2>1, LocalsFields
  <2>3. AloneAttaching(p, l)
    BY <2>2 DEF AloneAttaching
  <2>4. AloneWorking(p, l)
    BY <2>2, <2>3, AloneInAttach
  <2> QED BY <1>1, <2>1, <2>4, AloneQuiet DEF List
<1>2. ASSUME NEW s \in Snapshots, LoadManifest(b, s)
      PROVE  AloneWorking(p, job[b])'
  <2>1. PICK l \in Locals : l = [j EXCEPT !.pc = "check", !.current = s, !.held = manifests[s]]
    BY <1>0, <1>a, LocalsFields, LocalsUpdate DEF TypeInv, TypeOK
  <2>2. /\ l.pc = "check" /\ l.unread = j.unread /\ l.ids = j.ids /\ l.current = s
        /\ l.held = manifests[s]
    BY <1>0, <2>1, LocalsFields
  <2>3. manifests[s] # NoValue /\ s \in j.unread
    BY <1>0, <1>2 DEF LoadManifest, AloneAttaching
  <2>4. AloneAttaching(p, l)
    BY <1>0, <1>2, <2>2, <2>3 DEF LoadManifest, AloneAttaching
  <2>5. AloneWorking(p, l)
    BY <2>2, <2>4, AloneInAttach
  <2> QED BY <1>2, <2>1, <2>3, <2>5, AloneQuiet DEF LoadManifest
<1>3. CASE CheckFiles(b)
  <2>0. PICK k \in Locals : k = j
    BY <1>0
  <2> DEFINE s == k.current
             m == k.held
  <2>1. PICK l \in Locals : l = [k EXCEPT !.pc = AfterLoad(k.unread \ {s}), !.unread = @ \ {s},
                                          !.current = NoValue, !.held = NoValue]
    BY <1>a, LocalsFields, LocalsUpdate
  <2>2. /\ l.pc = IF k.unread \ {s} = {} THEN "reconcile" ELSE "load"
        /\ l.unread = k.unread \ {s} /\ l.ids = k.ids
    BY <2>1, LocalsFields
  <2>3. /\ s \in Snapshots /\ m = manifests[s] /\ manifests[s] # NoValue
        /\ k.ids = {u \in Snapshots : manifests[u] # NoValue}
        /\ k.unread \subseteq k.ids
        /\ \A u \in k.ids \ k.unread : Known(p, u)
    BY <1>0, <1>3, <2>0 DEF CheckFiles, AloneAttaching
  <2>4. /\ UNCHANGED manifests
        /\ \A u \in Snapshots : Loadable(u)' <=> Loadable(u)
    BY <1>3 DEF CheckFiles, diskVars, fileVars, Loadable, Loads, Healthy
  <2>5. ASSUME NEW u \in Snapshots, u # s, Known(p, u)
        PROVE  Known(p, u)'
    BY <1>0, <1>3, <2>0, <2>3, <2>4, <2>5, AcceptValues, RejectValues
    DEF CheckFiles, Known, TypeInv
  <2>6. Known(p, s)'
    <3>1. CASE Loadable(s)
      <4>1. Accept(p, s, m)
        BY <1>3, <2>0, <2>3, <3>1 DEF CheckFiles, Loadable
      <4>2. loaded'[p][s] = m /\ rejected'[p][s] = NoValue
        BY <1>0, <2>3, <4>1, AcceptValues DEF TypeInv
      <4> QED BY <2>3, <2>4, <3>1, <4>2 DEF Known
    <3>2. CASE ~ Loadable(s)
      <4>1. Reject(p, s, Rejection(s, m)) /\ Rejection(s, m) \in Repairable
        BY <1>3, <2>0, <2>3, <3>2 DEF CheckFiles, Loadable, Rejection, Repairable
      <4>2. loaded'[p][s] = NoValue /\ rejected'[p][s] \in Repairable
        BY <1>0, <2>3, <4>1, RejectValues DEF TypeInv
      <4> QED BY <2>3, <2>4, <3>2, <4>2 DEF Known
    <3> QED BY <3>1, <3>2
  <2>7. AloneAttaching(p, l)'
    <3>1. \A u \in k.ids \ (k.unread \ {s}) : Known(p, u)'
      BY <2>3, <2>5, <2>6
    <3>2. /\ l.ids = {u \in Snapshots : manifests'[u] # NoValue}
          /\ l.unread \subseteq l.ids
          /\ \A u \in l.ids \ l.unread : Known(p, u)'
      BY <2>2, <2>3, <2>4, <3>1
    <3> QED BY <2>2, <3>2 DEF AloneAttaching
  <2>8. AloneWorking(p, l)'
    BY <2>2, <2>7
    DEF AloneWorking, AlonePreparing, AloneWanting, AloneHead, AlonePublishing, Preparing, Evicting,
        Wanting, Adding, Before, Opening, Publishing, Quarantining
  <2> QED BY <1>3, <2>0, <2>1, <2>8, AloneMove DEF CheckFiles
<1>4. CASE Reconcile(b)
  <2>1. /\ j.ids = {u \in Snapshots : manifests[u] # NoValue}
        /\ \A u \in j.ids : Known(p, u)
    BY <1>0, <1>4 DEF Reconcile, AloneAttaching
  <2>2. /\ UNCHANGED manifests
        /\ \A u \in Snapshots : Loadable(u)' <=> Loadable(u)
    BY <1>4 DEF Reconcile, diskVars, fileVars, Loadable, Loads, Healthy
  <2>3. \A u \in Snapshots :
           /\ loaded'[p][u] = IF manifests[u] = NoValue THEN NoValue ELSE loaded[p][u]
           /\ rejected'[p][u] = IF manifests[u] = NoValue THEN NoValue ELSE rejected[p][u]
    BY <1>0, <1>4, <2>1 DEF Reconcile, Forget, TypeInv, TypeOK
  <2>4. \A u \in Snapshots : Known(p, u)'
    BY <2>1, <2>2, <2>3 DEF Known
  <2>5. CASE Rest(b, "completed") /\ j.target = NoValue
    <3>1. PICK l \in Locals : l = [Idle EXCEPT !.pc = "completed", !.target = j.target]
      BY <1>0, LocalsFields, IdleLocals DEF Resting
    <3>2. l.pc = "completed" /\ l.target = NoValue
      BY <2>5, <3>1, IdleLocals DEF Resting
    <3>3. AloneWorking(p, l)'
      BY <3>2 DEF AloneWorking, AloneAttaching, AlonePreparing, AloneWanting, AloneHead,
         AlonePublishing, Preparing, Evicting, Wanting, Adding, Before, Opening, Publishing, Quarantining
    <3> QED BY <2>5, <3>1, <3>3, AloneMove DEF Rest
  <2> DEFINE pc == IF SourceOf[j.target] = NoValue THEN "prepare" ELSE "source"
  <2>6. CASE Becomes(b, [j EXCEPT !.ids = {}, !.pc = pc])
    <3>1. PICK l \in Locals : l = [j EXCEPT !.ids = {}, !.pc = pc]
      BY <1>0, <1>a, LocalsUpdate
    <3>2. l.pc \in {"prepare", "source"} /\ (l.pc = "prepare" => SourceOf[l.target] = NoValue)
      BY <1>0, <3>1, LocalsFields
    <3>3. AloneWorking(p, l)'
      BY <2>4, <3>2
      DEF AloneWorking, AloneAttaching, AlonePreparing, AloneWanting, AloneHead, AlonePublishing,
          Preparing, Evicting, Wanting, Adding, Before, Opening, Publishing, Quarantining, AllKnown
    <3> QED BY <2>6, <3>1, <3>3, AloneMove
  <2> QED BY <1>4, <2>5, <2>6 DEF Reconcile
<1> QED BY <1>1, <1>2, <1>3, <1>4 DEF Attach

(* Finding what must be moved out of the way.                              *)
LEMMA AloneFind ==
  ASSUME TypeInv, NEW b \in Builders, AloneWorking(Host[b], job[b]),
         PrepareManifest(b) \/ PrepareReview(b) \/ Sweep(b)
  PROVE  AloneWorking(Host[b], job[b])'
<1>1. PICK k \in Locals : k = job[b]
  BY DEF TypeInv, TypeOK
<1> DEFINE p == Host[b]
           t == k.target
<1>2. LocalsOK(k) /\ AlonePreparing(p, k) /\ k.pc \in {"prepare", "review", "sweep"}
  BY <1>1 DEF TypeInv, LocalInv, AloneWorking, PrepareManifest, PrepareReview, Sweep, At
<1>3. t \in Snapshots /\ ReviewOf[t] \in Reviews /\ p \in Processes
  BY <1>2, CacheAssumption DEF LocalsOK, Steps, Attaching
<1>4. \A s \in Snapshots : Known(p, s)
  BY <1>2 DEF AlonePreparing, AllKnown, Preparing
<1>5. \A s \in Snapshots : /\ rejected[p][s] \in {NoValue} \union Repairable
                           /\ rejected[p][s] # "hard"
  BY <1>4, CacheAssumption DEF Known, Repairable, Rejections
<1>6. {"review", "sweep", "entries", "q_check"} \subseteq Steps
  BY DEF Steps
<1>7. UNCHANGED <<diskVars, catalogVars>>
  BY DEF PrepareManifest, PrepareReview, Sweep
<1>8. ASSUME NEW pc \in {"review", "sweep"}, Goto(b, pc), rejected[p][t] \notin Repairable,
             pc = "sweep" => reviews[ReviewOf[t]] # "bad"
      PROVE  AloneWorking(p, job[b])'
  <2>1. PICK l \in Locals : l = [k EXCEPT !.pc = pc]
    BY <1>6, LocalsUpdate
  <2>2. l.pc = pc /\ SameGraphs(l, k)
    BY <2>1, LocalsFields DEF SameGraphs
  <2>3. Preparing(l) /\ AlonePreparing(p, l)
    BY <1>2, <1>4, <1>8, <2>2
    DEF SameGraphs, Adding, Preparing, AlonePreparing, AllKnown, Before, Wanting, Evicting, Opening, Quarantining
  <2> QED BY <1>1, <1>7, <1>8, <2>1, <2>3, AloneInPrepare, AloneQuiet DEF Goto
<1>9. ASSUME NEW names \in SUBSET Names, names # {},
             NEW back \in {"review", "sweep", "entries"}, Quarantine(b, names, back)
      PROVE  \E l \in Locals : /\ Becomes(b, l) /\ l.pc = "q_check" /\ SameGraphs(l, k)
                               /\ l.names = names /\ l.back = back
  <2>1. PICK l \in Locals : l = [k EXCEPT !.pc = "q_check", !.names = names, !.back = back]
    BY <1>6, <1>9, LocalsUpdate
  <2> QED BY <1>1, <1>9, <2>1, LocalsFields DEF Quarantine, SameGraphs
<1>10. CASE PrepareManifest(b)
  <2>1. CASE rejected[p][t] \in Repairable
    <3>1. Quarantine(b, {ManifestName(t)}, "review")
      BY <1>1, <1>10, <2>1 DEF PrepareManifest
    <3>2. {ManifestName(t)} \in SUBSET Names
      BY <1>3 DEF ManifestName, Names
    <3>3. PICK l \in Locals : /\ Becomes(b, l) /\ l.pc = "q_check" /\ SameGraphs(l, k)
                              /\ l.names = {ManifestName(t)} /\ l.back = "review"
      BY <1>9, <3>1, <3>2
    <3>4. Waiting(p, l) = {t}
      BY <1>3, <2>1, <3>3 DEF Waiting, SameGraphs
    <3>5. Preparing(l) /\ AlonePreparing(p, l)
      BY <1>2, <1>4, <3>3, <3>4
      DEF SameGraphs, Adding, Preparing, AlonePreparing, AllKnown, Before, Wanting, Evicting, Opening, Quarantining
    <3> QED BY <1>7, <3>3, <3>5, AloneInPrepare, AloneQuiet
  <2>2. CASE rejected[p][t] \notin Repairable
    <3>1. Goto(b, "review")
      BY <1>1, <1>3, <1>5, <1>10, <2>2 DEF PrepareManifest
    <3> QED BY <1>8, <2>2, <3>1
  <2> QED BY <2>1, <2>2
<1>11. CASE PrepareReview(b)
  <2>0. rejected[p][t] \notin Repairable
    BY <1>1, <1>2, <1>11 DEF PrepareReview, At, AlonePreparing, Quarantining
  <2>1. CASE reviews[ReviewOf[t]] = "bad"
    <3>1. Quarantine(b, {ReviewName(ReviewOf[t])}, "sweep")
      BY <1>1, <1>11, <2>1 DEF PrepareReview
    <3>2. {ReviewName(ReviewOf[t])} \in SUBSET Names
      BY <1>3 DEF ReviewName, Names
    <3>3. PICK l \in Locals : /\ Becomes(b, l) /\ l.pc = "q_check" /\ SameGraphs(l, k)
                              /\ l.names = {ReviewName(ReviewOf[t])} /\ l.back = "sweep"
      BY <1>9, <3>1, <3>2
    <3>4. Preparing(l) /\ AlonePreparing(p, l)
      BY <1>2, <1>4, <2>0, <2>1, <3>3
      DEF SameGraphs, Adding, Preparing, AlonePreparing, AllKnown, Before, Wanting, Evicting, Opening, Quarantining
    <3> QED BY <1>7, <3>3, <3>4, AloneInPrepare, AloneQuiet
  <2>2. CASE reviews[ReviewOf[t]] # "bad"
    <3>1. Goto(b, "sweep")
      BY <1>1, <1>11, <2>2 DEF PrepareReview
    <3> QED BY <1>8, <2>0, <2>2, <3>1
  <2> QED BY <2>1, <2>2
<1>12. CASE Sweep(b)
  <2> DEFINE others == {s \in Snapshots : s # t /\ rejected[p][s] \in Repairable}
             names == {ManifestName(s) : s \in others}
  <2>0. /\ rejected[p][t] \notin Repairable /\ reviews[ReviewOf[t]] # "bad"
        /\ k.pc = "sweep"
    BY <1>1, <1>2, <1>12 DEF Sweep, At, AlonePreparing, Quarantining
  <2>1. Quarantine(b, names, "entries")
    BY <1>1, <1>12 DEF Sweep
  <2>2. names \in SUBSET Names
    BY DEF ManifestName, Names
  <2>3. CASE names = {}
    <3>1. \A s \in Snapshots : rejected[p][s] \notin Repairable
      BY <2>0, <2>3
    <3>2. Repaired(p)
      BY <1>4, <3>1 DEF Repaired, DiskRepaired, Known
    <3>3. PICK l \in Locals : l = [k EXCEPT !.pc = "entries", !.names = {}, !.back = "entries"]
      BY <1>6, LocalsUpdate
    <3>4. l.pc = "entries" /\ l.target = t /\ l.role = k.role /\ l.source = k.source
      BY <3>3, LocalsFields
    <3>a. Adding(l) => Healthy(GraphOf[SourceOf[t]], l.source)
      BY <1>2, <2>0, <3>4 DEF Adding, AlonePreparing, Preparing
    <3>5. l.role = "head"
      BY <1>2, <2>0, <3>4 DEF LocalsOK, Preparing, NothingSettled
    <3>6. Wanting(l) /\ AloneWanting(p, l) /\ AloneHead(l)
      BY <3>2, <3>4, <3>5, <3>a
      DEF Wanting, AloneWanting, AloneHead, Evicting, Before, Opening, Publishing, Quarantining
    <3>7. AloneWorking(p, l)
      BY <2>0, <3>4, <3>6, AloneInWanting
    <3> QED BY <1>1, <1>7, <2>1, <2>3, <3>3, <3>7, AloneQuiet DEF Quarantine
  <2>4. CASE names # {}
    <3>1. PICK l \in Locals : /\ Becomes(b, l) /\ l.pc = "q_check" /\ SameGraphs(l, k)
                              /\ l.names = names /\ l.back = "entries"
      BY <1>9, <2>1, <2>2, <2>4
    <3>2. Waiting(p, l) = others
      BY <2>0, <3>1 DEF Waiting, SameGraphs
    <3>3. Preparing(l) /\ AlonePreparing(p, l)
      BY <1>2, <1>4, <2>0, <3>1, <3>2
      DEF SameGraphs, Adding, Preparing, AlonePreparing, AllKnown, Before, Wanting, Evicting, Opening, Quarantining
    <3> QED BY <1>7, <3>1, <3>3, AloneInPrepare, AloneQuiet
  <2> QED BY <2>3, <2>4
<1> QED BY <1>10, <1>11, <1>12

(* The names a lone builder is moving away exist, but the manifest that    *)
(* goes with a graph.                                                      *)
LEMMA AloneNames ==
  ASSUME TypeInv, NEW p \in Processes, NEW l \in Locals, LocalsOK(l), AloneWorking(p, l),
         l.pc \in {"q_check", "q_rename"}, NEW n \in l.names
  PROVE  /\ l.back \in {"review", "entries"} =>
              \E s \in Snapshots : /\ n = ManifestName(s) /\ s \in Waiting(p, l)
                                   /\ manifests[s] # NoValue
         /\ l.back = "sweep" => /\ n = ReviewName(ReviewOf[l.target])
                                /\ l.names = {n}
                                /\ reviews[ReviewOf[l.target]] = "bad"
         /\ l.back = "affected" => /\ n = GraphName(l.victim)
                                   /\ l.names = {n}
                                   /\ graphs[l.victim] # NoValue
                                   /\ graphs[l.victim] \in damaged
         /\ l.back = "evict" => /\ l.pc = "q_check"
                                /\ n = ManifestName(l.target)
                                /\ l.names = {n}
                                /\ manifests[l.target] = NoValue
<1>1. AlonePreparing(p, l) /\ AloneWanting(p, l)
  BY DEF AloneWorking
<1>2. CASE l.back \in {"review", "entries"}
  <2>1. l.names = {ManifestName(s) : s \in Waiting(p, l)} /\ AllKnown(p, l)
    BY <1>1, <1>2 DEF AlonePreparing, Before, Quarantining, Preparing
  <2>2. PICK s \in Waiting(p, l) : n = ManifestName(s)
    BY <2>1
  <2>3. s \in Snapshots /\ rejected[p][s] \in Repairable
    BY <2>2 DEF Waiting
  <2>4. Known(p, s)
    BY <2>1, <2>3 DEF AllKnown
  <2>5. manifests[s] # NoValue
    BY <2>3, <2>4, NotRepairable DEF Known
  <2> QED BY <1>2, <2>2, <2>3, <2>5
<1>3. CASE l.back = "sweep"
  BY <1>1, <1>3 DEF AlonePreparing, Before, Quarantining
<1>4. CASE l.back \in {"affected", "evict"}
  BY <1>1, <1>4 DEF AloneWanting, Before, Quarantining
<1> QED BY <1>2, <1>3, <1>4

LEMMA ExistsValues ==
  /\ \A g : Exists(GraphName(g)) <=> graphs[g] # NoValue
  /\ \A r : Exists(ReviewName(r)) <=> reviews[r] # "absent"
  /\ \A s : Exists(ManifestName(s)) <=> manifests[s] # NoValue
  BY DEF Exists, GraphName, ReviewName, ManifestName

LEMMA AloneCheck ==
  ASSUME TypeInv, NEW b \in Builders, AloneWorking(Host[b], job[b]),
         NEW n, QuarantineCheck(b, n)
  PROVE  AloneWorking(Host[b], job[b])'
<1>1. PICK k \in Locals : k = job[b]
  BY DEF TypeInv, TypeOK
<1> DEFINE p == Host[b]
<1>2. /\ LocalsOK(k) /\ AloneWorking(p, k) /\ k.pc = "q_check" /\ n \in k.names
      /\ k.back \in {"review", "sweep", "entries", "affected", "evict"}
      /\ p \in Processes
  BY <1>1, CacheAssumption DEF TypeInv, LocalInv, LocalsOK, QuarantineCheck, At, Quarantining
<1>3. n \in Names
  BY <1>2, LocalsFields
<1>4. UNCHANGED <<diskVars, catalogVars>>
  BY DEF QuarantineCheck
<1>5. {"q_rename", "evict"} \subseteq Steps
  BY DEF Steps
<1>6. CASE Exists(n)
  <2>1. PICK l \in Locals : l = [k EXCEPT !.pc = "q_rename", !.current = n]
    BY <1>3, <1>5, LocalsUpdate
  <2>2. /\ l.pc = "q_rename" /\ l.current = n /\ SameGraphs(l, k) /\ l.names = k.names
        /\ l.back = k.back /\ l.victim = k.victim /\ l.ids = k.ids /\ l.entries = k.entries
    BY <2>1, LocalsFields DEF SameGraphs
  <2>3. k.back # "evict"
    BY <1>2, <1>6, AloneNames, ExistsValues
  <2>4. AloneWorking(p, l)
    <3>1. AloneAttaching(p, l)
      BY <2>2 DEF AloneAttaching
    <3>2. AlonePreparing(p, l)
      <4>1. Preparing(l) => AllKnown(p, l)
        BY <1>2, <2>2, <2>3 DEF AloneWorking, AlonePreparing, SameGraphs, Preparing, Wanting,
           Evicting, Before, Quarantining, AllKnown
      <4>2. Waiting(p, l) = Waiting(p, k)
        BY <1>2, <2>2 DEF SameGraphs, Waiting
      <4>3. Preparing(l) /\ Adding(l) => Healthy(GraphOf[SourceOf[l.target]], l.source)
        BY <1>2, <2>2 DEF AloneWorking, AlonePreparing, SameGraphs, Preparing, Adding, Before,
           Quarantining
      <4> QED BY <1>2, <2>2, <2>3, <4>1, <4>2, <4>3 DEF AloneWorking, AlonePreparing, SameGraphs,
              Wanting, Evicting, Before, Opening, Quarantining
    <3>3. AloneWanting(p, l)
      BY <1>2, <2>2, <2>3 DEF AloneWorking, AloneWanting, SameGraphs, Wanting, Evicting, Before,
         Opening, Publishing, Quarantining, WantedGraph
    <3>4. AloneHead(l)
      BY <1>2, <2>2, <2>3 DEF AloneWorking, AloneHead, SameGraphs, Wanting, Evicting, Adding,
         Before, Opening, Publishing, Quarantining
    <3>5. AlonePublishing(l)
      BY <2>2 DEF AlonePublishing, Publishing
    <3> QED BY <3>1, <3>2, <3>3, <3>4, <3>5 DEF AloneWorking
  <2> QED BY <1>1, <1>4, <1>6, <2>1, <2>4, AloneQuiet DEF QuarantineCheck
<1>7. CASE ~ Exists(n)
  <2>1. k.back = "evict" /\ k.names = {n}
    <3>1. k.back \notin {"review", "entries", "sweep", "affected"}
      BY <1>2, <1>7, AloneNames, ExistsValues
    <3> QED BY <1>2, <3>1, AloneNames
  <2>2. PICK l \in Locals : l = [k EXCEPT !.pc = "evict", !.current = NoValue, !.names = {}]
    BY <1>5, LocalsUpdate
  <2>3. /\ l.pc = "evict" /\ SameGraphs(l, k) /\ l.victim = k.victim /\ l.entries = k.entries
    BY <2>2, LocalsFields DEF SameGraphs
  <2>4. Becomes(b, l)
    BY <1>1, <1>7, <2>1, <2>2 DEF QuarantineCheck, Quarantined, Forgets, NextName
  <2>5. Wanting(l) /\ AloneWanting(p, l) /\ AloneHead(l) /\ reviews[ReviewOf[l.target]] # "bad"
    BY <1>2, <2>1, <2>3
    DEF AloneWorking, AlonePreparing, AloneWanting, AloneHead,
        SameGraphs, Evicting, Wanting, Adding, Before, Opening, Publishing, Quarantining,
        WantedGraph
  <2> QED BY <1>1, <1>4, <2>4, <2>5, AloneInWanting, AloneQuiet
<1> QED BY <1>6, <1>7

(* Out of the catalog, too.                                                *)
LEMMA AloneForget ==
  ASSUME TypeInv, NEW b \in Builders, AloneWorking(Host[b], job[b]), QuarantineForget(b)
  PROVE  AloneWorking(Host[b], job[b])'
<1>1. PICK k \in Locals : k = job[b]
  BY DEF TypeInv, TypeOK
<1> DEFINE p == Host[b]
           t == k.target
<1>2. /\ LocalsOK(k) /\ AlonePreparing(p, k) /\ AloneWanting(p, k) /\ k.pc = "q_forget"
      /\ k.back \in {"review", "sweep", "entries", "affected", "evict"}
      /\ p \in Processes /\ t \in Snapshots
  BY <1>1, CacheAssumption
  DEF TypeInv, LocalInv, LocalsOK, AloneWorking, QuarantineForget, At, Quarantining, Steps, Attaching
<1>3. PICK s \in Snapshots : k.current = ManifestName(s)
  BY <1>2 DEF LocalsOK
<1>4. k.back \in {"review", "entries"}
  BY <1>2 DEF AlonePreparing, AloneWanting, Before, Quarantining
<1>5. \A u \in Snapshots : ManifestName(s) = ManifestName(u) <=> u = s
  BY DEF ManifestName
<1>6. /\ manifests[s] = NoValue
      /\ \A u \in Snapshots \ {s} : Known(p, u)
      /\ k.names = {ManifestName(u) : u \in Waiting(p, k)}
  BY <1>2, <1>3, <1>4, <1>5 DEF AlonePreparing, AllKnown, Preparing, Before, Quarantining
<1>7. \A u \in Snapshots :
         /\ loaded'[p][u] = IF u = s THEN NoValue ELSE loaded[p][u]
         /\ rejected'[p][u] = IF u = s THEN NoValue ELSE rejected[p][u]
  <2>1. k.current.id = s
    BY <1>3 DEF ManifestName
  <2>2. Forget(p, {s})
    BY <1>1, <2>1 DEF QuarantineForget
  <2> QED BY <1>2, <2>2 DEF Forget, TypeInv, TypeOK
<1>8. UNCHANGED diskVars
  BY DEF QuarantineForget
<1>9. \A u \in Snapshots : Known(p, u)'
  BY <1>6, <1>7, <1>8 DEF Known, diskVars, fileVars, Loadable, Loads, Healthy
<1>10. Waiting(p, k) = {u \in Snapshots \ {s} : /\ rejected[p][u] \in Repairable
                                                /\ k.back = "review" => u = t}
  BY <1>2, <1>3, <1>5 DEF Waiting
<1>11. PICK l \in Locals : l = [k EXCEPT !.pc = NextName(b, k.names), !.current = NoValue]
  BY <1>1, <1>4, LocalsUpdate DEF NextName, Steps
<1>12. /\ l.pc = (IF k.names = {} THEN k.back ELSE "q_check") /\ SameGraphs(l, k)
       /\ l.back = k.back /\ l.names = k.names
  BY <1>1, <1>11, LocalsFields DEF SameGraphs, NextName
<1>13. Becomes(b, l)
  BY <1>1, <1>11 DEF QuarantineForget
<1>14. k.back = "entries" => reviews'[ReviewOf[t]] # "bad"
  BY <1>2, <1>8 DEF AlonePreparing, Before, Quarantining, diskVars, fileVars
<1>15. k.back = "entries" => rejected'[p][t] \notin Repairable
  BY <1>2, <1>3, <1>5, <1>7, NotRepairable DEF AlonePreparing, Before, Quarantining
<1>16. Adding(l) => Healthy(GraphOf[SourceOf[t]], l.source)'
  BY <1>2, <1>4, <1>8, <1>12
  DEF AlonePreparing, Preparing, Adding, SameGraphs, Before, Quarantining, Healthy, diskVars,
      fileVars
<1>17. CASE k.names # {}
  <2>1. l.pc = "q_check" /\ l.back = k.back /\ l.target = t /\ l.names = k.names
    BY <1>12, <1>17 DEF SameGraphs
  <2>2. Waiting(p, l)' = Waiting(p, k)
    BY <1>7, <1>10, <2>1, NotRepairable DEF Waiting
  <2>3. l.names = {ManifestName(u) : u \in Waiting(p, l)'}
    BY <1>6, <2>1, <2>2
  <2>4. AlonePreparing(p, l)' /\ Preparing(l)
    BY <1>4, <1>9, <1>14, <1>15, <1>16, <2>1, <2>3
    DEF AlonePreparing, AllKnown, Preparing, Before, Wanting, Evicting, Opening, Quarantining
  <2>5. AloneWorking(p, l)'
    BY <1>4, <2>1, <2>4
    DEF AloneWorking, AloneAttaching, AloneWanting, AloneHead, AlonePublishing,
        Evicting, Wanting, Adding, Before, Opening, Publishing, Quarantining
  <2> QED BY <1>1, <1>13, <2>5, AloneMove
<1>18. CASE k.names = {}
  <2>1. l.pc = k.back /\ l.target = t
    BY <1>12, <1>18 DEF SameGraphs
  <2>2. \A u \in Snapshots : rejected'[p][u] \in Repairable => k.back = "review" /\ u # t
    <3>1. Waiting(p, k) = {}
      BY <1>6, <1>18
    <3> TAKE u \in Snapshots
    <3> HAVE rejected'[p][u] \in Repairable
    <3>2. u # s /\ rejected[p][u] \in Repairable
      BY <1>7, NotRepairable
    <3>3. ~ (k.back = "review" => u = t)
      BY <1>10, <3>1, <3>2
    <3> QED BY <3>3
  <2>3. CASE k.back = "review"
    <3>1. AlonePreparing(p, l)'
      BY <1>2, <1>9, <1>16, <2>1, <2>2, <2>3
      DEF AlonePreparing, AllKnown, Preparing, Before, Wanting, Evicting, Opening, Quarantining
    <3>2. AloneWorking(p, l)'
      BY <2>1, <2>3, <3>1
      DEF AloneWorking, AloneAttaching, AloneWanting, AloneHead, AlonePublishing,
          Evicting, Wanting, Adding, Before, Opening, Publishing, Quarantining
    <3> QED BY <1>1, <1>13, <3>2, AloneMove
  <2>4. CASE k.back = "entries"
    <3>1. Repaired(p)'
      BY <1>9, <2>2, <2>4 DEF Repaired, DiskRepaired, Known
    <3>2. l.role = "head"
      BY <1>2, <1>12, <2>4
      DEF LocalsOK, Preparing, NothingSettled, Before, Quarantining, SameGraphs
    <3>3. AloneWorking(p, l)'
      BY <1>14, <1>16, <2>1, <2>4, <3>1, <3>2
      DEF AloneWorking, AloneAttaching, AlonePreparing, AloneWanting, AloneHead, AlonePublishing,
          Preparing, Evicting, Wanting, Adding, Before, Opening, Publishing, Quarantining
    <3> QED BY <1>1, <1>13, <3>3, AloneMove
  <2> QED BY <1>4, <2>3, <2>4
<1> QED BY <1>17, <1>18

(* Moving a name takes away a manifest that was rejected, a review that is *)
(* bad or a graph that is damaged: nothing that can be loaded is lost.     *)
LEMMA UnlinkBroken ==
  ASSUME TypeInv, UNCHANGED damaged,
         \/ \E s \in Snapshots : Unlink(ManifestName(s)) /\ ~ Loadable(s)
         \/ \E r \in Reviews : Unlink(ReviewName(r)) /\ reviews[r] # "good"
         \/ \E g \in Graphs : Unlink(GraphName(g)) /\ graphs[g] \in damaged
  PROVE  \A s \in Snapshots : Loadable(s) => manifests'[s] = manifests[s] /\ Loadable(s)'
<1>1. SUFFICES ASSUME NEW s \in Snapshots, Loadable(s)
               PROVE  manifests'[s] = manifests[s] /\ Loadable(s)'
  OBVIOUS
<1>2. GraphOf[s] \in Graphs /\ ReviewOf[s] \in Reviews /\ BaseOf[s] \in Graphs \union {NoValue}
  BY CacheAssumption
<1> USE DEF ManifestName, ReviewName, GraphName
<1>3. ASSUME NEW u \in Snapshots, Unlink(ManifestName(u)), ~ Loadable(u)
      PROVE  manifests'[s] = manifests[s] /\ Loadable(s)'
  <2>1. manifests'[s] = manifests[s]
    BY <1>1, <1>3 DEF Unlink
  <2>2. \A g \in Graphs : graphs'[g] = graphs[g]
    BY <1>3 DEF Unlink
  <2>3. \A r \in Reviews : reviews'[r] = reviews[r]
    BY <1>3 DEF Unlink
  <2> QED BY <1>1, <1>2, <2>1, <2>2, <2>3 DEF Loadable, Loads, Healthy
<1>4. ASSUME NEW r \in Reviews, Unlink(ReviewName(r)), reviews[r] # "good"
      PROVE  manifests'[s] = manifests[s] /\ Loadable(s)'
  <2>1. manifests'[s] = manifests[s]
    BY <1>4 DEF Unlink
  <2>2. \A g \in Graphs : graphs'[g] = graphs[g]
    BY <1>4 DEF Unlink
  <2>3. reviews'[ReviewOf[s]] = "good"
    BY <1>1, <1>2, <1>4 DEF Unlink, Loadable, Loads
  <2> QED BY <1>1, <1>2, <2>1, <2>2, <2>3 DEF Loadable, Loads, Healthy
<1>5. ASSUME NEW g \in Graphs, Unlink(GraphName(g)), graphs[g] \in damaged
      PROVE  manifests'[s] = manifests[s] /\ Loadable(s)'
  <2>1. manifests'[s] = manifests[s]
    BY <1>5 DEF Unlink
  <2>2. \A h \in Graphs \ {g} : graphs'[h] = graphs[h]
    BY <1>5 DEF Unlink
  <2>3. \A r \in Reviews : reviews'[r] = reviews[r]
    BY <1>5 DEF Unlink
  <2>4. GraphOf[s] # g
    BY <1>1, <1>5 DEF Loadable, Loads, Healthy
  <2>5. graphs'[GraphOf[s]] = graphs[GraphOf[s]]
    BY <1>2, <2>2, <2>4
  <2>6. BaseOf[s] # NoValue => graphs'[BaseOf[s]] = graphs[BaseOf[s]]
    <3>1. BaseOf[s] # NoValue => BaseOf[s] # g
      BY <1>1, <1>5 DEF Loadable, Loads, Healthy
    <3> QED BY <1>2, <2>2, <3>1
  <2> QED BY <1>1, <1>2, <2>1, <2>3, <2>5, <2>6 DEF Loadable, Loads, Healthy
<1> QED BY <1>1, <1>3, <1>4, <1>5

LEMMA AloneUnlinks ==
  ASSUME TypeInv, NEW b \in Builders, AloneWorking(Host[b], job[b]), QuarantineRename(b)
  PROVE  LET l == job[b]
             n == job[b].current
         IN  /\ l.pc = "q_rename" /\ n \in l.names /\ Unlink(n) /\ Quarantined(b, n)
             /\ UNCHANGED <<damaged, nextImage, faults, catalogVars>>
             /\ \/ /\ l.back \in {"review", "entries"}
                   /\ \E s \in Snapshots : /\ n = ManifestName(s) /\ ~ Loadable(s)
                                           /\ s \in Waiting(Host[b], l)
                \/ /\ l.back = "sweep" /\ n = ReviewName(ReviewOf[l.target])
                   /\ reviews[ReviewOf[l.target]] = "bad" /\ l.names = {n}
                \/ /\ l.back = "affected" /\ n = GraphName(l.victim) /\ l.victim \in Graphs
                   /\ graphs[l.victim] \in damaged /\ l.names = {n}
<1> DEFINE l == job[b]
           n == job[b].current
           p == Host[b]
<1>1. /\ l \in Locals /\ LocalsOK(l) /\ l.pc = "q_rename" /\ p \in Processes
  BY CacheAssumption DEF TypeInv, TypeOK, LocalInv, QuarantineRename, At
<1>2. n \in l.names /\ l.back \in {"review", "sweep", "entries", "affected", "evict"}
  BY <1>1 DEF LocalsOK, Quarantining
<1>3. l.back # "evict" /\ Exists(n)
  <2>1. l.back # "evict"
    BY <1>1, <1>2, AloneNames
  <2>2. CASE l.back \in {"review", "entries"}
    <3>1. PICK s \in Snapshots : n = ManifestName(s) /\ manifests[s] # NoValue
      BY <1>1, <1>2, <2>2, AloneNames
    <3> QED BY <2>1, <3>1, ExistsValues
  <2>3. CASE l.back = "sweep"
    BY <1>1, <1>2, <2>1, <2>3, AloneNames, ExistsValues
  <2>4. CASE l.back = "affected"
    BY <1>1, <1>2, <2>1, <2>4, AloneNames, ExistsValues
  <2> QED BY <1>2, <2>1, <2>2, <2>3, <2>4
<1>4. /\ Unlink(n) /\ Quarantined(b, n)
      /\ UNCHANGED <<damaged, nextImage, faults, catalogVars>>
  BY <1>3 DEF QuarantineRename
<1>5. CASE l.back \in {"review", "entries"}
  <2>1. PICK s \in Snapshots : n = ManifestName(s) /\ s \in Waiting(p, l)
    BY <1>1, <1>2, <1>5, AloneNames
  <2>2. Known(p, s) /\ rejected[p][s] \in Repairable
    BY <1>1, <1>5, <2>1
    DEF AloneWorking, AlonePreparing, AllKnown, Preparing, Before, Quarantining, Waiting
  <2>3. ~ Loadable(s)
    BY <2>2, NotRepairable DEF Known
  <2> QED BY <1>1, <1>2, <1>4, <1>5, <2>1, <2>3
<1>6. CASE l.back = "sweep"
  BY <1>1, <1>2, <1>4, <1>6, AloneNames
<1>7. CASE l.back = "affected"
  <2>1. l.victim \in Graphs
    BY <1>1, <1>7 DEF LocalsOK, Evicting, Before, Quarantining
  <2> QED BY <1>1, <1>2, <1>4, <1>7, <2>1, AloneNames
<1> QED BY <1>2, <1>3, <1>5, <1>6, <1>7

(* Out of the way.                                                         *)
LEMMA AloneRename ==
  ASSUME TypeInv, NEW b \in Builders, AloneWorking(Host[b], job[b]), QuarantineRename(b)
  PROVE  AloneWorking(Host[b], job[b])'
<1>1. PICK k \in Locals : k = job[b]
  BY DEF TypeInv, TypeOK
<1> DEFINE p == Host[b]
           t == k.target
           n == k.current
<1>2. /\ LocalsOK(k) /\ AlonePreparing(p, k) /\ AloneWanting(p, k) /\ AloneHead(k)
      /\ k.pc = "q_rename" /\ n \in k.names /\ t \in Snapshots /\ p \in Processes
      /\ Unlink(n) /\ Quarantined(b, n)
      /\ UNCHANGED <<damaged, nextImage, faults, catalogVars>>
  BY <1>1, AloneUnlinks, CacheAssumption
  DEF TypeInv, LocalInv, LocalsOK, AloneWorking, Steps, Attaching
<1>3. n \in Names
  BY <1>2, LocalsFields
<1>4. \A s, u \in Snapshots : ManifestName(s) = ManifestName(u) => u = s
  BY DEF ManifestName
<1>5. ReviewOf[t] \in Reviews /\ GraphOf[t] \in Graphs
  BY <1>2, CacheAssumption
<1>6. Adding(k) => GraphOf[SourceOf[t]] \in Graphs
  BY <1>2, CacheAssumption DEF Adding
<1>7. CASE k.back \in {"review", "entries"}
  <2>1. PICK s \in Snapshots : n = ManifestName(s) /\ ~ Loadable(s) /\ s \in Waiting(p, k)
    BY <1>1, <1>7, AloneUnlinks
  <2>2. Becomes(b, [k EXCEPT !.pc = "q_forget", !.current = n, !.names = k.names \ {n}])
    BY <1>1, <1>2, <1>7, <2>1 DEF Quarantined, Forgets, ManifestName
  <2>3. PICK l \in Locals :
           l = [k EXCEPT !.pc = "q_forget", !.current = n, !.names = k.names \ {n}]
    BY <1>2, <1>3, LocalsFields, LocalsUpdate DEF Steps
  <2>4. /\ l.pc = "q_forget" /\ l.current = ManifestName(s) /\ l.names = k.names \ {n}
        /\ SameGraphs(l, k) /\ l.back = k.back
    BY <2>1, <2>3, LocalsFields DEF SameGraphs
  <2>5. /\ \A u \in Snapshots : manifests'[u] = IF u = s THEN NoValue ELSE manifests[u]
        /\ \A g \in Graphs : graphs'[g] = graphs[g]
        /\ \A r \in Reviews : reviews'[r] = reviews[r]
    BY <1>2, <1>4, <2>1 DEF Unlink, ManifestName, GraphName, ReviewName
  <2>6. \A u \in Snapshots \ {s} : Loadable(u)' <=> Loadable(u)
    BY <1>2, <2>5, CacheAssumption DEF Loadable, Loads, Healthy
  <2>7. \A u \in Snapshots : Known(p, u)
    BY <1>2, <1>7 DEF AlonePreparing, AllKnown, Preparing, Before, Quarantining
  <2>8. AllKnown(p, l)'
    BY <1>2, <1>4, <2>4, <2>5, <2>6, <2>7 DEF AllKnown, Known, catalogVars
  <2>9. Waiting(p, l)' = Waiting(p, k) \ {s}
    BY <1>2, <1>4, <2>4 DEF Waiting, SameGraphs, catalogVars
  <2>10. k.names = {ManifestName(u) : u \in Waiting(p, k)}
    BY <1>2, <1>7 DEF AlonePreparing, Before, Quarantining
  <2>11. l.names = {ManifestName(u) : u \in Waiting(p, l)'}
    <3>1. \A u \in Waiting(p, k) : u \in Snapshots
      BY DEF Waiting
    <3> HIDE DEF Waiting
    <3>2. {ManifestName(u) : u \in Waiting(p, k)} \ {ManifestName(s)}
            = {ManifestName(u) : u \in Waiting(p, k) \ {s}}
      BY <1>4, <3>1
    <3> QED BY <2>1, <2>4, <2>9, <2>10, <3>2
  <2>12. rejected'[p][t] \notin Repairable \/ l.current = ManifestName(t)
    BY <1>2, <1>7, <2>1, <2>4 DEF AlonePreparing, Before, Quarantining, Waiting, catalogVars
  <2>13. l.back = "entries" => reviews'[ReviewOf[t]] # "bad"
    BY <1>2, <1>5, <2>4, <2>5 DEF AlonePreparing, Before, Quarantining
  <2>14. l.back \in {"review", "entries"} /\ l.target = t
    BY <1>7, <2>4 DEF SameGraphs
  <2>15. Adding(l) => Healthy(GraphOf[SourceOf[l.target]], l.source)'
    BY <1>2, <1>7, <1>6, <2>4, <2>5
    DEF AlonePreparing, Preparing, Adding, SameGraphs, Before, Quarantining, Healthy
  <2>16. AlonePreparing(p, l)'
    BY <2>4, <2>8, <2>11, <2>12, <2>13, <2>14, <2>15
    DEF AlonePreparing, Before, Wanting, Evicting, Opening, Quarantining
  <2>17. AloneWorking(p, l)'
    BY <2>4, <2>14, <2>16
    DEF AloneWorking, AloneAttaching, AloneWanting, AloneHead, AlonePublishing,
        Evicting, Wanting, Adding, Before, Opening, Publishing, Quarantining
  <2> QED BY <1>1, <2>2, <2>3, <2>17, AloneMove
<1>8. CASE k.back = "sweep"
  <2> DEFINE r == ReviewOf[t]
  <2>1. n = ReviewName(r) /\ reviews[r] = "bad" /\ k.names = {n}
    BY <1>1, <1>8, AloneUnlinks
  <2>2. Becomes(b, [k EXCEPT !.pc = "sweep", !.current = NoValue, !.names = {}])
    BY <1>1, <1>2, <1>8, <2>1 DEF Quarantined, Forgets, NextName
  <2>3. PICK l \in Locals : l = [k EXCEPT !.pc = "sweep", !.current = NoValue, !.names = {}]
    BY LocalsUpdate DEF Steps
  <2>4. l.pc = "sweep" /\ l.target = t /\ SameGraphs(l, k)
    BY <2>3, LocalsFields DEF SameGraphs
  <2>5. /\ \A u \in Snapshots : manifests'[u] = manifests[u]
        /\ \A g \in Graphs : graphs'[g] = graphs[g]
        /\ \A q \in Reviews : reviews'[q] = IF q = r THEN "absent" ELSE reviews[q]
    BY <1>2, <2>1 DEF Unlink, ManifestName, GraphName, ReviewName
  <2>6. \A u \in Snapshots : Loadable(u)' <=> Loadable(u)
    BY <1>2, <2>1, <2>5, CacheAssumption DEF Loadable, Loads, Healthy
  <2>7. \A u \in Snapshots : Known(p, u)
    BY <1>2, <1>8 DEF AlonePreparing, AllKnown, Preparing, Before, Quarantining
  <2>8. \A u \in Snapshots : Known(p, u)'
    BY <1>2, <2>5, <2>6, <2>7 DEF Known, catalogVars
  <2>9. rejected'[p][t] \notin Repairable /\ reviews'[r] # "bad"
    BY <1>2, <1>5, <1>8, <2>5 DEF AlonePreparing, Before, Quarantining, catalogVars
  <2>10. Adding(l) => Healthy(GraphOf[SourceOf[l.target]], l.source)'
    BY <1>2, <1>8, <1>6, <2>4, <2>5
    DEF AlonePreparing, Preparing, Adding, SameGraphs, Before, Quarantining, Healthy
  <2>11. AloneWorking(p, l)'
    BY <2>4, <2>8, <2>9, <2>10
    DEF AloneWorking, AloneAttaching, AlonePreparing, AloneWanting, AloneHead, AlonePublishing,
        AllKnown, Preparing, Evicting, Wanting, Adding, Before, Opening, Publishing, Quarantining
  <2> QED BY <1>1, <2>2, <2>3, <2>11, AloneMove
<1>9. CASE k.back = "affected"
  <2> DEFINE g == k.victim
  <2>1. n = GraphName(g) /\ g \in Graphs /\ graphs[g] \in damaged /\ k.names = {n}
    BY <1>1, <1>9, AloneUnlinks
  <2>2. Becomes(b, [k EXCEPT !.pc = "affected", !.current = NoValue, !.names = {}])
    BY <1>1, <1>2, <1>9, <2>1 DEF Quarantined, Forgets, NextName
  <2>3. PICK l \in Locals : l = [k EXCEPT !.pc = "affected", !.current = NoValue, !.names = {}]
    BY LocalsUpdate DEF Steps
  <2>4. /\ l.pc = "affected" /\ SameGraphs(l, k) /\ l.victim = g /\ l.ids = k.ids
        /\ l.entries = k.entries
    BY <2>3, LocalsFields DEF SameGraphs
  <2>5. /\ \A u \in Snapshots : manifests'[u] = manifests[u]
        /\ \A h \in Graphs : graphs'[h] = IF h = g THEN NoValue ELSE graphs[h]
        /\ \A q \in Reviews : reviews'[q] = reviews[q]
    BY <1>2, <2>1 DEF Unlink, ManifestName, GraphName, ReviewName
  <2>6. Repaired(p) /\ k.ids = {t} /\ manifests[t] = NoValue /\ g = WantedGraph(k)
        /\ reviews[ReviewOf[t]] # "bad"
        /\ \A e \in k.entries : Healthy(GraphOf[e.snapshot], e.image)
    BY <1>2, <1>9
    DEF AloneWanting, AlonePreparing, Evicting, Wanting, Adding, Before, Quarantining
  <2>7. \A i : \A h \in Graphs : Healthy(h, i) => h # g /\ Healthy(h, i)'
    BY <1>2, <2>1, <2>5 DEF Healthy
  <2>8. \A u \in Snapshots : Loadable(u) => Loadable(u)'
    BY <1>1, <1>2, <2>1, UnlinkBroken
  <2>9. Repaired(p)'
    BY <1>2, <2>5, <2>6, <2>8 DEF Repaired, DiskRepaired, Known, catalogVars
  <2>10. \A e \in k.entries : GraphOf[e.snapshot] \in Graphs
    BY LocalsFields, CacheAssumption DEF Entries
  <2>11. \A e \in l.entries : Healthy(GraphOf[e.snapshot], e.image)'
    BY <2>4, <2>6, <2>7, <2>10
  <2>12. WantedGraph(l) = g
    BY <2>4, <2>6 DEF WantedGraph, SameGraphs
  <2>13. AloneWanting(p, l)'
    BY <1>2, <2>4, <2>5, <2>1, <2>6, <2>9, <2>11, <2>12
    DEF AloneWanting, SameGraphs, Evicting, Wanting, Adding, Before, Opening, Publishing, Quarantining
  <2>14. l.role = "base" =>
            /\ ~ l.own => Healthy(GraphOf[l.target], l.exact)'
            /\ l.own => graphs'[GraphOf[l.target]] = NoValue
    <3>1. k.role = "base" =>
            /\ ~ k.own => Healthy(GraphOf[t], k.exact)
            /\ k.own => graphs[GraphOf[t]] = NoValue
      BY <1>2, <1>9 DEF AloneHead, Wanting, Evicting, Before, Quarantining
    <3> QED BY <1>5, <2>4, <2>5, <2>7, <3>1 DEF SameGraphs
  <2>15. Adding(l) => Healthy(GraphOf[SourceOf[l.target]], l.source)'
    BY <1>2, <1>9, <1>6, <2>4, <2>7
    DEF AloneHead, Wanting, Evicting, Adding, SameGraphs, Before, Quarantining
  <2>16. AloneHead(l)'
    BY <2>4, <2>14, <2>15 DEF AloneHead, Opening, Publishing
  <2>17. reviews'[ReviewOf[l.target]] # "bad"
    BY <1>5, <2>4, <2>5, <2>6 DEF SameGraphs
  <2>18. AloneWorking(p, l)'
    BY <2>4, <2>13, <2>16, <2>17
    DEF AloneWorking, AloneAttaching, AlonePreparing, AlonePublishing,
        Preparing, Evicting, Wanting, Adding, Before, Opening, Publishing, Quarantining
  <2> QED BY <1>1, <2>2, <2>3, <2>18, AloneMove
<1> QED BY <1>1, <1>7, <1>8, <1>9, AloneUnlinks

(* Moving what is broken out of the way.                                   *)
LEMMA AlonePrepare ==
  ASSUME TypeInv, NEW b \in Builders, AloneWorking(Host[b], job[b]), Prepare(b)
  PROVE  AloneWorking(Host[b], job[b])'
  BY AloneFind, AloneCheck, AloneRename, AloneForget DEF Prepare

----------------------------------------------------------------------------
(* What is whole stays whole while files are only added.                   *)
LEMMA HealthyGrows ==
  ASSUME NEW g \in Graphs, NEW image, Healthy(g, image), Grows
  PROVE  Healthy(g, image)'
  BY DEF Healthy, Grows

LEMMA LoadableGrows ==
  ASSUME NEW s \in Snapshots, Loadable(s), Grows
  PROVE  manifests'[s] = manifests[s] /\ Loadable(s)'
<1>1. NoValue \notin Manifest
  BY CacheAssumption DEF Manifest, Images
<1>2. Loads(s, manifests[s]) /\ manifests[s] # NoValue
  BY <1>1 DEF Loadable, Loads
<1>3. manifests'[s] = manifests[s]
  BY <1>2 DEF Grows
<1> QED BY <1>2, <1>3, LoadsGrows DEF Loadable, Loads, Healthy

LEMMA RepairedGrows ==
  ASSUME NEW p, Repaired(p), Grows, UNCHANGED <<manifests, catalogVars>>
  PROVE  Repaired(p)'
<1>1. ASSUME NEW s \in Snapshots
      PROVE  (manifests'[s] # NoValue => Loadable(s)') /\ Known(p, s)'
  <2>1. manifests[s] # NoValue => Loadable(s)'
    BY LoadableGrows DEF Repaired, DiskRepaired
  <2>2. Known(p, s) /\ (manifests[s] # NoValue => Loadable(s))
    BY DEF Repaired, DiskRepaired
  <2> QED BY <2>1, <2>2 DEF Known, catalogVars
<1> QED BY <1>1 DEF Repaired, DiskRepaired

LEMMA WantingSettled ==
  ASSUME NEW l \in Locals, LocalsOK(l), Wanting(l) \/ l.pc \in Opening
  PROVE  NothingSettled(l) \/ (HeadSettled(l) /\ BaseOf[l.target] \in Graphs)
  BY DEF LocalsOK

LEMMA WantingBase ==
  ASSUME NEW l \in Locals, LocalsOK(l), Wanting(l) \/ l.pc \in Opening
  PROVE  l.base = NoValue
<1>1. NothingSettled(l) \/ l.base = NoValue
  BY DEF LocalsOK
<1> QED BY <1>1 DEF NothingSettled

(* A graph that has been found or built settles the role.                  *)
LEMMA AlonePinned ==
  ASSUME TypeInv, NEW b \in Builders, AloneWorking(Host[b], job[b]),
         job[b].pc \in {"pin", "base_open"}, NEW image \in Images,
         Healthy(WantedGraph(job[b]), image), Pinned(b, image),
         UNCHANGED <<diskVars, catalogVars>>
  PROVE  AloneWorking(Host[b], job[b])'
<1>1. PICK k \in Locals : k = job[b]
  BY DEF TypeInv, TypeOK
<1> DEFINE p == Host[b]
           t == k.target
<1>2. /\ LocalsOK(k) /\ AloneWorking(p, k) /\ k.pc \in {"pin", "base_open"}
      /\ Healthy(WantedGraph(k), image)
  BY <1>1 DEF TypeInv, LocalInv
<1>3. /\ k.base = NoValue /\ Repaired(p) /\ reviews[ReviewOf[t]] # "bad"
      /\ NothingSettled(k) \/ (HeadSettled(k) /\ BaseOf[t] \in Graphs)
  <2>1. Wanting(k) \/ k.pc \in Opening
    BY <1>2 DEF Wanting, Opening
  <2>2. Repaired(p) /\ reviews[ReviewOf[t]] # "bad"
    BY <1>2, <2>1 DEF AloneWorking, AloneWanting, AlonePreparing
  <2>3. k.base = NoValue
    BY <1>2, <2>1, WantingBase
  <2>4. NothingSettled(k) \/ (HeadSettled(k) /\ BaseOf[t] \in Graphs)
    BY <1>2, <2>1, WantingSettled
  <2> QED BY <2>2, <2>3, <2>4
<1>4. CASE k.role = "head"
  <2>1. Becomes(b, [k EXCEPT !.pc = AfterHead(b), !.role = "base", !.exact = image, !.entries = {}])
    BY <1>1, <1>4 DEF Pinned
  <2>2. AfterHead(b) = IF BaseOf[t] = NoValue THEN "review_link" ELSE "entries"
    BY <1>1 DEF AfterHead
  <2>3. PICK l \in Locals :
           l = [k EXCEPT !.pc = AfterHead(b), !.role = "base", !.exact = image, !.entries = {}]
    BY <2>2, LocalsUpdate DEF Steps
  <2>4. /\ l.pc = IF BaseOf[t] = NoValue THEN "review_link" ELSE "entries"
        /\ l.target = t /\ l.role = "base" /\ l.exact = image /\ l.own = k.own /\ l.base = k.base
    BY <2>2, <2>3, LocalsFields
  <2>5. ~ l.own /\ Healthy(GraphOf[t], image)
    BY <1>2, <1>3, <1>4, <2>4 DEF NothingSettled, HeadSettled, WantedGraph
  <2>6. AloneHead(l)
    BY <2>4, <2>5 DEF AloneHead, Adding
  <2>7. CASE BaseOf[t] = NoValue
    <3>1. AlonePublishing(l)
      BY <2>4, <2>7 DEF AlonePublishing, Publishing
    <3>2. AloneWorking(p, l)
      BY <1>3, <2>4, <2>6, <2>7, <3>1, AloneInPublishing DEF Publishing
    <3> QED BY <1>1, <2>1, <2>3, <3>2, AloneQuiet
  <2>8. CASE BaseOf[t] # NoValue
    <3>1. Wanting(l) /\ AloneWanting(p, l)
      BY <1>3, <2>4, <2>8 DEF Wanting, AloneWanting, Evicting, Before, Quarantining
    <3>2. AloneWorking(p, l)
      BY <1>3, <2>4, <2>6, <3>1, AloneInWanting
    <3> QED BY <1>1, <2>1, <2>3, <3>2, AloneQuiet
  <2> QED BY <2>7, <2>8
<1>5. CASE k.role = "base"
  <2>1. Becomes(b, [k EXCEPT !.pc = "review_link", !.base = image, !.entries = {}])
    BY <1>1, <1>5 DEF Pinned
  <2>2. PICK l \in Locals : l = [k EXCEPT !.pc = "review_link", !.base = image, !.entries = {}]
    BY LocalsUpdate DEF Steps
  <2>3. /\ l.pc = "review_link" /\ l.target = t /\ l.role = "base" /\ l.exact = k.exact
        /\ l.own = k.own /\ l.base = image
    BY <1>5, <2>2, LocalsFields
  <2>4. Healthy(BaseOf[t], image)
    BY <1>2, <1>5 DEF WantedGraph
  <2>5. /\ ~ k.own => Healthy(GraphOf[t], k.exact)
        /\ k.own => graphs[GraphOf[t]] = NoValue
    BY <1>2, <1>5 DEF AloneWorking, AloneHead, Wanting, Opening
  <2>6. AloneHead(l) /\ AlonePublishing(l)
    BY <2>3, <2>4, <2>5 DEF AloneHead, AlonePublishing, Adding, Publishing
  <2>7. AloneWorking(p, l)
    BY <1>3, <2>3, <2>6, AloneInPublishing DEF Publishing
  <2> QED BY <1>1, <2>1, <2>2, <2>7, AloneQuiet
<1> QED BY <1>4, <1>5, LocalsFields

LEMMA AloneBuilt ==
  ASSUME TypeInv, NEW b \in Builders, AloneWorking(Host[b], job[b]),
         job[b].pc = "seed", Built(b), UNCHANGED <<diskVars, catalogVars>>
  PROVE  AloneWorking(Host[b], job[b])'
<1>1. PICK k \in Locals : k = job[b]
  BY DEF TypeInv, TypeOK
<1> DEFINE p == Host[b]
           t == k.target
<1>2. LocalsOK(k) /\ AloneWorking(p, k) /\ k.pc = "seed"
  BY <1>1 DEF TypeInv, LocalInv
<1>3. /\ k.base = NoValue /\ Repaired(p) /\ reviews[ReviewOf[t]] # "bad"
      /\ NothingSettled(k) \/ (HeadSettled(k) /\ BaseOf[t] \in Graphs)
      /\ graphs[WantedGraph(k)] = NoValue
  <2>1. Wanting(k)
    BY <1>2 DEF Wanting
  <2>2. Repaired(p) /\ reviews[ReviewOf[t]] # "bad" /\ graphs[WantedGraph(k)] = NoValue
    BY <1>2, <2>1 DEF AloneWorking, AloneWanting, AlonePreparing
  <2>3. k.base = NoValue
    BY <1>2, <2>1, WantingBase
  <2>4. NothingSettled(k) \/ (HeadSettled(k) /\ BaseOf[t] \in Graphs)
    BY <1>2, <2>1, WantingSettled
  <2> QED BY <2>2, <2>3, <2>4
<1>4. CASE k.role = "head"
  <2>1. Becomes(b, [k EXCEPT !.pc = AfterHead(b), !.role = "base", !.own = TRUE, !.entries = {}])
    BY <1>1, <1>4 DEF Built
  <2>2. AfterHead(b) = IF BaseOf[t] = NoValue THEN "review_link" ELSE "entries"
    BY <1>1 DEF AfterHead
  <2>3. PICK l \in Locals :
           l = [k EXCEPT !.pc = AfterHead(b), !.role = "base", !.own = TRUE, !.entries = {}]
    BY <2>2, LocalsUpdate DEF Steps
  <2>4. /\ l.pc = IF BaseOf[t] = NoValue THEN "review_link" ELSE "entries"
        /\ l.target = t /\ l.role = "base" /\ l.own
    BY <2>2, <2>3, LocalsFields
  <2>5. graphs[GraphOf[t]] = NoValue
    BY <1>3, <1>4 DEF WantedGraph
  <2>6. AloneHead(l)
    BY <2>4, <2>5 DEF AloneHead, Adding, Opening
  <2>7. CASE BaseOf[t] = NoValue
    <3>1. AlonePublishing(l)
      BY <2>4, <2>7 DEF AlonePublishing, Publishing
    <3>2. AloneWorking(p, l)
      BY <1>3, <2>4, <2>6, <2>7, <3>1, AloneInPublishing DEF Publishing
    <3> QED BY <1>1, <2>1, <2>3, <3>2, AloneQuiet
  <2>8. CASE BaseOf[t] # NoValue
    <3>1. Wanting(l) /\ AloneWanting(p, l)
      BY <1>3, <2>4, <2>8 DEF Wanting, AloneWanting, Evicting, Before, Quarantining
    <3>2. AloneWorking(p, l)
      BY <1>3, <2>4, <2>6, <3>1, AloneInWanting
    <3> QED BY <1>1, <2>1, <2>3, <3>2, AloneQuiet
  <2> QED BY <2>7, <2>8
<1>5. CASE k.role = "base"
  <2>1. Becomes(b, [k EXCEPT !.pc = "base_link", !.entries = {}])
    BY <1>1, <1>5 DEF Built
  <2>2. PICK l \in Locals : l = [k EXCEPT !.pc = "base_link", !.entries = {}]
    BY LocalsUpdate DEF Steps
  <2>3. l.pc = "base_link" /\ SameGraphs(l, k)
    BY <2>2, LocalsFields DEF SameGraphs
  <2>4. graphs[BaseOf[t]] = NoValue
    BY <1>3, <1>5 DEF WantedGraph
  <2>5. /\ ~ k.own => Healthy(GraphOf[t], k.exact)
        /\ k.own => graphs[GraphOf[t]] = NoValue
    BY <1>2, <1>5 DEF AloneWorking, AloneHead, Wanting
  <2>6. AloneHead(l)
    BY <1>5, <2>3, <2>4, <2>5 DEF AloneHead, Adding, SameGraphs
  <2>7. AloneWorking(p, l)
    BY <1>3, <2>3, <2>6, AloneInOpening DEF Opening, SameGraphs
  <2> QED BY <1>1, <2>1, <2>2, <2>7, AloneQuiet
<1> QED BY <1>4, <1>5, LocalsFields

(* Where a lone builder stands while it wants a graph.                     *)
LEMMA AloneWants ==
  ASSUME NEW p, NEW l \in Locals, LocalsOK(l), Wanting(l), AloneWorking(p, l)
  PROVE  /\ Repaired(p) /\ reviews[ReviewOf[l.target]] # "bad"
         /\ AloneWanting(p, l) /\ AloneHead(l)
         /\ l.target \in Snapshots /\ WantedGraph(l) \in Graphs
         /\ \A s \in Snapshots : /\ Known(p, s)
                                 /\ rejected[p][s] = NoValue
                                 /\ loaded[p][s] = manifests[s]
                                 /\ manifests[s] # NoValue => Loadable(s)
<1>1. AloneWanting(p, l) /\ AloneHead(l) /\ AlonePreparing(p, l)
  BY DEF AloneWorking
<1>2. Repaired(p) /\ reviews[ReviewOf[l.target]] # "bad"
  BY <1>1 DEF AloneWanting, AlonePreparing
<1>3. l.target \in Snapshots
  BY DEF LocalsOK, Wanting, Evicting, Before, Quarantining, Steps, Attaching
<1>4. WantedGraph(l) \in Graphs
  BY <1>3, CacheAssumption DEF LocalsOK, NothingSettled, HeadSettled, WantedGraph
<1> QED BY <1>1, <1>2, <1>3, <1>4 DEF Repaired, DiskRepaired, Known

(* Finding a graph that is damaged, or finding none.                       *)
LEMMA AlonePin ==
  ASSUME TypeInv, NEW b \in Builders, AloneWorking(Host[b], job[b]), PinExact(b)
  PROVE  AloneWorking(Host[b], job[b])'
<1>1. PICK k \in Locals : k = job[b]
  BY DEF TypeInv, TypeOK
<1> DEFINE p == Host[b]
           t == k.target
           g == WantedGraph(k)
           known == {e.image : e \in {x \in k.entries : GraphOf[x.snapshot] = g}}
<1>2. LocalsOK(k) /\ AloneWorking(p, k) /\ k.pc = "pin" /\ Wanting(k)
  BY <1>1 DEF TypeInv, LocalInv, PinExact, At, Wanting
<1>3. Wanted(b) = g
  BY <1>1 DEF Wanted, WantedGraph
<1>4. UNCHANGED <<diskVars, catalogVars>>
  BY DEF PinExact
<1>5. /\ Repaired(p) /\ reviews[ReviewOf[t]] # "bad" /\ AloneWanting(p, k) /\ AloneHead(k)
      /\ t \in Snapshots /\ g \in Graphs
      /\ \A s \in Snapshots : manifests[s] # NoValue => Loadable(s)
  BY <1>2, AloneWants
<1>6. \A e \in k.entries : Healthy(GraphOf[e.snapshot], e.image)
  BY <1>2, <1>5 DEF AloneWanting
<1>7. known \subseteq {graphs[g]}
  BY <1>6 DEF Healthy
<1>8. \/ graphs[g] = NoValue /\ Goto(b, "seed")
      \/ Healthy(g, graphs[g]) /\ Pinned(b, graphs[g])
      \/ /\ graphs[g] # NoValue /\ graphs[g] \in damaged
         /\ QuarantineGraph(b, g, t, k.entries, k.source)
  BY <1>1, <1>3, <1>7 DEF PinExact, Healthy
<1>9. CASE graphs[g] = NoValue /\ Goto(b, "seed")
  <2>1. PICK l \in Locals : l = [k EXCEPT !.pc = "seed"]
    BY LocalsUpdate DEF Steps
  <2>2. l.pc = "seed" /\ SameGraphs(l, k) /\ l.entries = k.entries
    BY <2>1, LocalsFields DEF SameGraphs
  <2>3. WantedGraph(l) = g
    BY <2>2 DEF WantedGraph, SameGraphs
  <2>4. Wanting(l) /\ AloneWanting(p, l)
    BY <1>5, <1>6, <1>9, <2>2, <2>3 DEF Wanting, AloneWanting, Evicting, Before, Quarantining
  <2>5. AloneHead(l)
    BY <1>2, <1>5, <2>2 DEF AloneHead, Adding, SameGraphs, Opening, Publishing
  <2>6. AloneWorking(p, l)
    BY <1>5, <2>2, <2>4, <2>5, AloneInWanting DEF SameGraphs
  <2> QED BY <1>1, <1>4, <1>9, <2>1, <2>6, AloneQuiet DEF Goto
<1>10. CASE Healthy(g, graphs[g]) /\ Pinned(b, graphs[g])
  <2>1. graphs[g] \in Images
    BY <1>5, <1>10 DEF TypeInv, TypeOK, Healthy
  <2> QED BY <1>1, <1>2, <1>4, <1>10, <2>1, AlonePinned
<1>11. CASE /\ graphs[g] # NoValue /\ graphs[g] \in damaged
            /\ QuarantineGraph(b, g, t, k.entries, k.source)
  <2> DEFINE a == [k EXCEPT !.pc = "q_check", !.names = {GraphName(g)}, !.back = "affected"]
  <2>1. a \in Locals
    <3>1. {GraphName(g)} \in SUBSET Names
      BY <1>5 DEF GraphName, Names
    <3> QED BY <3>1, LocalsUpdate DEF Steps
  <2>2. /\ a.pc = "q_check" /\ SameGraphs(a, k) /\ a.entries = k.entries
        /\ a.names = {GraphName(g)} /\ a.back = "affected"
    BY LocalsFields DEF SameGraphs
  <2> HIDE DEF a
  <2>3. [a EXCEPT !.victim = g, !.ids = {t}, !.entries = k.entries, !.source = k.source]
          \in Locals
    <3>1. k.entries \in SUBSET Entries /\ {t} \in SUBSET Snapshots
      BY <1>5, LocalsFields
    <3>2. [a EXCEPT !.victim = g] \in Locals
      BY <1>5, <2>1, LocalsUpdate
    <3>3. [[a EXCEPT !.victim = g] EXCEPT !.ids = {t}] \in Locals
      BY <3>1, <3>2, LocalsUpdate
    <3>4. [[[a EXCEPT !.victim = g] EXCEPT !.ids = {t}] EXCEPT !.entries = k.entries] \in Locals
      BY <3>1, <3>3, LocalsUpdate
    <3>5. [[[[a EXCEPT !.victim = g] EXCEPT !.ids = {t}] EXCEPT !.entries = k.entries]
             EXCEPT !.source = k.source] \in Locals
      <4>1. k.source \in Images \union {NoValue}
        BY LocalsFields
      <4> QED BY <3>4, <4>1, LocalsUpdate
    <3> QED BY <3>5
  <2>4. PICK l \in Locals : l = [a EXCEPT !.victim = g, !.ids = {t}, !.entries = k.entries,
                                         !.source = k.source]
    BY <2>3
  <2>5. /\ l.pc = "q_check" /\ SameGraphs(l, k) /\ l.entries = k.entries
        /\ l.names = {GraphName(g)} /\ l.back = "affected" /\ l.victim = g /\ l.ids = {t}
    BY <2>1, <2>2, <2>4, LocalsFields DEF SameGraphs
  <2>6. l = [k EXCEPT !.pc = "q_check", !.names = {GraphName(g)}, !.back = "affected",
                      !.victim = g, !.ids = {t}, !.entries = k.entries,
                      !.source = k.source]
    BY <2>4 DEF a
  <2>7. manifests[t] = NoValue
    <3>1. ~ Loadable(t)
      BY <1>2, <1>5, <1>11, CacheAssumption DEF Loadable, Loads, Healthy, WantedGraph
    <3> QED BY <1>5, <3>1
  <2>8. WantedGraph(l) = g
    BY <2>5 DEF WantedGraph, SameGraphs
  <2>9. Wanting(l) /\ AloneWanting(p, l)
    BY <1>5, <1>6, <1>11, <2>5, <2>7, <2>8
    DEF Wanting, AloneWanting, Evicting, Before, Quarantining, SameGraphs
  <2>10. AloneHead(l)
    BY <1>2, <1>5, <2>5 DEF AloneHead, Adding, SameGraphs, Opening, Publishing
  <2>11. AloneWorking(p, l)
    BY <1>5, <2>5, <2>9, <2>10, AloneInWanting DEF SameGraphs
  <2>12. Becomes(b, l)
    BY <1>1, <1>11, <2>6 DEF QuarantineGraph
  <2> QED BY <1>1, <1>4, <2>11, <2>12, AloneQuiet
<1> QED BY <1>8, <1>9, <1>10, <1>11

(* The catalog's graphs can be copied from.                                *)
LEMMA AloneTake ==
  ASSUME TypeInv, NEW b \in Builders, AloneWorking(Host[b], job[b]), TakeEntries(b)
  PROVE  AloneWorking(Host[b], job[b])'
<1>1. PICK k \in Locals : k = job[b]
  BY DEF TypeInv, TypeOK
<1> DEFINE p == Host[b]
           t == k.target
<1>2. LocalsOK(k) /\ AloneWorking(p, k) /\ k.pc = "entries" /\ Wanting(k) /\ p \in Processes
  BY <1>1, CacheAssumption DEF TypeInv, LocalInv, TakeEntries, At, Wanting
<1>3. PICK catalog : catalog = loaded[p]
  OBVIOUS
<1> DEFINE entries == {[snapshot |-> s, image |-> catalog[s].graph] :
                         s \in {u \in Snapshots : catalog[u] # NoValue}}
<1>4. \A s \in Snapshots : catalog[s] \in Manifest \union {NoValue}
  BY <1>2, <1>3 DEF TypeInv, TypeOK
<1>5. entries \in SUBSET Entries
  BY <1>4 DEF Entries, Manifest
<1>6. /\ Repaired(p) /\ reviews[ReviewOf[t]] # "bad" /\ AloneHead(k)
      /\ \A s \in Snapshots : /\ catalog[s] = manifests[s]
                              /\ manifests[s] # NoValue => Loadable(s)
  BY <1>2, <1>3, AloneWants
<1>7. \A e \in entries : Healthy(GraphOf[e.snapshot], e.image)
  <2> SUFFICES ASSUME NEW s \in Snapshots, catalog[s] # NoValue
               PROVE  Healthy(GraphOf[s], catalog[s].graph)
    OBVIOUS
  <2> QED BY <1>6 DEF Loadable, Loads
<1>8. Becomes(b, [k EXCEPT !.pc = "pin", !.entries = entries])
  BY <1>1, <1>3 DEF TakeEntries
<1> HIDE DEF entries
<1>9. PICK l \in Locals : l = [k EXCEPT !.pc = "pin", !.entries = entries]
  BY <1>5, LocalsUpdate DEF Steps
<1>10. l.pc = "pin" /\ SameGraphs(l, k) /\ l.entries = entries
  BY <1>9, LocalsFields DEF SameGraphs
<1>11. Wanting(l) /\ AloneWanting(p, l)
  BY <1>6, <1>7, <1>10 DEF Wanting, AloneWanting, Evicting, Before, Quarantining
<1>12. AloneHead(l)
  BY <1>2, <1>6, <1>10 DEF AloneHead, Adding, SameGraphs, Opening, Publishing
<1>13. AloneWorking(p, l)
  BY <1>6, <1>10, <1>11, <1>12, AloneInWanting DEF SameGraphs
<1> QED BY <1>1, <1>8, <1>9, <1>13, AloneQuiet DEF TakeEntries

LEMMA AloneSeed ==
  ASSUME TypeInv, NEW b \in Builders, AloneWorking(Host[b], job[b]), Seed(b)
  PROVE  AloneWorking(Host[b], job[b])'
<1> DEFINE j == job[b]
<1>1. /\ j \in Locals /\ LocalsOK(j) /\ j.pc = "seed" /\ Wanting(j)
  BY DEF TypeInv, TypeOK, LocalInv, Seed, At, Wanting
<1>2. \A e \in j.entries : Healthy(GraphOf[e.snapshot], e.image)
  BY <1>1 DEF AloneWorking, AloneWanting
<1>3. Adding(j) => Healthy(GraphOf[SourceOf[j.target]], j.source)
  BY <1>1 DEF AloneWorking, AloneHead
<1>4. \A e \in Candidates(b) : Healthy(GraphOf[e.snapshot], e.image)
  BY <1>2, <1>3 DEF Candidates, NeedsSource, Adding
<1>5. Built(b) /\ UNCHANGED <<diskVars, catalogVars>>
  BY <1>4 DEF Seed
<1> QED BY <1>1, <1>5, AloneBuilt

(* Nobody known uses a graph that was damaged, so no catalog entry goes.   *)
LEMMA AloneAffected ==
  ASSUME TypeInv, NEW b \in Builders, AloneWorking(Host[b], job[b]), QuarantineAffected(b)
  PROVE  AloneWorking(Host[b], job[b])'
<1>1. PICK k \in Locals : k = job[b]
  BY DEF TypeInv, TypeOK
<1> DEFINE p == Host[b]
           t == k.target
           g == k.victim
<1>2. LocalsOK(k) /\ AloneWorking(p, k) /\ k.pc = "affected" /\ Wanting(k) /\ p \in Processes
  BY <1>1, CacheAssumption
  DEF TypeInv, LocalInv, QuarantineAffected, At, Wanting, Evicting
<1>3. /\ Repaired(p) /\ reviews[ReviewOf[t]] # "bad" /\ AloneWanting(p, k) /\ AloneHead(k)
      /\ t \in Snapshots /\ WantedGraph(k) \in Graphs
      /\ \A s \in Snapshots : /\ loaded[p][s] = manifests[s]
                              /\ manifests[s] # NoValue => Loadable(s)
  BY <1>2, AloneWants
<1>4. /\ k.ids = {t} /\ manifests[t] = NoValue /\ g = WantedGraph(k)
      /\ graphs[g] = NoValue
      /\ \A e \in k.entries : Healthy(GraphOf[e.snapshot], e.image)
  BY <1>2, <1>3 DEF AloneWanting, Evicting
<1>5. \A s \in Snapshots : ~ (loaded[p][s] # NoValue /\ Uses(s, g))
  BY <1>3, <1>4, CacheAssumption DEF Uses, Loadable, Loads, Healthy
<1>6. Becomes(b, [k EXCEPT !.pc = "q_check", !.ids = {t}, !.back = "evict",
                           !.names = {ManifestName(t)}])
  <2>1. k.ids \union {s \in Snapshots : loaded[p][s] # NoValue /\ Uses(s, g)} = {t}
    BY <1>4, <1>5
  <2>2. {ManifestName(s) : s \in {t}} = {ManifestName(t)}
    OBVIOUS
  <2> QED BY <1>1, <2>1, <2>2 DEF QuarantineAffected
<1>7. PICK l \in Locals : l = [k EXCEPT !.pc = "q_check", !.ids = {t}, !.back = "evict",
                                        !.names = {ManifestName(t)}]
  <2>1. {ManifestName(t)} \in SUBSET Names /\ {t} \in SUBSET Snapshots
    BY <1>3 DEF ManifestName, Names
  <2>2. [k EXCEPT !.pc = "q_check", !.ids = {t}] \in Locals
    BY <2>1, LocalsUpdate DEF Steps
  <2>3. [[k EXCEPT !.pc = "q_check", !.ids = {t}] EXCEPT !.back = "evict",
                                        !.names = {ManifestName(t)}] \in Locals
    BY <2>1, <2>2, LocalsUpdate DEF Steps
  <2> QED BY <2>3
<1>8. /\ l.pc = "q_check" /\ SameGraphs(l, k) /\ l.entries = k.entries /\ l.victim = g
      /\ l.names = {ManifestName(t)} /\ l.back = "evict"
  BY <1>7, LocalsFields DEF SameGraphs
<1>9. WantedGraph(l) = g
  BY <1>4, <1>8 DEF WantedGraph, SameGraphs
<1>10. Wanting(l) /\ AloneWanting(p, l)
  BY <1>3, <1>4, <1>8, <1>9
  DEF Wanting, AloneWanting, Evicting, Before, Quarantining, SameGraphs
<1>11. AloneHead(l)
  BY <1>2, <1>3, <1>8 DEF AloneHead, Adding, SameGraphs, Opening, Publishing
<1>12. AloneWorking(p, l)
  BY <1>3, <1>8, <1>10, <1>11, AloneInWanting DEF SameGraphs
<1> QED BY <1>1, <1>6, <1>7, <1>12, AloneQuiet DEF QuarantineAffected

LEMMA AloneEvict ==
  ASSUME TypeInv, NEW b \in Builders, AloneWorking(Host[b], job[b]), Evict(b)
  PROVE  AloneWorking(Host[b], job[b])'
<1>1. PICK k \in Locals : k = job[b]
  BY DEF TypeInv, TypeOK
<1> DEFINE p == Host[b]
           t == k.target
           g == k.victim
<1>2. LocalsOK(k) /\ AloneWorking(p, k) /\ k.pc = "evict" /\ Wanting(k) /\ p \in Processes
  BY <1>1, CacheAssumption
  DEF TypeInv, LocalInv, Evict, At, Wanting, Evicting
<1>3. /\ Repaired(p) /\ reviews[ReviewOf[t]] # "bad" /\ AloneWanting(p, k) /\ AloneHead(k)
      /\ t \in Snapshots /\ ReviewOf[t] \in Reviews /\ WantedGraph(k) \in Graphs
      /\ \A s \in Snapshots : /\ Known(p, s)
                              /\ rejected[p][s] = NoValue
                              /\ loaded[p][s] = manifests[s]
                              /\ manifests[s] # NoValue => Loadable(s)
  BY <1>2, AloneWants, CacheAssumption
<1>4. /\ g = WantedGraph(k) /\ graphs[g] = NoValue
      /\ \A e \in k.entries : Healthy(GraphOf[e.snapshot], e.image)
  BY <1>2, <1>3 DEF AloneWanting, Evicting
<1>5. \A s \in Snapshots : Uses(s, g) => loaded[p][s] = NoValue
  BY <1>3, <1>4, CacheAssumption DEF Uses, Loadable, Loads, Healthy
<1>6. UNCHANGED diskVars
  BY DEF Evict
<1>7. \A s \in Snapshots : loaded'[p][s] = loaded[p][s] /\ rejected'[p][s] = rejected[p][s]
  BY <1>1, <1>2, <1>3, <1>5 DEF Evict, TypeInv, TypeOK
<1>8. Repaired(p)'
  BY <1>3, <1>6, <1>7
  DEF Repaired, DiskRepaired, Known, Loadable, Loads, Healthy, diskVars, fileVars
<1>9. ~ (NeedsSource(b) /\ k.source = NoValue)
  BY <1>1, <1>2, <1>3 DEF NeedsSource, AloneHead, Adding, Healthy
<1>10. PICK l \in Locals : l = [k EXCEPT !.pc = "seed", !.ids = {}, !.victim = NoValue]
  BY LocalsUpdate DEF Steps
<1>11. l.pc = "seed" /\ SameGraphs(l, k) /\ l.entries = k.entries
  BY <1>10, LocalsFields DEF SameGraphs
<1>12. WantedGraph(l) = g
  BY <1>4, <1>11 DEF WantedGraph, SameGraphs
<1>13. \A h, i : Healthy(h, i)' <=> Healthy(h, i)
  BY <1>6 DEF Healthy, diskVars, fileVars
<1>14. Wanting(l) /\ AloneWanting(p, l)'
  BY <1>4, <1>6, <1>8, <1>11, <1>12, <1>13
  DEF Wanting, AloneWanting, Evicting, Before, Quarantining, SameGraphs, diskVars, fileVars
<1>15. AloneHead(l)'
  BY <1>2, <1>3, <1>6, <1>11, <1>13
  DEF AloneHead, Adding, SameGraphs, Opening, Publishing, diskVars, fileVars
<1>16. reviews'[ReviewOf[t]] # "bad" /\ l.target = t
  BY <1>3, <1>6, <1>11 DEF diskVars, fileVars, SameGraphs
<1>17. AloneWorking(p, l)'
  BY <1>11, <1>14, <1>15, <1>16
  DEF AloneWorking, AloneAttaching, AlonePreparing, AlonePublishing,
      Preparing, Evicting, Wanting, Adding, Before, Opening, Publishing, Quarantining
<1> QED BY <1>1, <1>10, <1>17, <1>9, AloneMove DEF Evict

(* The base is linked under a name that was free, from an image that is    *)
(* new: what is on disk only grows.                                        *)
LEMMA LinkGraphGrows ==
  ASSUME TypeInv, PastInv, NEW g \in Graphs, graphs[g] = NoValue, LinkGraph(g),
         UNCHANGED <<damaged, reviews, manifests>>
  PROVE  /\ Grows /\ Healthy(g, graphs[g])' /\ graphs'[g] \in Images
         /\ \A h \in Graphs : h # g => graphs'[h] = graphs[h]
<1>1. /\ nextImage \in Images /\ graphs' = [graphs EXCEPT ![g] = nextImage]
  BY DEF LinkGraph
<1>2. /\ graphs'[g] = nextImage
      /\ \A h \in Graphs : h # g => graphs'[h] = graphs[h]
  BY <1>1 DEF TypeInv, TypeOK
<1>3. nextImage \notin damaged
  <2>1. nextImage \in Nat
    BY <1>1 DEF Images
  <2> QED BY <2>1 DEF PastInv
<1>4. nextImage # NoValue
  BY <1>1, CacheAssumption DEF Images
<1>5. Healthy(g, graphs[g])'
  BY <1>2, <1>3, <1>4 DEF Healthy
<1> QED BY <1>1, <1>2, <1>5 DEF Grows

LEMMA AloneLinkBase ==
  ASSUME TypeInv, PastInv, NEW b \in Builders, AloneWorking(Host[b], job[b]), LinkBase(b)
  PROVE  AloneWorking(Host[b], job[b])'
<1>1. PICK k \in Locals : k = job[b]
  BY DEF TypeInv, TypeOK
<1> DEFINE p == Host[b]
           t == k.target
           g == BaseOf[t]
<1>2. LocalsOK(k) /\ AloneWorking(p, k) /\ k.pc = "base_link"
  BY <1>1 DEF TypeInv, LocalInv, LinkBase, At
<1>3. t \in Snapshots /\ g \in Graphs /\ GraphOf[t] \in Graphs /\ g # GraphOf[t]
      /\ ReviewOf[t] \in Reviews
  <2>1. t \in Snapshots
    BY <1>2 DEF LocalsOK, Steps, Attaching
  <2>2. g \in Graphs
    BY <1>2 DEF LocalsOK, Opening
  <2> QED BY <2>1, <2>2, CacheAssumption
<1>4. Repaired(p) /\ reviews[ReviewOf[t]] # "bad" /\ AloneHead(k) /\ graphs[g] = NoValue
  BY <1>2 DEF AloneWorking, AloneWanting, AlonePreparing, AloneHead, Opening
<1>5. /\ LinkGraph(g) /\ Goto(b, "base_open")
      /\ UNCHANGED <<damaged, reviews, manifests, faults, catalogVars>>
  BY <1>1 DEF LinkBase
<1>6. /\ Grows /\ Healthy(g, graphs[g])'
      /\ \A h \in Graphs : h # g => graphs'[h] = graphs[h]
  BY <1>3, <1>4, <1>5, LinkGraphGrows
<1>7. Repaired(p)'
  BY <1>4, <1>5, <1>6, RepairedGrows
<1>8. PICK l \in Locals : l = [k EXCEPT !.pc = "base_open"]
  BY LocalsUpdate DEF Steps
<1>9. l.pc = "base_open" /\ SameGraphs(l, k)
  BY <1>8, LocalsFields DEF SameGraphs
<1>10. /\ ~ k.own => Healthy(GraphOf[t], k.exact)
       /\ k.own => graphs[GraphOf[t]] = NoValue
  BY <1>2, <1>4 DEF AloneHead, Opening
<1>11. /\ ~ k.own => Healthy(GraphOf[t], k.exact)'
       /\ k.own => graphs'[GraphOf[t]] = NoValue
  BY <1>3, <1>6, <1>10, HealthyGrows
<1>12. AloneHead(l)'
  BY <1>6, <1>9, <1>11
  DEF AloneHead, SameGraphs, Wanting, Evicting, Before, Quarantining
<1>13. reviews'[ReviewOf[t]] # "bad" /\ l.target = t
  BY <1>4, <1>5, <1>9 DEF SameGraphs
<1>14. AloneWorking(p, l)'
  BY <1>7, <1>9, <1>12, <1>13
  DEF AloneWorking, AloneAttaching, AlonePreparing, AloneWanting, AlonePublishing,
      Preparing, Evicting, Wanting, Adding, Before, Opening, Publishing, Quarantining
<1> QED BY <1>1, <1>5, <1>8, <1>14, AloneMove DEF Goto

LEMMA AloneBuild ==
  ASSUME TypeInv, PastInv, NEW b \in Builders, AloneWorking(Host[b], job[b]), Build(b)
  PROVE  AloneWorking(Host[b], job[b])'
<1>1. CASE OpenBase(b)
  <2> DEFINE j == job[b]
             g == BaseOf[j.target]
  <2>1. j \in Locals /\ LocalsOK(j) /\ j.pc = "base_open"
    BY <1>1 DEF TypeInv, TypeOK, LocalInv, OpenBase, At
  <2>2. g \in Graphs /\ WantedGraph(j) = g
    BY <2>1 DEF LocalsOK, Opening, HeadSettled, WantedGraph
  <2>3. Healthy(g, graphs[g])
    BY <2>1 DEF AloneWorking, AloneHead
  <2>4. graphs[g] \in Images
    BY <2>2, <2>3 DEF TypeInv, TypeOK, Healthy
  <2> QED BY <1>1, <2>1, <2>2, <2>3, <2>4, AlonePinned DEF OpenBase
<1> QED
  BY <1>1, AloneTake, AlonePin, AloneSeed, AloneAffected, AloneEvict, AloneLinkBase
  DEF Build

----------------------------------------------------------------------------
(* A step of `publish` that goes on.  The names it adds break nothing.     *)
LEMMA AlonePublishGoto ==
  ASSUME TypeInv, NEW b \in Builders, AloneWorking(Host[b], job[b]),
         NEW t, t = job[b].target,
         job[b].pc \in Publishing, NEW pc \in Publishing \ {"review_link"}, Goto(b, pc),
         Grows, UNCHANGED <<manifests, catalogVars>>,
         reviews'[ReviewOf[t]] = "good",
         pc \in {"review_read", "graph_link"} =>
           /\ job[b].pc \in {"review_link", "review_read"}
           /\ UNCHANGED graphs,
         pc = "graph_open" =>
           /\ Healthy(GraphOf[t], graphs[GraphOf[t]])'
           /\ job[b].exact \in {NoValue, graphs'[GraphOf[t]]},
         pc \in {"base_check", "manifest_link"} =>
           Healthy(GraphOf[t], job[b].exact)
  PROVE  AloneWorking(Host[b], job[b])'
<1>1. PICK k \in Locals : k = job[b]
  BY DEF TypeInv, TypeOK
<1> DEFINE p == Host[b]
           g == GraphOf[t]
<1>2. LocalsOK(k) /\ AloneWorking(p, k) /\ k.pc \in Publishing /\ k.target = t
  BY <1>1 DEF TypeInv, LocalInv
<1>3. t \in Snapshots /\ g \in Graphs /\ (BaseOf[t] # NoValue => BaseOf[t] \in Graphs)
  BY <1>2, CacheAssumption DEF LocalsOK, Publishing, Steps, Attaching
<1>4. /\ Repaired(p)
      /\ BaseOf[t] # NoValue => Healthy(BaseOf[t], k.base)
      /\ ~ k.own => Healthy(g, k.exact)
      /\ k.own /\ k.pc \in {"review_link", "review_read"} => graphs[g] = NoValue
  BY <1>2 DEF AloneWorking, AloneWanting, AlonePublishing, AloneHead
<1>5. /\ Repaired(p)'
      /\ BaseOf[t] # NoValue => Healthy(BaseOf[t], k.base)'
      /\ ~ k.own => Healthy(g, k.exact)'
      /\ Healthy(g, k.exact) => Healthy(g, k.exact)'
  BY <1>3, <1>4, RepairedGrows, HealthyGrows
<1>6. PICK l \in Locals : l = [k EXCEPT !.pc = pc]
  BY LocalsUpdate DEF Publishing, Steps
<1>7. l.pc = pc /\ SameGraphs(l, k)
  BY <1>6, LocalsFields DEF SameGraphs
<1>8. AloneHead(l)'
  BY <1>1, <1>4, <1>5, <1>7
  DEF AloneHead, Adding, SameGraphs, Opening, Publishing, Wanting, Evicting, Before, Quarantining
<1>9. AlonePublishing(l)'
  BY <1>1, <1>5, <1>7 DEF AlonePublishing, SameGraphs, Publishing
<1>10. AloneWorking(p, l)'
  BY <1>5, <1>7, <1>8, <1>9
  DEF AloneWorking, AloneAttaching, AlonePreparing, AloneWanting,
      Preparing, Evicting, Wanting, Adding, Before, Opening, Publishing, Quarantining
<1> QED BY <1>1, <1>6, <1>10, AloneMove DEF Goto

(* The review and the built graph are linked, and read back.               *)
LEMMA AloneLinks ==
  ASSUME TypeInv, PastInv, NEW b \in Builders, AloneWorking(Host[b], job[b]),
         LinkReview(b) \/ ReadReview(b) \/ LinkHead(b) \/ CheckBase(b)
  PROVE  AloneWorking(Host[b], job[b])'
<1>0. PICK j \in Locals : j = job[b]
  BY DEF TypeInv, TypeOK
<1> DEFINE p == Host[b]
           t == j.target
           r == ReviewOf[t]
           g == GraphOf[t]
<1>1. /\ LocalsOK(j)
      /\ j.pc \in {"review_link", "review_read", "graph_link", "base_check"}
      /\ AloneWanting(p, j) /\ AlonePreparing(p, j) /\ AloneHead(j) /\ AlonePublishing(j)
  BY <1>0 DEF TypeInv, LocalInv, LinkReview, ReadReview, LinkHead, CheckBase, At, AloneWorking
<1>2. j.pc \in Publishing /\ t \in Snapshots /\ g \in Graphs /\ r \in Reviews
  BY <1>0, <1>1, CacheAssumption DEF LocalsOK, Publishing, Steps, Attaching
<1>3. UNCHANGED diskVars => Grows
  BY DEF diskVars, fileVars, Grows
<1>4. CASE LinkReview(b)
  <2>1. j.pc = "review_link" /\ reviews[r] # "bad"
    BY <1>0, <1>1, <1>4 DEF LinkReview, At, AlonePreparing
  <2>2. reviews[r] \in {"absent", "good"}
    BY <1>0, <1>2, <2>1 DEF TypeInv, TypeOK
  <2>3. reviews'[r] = "good"
    BY <1>0, <1>2, <1>4, <2>2 DEF LinkReview, TypeInv, TypeOK
  <2>4. Grows
    BY <1>0, <1>4 DEF LinkReview, Grows, TypeInv, TypeOK
  <2> QED BY <1>0, <1>2, <1>4, <2>1, <2>3, <2>4, AlonePublishGoto DEF LinkReview, Publishing
<1>5. CASE ReadReview(b)
  <2>1. j.pc = "review_read" /\ reviews[r] = "good"
    BY <1>0, <1>1, <1>5 DEF ReadReview, At, AlonePublishing, Publishing
  <2>2. Goto(b, IF j.own THEN "graph_link" ELSE "graph_open") /\ UNCHANGED <<diskVars, catalogVars>>
    BY <1>0, <1>5, <2>1 DEF ReadReview
  <2>3. reviews'[r] = "good" /\ UNCHANGED <<graphs, damaged, manifests>>
    BY <2>1, <2>2 DEF diskVars, fileVars
  <2>4. CASE j.own
    BY <1>0, <1>2, <1>3, <2>1, <2>2, <2>3, <2>4, AlonePublishGoto DEF Publishing
  <2>5. CASE ~ j.own
    <3>1. Healthy(g, j.exact)
      BY <1>0, <1>1, <1>2, <2>5 DEF AloneHead
    <3>2. Healthy(g, graphs[g])' /\ j.exact \in {NoValue, graphs'[g]}
      BY <2>3, <3>1 DEF Healthy
    <3> QED BY <1>0, <1>2, <1>3, <2>1, <2>2, <2>3, <2>5, <3>2, AlonePublishGoto DEF Publishing
  <2> QED BY <2>4, <2>5
<1>6. CASE LinkHead(b)
  <2>1. j.pc = "graph_link" /\ reviews[r] = "good" /\ graphs[g] = NoValue /\ j.exact = NoValue
    BY <1>0, <1>1, <1>6
    DEF LinkHead, At, AlonePublishing, AloneHead, LocalsOK, HeadSettled, Publishing
  <2>2. LinkGraph(g) /\ Goto(b, "graph_open") /\ UNCHANGED <<damaged, reviews, manifests, catalogVars>>
    BY <1>0, <1>6 DEF LinkHead
  <2>3. Grows /\ Healthy(g, graphs[g])'
    BY <1>0, <1>2, <2>1, <2>2, LinkGraphGrows
  <2> QED BY <1>0, <1>2, <2>1, <2>2, <2>3, AlonePublishGoto DEF Publishing
<1>7. CASE CheckBase(b)
  <2>1. /\ j.pc = "base_check" /\ reviews[r] = "good" /\ Healthy(g, j.exact)
        /\ BaseOf[t] = NoValue \/ Healthy(BaseOf[t], j.base)
    BY <1>0, <1>1, <1>7 DEF CheckBase, At, AlonePublishing, Publishing
  <2>2. Goto(b, "manifest_link") /\ UNCHANGED <<diskVars, catalogVars>>
    BY <1>0, <1>7, <2>1 DEF CheckBase
  <2>3. reviews'[r] = "good" /\ UNCHANGED manifests
    BY <2>1, <2>2 DEF diskVars, fileVars
  <2> QED BY <1>0, <1>2, <1>3, <2>1, <2>2, <2>3, AlonePublishGoto DEF Publishing
<1> QED BY <1>4, <1>5, <1>6, <1>7

LEMMA AloneOpenHead ==
  ASSUME TypeInv, NEW b \in Builders, AloneWorking(Host[b], job[b]), OpenHead(b)
  PROVE  AloneWorking(Host[b], job[b])'
<1>1. PICK k \in Locals : k = job[b]
  BY DEF TypeInv, TypeOK
<1> DEFINE p == Host[b]
           t == k.target
           g == GraphOf[t]
<1>2. LocalsOK(k) /\ AloneWorking(p, k) /\ k.pc = "graph_open"
  BY <1>1 DEF TypeInv, LocalInv, OpenHead, At
<1>3. t \in Snapshots /\ g \in Graphs
  BY <1>2, CacheAssumption DEF LocalsOK, Steps, Attaching
<1>4. /\ Repaired(p) /\ reviews[ReviewOf[t]] = "good"
      /\ Healthy(g, graphs[g]) /\ k.exact \in {NoValue, graphs[g]}
      /\ BaseOf[t] # NoValue => Healthy(BaseOf[t], k.base)
  BY <1>2 DEF AloneWorking, AloneWanting, AlonePublishing, Publishing
<1>5. graphs[g] \in Images
  BY <1>3, <1>4 DEF TypeInv, TypeOK, Healthy
<1>6. Becomes(b, [k EXCEPT !.pc = "base_check", !.exact = graphs[g]])
  BY <1>1, <1>4 DEF OpenHead
<1>7. PICK l \in Locals : l = [k EXCEPT !.pc = "base_check", !.exact = graphs[g]]
  BY <1>5, LocalsUpdate DEF Steps
<1>8. l.pc = "base_check" /\ l.target = t /\ l.exact = graphs[g] /\ l.base = k.base
  BY <1>7, LocalsFields
<1>9. AloneHead(l) /\ AlonePublishing(l)
  BY <1>4, <1>8
  DEF AloneHead, AlonePublishing, Opening, Publishing, Wanting, Evicting, Before, Quarantining
<1>10. AloneWorking(p, l)
  BY <1>4, <1>8, <1>9, AloneInPublishing DEF Publishing
<1> QED BY <1>1, <1>6, <1>7, <1>10, AloneQuiet DEF OpenHead

(* The manifest is linked, and loads.                                      *)
LEMMA AloneManifest ==
  ASSUME TypeInv, NEW b \in Builders, AloneWorking(Host[b], job[b]), LinkManifest(b)
  PROVE  AloneWorking(Host[b], job[b])'
<1>1. PICK k \in Locals : k = job[b]
  BY DEF TypeInv, TypeOK
<1> DEFINE p == Host[b]
           t == k.target
           m == [graph |-> k.exact, base |-> k.base]
<1>2. LocalsOK(k) /\ AloneWorking(p, k) /\ k.pc = "manifest_link"
  BY <1>1 DEF TypeInv, LocalInv, LinkManifest, At
<1>3. t \in Snapshots
  BY <1>2 DEF LocalsOK, Steps, Attaching
<1>4. /\ Repaired(p) /\ reviews[ReviewOf[t]] = "good" /\ Healthy(GraphOf[t], k.exact)
      /\ BaseOf[t] # NoValue => Healthy(BaseOf[t], k.base)
  BY <1>2 DEF AloneWorking, AloneWanting, AlonePublishing, Publishing
<1>5. m \in Manifest
  BY <1>2, LocalsFields DEF LocalsOK, Manifest
<1>6. m # NoValue
  BY <1>5, CacheAssumption DEF Manifest, Images
<1>7. Loads(t, m)
  BY <1>4, <1>5 DEF Loads
<1>8. /\ manifests'[t] = IF manifests[t] = NoValue THEN m ELSE manifests[t]
      /\ UNCHANGED <<graphs, damaged, reviews>>
  BY <1>1, <1>3 DEF LinkManifest, TypeInv, TypeOK
<1>9. manifests[t] # NoValue => Loads(t, manifests[t])
  BY <1>3, <1>4 DEF Repaired, DiskRepaired, Loadable
<1>10. PICK v : v = manifests'[t]
  OBVIOUS
<1>11. v # NoValue /\ Loads(t, v)
  BY <1>6, <1>7, <1>8, <1>9, <1>10
<1>12. manifests'[t] # NoValue /\ Loadable(t)'
  BY <1>8, <1>10, <1>11 DEF Loadable, Loads, Healthy
<1>13. PICK l \in Locals : l = [k EXCEPT !.pc = "final_read"]
  BY LocalsUpdate DEF Steps
<1>14. l.pc = "final_read" /\ l.target = t
  BY <1>13, LocalsFields
<1>15. AloneWorking(p, l)'
  BY <1>12, <1>14
  DEF AloneWorking, AloneAttaching, AlonePreparing, AloneWanting, AloneHead, AlonePublishing,
      Preparing, Evicting, Wanting, Adding, Before, Opening, Publishing, Quarantining
<1> QED BY <1>1, <1>13, <1>15, AloneMove DEF LinkManifest, Goto

LEMMA AloneFinal ==
  ASSUME TypeInv, NEW b \in Builders, AloneWorking(Host[b], job[b]),
         FinalRead(b) \/ FinalCheck(b)
  PROVE  AloneWorking(Host[b], job[b])'
<1>1. PICK k \in Locals : k = job[b]
  BY DEF TypeInv, TypeOK
<1> DEFINE p == Host[b]
           t == k.target
<1>2. LocalsOK(k) /\ AloneWorking(p, k) /\ k.pc \in {"final_read", "final_check"}
  BY <1>1 DEF TypeInv, LocalInv, FinalRead, FinalCheck, At
<1>3. t \in Snapshots /\ manifests[t] # NoValue /\ Loadable(t)
  BY <1>2 DEF LocalsOK, Steps, Attaching, AloneWorking, AlonePublishing
<1>4. CASE FinalRead(b)
  <2>1. Becomes(b, [k EXCEPT !.pc = "final_check", !.held = manifests[t]])
    BY <1>1, <1>3, <1>4 DEF FinalRead
  <2>2. manifests[t] \in Manifest \union {Junk, NoValue}
    BY <1>3 DEF TypeInv, TypeOK
  <2>3. PICK l \in Locals : l = [k EXCEPT !.pc = "final_check", !.held = manifests[t]]
    BY <2>2, LocalsUpdate DEF Steps
  <2>4. l.pc = "final_check" /\ l.target = t /\ l.held = manifests[t]
    BY <2>3, LocalsFields
  <2>5. AlonePublishing(l)
    BY <1>3, <2>4 DEF AlonePublishing, Publishing
  <2>6. AloneWorking(p, l)
    BY <2>4, <2>5, AloneInFinal
  <2> QED BY <1>1, <1>4, <2>1, <2>3, <2>6, AloneQuiet DEF FinalRead
<1>5. CASE FinalCheck(b)
  <2>1. k.held = manifests[t]
    BY <1>1, <1>2, <1>5 DEF FinalCheck, At, AloneWorking, AlonePublishing
  <2>2. Rest(b, "completed") /\ UNCHANGED diskVars
    BY <1>1, <1>3, <1>5, <2>1 DEF FinalCheck, Loadable
  <2> DEFINE i == [Idle EXCEPT !.pc = "completed", !.target = t]
  <2>3. i \in Locals /\ i.pc = "completed" /\ i.target = t
    <3>1. t \in Snapshots \union {NoValue} /\ "completed" \in Resting \union {"list"}
      BY <1>3 DEF Resting
    <3> QED BY <3>1, IdleLocals
  <2> HIDE DEF i
  <2>4. PICK l \in Locals : l = i
    BY <2>3
  <2>5. l.pc = "completed" /\ l.target = t
    BY <2>4, <2>3
  <2> USE DEF i
  <2>6. Loadable(t)'
    BY <1>3, <2>2 DEF Loadable, Loads, Healthy, diskVars, fileVars
  <2>7. AloneWorking(p, l)'
    BY <2>5, <2>6
    DEF AloneWorking, AloneAttaching, AlonePreparing, AloneWanting, AloneHead, AlonePublishing,
        Preparing, Evicting, Wanting, Adding, Before, Opening, Publishing, Quarantining
  <2> QED BY <1>1, <2>2, <2>4, <2>7, AloneMove DEF Rest
<1> QED BY <1>4, <1>5

LEMMA AlonePublish ==
  ASSUME TypeInv, PastInv, NEW b \in Builders, AloneWorking(Host[b], job[b]), Publish(b)
  PROVE  AloneWorking(Host[b], job[b])'
  BY AloneLinks, AloneOpenHead, AloneManifest, AloneFinal DEF Publish

----------------------------------------------------------------------------
(* A builder that cannot add its evidence, for what it found of the source *)
(* snapshot, moves the source's graph away or fails right away.            *)
LEMMA AloneFails ==
  ASSUME TypeInv, NEW b \in Builders, Rest(b, "failed"), job[b].target \in Snapshots,
         NEW s \in Snapshots, s = SourceOf[job[b].target], ~ Loadable(s)'
  PROVE  AloneBuilder(Host[b], job[b])'
<1>1. PICK l \in Locals : l = [Idle EXCEPT !.pc = "failed", !.target = job[b].target]
  BY IdleLocals DEF Resting
<1>2. l.pc = "failed" /\ l.target = job[b].target
  BY <1>1, IdleLocals DEF Resting
<1>3. s # NoValue
  BY CacheAssumption
<1>4. AloneWorking(Host[b], l)'
  BY <1>2, <1>3
  DEF AloneWorking, AloneAttaching, AlonePreparing, AloneWanting, AloneHead, AlonePublishing,
      Preparing, Evicting, Wanting, Before, Opening, Publishing, Quarantining
<1> QED BY <1>1, <1>4, AloneMove DEF AloneBuilder, Rest

LEMMA GivingUpMove ==
  ASSUME TypeInv, NEW b \in Builders, NEW l \in Locals, Becomes(b, l), AloneGivingUp(l)'
  PROVE  AloneBuilder(Host[b], job[b])'
<1>1. job'[b] = l
  BY BecomesType DEF TypeInv, TypeOK
<1>2. AloneGivingUp(job[b])'
  BY <1>1 DEF AloneGivingUp, GivingUp, Evicting, Adding, Before, Loadable, Loads, Healthy, Exists
<1> QED BY <1>2 DEF AloneBuilder

LEMMA GivingUpSame ==
  ASSUME NEW l, AloneGivingUp(l), UNCHANGED diskVars
  PROVE  AloneGivingUp(l)'
  BY DEF AloneGivingUp, Loadable, Loads, Healthy, Exists, diskVars, fileVars

(* Moving a name away makes nothing loadable.                              *)
LEMMA UnlinkLoads ==
  ASSUME TypeInv, NEW n, Unlink(n), UNCHANGED damaged, NEW s \in Snapshots, Loadable(s)'
  PROVE  Loadable(s)
<1>1. /\ GraphOf[s] \in Graphs /\ ReviewOf[s] \in Reviews
      /\ BaseOf[s] \in Graphs \union {NoValue}
      /\ NoValue \notin Manifest
  BY CacheAssumption DEF Manifest, Images
<1>2. PICK m : m = manifests'[s]
  OBVIOUS
<1>3. Loads(s, m)'
  BY <1>2 DEF Loadable, Loads, Healthy
<1>4. m = manifests[s]
  BY <1>1, <1>3, <1>2 DEF Unlink, Loads
<1>5. \A g \in Graphs : \A i : Healthy(g, i)' => Healthy(g, i)
  BY DEF Unlink, Healthy
<1>6. reviews[ReviewOf[s]] = "good"
  BY <1>1, <1>3 DEF Unlink, Loads
<1> QED BY <1>1, <1>3, <1>4, <1>5, <1>6 DEF Loadable, Loads

LEMMA AloneValidate ==
  ASSUME TypeInv, NEW b \in Builders, AloneWorking(Host[b], job[b]), ValidateSource(b)
  PROVE  AloneBuilder(Host[b], job[b])'
<1>1. PICK k \in Locals : k = job[b]
  BY DEF TypeInv, TypeOK
<1> DEFINE p == Host[b]
           t == k.target
           s == SourceOf[t]
           entry == loaded[p][s]
<1>2. LocalsOK(k) /\ AloneWorking(p, k) /\ k.pc = "source" /\ p \in Processes
  BY <1>1, CacheAssumption DEF TypeInv, LocalInv, ValidateSource, At
<1>3. /\ t \in Snapshots /\ s \in Snapshots /\ s # NoValue /\ GraphOf[s] \in Graphs
      /\ NothingSettled(k)
  BY <1>2, CacheAssumption DEF LocalsOK, Attaching, Steps
<1>4. \A u \in Snapshots : Known(p, u)
  BY <1>2 DEF AloneWorking, AloneAttaching
<1>5. UNCHANGED diskVars /\ UNCHANGED catalogVars
  BY DEF ValidateSource
<1>6. entry = NoValue => ~ Loadable(s)
  <2>1. NoValue \notin Manifest
    BY CacheAssumption DEF Manifest, Images
  <2> QED BY <1>3, <1>4, <2>1 DEF Known, Loadable, Loads
<1>7. entry # NoValue => Healthy(GraphOf[s], entry.graph) /\ entry.graph \in Images
  BY <1>3, <1>4 DEF Known, Loadable, Loads, Manifest
<1>8. CASE entry # NoValue /\ Becomes(b, [k EXCEPT !.pc = "prepare", !.source = entry.graph])
  <2>1. PICK l \in Locals : l = [k EXCEPT !.pc = "prepare", !.source = entry.graph]
    BY <1>7, <1>8, LocalsUpdate DEF Steps
  <2>2. l.pc = "prepare" /\ l.source = entry.graph /\ l.target = t
    BY <2>1, LocalsFields
  <2>3. Preparing(l) /\ AlonePreparing(p, l)
    BY <1>4, <1>7, <1>8, <2>2
    DEF AlonePreparing, AllKnown, Preparing, Wanting, Evicting, Before, Opening, Quarantining
  <2>4. AloneWorking(p, l)
    BY <2>3, AloneInPrepare
  <2> QED BY <1>1, <1>5, <1>8, <2>1, <2>4, AloneQuiet DEF AloneBuilder
<1>9. CASE entry = NoValue /\ QuarantineGraph(b, GraphOf[s], s, {}, NoValue)
  <2> DEFINE g == GraphOf[s]
  <2>1. {GraphName(g)} \in SUBSET Names
    BY <1>3 DEF GraphName, Names
  <2>2. PICK k1 \in Locals :
          k1 = [k EXCEPT !.pc = "q_check", !.names = {GraphName(g)}, !.back = "affected"]
    BY <2>1, LocalsUpdate DEF Steps
  <2>3. PICK k2 \in Locals : k2 = [k1 EXCEPT !.victim = g, !.ids = {s}]
    BY <1>3, LocalsUpdate
  <2>4. PICK l \in Locals : l = [k2 EXCEPT !.entries = {}, !.source = NoValue]
    BY LocalsUpdate
  <2>5. /\ l.pc = "q_check" /\ l.names = {GraphName(g)} /\ l.back = "affected"
        /\ l.victim = g /\ l.ids = {s} /\ l.source = NoValue
        /\ l.target = t /\ l.role = k.role
    BY <2>2, <2>3, <2>4, LocalsFields
  <2>6. l = [k EXCEPT !.pc = "q_check", !.names = {GraphName(g)}, !.back = "affected",
                      !.victim = g, !.ids = {s}, !.entries = {}, !.source = NoValue]
    BY <2>2, <2>3, <2>4
  <2>7. Becomes(b, l)
    BY <1>1, <1>9, <2>6 DEF QuarantineGraph
  <2>8. AloneGivingUp(l)
    BY <1>3, <1>6, <1>9, <2>5
    DEF AloneGivingUp, GivingUp, Evicting, Adding, Before, Quarantining, NothingSettled
  <2> QED BY <1>5, <2>7, <2>8, GivingUpSame, GivingUpMove
<1>10. CASE entry = NoValue /\ Rest(b, "failed")
  <2>1. ~ Loadable(s)'
    BY <1>5, <1>6, <1>10 DEF Loadable, Loads, Healthy, diskVars, fileVars
  <2> QED BY <1>1, <1>3, <1>10, <2>1, AloneFails
<1> QED BY <1>1, <1>8, <1>9, <1>10 DEF ValidateSource

(* The steps on the way to giving up.                                      *)
LEMMA GivingUpSteps ==
  ASSUME NEW b, AloneGivingUp(job[b]), Step(b)
  PROVE  \/ \E n \in Names : QuarantineCheck(b, n)
         \/ QuarantineRename(b) \/ QuarantineAffected(b) \/ Evict(b)
<1>1. job[b].pc \in {"q_check", "q_rename", "affected", "evict"}
  BY DEF AloneGivingUp, GivingUp, Evicting, Before, Quarantining
<1>2. ~ Attach(b)
  BY <1>1 DEF Attach, List, LoadManifest, CheckFiles, Reconcile, ValidateSource, At
<1>3. ~ Publish(b)
  BY <1>1 DEF Publish, LinkReview, ReadReview, LinkHead, OpenHead, CheckBase, LinkManifest,
     FinalRead, FinalCheck, At
<1>4. Build(b) => QuarantineAffected(b) \/ Evict(b)
  BY <1>1 DEF Build, TakeEntries, PinExact, Seed, LinkBase, OpenBase, At
<1>5. Prepare(b) => QuarantineRename(b) \/ \E n \in Names : QuarantineCheck(b, n)
  BY <1>1 DEF Prepare, PrepareManifest, PrepareReview, Sweep, QuarantineForget, At
<1> QED BY <1>2, <1>3, <1>4, <1>5 DEF Step

(* A name out of the way, or gone before.                                  *)
LEMMA GivingUpQuarantined ==
  ASSUME TypeInv, NEW b \in Builders, AloneGivingUp(job[b]),
         job[b].pc \in {"q_check", "q_rename"},
         NEW n \in job[b].names, Quarantined(b, n),
         NEW s, s = SourceOf[job[b].target], ~ Loadable(s)'
  PROVE  AloneBuilder(Host[b], job[b])'
<1>1. PICK k \in Locals : k = job[b]
  BY DEF TypeInv, TypeOK
<1> DEFINE rest == k.names \ {n}
           pc == IF rest = {} THEN k.back ELSE "q_check"
<1>2. /\ AloneGivingUp(k) /\ k.pc \in {"q_check", "q_rename"}
      /\ k.back \in {"affected", "evict"} /\ GivingUp(k)
  BY <1>1 DEF AloneGivingUp, GivingUp, Evicting, Before, Quarantining
<1>3. pc \in {"q_check", "affected", "evict"} /\ rest \in SUBSET Names
  BY <1>2, LocalsFields
<1>4. PICK l \in Locals : l = [k EXCEPT !.pc = pc, !.current = NoValue, !.names = rest]
  BY <1>3, LocalsUpdate DEF Steps
<1>5. Becomes(b, l)
  BY <1>1, <1>2, <1>4 DEF Quarantined, Forgets, NextName
<1>6. /\ l.pc = pc /\ SameGraphs(l, k) /\ l.names = rest /\ l.back = k.back
      /\ l.victim = k.victim /\ l.ids = k.ids
  BY <1>4, LocalsFields DEF SameGraphs
<1>7. CASE k.back = "affected"
  <2>1. k.names = {GraphName(k.victim)}
    BY <1>2, <1>7 DEF AloneGivingUp, Before, Quarantining
  <2>2. l.pc = "affected"
    BY <1>1, <1>6, <1>7, <2>1
  <2>3. AloneGivingUp(l)'
    BY <1>1, <1>2, <1>6, <1>7, <2>2
    DEF AloneGivingUp, GivingUp, Evicting, Adding, Before, Quarantining, SameGraphs
  <2> QED BY <1>5, <2>3, GivingUpMove
<1>8. CASE k.back = "evict"
  <2>1. l.pc \in {"q_check", "evict"}
    BY <1>6, <1>8
  <2>2. AloneGivingUp(l)'
    BY <1>1, <1>2, <1>6, <1>8, <2>1
    DEF AloneGivingUp, GivingUp, Evicting, Adding, Before, Quarantining, SameGraphs
  <2> QED BY <1>5, <2>2, GivingUpMove
<1> QED BY <1>2, <1>7, <1>8

LEMMA GivesUp ==
  ASSUME TypeInv, NEW b \in Builders, AloneGivingUp(job[b]), Step(b)
  PROVE  AloneBuilder(Host[b], job[b])'
<1>1. PICK k \in Locals : k = job[b]
  BY DEF TypeInv, TypeOK
<1> DEFINE s == SourceOf[k.target]
<1>2. /\ LocalsOK(k) /\ AloneGivingUp(k) /\ GivingUp(k) /\ ~ Loadable(s)
  BY <1>1 DEF TypeInv, LocalInv, AloneGivingUp
<1>3. k.target \in Snapshots /\ s \in Snapshots /\ s # NoValue
  BY <1>2, CacheAssumption
  DEF LocalsOK, GivingUp, Evicting, Adding, Before, Quarantining, Steps, Attaching
<1>4. UNCHANGED diskVars => ~ Loadable(s)'
  BY <1>2 DEF Loadable, Loads, Healthy, diskVars, fileVars
<1>5. ASSUME NEW n \in Names, QuarantineCheck(b, n)
      PROVE  AloneBuilder(Host[b], job[b])'
  <2>1. k.pc = "q_check" /\ n \in k.names /\ UNCHANGED diskVars
    BY <1>1, <1>5 DEF QuarantineCheck, At
  <2>2. CASE Exists(n)
    <3>1. PICK l \in Locals : l = [k EXCEPT !.pc = "q_rename", !.current = n]
      BY LocalsUpdate DEF Steps
    <3>2. /\ l.pc = "q_rename" /\ SameGraphs(l, k) /\ l.current = n /\ l.names = k.names
          /\ l.back = k.back /\ l.victim = k.victim /\ l.ids = k.ids
      BY <3>1, LocalsFields DEF SameGraphs
    <3>3. AloneGivingUp(l)
      BY <1>2, <2>1, <2>2, <3>2
      DEF AloneGivingUp, GivingUp, Evicting, Adding, Before, Quarantining, SameGraphs
    <3>4. Becomes(b, l)
      BY <1>1, <1>5, <2>2, <3>1 DEF QuarantineCheck
    <3> QED BY <2>1, <3>3, <3>4, GivingUpSame, GivingUpMove
  <2>3. CASE ~ Exists(n)
    <3>1. Quarantined(b, n)
      BY <1>5, <2>3 DEF QuarantineCheck
    <3> QED BY <1>1, <1>4, <2>1, <3>1, GivingUpQuarantined
  <2> QED BY <2>2, <2>3
<1>6. CASE QuarantineRename(b)
  <2> DEFINE n == k.current
  <2>1. k.pc = "q_rename" /\ n \in k.names /\ Exists(n)
    BY <1>1, <1>2, <1>6 DEF QuarantineRename, At, AloneGivingUp, LocalsOK
  <2>2. Unlink(n) /\ Quarantined(b, n) /\ UNCHANGED damaged
    BY <1>1, <1>6, <2>1 DEF QuarantineRename
  <2>3. ~ Loadable(s)'
    BY <1>2, <1>3, <2>2, UnlinkLoads
  <2> QED BY <1>1, <2>1, <2>2, <2>3, GivingUpQuarantined
<1>7. CASE QuarantineAffected(b)
  <2> DEFINE ids == k.ids \union {u \in Snapshots : /\ loaded[Host[b]][u] # NoValue
                                                   /\ Uses(u, k.victim)}
             names == {ManifestName(u) : u \in ids}
  <2>1. k.pc = "affected" /\ UNCHANGED diskVars
    BY <1>1, <1>7 DEF QuarantineAffected, At
  <2>2. ids \in SUBSET Snapshots
    BY LocalsFields
  <2>3. names \in SUBSET Names
    BY <2>2 DEF ManifestName, Names
  <2>4. \A u \in ids : Uses(u, k.victim)
    BY <1>2, <2>1 DEF AloneGivingUp, Uses
  <2>5. \A n \in names : \E u \in Snapshots : n = ManifestName(u) /\ Uses(u, k.victim)
    BY <2>2, <2>4
  <2>6. Becomes(b, [k EXCEPT !.pc = "q_check", !.ids = ids, !.back = "evict", !.names = names])
    BY <1>1, <1>7 DEF QuarantineAffected
  <2> HIDE DEF ids, names
  <2>7. PICK k1 \in Locals : k1 = [k EXCEPT !.pc = "q_check", !.ids = ids]
    BY <2>2, LocalsUpdate DEF Steps
  <2>8. PICK l \in Locals : l = [k1 EXCEPT !.back = "evict", !.names = names]
    BY <2>3, LocalsUpdate DEF Steps
  <2>9. /\ l.pc = "q_check" /\ SameGraphs(l, k) /\ l.names = names /\ l.back = "evict"
        /\ l.victim = k.victim
    BY <2>7, <2>8, LocalsFields DEF SameGraphs
  <2>10. AloneGivingUp(l)
    BY <1>2, <2>5, <2>9
    DEF AloneGivingUp, GivingUp, Evicting, Adding, Before, Quarantining, SameGraphs
  <2>11. l = [k EXCEPT !.pc = "q_check", !.ids = ids, !.back = "evict", !.names = names]
    BY <2>7, <2>8
  <2> QED BY <2>1, <2>6, <2>10, <2>11, GivingUpSame, GivingUpMove
<1>8. CASE Evict(b)
  <2>1. NeedsSource(b) /\ job[b].source = NoValue
    BY <1>1, <1>2 DEF GivingUp, Adding, NeedsSource
  <2>2. Rest(b, "failed") /\ UNCHANGED diskVars
    BY <1>8, <2>1 DEF Evict
  <2> QED BY <1>1, <1>3, <1>4, <2>2, AloneFails
<1> QED BY <1>1, <1>5, <1>6, <1>7, <1>8, GivingUpSteps

----------------------------------------------------------------------------
(* A builder's step only adds files, unless it moves a name out of the way. *)
LEMMA StepGrows ==
  ASSUME TypeInv, NEW b \in Builders, Step(b), ~ QuarantineRename(b)
  PROVE  Grows
<1>a. ASSUME NEW g \in Graphs, LinkGraph(g), UNCHANGED <<damaged, reviews, manifests>>
      PROVE  Grows
  BY <1>a DEF LinkGraph, Grows, TypeInv, TypeOK
<1>b. job[b].pc \in Steps \ Attaching =>
        job[b].target \in Snapshots /\ GraphOf[job[b].target] \in Graphs
  BY CacheAssumption DEF TypeInv, LocalInv, LocalsOK
<1>c. ValidateSource(b) => UNCHANGED diskVars
  BY DEF ValidateSource
<1>1. CASE UNCHANGED diskVars
  BY <1>1 DEF diskVars, fileVars, Grows
<1>2. CASE LinkBase(b)
  <2>1. BaseOf[job[b].target] \in Graphs
    BY <1>2 DEF LinkBase, At, TypeInv, LocalInv, LocalsOK, Opening
  <2> QED BY <1>2, <1>a, <2>1 DEF LinkBase
<1>3. CASE LinkReview(b)
  BY <1>3 DEF LinkReview, Grows, TypeInv, TypeOK
<1>4. CASE LinkHead(b)
  BY <1>4, <1>a, <1>b DEF LinkHead, At, Steps, Attaching
<1>5. CASE LinkManifest(b)
  BY <1>5 DEF LinkManifest, Grows, TypeInv, TypeOK
<1> QED
  BY <1>c, <1>1, <1>2, <1>3, <1>4, <1>5
  DEF Step, Attach, Prepare, Build, Publish, List, LoadManifest, CheckFiles, Reconcile,
      PrepareManifest, PrepareReview, Sweep, QuarantineCheck, QuarantineForget, TakeEntries,
      PinExact, Seed, QuarantineAffected, Evict, OpenBase, ReadReview, OpenHead, CheckBase,
      FinalRead, FinalCheck

(* Images are numbered in the order they are published.                    *)
LEMMA PastStep ==
  ASSUME TypeInv, PastInv, [Next]_vars
  PROVE  PastInv'
<1>0. /\ nextImage \in Nat
      /\ \A i \in damaged : i \in Nat
      /\ \A g \in Graphs : graphs[g] # NoValue => graphs[g] \in Nat
  BY CacheAssumption DEF TypeInv, TypeOK, Images
<1>a. ASSUME NEW g \in Graphs, LinkGraph(g), UNCHANGED damaged
      PROVE  PastInv'
  BY <1>0, <1>a DEF LinkGraph, PastInv, TypeInv, TypeOK
<1>b. ASSUME NEW n, Unlink(n), UNCHANGED <<damaged, nextImage>>
      PROVE  PastInv'
  BY <1>0, <1>b DEF Unlink, PastInv
<1>1. CASE UNCHANGED <<graphs, damaged, nextImage>>
  BY <1>1 DEF PastInv
<1>2. ASSUME NEW b \in Builders, Step(b)
      PROVE  PastInv'
  <2>b. job[b].pc \in Steps \ Attaching =>
          job[b].target \in Snapshots /\ GraphOf[job[b].target] \in Graphs
    BY CacheAssumption DEF TypeInv, LocalInv, LocalsOK
  <2>c. ValidateSource(b) => UNCHANGED diskVars
    BY DEF ValidateSource
  <2>1. CASE QuarantineRename(b)
    BY <1>1, <1>b, <2>1 DEF QuarantineRename, fileVars
  <2>2. CASE LinkBase(b)
    <3>1. BaseOf[job[b].target] \in Graphs
      BY <2>2 DEF LinkBase, At, TypeInv, LocalInv, LocalsOK, Opening
    <3> QED BY <1>a, <2>2, <3>1 DEF LinkBase
  <2>3. CASE LinkHead(b)
    BY <1>a, <2>3, <2>b DEF LinkHead, At, Steps, Attaching
  <2>4. CASE UNCHANGED diskVars
    BY <1>1, <2>4 DEF diskVars, fileVars
  <2> QED
    BY <1>1, <1>2, <2>c, <2>1, <2>2, <2>3, <2>4
    DEF Step, Attach, Prepare, Build, Publish, List, LoadManifest, CheckFiles, Reconcile,
        PrepareManifest, PrepareReview, Sweep, QuarantineCheck, QuarantineForget, TakeEntries,
        PinExact, Seed, QuarantineAffected, Evict, OpenBase, ReadReview, OpenHead, CheckBase,
        FinalRead, FinalCheck, LinkReview, LinkManifest
<1>3. CASE Fault
  <2>1. ASSUME NEW g \in Graphs, DamageGraph(g)
        PROVE  PastInv'
    BY <1>3, <2>1 DEF Fault, DamageGraph, fileVars, PastInv
  <2>2. ASSUME NEW n \in Names, Overwrite(n)
        PROVE  PastInv'
    BY <1>1, <1>3, <2>2 DEF Fault, Overwrite
  <2>3. ASSUME NEW n \in Names, Delete(n)
        PROVE  PastInv'
    BY <1>3, <1>b, <2>3 DEF Fault, Delete
  <2> QED BY <1>3, <2>1, <2>2, <2>3 DEF Fault
<1> QED
  BY <1>1, <1>2, <1>3
  DEF Next, Moves, Start, Cancel, Crash, vars, diskVars, fileVars

LEMMA AloneStep ==
  ASSUME TypeInv, AloneInv, [Next]_vars
  PROVE  AloneInv'
<1>0. PastInv /\ PastInv'
  BY PastStep DEF AloneInv
<1>1. CASE UNCHANGED vars
  <2>1. UNCHANGED <<diskVars, catalogVars>> /\ job' = job /\ alone' = alone
    BY <1>1 DEF vars
  <2>2. ASSUME NEW b \in Builders, alone[b]
        PROVE  AloneBuilder(Host[b], job[b])'
    <3>1. PICK l : l = job[b]
      OBVIOUS
    <3>2. AloneBuilder(Host[b], l)
      BY <2>2, <3>1 DEF AloneInv
    <3>3. job'[b] = l
      BY <2>1, <3>1
    <3>4. CASE AloneWorking(Host[b], l)
      BY <2>1, <3>3, <3>4, AloneSame, AloneAt DEF AloneBuilder
    <3>5. CASE AloneGivingUp(l)
      <4>1. AloneGivingUp(l)'
        BY <2>1, <3>5, GivingUpSame
      <4>2. AloneGivingUp(job[b])'
        BY <3>3, <4>1
        DEF AloneGivingUp, GivingUp, Evicting, Adding, Before, Loadable, Loads, Healthy, Exists
      <4> QED BY <4>2 DEF AloneBuilder
    <3> QED BY <3>2, <3>4, <3>5 DEF AloneBuilder
  <2> QED BY <1>0, <2>1, <2>2 DEF AloneInv
<1>2. ASSUME NEW b \in Builders, NEW pc \in {"list", "cancelled"},
             NEW target \in Snapshots \union {NoValue},
             Becomes(b, [Idle EXCEPT !.pc = pc, !.target = target])
      PROVE  AloneBuilder(Host[b], job[b])'
  <2>1. PICK l \in Locals : l = [Idle EXCEPT !.pc = pc, !.target = target]
    BY IdleLocals DEF Resting
  <2>2. l.pc = pc
    BY <2>1, IdleLocals DEF Resting
  <2>3. AloneWorking(Host[b], l)'
    BY <2>2
    DEF AloneWorking, AloneAttaching, AlonePreparing, AloneWanting, AloneHead, AlonePublishing,
        Preparing, Evicting, Wanting, Adding, Before, Opening, Publishing, Quarantining
  <2> QED BY <1>2, <2>1, <2>3, AloneMove DEF AloneBuilder
<1>3. ASSUME NEW b \in Builders, NEW target \in Snapshots \union {NoValue}, Start(b, target),
             alone' = [c \in Builders |-> c = b]
      PROVE  AloneInv'
  <2>1. AloneBuilder(Host[b], job[b])'
    BY <1>2, <1>3 DEF Start
  <2> QED BY <1>0, <1>3, <2>1 DEF AloneInv
<1>4. ASSUME NEW b \in Builders, Moves(b)
      PROVE  AloneInv'
  <2>1. ASSUME alone[b]
        PROVE  AloneBuilder(Host[b], job[b])'
    <3>1. Step(b) /\ AloneBuilder(Host[b], job[b])
      BY <1>4, <2>1 DEF AloneInv, Moves
    <3>2. CASE AloneGivingUp(job[b])
      BY <3>1, <3>2, GivesUp
    <3>3. CASE AloneWorking(Host[b], job[b]) /\ ValidateSource(b)
      BY <3>3, AloneValidate
    <3>4. CASE AloneWorking(Host[b], job[b]) /\ ~ ValidateSource(b)
      BY <1>0, <3>1, <3>4, AloneAttach, AlonePrepare, AloneBuild, AlonePublish
      DEF Step, AloneBuilder
    <3> QED BY <3>1, <3>2, <3>3, <3>4 DEF AloneBuilder
  <2>2. \A c \in Builders : alone'[c] => c = b /\ alone[b]
    BY <1>4 DEF Moves
  <2> QED BY <1>0, <2>1, <2>2 DEF AloneInv
<1>5. ASSUME NEW b \in Builders, Cancel(b),
             alone' = [c \in Builders |-> c = b /\ alone[b]]
      PROVE  AloneInv'
  <2>1. job[b].target \in Snapshots \union {NoValue}
    BY LocalsFields DEF TypeInv, TypeOK
  <2>2. AloneBuilder(Host[b], job[b])'
    BY <1>2, <1>5, <2>1 DEF Cancel, Rest
  <2> QED BY <1>0, <1>5, <2>2 DEF AloneInv
<1>6. CASE alone' = [c \in Builders |-> FALSE]
  BY <1>0, <1>6 DEF AloneInv
<1> QED BY <1>1, <1>3, <1>4, <1>5, <1>6 DEF Next

LEMMA AloneInit == Init => AloneInv
  BY DEF Init, AloneInv, PastInv

LEMMA AloneHolds == Spec => [](TypeInv /\ AloneInv)
  BY TypeInit, TypeStep, AloneInit, AloneStep, PTL DEF Spec

(* A build during which nobody else moves repairs whatever damage it finds *)
(* from before it started: it fails only where it adds evidence to a       *)
(* snapshot that cannot be loaded, and what it completes can be loaded.    *)
THEOREM LoneBuildsRepair == Spec => []UndisturbedBuildRepairs
<1>1. ASSUME TypeInv, AloneInv, NEW b \in Builders, alone[b]
      PROVE  /\ job[b].pc = "failed" => Source(b) # NoValue /\ ~ Loadable(Source(b))
             /\ job[b].pc = "completed" /\ job[b].target # NoValue
                  => Loadable(job[b].target)
  <2>1. AloneBuilder(Host[b], job[b])
    BY <1>1 DEF AloneInv
  <2>2. CASE AloneWorking(Host[b], job[b])
    BY <2>2, CacheAssumption DEF AloneWorking, AlonePublishing, Source
  <2>3. CASE AloneGivingUp(job[b])
    BY <2>3 DEF AloneGivingUp, GivingUp, Evicting, Before, Quarantining
  <2> QED BY <2>1, <2>2, <2>3 DEF AloneBuilder
<1>2. TypeInv /\ AloneInv => UndisturbedBuildRepairs
  BY <1>1 DEF UndisturbedBuildRepairs
<1> QED BY <1>2, AloneHolds, PTL

(* A lone builder's step leaves what can be loaded, but for the snapshots  *)
(* that use the graph of a source that cannot be.                          *)
LEMMA GivingUpKeeps ==
  ASSUME TypeInv, NEW b \in Builders, AloneGivingUp(job[b]), QuarantineRename(b),
         NEW s \in Snapshots, Loadable(s), ~ Forfeited(b, s)
  PROVE  Loadable(s)'
<1> DEFINE j == job[b]
           n == job[b].current
           g == job[b].victim
<1>1. /\ j \in Locals /\ LocalsOK(j) /\ GivingUp(j) /\ j.pc = "q_rename" /\ Exists(n)
      /\ g = GraphOf[SourceOf[j.target]] /\ ~ Loadable(SourceOf[j.target])
  BY DEF TypeInv, TypeOK, LocalInv, QuarantineRename, At, AloneGivingUp
<1>2. n \in j.names /\ j.target \in Snapshots /\ j.back \in {"affected", "evict"}
  BY <1>1
  DEF LocalsOK, GivingUp, Evicting, Before, Quarantining, Steps, Attaching
<1>3. ~ Uses(s, g)
  BY <1>1, <1>2, CacheAssumption DEF Forfeited, Source, GivingUp, Adding
<1>4. \/ n = GraphName(g)
      \/ \E u \in Snapshots \ {s} : n = ManifestName(u)
  BY <1>1, <1>2, <1>3 DEF AloneGivingUp, Before, Quarantining
<1>5. Unlink(n) /\ UNCHANGED damaged
  BY <1>1 DEF QuarantineRename
<1>6. /\ GraphOf[s] \in Graphs /\ ReviewOf[s] \in Reviews
      /\ BaseOf[s] \in Graphs \union {NoValue}
  BY CacheAssumption
<1>7. /\ \A h, u, r : GraphName(h) # ManifestName(u) /\ GraphName(h) # ReviewName(r)
      /\ \A u, r : ManifestName(u) # ReviewName(r)
      /\ \A h, i : GraphName(h) = GraphName(i) => h = i
      /\ \A u, v : ManifestName(u) = ManifestName(v) => u = v
  BY DEF GraphName, ManifestName, ReviewName
<1> HIDE DEF n, g
<1>8. \A h \in Graphs \ {g} : n # GraphName(h)
  BY <1>4, <1>7
<1>9. n # ManifestName(s) /\ \A r : n # ReviewName(r)
  BY <1>4, <1>7
<1> USE DEF n, g
<1>10. /\ \A h \in Graphs \ {g} : graphs'[h] = graphs[h]
       /\ manifests'[s] = manifests[s]
       /\ reviews'[ReviewOf[s]] = reviews[ReviewOf[s]]
  BY <1>5, <1>6, <1>8, <1>9 DEF Unlink
<1>11. GraphOf[s] # g /\ BaseOf[s] # g
  BY <1>3 DEF Uses
<1> QED BY <1>5, <1>6, <1>11, <1>10 DEF Loadable, Loads, Healthy

LEMMA RepairStep ==
  ASSUME TypeInv, AloneInv, [Next]_vars, NEW c \in Builders, NEW s \in Snapshots,
         alone'[c], Loadable(s), ~ Forfeited(c, s)
  PROVE  Loadable(s)'
<1>1. CASE UNCHANGED diskVars
  BY <1>1 DEF diskVars, fileVars, Loadable, Loads, Healthy
<1>2. ASSUME NEW b \in Builders, Moves(b)
      PROVE  Loadable(s)'
  <2>1. alone[b] /\ Step(b) /\ b = c
    BY <1>2 DEF Moves
  <2>2. CASE QuarantineRename(b) /\ AloneWorking(Host[b], job[b])
    <3>1. job[b] \in Locals /\ LocalsOK(job[b]) /\ job[b].pc = "q_rename"
      BY <2>2 DEF TypeInv, TypeOK, LocalInv, QuarantineRename, At
    <3>2. ReviewOf[job[b].target] \in Reviews
      BY <3>1, CacheAssumption DEF LocalsOK, Steps, Attaching
    <3>3. \/ \E u \in Snapshots : Unlink(ManifestName(u)) /\ ~ Loadable(u)
          \/ \E r \in Reviews : Unlink(ReviewName(r)) /\ reviews[r] # "good"
          \/ \E g \in Graphs : Unlink(GraphName(g)) /\ graphs[g] \in damaged
      BY <2>2, <3>2, AloneUnlinks
    <3> QED BY <2>2, <3>3, UnlinkBroken DEF QuarantineRename
  <2>3. CASE QuarantineRename(b) /\ AloneGivingUp(job[b])
    BY <2>1, <2>3, GivingUpKeeps
  <2>4. CASE ~ QuarantineRename(b)
    BY <2>1, <2>4, StepGrows, LoadableGrows
  <2> QED BY <2>1, <2>2, <2>3, <2>4 DEF AloneInv, AloneBuilder
<1> QED
  BY <1>1, <1>2
  DEF Next, Start, Cancel, vars

(* Repair takes away only what is broken: a build during which nobody else *)
(* moves never makes a snapshot unloadable that could be loaded, unless it *)
(* uses the graph of a source snapshot that cannot be.                     *)
THEOREM RepairsKeep == Spec => RepairKeepsGoodSnapshots
<1>1. TypeInv /\ AloneInv /\ [Next]_vars =>
        [\A b \in Builders, s \in Snapshots :
           alone'[b] /\ Loadable(s) /\ ~ Forfeited(b, s) => Loadable(s)']_vars
  BY RepairStep
<1> QED BY <1>1, AloneHolds, PTL DEF Spec, RepairKeepsGoodSnapshots
============================================================================
