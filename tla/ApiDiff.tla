-------------------------------- MODULE ApiDiff --------------------------------
(***************************************************************************)
(* What a review says of the symbols of two images, of the base commit and *)
(* of the worktree (graph_diff of src/src/store.rs): which were removed or *)
(* added, which have another signature, and which references of the        *)
(* worktree resolve no more.                                               *)
(*                                                                         *)
(* Symbols are numbered in the order of their paths and lines; a key is    *)
(* what a reference and a symbol have in common.                           *)
(***************************************************************************)
EXTENDS Naturals, Sequences, FiniteSets, FiniteSetsExt, SequencesExt

CONSTANTS
  Inputs,         \* families of images, of references and of modes
  RecordLimit,    \* API_RECORD_LIMIT
  NoValue

VARIABLES input, result
vars == <<input, result>>

Take(seq, limit) == SubSeq(seq, 1, Min({limit, Len(seq)}))

(* The qualified name without the line and the ordinal.                    *)
StableIdentity(symbol) == <<symbol.path, symbol.kind, symbol.scope>>

(* The symbols of an image that are compared: no files, nothing that is    *)
(* generated, and no dependencies when they are a boundary.                *)
LoadApiSymbols(image) ==
  SelectSeq(image, LAMBDA s : /\ s.kind # "file" /\ ~ s.generated
                              /\ ~ (input.boundary /\ s.package))

(***************************************************************************)
(* classify_api.                                                           *)
(***************************************************************************)
Group(symbols, identity) == SelectSeq(symbols, LAMBDA s : StableIdentity(s) = identity)
Identities(symbols) == {StableIdentity(symbols[k]) : k \in DOMAIN symbols}

(* Symbols of one identity with equal signatures are the same.             *)
PairEqual(pairing, old) ==
  LET equal == {k \in DOMAIN pairing.after : pairing.after[k].signature = old.signature}
  IN  IF equal = {} THEN [pairing EXCEPT !.before = Append(@, old)]
      ELSE [pairing EXCEPT !.after = RemoveAt(@, Min(equal))]

(* A fault for checking the checks: overloads pair in the order of their   *)
(* lines, and are then compared.                                           *)
ClassifyInOrder(before, after) ==
  LET paired == Min({Len(before), Len(after)})
      differ == SelectSeq([k \in 1 .. paired |-> k],
                          LAMBDA k : before[k].signature # after[k].signature)
  IN  [changed |-> [k \in DOMAIN differ |-> <<before[differ[k]], after[differ[k]]>>],
       removed |-> SubSeq(before, paired + 1, Len(before)),
       added |-> SubSeq(after, paired + 1, Len(after))]

(* The rest pairs in the order of the lines, and what has no other half is *)
(* removed or added.                                                       *)
Classify(before, after) ==
  LET rest == FoldLeft(PairEqual, [before |-> <<>>, after |-> after], before)
      paired == Min({Len(rest.before), Len(rest.after)})
  IN  [changed |-> [k \in 1 .. paired |-> <<rest.before[k], rest.after[k]>>],
       removed |-> SubSeq(rest.before, paired + 1, Len(rest.before)),
       added |-> SubSeq(rest.after, paired + 1, Len(rest.after))]

InOrder(set) == SetToSortSeq(set, LAMBDA a, b : a.id < b.id)
ClassifyApi(base, head) ==
  LET of(i) == Classify(Group(base, i), Group(head, i))
      all == Identities(base) \union Identities(head)
  IN  [removed |-> InOrder(UNION {Range(of(i).removed) : i \in all}),
       added |-> InOrder(UNION {Range(of(i).added) : i \in all}),
       changed |-> SetToSortSeq(UNION {Range(of(i).changed) : i \in all},
                                LAMBDA a, b : a[2].id < b[2].id)]

(***************************************************************************)
(* graph_diff.                                                             *)
(***************************************************************************)
Unresolved(reference) == reference.state \in {"missing", "ambiguous"}
Dangling(key) ==
  {r \in input.references : key \in r.keys /\ Unresolved(r) /\ ~ (input.boundary /\ r.package)}
HeadCallers(symbol) == UNION {Dangling(key) : key \in symbol.keys}

(* Each reference is told with the first key of the first symbol it lost.  *)
BrokenReferences(removed) ==
  LET lost == UNION {HeadCallers(removed[k]) : k \in DOMAIN removed}
      First(r) == removed[Min({k \in DOMAIN removed : r \in HeadCallers(removed[k])})]
      broken == {[at |-> r.id, key |-> Min(First(r).keys \intersect r.keys)] : r \in lost}
  IN  SetToSortSeq(broken, LAMBDA a, b : a.at < b.at)

Listed(seq) == [shown |-> Take(seq, RecordLimit),
                omitted |-> Len(seq) - Len(Take(seq, RecordLimit))]

GraphDiff ==
  LET diff == ClassifyApi(LoadApiSymbols(input.base), LoadApiSymbols(input.head))
      broken == BrokenReferences(diff.removed)
  IN  [graph |-> "present", removed |-> diff.removed, changed |-> diff.changed,
       callers |-> [k \in DOMAIN diff.removed |-> Cardinality(HeadCallers(diff.removed[k]))],
       added |-> Listed(diff.added), broken |-> Listed(broken), brokenCount |-> Len(broken)]

(***************************************************************************)
(* Requests.  A reference is resolved when one symbol has a key of it.     *)
(***************************************************************************)
Candidates(reference, image) ==
  {s \in Range(image) : s.keys \intersect reference.keys # {}}
StateOf(reference, image) ==
  LET found == Cardinality(Candidates(reference, image))
  IN  IF found = 1 THEN "resolved" ELSE IF found = 0 THEN "missing" ELSE "ambiguous"

Init == input = NoValue /\ result = NoValue

Request ==
  /\ input = NoValue
  /\ \E family \in Inputs : \E base \in family.bases, head \in family.heads :
       \E boundary \in family.boundaries :
         input' = [base |-> base, head |-> head, boundary |-> boundary,
                   references |-> {r @@ [state |-> StateOf(r, head)] : r \in family.references}]
  /\ UNCHANGED result

Compare ==
  /\ input # NoValue /\ result = NoValue
  /\ result' = IF input.base = NoValue THEN [graph |-> "absent"] ELSE GraphDiff
  /\ UNCHANGED input

Next == Request \/ Compare
Spec == Init /\ [][Next]_vars

(***************************************************************************)
(* Properties.                                                             *)
(***************************************************************************)

Compared(image) ==
  {s \in Range(image) : s.kind # "file" /\ ~ s.generated /\ ~ (input.boundary /\ s.package)}
Named(image, name) == {s \in Compared(image) : <<s.path, s.kind, s.scope>> = name}
Signed(image, name, g) == Cardinality({s \in Named(image, name) : s.signature = g})
Common(name) ==
  MapThenSumSet(LAMBDA g : Min({Signed(input.base, name, g), Signed(input.head, name, g)}),
                {s.signature : s \in Named(input.base, name)})

(* Every symbol of either image is told as what became of it: as many of   *)
(* one name are the same as have equal signatures, as many more as can be  *)
(* are changed, each of another signature, and no name has both removed    *)
(* and added symbols (classify_api, store.rs:1737-1776).  A reference is   *)
(* broken if it led to a removed symbol and leads nowhere, or nowhere      *)
(* certain, now; and what is told as broken could have (graph_diff,        *)
(* 1798-1915).                                                             *)
ChangesOfApiAreExact ==
  result # NoValue /\ result.graph = "present" =>
    LET removed == Range(result.removed)
        changed == Range(result.changed)
        names == {<<s.path, s.kind, s.scope>> : s \in Compared(input.base) \union Compared(input.head)}
        told == {b.at : b \in Range(result.broken.shown)}
        Mine(r) == ~ (input.boundary /\ r.package)
    IN  /\ \A name \in names :
             LET old == Named(input.base, name)
                 new == Named(input.head, name)
                 pairs == {c \in changed : <<c[1].path, c[1].kind, c[1].scope>> = name}
             IN  /\ \A c \in pairs : c[1] \in old /\ c[2] \in new /\ c[1].signature # c[2].signature
                 /\ Cardinality(pairs) = Min({Cardinality(old), Cardinality(new)}) - Common(name)
                 /\ Cardinality(pairs) = Cardinality({c[1] : c \in pairs})
                 /\ Cardinality(pairs) = Cardinality({c[2] : c \in pairs})
                 /\ Cardinality(removed \intersect old)
                      = Cardinality(old) - Common(name) - Cardinality(pairs)
                 /\ \A c \in pairs : c[1] \notin removed
        /\ removed \subseteq Compared(input.base)
        /\ Len(result.added.shown) + result.added.omitted
             = MapThenSumSet(LAMBDA name : Max({0, Cardinality(Named(input.head, name))
                                                     - Cardinality(Named(input.base, name))}), names)
        /\ \A r \in input.references :
             LET led == Candidates(r, input.base)
                 now == Candidates(r, input.head)
                 broken == /\ Mine(r) /\ Cardinality(now) # 1
                           /\ \E s \in removed : led = {s}
             IN  /\ broken => r.id \in told \/ result.broken.omitted > 0
                 /\ r.id \in told => Mine(r) /\ Cardinality(now) # 1 /\ led \intersect removed # {}

=============================================================================
