-------------------------------- MODULE CppNames --------------------------------
(***************************************************************************)
(* Which definitions a call of a C++ file may mean (src/src/cpp.rs): the   *)
(* classes of the file and what they declare, lookup through their bases   *)
(* and the classes around them, then through the namespaces.               *)
(*                                                                         *)
(* A qualified path is a sequence of names.  A file is what its syntax     *)
(* tree captures, in document order; raw is a name as it is written, with  *)
(* a leading :: or without.                                                *)
(***************************************************************************)
EXTENDS Naturals, Sequences, FiniteSets, FiniteSetsExt, SequencesExt

CONSTANTS
  Inputs,        \* families of files and of the calls in them
  ClassLimit,    \* CLASS_LOOKUP_LIMIT
  Anonymous,     \* the name of the file's unnamed namespace
  NoValue

VARIABLES input, result
vars == <<input, result>>

(* A name in a container, unless it starts where the container does.       *)
DefinitionPath(container, raw) ==
  IF raw.absolute \/ (container # <<>> /\ Head(container) = Head(raw.path))
    THEN raw.path
    ELSE container \o raw.path

(***************************************************************************)
(* collect_class_lookup.                                                   *)
(***************************************************************************)
Unconditional(set) == {x \in set : ~ x.conditional}
Members ==
  {Append(f.owner, f.name) : f \in Unconditional(input.fields)}
    \union {DefinitionPath(f.container, f.raw) :
              f \in {g \in Unconditional(input.functions) :
                       g.type # NoValue \/ Len(g.raw.path) > 1}}

(* The class around the body of a type: itself, or, of an enum, the class  *)
(* that holds the enum.                                                    *)
ClassOf(t) == IF t.kind = "class" THEN Append(t.container, t.name) ELSE t.type
Types == SelectSeq(input.types, LAMBDA t : ClassOf(t) # NoValue)
BasePaths(t) == [k \in DOMAIN t.bases |-> DefinitionPath(t.container, t.bases[k])]
ClassBodyIsComplete(t) == t.body \subseteq {"member"}
IncompleteTypes == {ClassOf(t) : t \in {u \in Range(Types) : u.conditional \/ ~ ClassBodyIsComplete(u)}}
Bases ==
  FoldLeft(LAMBDA bases, t : (ClassOf(t) :> BasePaths(t)) @@ bases, <<>>, Types)

(***************************************************************************)
(* Lookup: depth first through the bases, then through the enclosing       *)
(* classes.                                                                *)
(***************************************************************************)
Missing == [answer |-> "absent", key |-> NoValue]
Doubtful == [answer |-> "unknown", key |-> NoValue]
Found(key) == [answer |-> "found", key |-> key]

Search(owner) == [pending |-> <<owner>>, visited |-> {}, found |-> Missing]
Inspect(search, name) ==
  LET owner == Last(search.pending)
      rest == Front(search.pending)
      visited == search.visited \union {owner}
      key == Append(owner, name)
  IN  CASE owner \in search.visited \/ Cardinality(search.visited) = ClassLimit -> Doubtful
        [] key \in Members ->
             IF search.found # Missing THEN Doubtful
             ELSE [pending |-> rest, visited |-> visited, found |-> Found(key)]
        [] key \notin Members /\ (owner \in IncompleteTypes \/ owner \notin DOMAIN Bases) -> Doubtful
        [] OTHER ->
             IF Len(rest) + Len(Bases[owner]) > ClassLimit THEN Doubtful
             ELSE [search EXCEPT !.pending = rest \o Bases[owner], !.visited = visited]

RECURSIVE Searched(_, _)
Searched(search, name) ==
  IF "answer" \in DOMAIN search THEN search
  ELSE IF search.pending = <<>> THEN search.found
  ELSE Searched(Inspect(search, name), name)
MemberLookup(owner, name) == Searched(Search(owner), name)

EnclosingTypes(owner) == {k \in 1 .. Len(owner) - 1 : SubSeq(owner, 1, k) \in DOMAIN Bases}
RECURSIVE ScopedMemberLookup(_, _)
ScopedMemberLookup(owner, name) ==
  LET here == MemberLookup(owner, name)
      around == EnclosingTypes(owner)
  IN  IF here # Missing \/ around = {} THEN here
      ELSE ScopedMemberLookup(SubSeq(owner, 1, Max(around)), name)

(***************************************************************************)
(* Keys, in the order in which they are tried.                             *)
(***************************************************************************)
Outward(path) == [k \in 1 .. Len(path) + 1 |-> SubSeq(path, 1, Len(path) + 1 - k)]
UnqualifiedKeys(container, name) ==
  FlattenSeq([k \in DOMAIN Outward(container) |->
    LET scope == Outward(container)[k]
    IN  <<Append(scope, name)>>
          \o (IF scope \in input.anonymous THEN <<scope \o <<Anonymous, name>> >> ELSE <<>>)])
QualifiedKeys(container, raw) ==
  IF raw.absolute THEN <<raw.path>>
  ELSE [k \in DOMAIN Outward(container) |-> Outward(container)[k] \o raw.path]

(* The scope of a function's body: its own class, or the one its name is   *)
(* qualified with, which may be a namespace for all the parser can see.    *)
ExplicitOwner(f) ==
  IF Len(f.raw.path) = 1 THEN NoValue
  ELSE DefinitionPath(f.container, [f.raw EXCEPT !.path = Front(@)])
BodyScope(f) ==
  [container |-> IF ExplicitOwner(f) # NoValue THEN ExplicitOwner(f) ELSE f.container,
   type |-> IF f.type # NoValue THEN f.type ELSE ExplicitOwner(f)]

InClass(scope, name) ==
  LET lookup == ScopedMemberLookup(scope.type, name)
  IN  CASE lookup.answer = "found" -> <<lookup.key>>
        [] lookup.answer = "absent" -> UnqualifiedKeys(scope.container, name)
        [] OTHER -> <<>>

CallKeys(scope, call) ==
  CASE call.kind = "plain" ->
         IF call.bound THEN <<>>
         ELSE IF scope.type # NoValue THEN InClass(scope, Last(call.raw.path))
         ELSE UnqualifiedKeys(scope.container, Last(call.raw.path))
    [] call.kind = "qualified" -> QualifiedKeys(scope.container, call.raw)
    [] call.kind = "this" ->
         IF scope.type = NoValue THEN <<>> ELSE <<scope.type \o call.raw.path>>
    [] OTHER -> <<>>

(* The file a quoted include names, relative to the including one.         *)
IncludePath(directory, raw) ==
  FoldLeft(LAMBDA path, part :
             CASE path = NoValue \/ part = "." -> path
               [] path # NoValue /\ part = ".." -> IF path = <<>> THEN NoValue ELSE Front(path)
               [] OTHER -> Append(path, part),
           directory, raw)

AddFile ==
  [keys |-> CallKeys(BodyScope(input.caller), input.call),
   owner |-> BodyScope(input.caller).type,
   implementations |-> UNION {{<<ClassOf(t), b>> : b \in Range(BasePaths(t))} : t \in Range(Types)},
   include |-> IncludePath(input.directory, input.include)]

Init == input = NoValue /\ result = NoValue

Request ==
  /\ input = NoValue
  /\ \E family \in Inputs : \E file \in family.files, caller \in family.callers, call \in family.calls :
       input' = file @@ [caller |-> caller, call |-> call]
  /\ UNCHANGED result

Answer ==
  /\ input # NoValue /\ result = NoValue
  /\ result' = AddFile
  /\ UNCHANGED input

Next == Request \/ Answer
Spec == Init /\ [][Next]_vars

(***************************************************************************)
(* What C++ makes of the same file, whose classes declare more than the    *)
(* parser sees: hidden are the names of aliases, nested types and          *)
(* conditional members.                                                    *)
(***************************************************************************)
Classes == {t \in Range(input.types) : t.kind = "class"}
Known(class) == \E t \in Classes : ClassOf(t) = class
BasesOf(class) == UNION {Range(BasePaths(t)) : t \in {u \in Classes : ClassOf(u) = class}}
Declares(class, name) ==
  \/ \E f \in input.fields : f.owner = class /\ f.name = name
  \/ \E t \in Classes : ClassOf(t) = class /\ name \in t.hidden
  \/ \E f \in input.functions :
       (f.type # NoValue \/ Len(f.raw.path) > 1)
         /\ DefinitionPath(f.container, f.raw) = Append(class, name)

(* The ways from a class up to the classes that declare the name or have   *)
(* no bases to look into.                                                  *)
RECURSIVE Chains(_, _)
Chains(class, name) ==
  IF Declares(class, name) \/ BasesOf(class) = {} THEN {<<class>>}
  ELSE {<<class>> \o chain : chain \in UNION {Chains(b, name) : b \in BasesOf(class)}}
Claims(class, name) ==
  {c \in {Last(chain) : chain \in Chains(class, name)} : Declares(c, name) \/ ~ Known(c)}
Clear(class, name) ==
  LET chains == Chains(class, name)
  IN  /\ Cardinality({Last(chain) : chain \in chains}) = Cardinality(chains)
      /\ \A chain \in chains, k \in 1 .. 4 :
           k \in DOMAIN chain => chain[k] \notin IncompleteTypes \/ Append(chain[k], name) \in Members

Defined(path) == \E f \in input.functions : DefinitionPath(f.container, f.raw) = path
FirstDefined(keys) ==
  LET defined == {k \in DOMAIN keys : Defined(keys[k])}
  IN  IF defined = {} THEN NoValue ELSE keys[Min(defined)]
Visible(container, name) ==
  LET scopes == {k \in 0 .. Len(container) :
                   \E inner \in {<<>>, <<Anonymous>>} :
                      Defined(SubSeq(container, 1, k) \o inner \o <<name>>)}
  IN  IF scopes = {} THEN {}
      ELSE {SubSeq(container, 1, Max(scopes)) \o inner \o <<name>> : inner \in {<<>>, <<Anonymous>>}}

(* A plain call is keyed to the class that C++ finds, if exactly one does  *)
(* among the caller's class, its bases and then the classes around it;     *)
(* outside of all of them only if none of them can declare the name, and   *)
(* then to what the innermost namespace has; and it is left open only when *)
(* a local value hides the name or the classes are ambiguous, unseen or    *)
(* only partly seen (cpp.rs:458-525, 837-969, 1041-1068).  An enum inside  *)
(* of a method takes the place of its class (cpp.rs:508-519): with an      *)
(* empty one the bases of the class are lost, so these files are left out. *)
EmptyEnum == \E t \in Range(Types) : t.kind = "enum" /\ ClassBodyIsComplete(t)
NamesAreScoped ==
  result # NoValue /\ input.call.kind = "plain" /\ ~ EmptyEnum =>
    LET scope == BodyScope(input.caller)
        name == Last(input.call.raw.path)
        around == IF scope.type = NoValue THEN {}
                  ELSE {k \in 1 .. Len(scope.type) :
                          k = Len(scope.type) \/ Known(SubSeq(scope.type, 1, k))}
        class(k) == SubSeq(scope.type, 1, k)
        deciding == {k \in around : Claims(class(k), name) # {}}
        decision == Claims(class(Max(deciding)), name)
        sure == \A k \in around : deciding = {} \/ k >= Max(deciding) => Clear(class(k), name)
    IN  CASE input.call.bound -> result.keys = <<>>
          [] deciding # {} /\ ~ input.call.bound ->
               /\ result.keys # <<>> =>
                    /\ Len(result.keys) = 1
                    /\ \E c \in decision : decision = {c} /\ Declares(c, name)
                                            /\ result.keys = <<Append(c, name)>>
               /\ result.keys = <<>> => ~ sure \/ Cardinality(decision) > 1
                                          \/ \E c \in decision : ~ Declares(c, name)
          [] OTHER ->
               /\ result.keys = <<>> => ~ sure
               /\ result.keys # <<>> =>
                    LET visible == Visible(scope.container, name)
                    IN  IF visible = {} THEN FirstDefined(result.keys) = NoValue
                        ELSE FirstDefined(result.keys) \in visible

=============================================================================
