------------------------------- MODULE PythonNames -------------------------------
(***************************************************************************)
(* Which definitions a call of a Python file may mean                      *)
(* (src/src/python.rs): the scopes of the file, what binds a name in them, *)
(* imports, methods of self and of base classes.                           *)
(*                                                                         *)
(* A dotted path is a sequence of names.  A file is what the query         *)
(* captures of it; a definition is a number, and 0 is the module.          *)
(***************************************************************************)
EXTENDS Naturals, Sequences, FiniteSets, FiniteSetsExt, SequencesExt, TLC

CONSTANTS
  Inputs,     \* families of files and of the calls in them
  NoValue

VARIABLES input, result
vars == <<input, result>>

(***************************************************************************)
(* PythonTarget: the module and the package of a path.                     *)
(***************************************************************************)
Stripped == IF Len(input.path) > 1 /\ Head(input.path) = "src" THEN Tail(input.path) ELSE input.path
IsInit == Last(Stripped) = "__init__"
Module == IF IsInit THEN Front(Stripped) ELSE Stripped
Package == Front(Stripped)

(***************************************************************************)
(* Definitions and their paths.                                            *)
(***************************************************************************)
Definitions == DOMAIN input.definitions
Kind(d) == input.definitions[d].kind
ParentOf(d) == input.definitions[d].parent
RECURSIVE PathOf(_)
PathOf(d) == IF d = 0 THEN Module ELSE Append(PathOf(ParentOf(d)), input.definitions[d].name)
Available == {PathOf(d) : d \in Definitions}

(***************************************************************************)
(* Imports.                                                                *)
(***************************************************************************)
NormalizeModule(import) ==
  LET up == import.dots - 1
      base == IF import.dots = 0 THEN <<>> ELSE SubSeq(Package, 1, Len(Package) - up)
  IN  IF (import.dots > 0 /\ up > Len(Package)) \/ base \o import.module = <<>> THEN NoValue
      ELSE base \o import.module
ImportPath(import) ==
  LET module == NormalizeModule(import)
  IN  IF module = NoValue \/ import.name = NoValue THEN module ELSE Append(module, import.name)
BoundName(import) ==
  CASE import.alias # NoValue -> import.alias
    [] import.alias = NoValue /\ import.name # NoValue -> import.name
    [] OTHER -> Head(ImportPath(import))
BoundPath(import) ==
  IF import.alias = NoValue /\ import.name = NoValue THEN <<Head(ImportPath(import))>>
  ELSE ImportPath(import)

Followed == {i \in input.imports : ImportPath(i) # NoValue}
ImportBindings(scope, name) ==
  {BoundPath(i) : i \in {j \in Followed : j.source = scope /\ BoundName(j) = name}}
ExportKey(import) ==
  IF ~ IsInit \/ import.source # 0 \/ (import.name = NoValue /\ import.alias = NoValue) THEN NoValue
  ELSE Append(Module, BoundName(import))

(***************************************************************************)
(* Calls.                                                                  *)
(***************************************************************************)
RECURSIVE Ancestry(_)
Ancestry(d) == IF d = 0 THEN <<>> ELSE <<d>> \o Ancestry(ParentOf(d))

(* A fault for checking the checks: a method sees its class's names.        *)
LexicalScopesOfClasses(source) == Ancestry(source)
LexicalScopes(source) == SelectSeq(Ancestry(source), LAMBDA d : d = source \/ Kind(d) # "type")

Binds(scope, name) ==
  \/ <<scope, name>> \in input.values
  \/ Append(PathOf(scope), name) \in Available
  \/ ImportBindings(scope, name) # {}
KeysIn(scope, name) ==
  LET imported == ImportBindings(scope, name)
      own == Append(PathOf(scope), name)
  IN  CASE <<scope, name>> \in input.values -> <<>>
        [] <<scope, name>> \notin input.values /\ own \in Available ->
             IF imported = {} THEN <<own>> ELSE <<>>
        [] OTHER -> IF Cardinality(imported) = 1 THEN SetToSeq(imported) ELSE <<>>

CallKeys(source, name) ==
  LET scopes == Append(LexicalScopes(source), 0)
      binding == SelectInSeq(scopes, LAMBDA scope : Binds(scope, name))
  IN  IF binding = 0 THEN <<Append(Module, name)>> ELSE KeysIn(scopes[binding], name)

(* A base class by its first component, in the scope around the class.     *)
BaseKey(class, base) ==
  LET keys == CallKeys(ParentOf(class), Head(base))
  IN  IF Len(keys) # 1 THEN NoValue ELSE keys[1] \o Tail(base)
BaseKeys(class) ==
  LET bases == input.definitions[class].bases
  IN  SelectSeq([k \in DOMAIN bases |-> BaseKey(class, bases[k])], LAMBDA key : key # NoValue)

SelfCall(call) ==
  /\ call.receiver \in {"self", "cls"}
  /\ call.source # 0
  /\ ParentOf(call.source) # 0 /\ Kind(ParentOf(call.source)) = "type"
  /\ input.definitions[call.source].first = call.receiver

MemberKeys(class, name) ==
  LET bases == BaseKeys(class)
  IN  <<Append(PathOf(class), name)>> \o [k \in DOMAIN bases |-> Append(bases[k], name)]

KeysOf(call) ==
  CASE call.receiver = NoValue -> CallKeys(call.source, call.name)
    [] call.receiver # NoValue /\ SelfCall(call) -> MemberKeys(ParentOf(call.source), call.name)
    [] OTHER -> <<>>

AddFile ==
  [calls |-> KeysOf(input.call),
   imports |-> {[path |-> ImportPath(i), alias |-> ExportKey(i)] : i \in Followed},
   gaps |-> input.imports \ Followed,
   implementations |-> UNION {{<<PathOf(d), key>> : key \in Range(BaseKeys(d))} : d \in Definitions}]

Init == input = NoValue /\ result = NoValue

Request ==
  /\ input = NoValue
  /\ \E family \in Inputs :
       \E definitions \in family.definitions, values \in family.values, imports \in family.imports,
          path \in family.paths, call \in family.calls :
         input' = [definitions |-> definitions, values |-> values, imports |-> imports,
                   path |-> path, call |-> call]
  /\ UNCHANGED result

Answer ==
  /\ input # NoValue /\ result = NoValue
  /\ result' = AddFile
  /\ UNCHANGED input

Next == Request \/ Answer
Spec == Init /\ [][Next]_vars

(***************************************************************************)
(* What Python makes of the name.                                          *)
(***************************************************************************)
(* The scopes that Python asks: the caller's own, then the functions       *)
(* around it, then the module.                                             *)
RECURSIVE Around(_)
Around(d) == IF d = 0 THEN {0} ELSE {d} \union Around(ParentOf(d))
Asked(source) == {d \in Around(source) : d \in {0, source} \/ Kind(d) # "type"}
Depth(d) == Cardinality(Around(d))

Children(scope, name) ==
  {d \in Definitions : ParentOf(d) = scope /\ input.definitions[d].name = name}
ImportsOf(scope, name) ==
  {i \in Followed : i.source = scope
                      /\ name = CASE i.alias # NoValue -> i.alias
                                  [] i.alias = NoValue /\ i.name # NoValue -> i.name
                                  [] OTHER -> Head(ImportPath(i))}
BindingOf(scope, name) ==
  {<<"value", <<name>> >> : v \in input.values \intersect {<<scope, name>>}}
    \union {<<"definition", PathOf(d)>> : d \in Children(scope, name)}
    \union {<<"import", BoundPath(i)>> : i \in ImportsOf(scope, name)}

(* A name is keyed to what the nearest scope that binds it binds it to,    *)
(* and to nothing if that is a value or more than one thing; a name that   *)
(* nothing binds, to the module's (python.rs:483-513, 530-617).  A call of *)
(* self is keyed to the caller's class first and then to its bases, each   *)
(* as it is seen where the class is defined (python.rs:338-357, 517-528).  *)
(* Scopes are compared by their paths: a call in one of two definitions of *)
(* one path may be keyed to what the other one holds, and these files are  *)
(* left out.                                                               *)
OnePath == \A d, e \in Definitions : PathOf(d) = PathOf(e) /\ d # e =>
             \A x \in Definitions : ParentOf(x) \notin {d, e}
Meaning(source, name) ==
  LET binding == {d \in Asked(source) : BindingOf(d, name) # {}}
      nearest == CHOOSE d \in binding : \A e \in binding : Depth(e) <= Depth(d)
      bound == BindingOf(nearest, name)
  IN  CASE binding = {} -> {Append(Module, name)}
        [] binding # {} /\ Cardinality(bound) = 1 ->
             {b[2] : b \in {c \in bound : c[1] # "value"}}
        [] OTHER -> {}
NamesAreScoped ==
  result # NoValue /\ OnePath =>
    /\ input.call.receiver = NoValue =>
         Range(result.calls) = Meaning(input.call.source, input.call.name)
    /\ input.call.receiver # NoValue /\ result.calls # <<>> =>
         LET class == ParentOf(input.call.source)
             bases == input.definitions[class].bases
         IN  /\ Kind(class) = "type"
             /\ input.definitions[input.call.source].first = input.call.receiver
             /\ Head(result.calls) = Append(PathOf(class), input.call.name)
             /\ \A key \in Range(Tail(result.calls)) :
                  \E k \in DOMAIN bases : \E m \in Meaning(ParentOf(class), Head(bases[k])) :
                     key = Append(m \o Tail(bases[k]), input.call.name)
             /\ Len(result.calls) - 1
                  = Cardinality({k \in DOMAIN bases : Meaning(ParentOf(class), Head(bases[k])) # {}})

=============================================================================
