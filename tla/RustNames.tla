-------------------------------- MODULE RustNames --------------------------------
(***************************************************************************)
(* Which definitions a call of a Rust file may mean (src/src/parse.rs,     *)
(* index.rs): the crate and module of the file, the paths of what it       *)
(* defines, its imports, and the keys a call is tried with.                *)
(*                                                                         *)
(* A path is a sequence of names.  A file is what the query captures:      *)
(* definitions with the one that holds them, the impl or the trait they    *)
(* are members of, their inline module and block (0 is none); imports,     *)
(* local values and a call.                                                *)
(***************************************************************************)
EXTENDS Naturals, Sequences, FiniteSets, FiniteSetsExt, SequencesExt, TLC

CONSTANTS
  Inputs,     \* families of files and of the calls in them
  NoValue

VARIABLES input, result
vars == <<input, result>>

(***************************************************************************)
(* TargetLayout: crates by convention.  A root is marked by what kind of   *)
(* target it is, so that it is no module of another; a mark is a name or   *)
(* several, and no path goes up into one.                                  *)
(***************************************************************************)
Directory(path, k) == SubSeq(path, 1, k)
Packages ==
  {<<>>} \union {Front(p) : p \in {q \in input.inventory : Last(q) = "Cargo.toml"}}
HasTarget(package, file) == (package \o <<"src", file>>) \in input.inventory
Mark(kind, path) == <<kind>> \o path \o <<"/">>
PackageRoot(package) == IF package = <<>> THEN <<>> ELSE Mark("@pkg", package)

FileModule(relative) ==
  IF Last(relative) = "mod.rs" THEN Front(relative)
  ELSE Append(Front(relative), Last(relative))
Target(package, kind, name, module) ==
  LET root == PackageRoot(package) \o Mark(kind, <<name>>)
  IN  [root |-> root, module |-> root \o module]
Loose(path) == [root |-> Mark("@file", path), module |-> Mark("@file", path)]
InLibrary(package, module) ==
  [root |-> PackageRoot(package), module |-> PackageRoot(package) \o module]

ModuleOfTarget(package, kind, relative) ==
  Target(package, kind, relative[1],
         IF Len(relative) = 1 \/ Tail(relative) = <<"main.rs">> THEN <<>> ELSE FileModule(Tail(relative)))

SrcTarget(package, relative, path) ==
  CASE relative = <<"lib.rs">> -> InLibrary(package, <<>>)
    [] relative = <<"main.rs">> -> Target(package, "@main", "main.rs", <<>>)
    [] Len(relative) > 1 /\ relative[1] = "bin" -> ModuleOfTarget(package, "@bin", Tail(relative))
    [] relative \notin {<<"lib.rs">>, <<"main.rs">>} /\ (Len(relative) = 1 \/ relative[1] # "bin") ->
         LET module == FileModule(relative)
         IN  CASE module = <<>> -> Loose(path)
               [] module # <<>> /\ HasTarget(package, "lib.rs") -> InLibrary(package, module)
               [] OTHER ->
                    IF module # <<>> /\ HasTarget(package, "main.rs") THEN Target(package, "@main", "main.rs", module)
                    ELSE Loose(path)

(* The innermost directory of the name that is a package's; the topmost    *)
(* one comes first, if it is the whole repository's.                       *)
Areas(path, area) ==
  {k \in 1 .. Len(path) - 1 : path[k] = area /\ Directory(path, k - 1) \in Packages}
Area(path, area) == IF 1 \in Areas(path, area) THEN 1 ELSE Max(Areas(path, area))
From(path, k) == SubSeq(path, k + 1, Len(path))
TestAreas == [tests |-> "@test", examples |-> "@example", benches |-> "@bench"]

ForPath(path) ==
  LET external == {a \in {"tests", "examples", "benches"} : Areas(path, a) # {}}
  IN  CASE Areas(path, "src") # {} ->
             LET k == Area(path, "src")
             IN  SrcTarget(Directory(path, k - 1), From(path, k), path)
        [] Areas(path, "src") = {} /\ external # {} ->
             LET area == IF "tests" \in external THEN "tests"
                         ELSE IF "examples" \in external THEN "examples" ELSE "benches"
                 k == Area(path, area)
             IN  ModuleOfTarget(Directory(path, k - 1), TestAreas[area], From(path, k))
        [] OTHER ->
             IF Last(path) = "build.rs" /\ Front(path) \in Packages
               THEN Target(Front(path), "@build", "build.rs", <<>>)
               ELSE Loose(path)

Root == result.root

(***************************************************************************)
(* Definitions: what the parser makes the parent of each, and the path     *)
(* that follows.                                                           *)
(***************************************************************************)
Definitions == DOMAIN input.definitions
Def(d) == input.definitions[d]
IsMember(d) == Def(d).impl # 0 \/ Def(d).trait # 0

(* A member of an impl belongs to the one type of that name in its module, *)
(* wherever in the module it is.                                           *)
LocalTypes(impl) ==
  {t \in Definitions : /\ Def(t).kind = "type" /\ ~ IsMember(t)
                       /\ Def(t).module = impl.module /\ <<Def(t).name>> = impl.target}
ParentOf(d) ==
  LET types == LocalTypes(input.impls[Def(d).impl])
  IN  CASE Def(d).trait # 0 -> Def(d).trait
        [] Def(d).impl # 0 /\ Cardinality(types) = 1 -> CHOOSE t \in types : TRUE
        [] OTHER -> Def(d).holder
KindOf(d) == IF Def(d).kind = "function" /\ IsMember(d) THEN "method" ELSE Def(d).kind

RECURSIVE InlineModulePath(_)
InlineModulePath(m) ==
  IF m = 0 THEN result.module
  ELSE Append(InlineModulePath(input.modules[m].parent), input.modules[m].name)
ModulePath(m) == result.modules[m]

(* A path as it is written, from a module.                                 *)
Keywords == {"crate", "self", "super"}
NormalizeRelative(raw, module) ==
  LET supers == Cardinality({k \in DOMAIN raw :
                               \A j \in 1 .. k : raw[j] = "super" \/ (j = 1 /\ raw[1] \in {"crate", "self"})})
      up == IF raw[1] \in {"crate", "self"} THEN supers - 1 ELSE supers
      base == IF raw[1] = "crate" THEN Root ELSE module
  IN  IF Len(base) - up < Len(Root) /\ up > 0 THEN NoValue
      ELSE SubSeq(base, 1, Len(base) - up) \o SubSeq(raw, supers + 1, Len(raw))

(***************************************************************************)
(* Imports: what a name is bound to in a function or a module.             *)
(***************************************************************************)
UseBinding(i) ==
  [alias |-> CASE i.glob -> "*" [] ~ i.glob /\ i.alias # NoValue -> i.alias [] OTHER -> Last(i.path),
   path |-> NormalizeRelative(i.path, ModulePath(i.module))]
Use(i) == result.uses[i]
Bound(i) == ~ (i.block /\ i.source = 0) /\ Use(i).path # NoValue
Unbound == [how |-> "none", path |-> NoValue]
Ambiguous == [how |-> "ambiguous", path |-> NoValue]
ImportBinding(source, module, alias) ==
  LET imports == {i \in input.imports : Bound(i) /\ i.source = source /\ i.module = module
                                          /\ Use(i).alias = alias}
      paths == {Use(i).path : i \in imports}
  IN  CASE imports = {} -> Unbound
        [] imports # {} /\ Cardinality(paths) = 1 /\ \A i \in imports : ~ i.block ->
             [how |-> "unique", path |-> CHOOSE p \in paths : TRUE]
        [] OTHER -> Ambiguous
CallImportBinding(source, module, alias) ==
  LET own == IF source = 0 THEN Unbound ELSE ImportBinding(source, module, alias)
  IN  IF own # Unbound THEN own ELSE ImportBinding(0, module, alias)

(* A type as it is written, through an import of its first name.           *)
Through(binding, raw, module) ==
  CASE Head(raw) \notin Keywords /\ binding.how = "unique" -> binding.path \o Tail(raw)
    [] Head(raw) \notin Keywords /\ binding.how = "ambiguous" -> NoValue
    [] OTHER -> NormalizeRelative(raw, module)
NormalizeImplTarget(raw, module) ==
  Through(ImportBinding(0, module, Head(raw)), raw, ModulePath(module))

RECURSIVE DefinitionPath(_)
DefinitionPath(d) ==
  LET owner == CASE ParentOf(d) # 0 -> DefinitionPath(ParentOf(d))
                 [] ParentOf(d) = 0 /\ Def(d).impl # 0 ->
                      NormalizeImplTarget(input.impls[Def(d).impl].target, Def(d).module)
                 [] OTHER -> ModulePath(Def(d).module)
  IN  IF owner = NoValue THEN NoValue ELSE Append(owner, Def(d).name)
PathOf(d) == result.paths[d]
KeysOfDefinition(d) ==
  LET kind == IF KindOf(d) = "test" THEN "function" ELSE KindOf(d)
  IN  IF PathOf(d) = NoValue THEN {} ELSE {<<"item", PathOf(d)>>, <<kind, PathOf(d)>>}

(***************************************************************************)
(* Calls.                                                                  *)
(***************************************************************************)
Source == input.call.source
ModuleIndex == IF Source = 0 THEN 0 ELSE Def(Source).module
Here == ModulePath(ModuleIndex)
Glob ==
  LET binding == CallImportBinding(Source, ModuleIndex, "*")
  IN  IF binding.how = "unique" THEN <<binding.path>> ELSE <<>>
Bare(path) == <<<<"function", path>>, <<"item", path>>>>

ValuesNamed(name) == {k \in DOMAIN input.values : input.values[k].source = Source
                                                    /\ input.values[k].name = name}
SourceScope ==
  IF Source = 0 THEN <<>>
  ELSE IF ParentOf(Source) # 0 /\ PathOf(ParentOf(Source)) # NoValue THEN <<PathOf(ParentOf(Source))>>
  ELSE <<Here>>
SourceOwner ==
  CASE Source = 0 -> NoValue
    [] Source # 0 /\ ParentOf(Source) # 0 -> PathOf(ParentOf(Source))
    [] OTHER -> IF PathOf(Source) # NoValue /\ KindOf(Source) = "method" THEN Front(PathOf(Source)) ELSE NoValue

BareKeys(name) ==
  LET import == CallImportBinding(Source, ModuleIndex, name)
      scopes == SourceScope \o <<Here>> \o Glob
  IN  CASE ValuesNamed(name) # {} -> <<<<"shadowed", name>>>>
        [] ValuesNamed(name) = {} /\ import.how = "unique" -> Bare(import.path)
        [] ValuesNamed(name) = {} /\ import.how = "ambiguous" -> <<<<"ambiguous", name>>>>
        [] OTHER -> FlattenSeq([k \in DOMAIN scopes |-> Bare(Append(scopes[k], name))])

VisibleLocalType(owner) ==
  /\ Source # 0 /\ PathOf(Source) # NoValue
  /\ \E t \in Definitions : /\ Def(t).kind = "type" /\ ParentOf(t) = Source
                            /\ Def(t).block \in input.call.blocks /\ Def(t).block # 0
                            /\ PathOf(t) = PathOf(Source) \o owner
Owners(owner) ==
  LET local == NormalizeRelative(owner, Here)
      first == Head(owner) \notin Keywords
  IN  (IF first /\ VisibleLocalType(owner) THEN <<PathOf(Source) \o owner>> ELSE <<>>)
        \o (IF local # NoValue THEN <<local>> ELSE <<>>)
        \o (IF first THEN [k \in DOMAIN Glob |-> Glob[k] \o owner] ELSE <<>>)
QualifiedKeys(owner, name) ==
  LET import == CallImportBinding(Source, ModuleIndex, Head(owner))
      owners == IF import.how = "unique" THEN <<import.path \o Tail(owner)>> ELSE Owners(owner)
  IN  IF import.how = "ambiguous" THEN <<<<"ambiguous", name>>>>
      ELSE FlattenSeq([k \in DOMAIN owners |->
             [j \in 1 .. 3 |-> <<(<<"function", "method", "item">>)[j], Append(owners[k], name)>>]])

ReceiverType(name) ==
  LET values == ValuesNamed(name)
      type == input.values[CHOOSE k \in values : TRUE].type
  IN  IF Source = 0 \/ Cardinality(values) # 1 THEN NoValue
      ELSE IF type = NoValue THEN NoValue
      ELSE Through(CallImportBinding(Source, ModuleIndex, Head(type)), type, Here)
MethodOf(owner, name) == IF owner = NoValue THEN <<>> ELSE <<<<"method", Append(owner, name)>>>>

CallKeys ==
  LET call == input.call
      owner == Front(call.path)
      name == Last(call.path)
  IN  CASE call.receiver = "self" -> MethodOf(SourceOwner, name)
        [] call.receiver \notin {"self", NoValue} -> MethodOf(ReceiverType(call.receiver), name)
        [] call.receiver = NoValue /\ owner = <<>> -> BareKeys(name)
        [] call.receiver = NoValue /\ owner = <<"Self">> -> MethodOf(SourceOwner, name)
        [] OTHER -> QualifiedKeys(owner, name)

AddRustFile ==
  [calls |-> CallKeys,
   imports |-> {[path |-> Use(i).path,
                 alias |-> IF i.exported /\ ~ i.glob THEN Append(ModulePath(i.module), Use(i).alias) ELSE NoValue] :
                  i \in {j \in input.imports : ~ j.glob /\ Use(j).path # NoValue}},
   gaps |-> {i \in input.imports : i.glob \/ Use(i).path = NoValue},
   implementations |->
     {pair \in {<<NormalizeImplTarget(input.impls[k].target, input.impls[k].module),
                  NormalizeImplTarget(input.impls[k].of, input.impls[k].module)>> :
                  k \in {j \in DOMAIN input.impls : input.impls[j].of # NoValue}} :
        NoValue \notin Range(pair)}]

Init == input = NoValue /\ result = NoValue

Request ==
  /\ input = NoValue
  /\ \E family \in Inputs :
       \E file \in family.files, imports \in family.imports, values \in family.values,
          place \in family.places, call \in family.calls :
         input' = file @@ place @@ [imports |-> imports, values |-> values, call |-> call]
  /\ UNCHANGED result

(* The file's target, its inline modules, its imports, the paths of its    *)
(* definitions, and then what refers to them.                              *)
AssignParseContext ==
  /\ input # NoValue /\ result = NoValue
  /\ result' = ForPath(input.path)
  /\ UNCHANGED input
Step(before, after) ==
  result # NoValue /\ before \in DOMAIN result /\ after \notin DOMAIN result /\ UNCHANGED input
Nest ==
  /\ Step("module", "modules")
  /\ result' = result @@ [modules |-> [m \in 0 .. Len(input.modules) |-> InlineModulePath(m)]]
Bind ==
  /\ Step("modules", "uses")
  /\ result' = result @@ [uses |-> [i \in input.imports |-> UseBinding(i)]]
Define ==
  /\ Step("uses", "paths")
  /\ result' = result @@ [paths |-> [d \in Definitions |-> DefinitionPath(d)]]
Answer ==
  /\ Step("paths", "calls")
  /\ result' = result @@ AddRustFile

Next == Request \/ AssignParseContext \/ Nest \/ Bind \/ Define \/ Answer
Spec == Init /\ [][Next]_vars

(***************************************************************************)
(* What Rust makes of a name: the innermost function body that declares or *)
(* imports it, then the module, then what the module imports by glob.      *)
(* What is imported from another file is taken to exist.                   *)
(***************************************************************************)
RECURSIVE Bodies(_)
Bodies(d) == IF d = 0 THEN {} ELSE {d} \union Bodies(Def(d).holder)
Around == Bodies(Source) \ {Source}
TrueModule == IF Source = 0 THEN input.call.module ELSE ModuleIndex

Declared(body, name, kinds) ==
  {PathOf(d) : d \in {e \in Definitions :
     /\ ~ IsMember(e) /\ Def(e).holder = body /\ Def(e).module = TrueModule
     /\ Def(e).name = name /\ Def(e).kind \in kinds /\ Def(e).block \in input.call.blocks}}
Imported(body, name) ==
  {Use(i).path : i \in {j \in input.imports :
     j.source = body /\ j.module = TrueModule /\ Use(j).alias = name}} \ {NoValue}
Named(body, name, kinds) == Declared(body, name, kinds) \union Imported(body, name)
Globbed(body, name) == {Append(path, name) : path \in Imported(body, "*")}
Meaning(name, kinds) ==
  LET meanings(body) == IF Named(body, name, kinds) # {} THEN Named(body, name, kinds)
                        ELSE Globbed(body, name)
      bodies == {d \in Bodies(Source) : meanings(d) # {}}
      nearest == CHOOSE d \in bodies : \A e \in bodies : Bodies(e) \subseteq Bodies(d)
  IN  IF bodies = {} THEN meanings(0) ELSE meanings(nearest)

OwnModules == {ModulePath(m) : m \in 0 .. Len(input.modules)}
External(name) ==
  {path \in {Use(i).path : i \in {j \in input.imports : ~ j.glob}}
              \union UNION {Globbed(i.source, name) : i \in input.imports} :
     path # NoValue /\ Front(path) \notin OwnModules}
Exists(key, name) ==
  (\E d \in Definitions : key \in KeysOfDefinition(d)) \/ (key[1] = "function" /\ key[2] \in External(name))
Resolved(name) ==
  LET existing == {k \in DOMAIN result.calls : Exists(result.calls[k], name)}
  IN  IF existing = {} THEN {} ELSE {result.calls[Min(existing)][2]}

Answered == result # NoValue /\ "calls" \in DOMAIN result
Callables == {"function", "test", "type"}
IsBare == input.call.receiver = NoValue /\ Len(input.call.path) = 1
BareMeaning(name) == IF ValuesNamed(name) # {} THEN {} ELSE Meaning(name, Callables)

(* The callers that the keys of a bare call are made for: nothing of the   *)
(* name is a member next to them, is nested in them, is declared in more   *)
(* than the one function around them, or there and imported by the module. *)
Plain(name) ==
  /\ Source = 0 => input.call.module = 0
  /\ \A d \in Definitions : Def(d).name = name =>
       ~ (IsMember(d) /\ Source # 0 /\ ParentOf(d) # 0 /\ ParentOf(d) = ParentOf(Source))
  /\ Source # 0 =>
       /\ Declared(Source, name, Callables) = {} /\ Imported(Source, "*") = {}
       /\ \A body \in Around : /\ Imported(body, name) = {} /\ Imported(body, "*") = {}
                               /\ body # ParentOf(Source) \/ Imported(0, name) # {} =>
                                    Declared(body, name, Callables) = {}

(* The same for the type of an associated function.                        *)
PlainType(name) ==
  /\ Source # 0
  /\ Declared(Source, name, {"type"}) # {} => Imported(0, name) = {}
  /\ \A body \in Bodies(Source) : /\ Imported(body, name) = {} /\ Imported(body, "*") = {}
                                 /\ body # Source => Declared(body, name, {"type"}) = {}

(* A bare call of such a caller is resolved to what Rust finds, and to     *)
(* nothing when a local value, or two imports, may be meant                *)
(* (index.rs:3475-3513); a call of an associated function to the one of    *)
(* the type that Rust finds, if it has one (3517-3559, 3630-3652); and no  *)
(* two files of a package are one module, except for a.rs and a/mod.rs or  *)
(* a/main.rs (3891-4054).                                                  *)
NamesAreScoped ==
  Answered =>
    LET name == Last(input.call.path)
        owner == Head(input.call.path)
        members == {Append(type, name) : type \in Meaning(owner, {"type"})}
    IN  /\ IsBare /\ Plain(name) =>
             /\ Resolved(name) \subseteq BareMeaning(name)
             /\ (/\ Cardinality(BareMeaning(name)) = 1
                 /\ \A path \in BareMeaning(name) : Exists(<<"item", path>>, name) \/ path \in External(name)
                 /\ Imported(Source, name) = {} \/ Source = 0)
                => Resolved(name) = BareMeaning(name)
        /\ (/\ input.call.receiver = NoValue /\ Len(input.call.path) = 2
            /\ owner \notin Keywords \union {"Self"} /\ PlainType(owner)
            /\ Cardinality(members) = 1 /\ \A member \in members : Exists(<<"item", member>>, name))
           => Resolved(name) = members
        /\ \A p, q \in {file \in input.inventory : Last(file) # "Cargo.toml"} :
             p # q /\ ForPath(p) = ForPath(q) => {Last(p), Last(q)} \intersect {"mod.rs", "main.rs"} # {}

(* Graphr promises that it never asserts a target that is not proven       *)
(* (docs/superpowers/specs/2026-08-12-review-coverage-design.md:59-60).    *)
(* For a bare call of a program that compiles, in any function, that is    *)
(* one that Rust may find (index.rs:3497-3505).                            *)
CallsAreProven ==
  Answered /\ IsBare =>
    LET name == Last(input.call.path)
    IN  Meaning(name, Callables) # {} => Resolved(name) \subseteq BareMeaning(name)

=============================================================================
