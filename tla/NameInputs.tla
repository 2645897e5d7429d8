------------------------------ MODULE NameInputs ------------------------------
(***************************************************************************)
(* What the parsers' scoping of names is run on (MCReview): small files of *)
(* each language in which one name is declared in several places.          *)
(***************************************************************************)
EXTENDS Naturals, Sequences, FiniteSets, SequencesExt

CONSTANT NoValue

Anonymous == "@anonymous"

(***************************************************************************)
(* CppNames.                                                               *)
(***************************************************************************)
Raw(path) == [absolute |-> FALSE, path |-> path]
Class(container, name, bases, body, hidden) ==
  [kind |-> "class", container |-> container, name |-> name, type |-> NoValue, bases |-> bases,
   body |-> body, hidden |-> hidden, conditional |-> FALSE]
Enum(container, type, body) ==
  [Class(container, "E", <<>>, body, {}) EXCEPT !.kind = "enum", !.type = type]
Field(owner) == [owner |-> owner, name |-> "f", conditional |-> FALSE]
Function(container, type, raw) ==
  [container |-> container, type |-> type, raw |-> raw, conditional |-> FALSE]
Member(class, name) == Function(class, class, Raw(<<name>>))
CppFile(types, fields, functions, anonymous) ==
  [types |-> types, fields |-> fields, functions |-> functions, anonymous |-> anonymous,
   directory |-> <<"src", "a">>, include |-> <<"..", "b.h">>]
CppCall(kind, raw, bound) == [kind |-> kind, raw |-> raw, bound |-> bound]
PlainCalls == {CppCall("plain", Raw(<<"f">>), FALSE)}

(* Four classes, each with the bases before it, of which some are not in   *)
(* the file; who of them declares f, and how much of whom is seen.         *)
Shapes ==
  {<< <<>>, <<"A">>, <<"A">>, <<"B", "C">> >>, << <<>>, <<"A">>, <<>>, <<"B", "C">> >>,
   << <<>>, <<>>, <<"A", "B">>, <<"C">> >>, << <<>>, <<"A">>, <<"B">>, <<"C">> >>,
   << <<>>, <<"A">>, <<"A", "X">>, <<"C">> >>, << <<"X">>, <<"A">>, <<>>, <<"C", "B">> >>}
Letters == <<"A", "B", "C", "D">>
ClassFiles ==
  [files |->
     {CppFile([k \in 1 .. 4 |->
                 Class(<<>>, Letters[k], [b \in DOMAIN shape[k] |-> Raw(<<shape[k][b]>>)],
                       IF k = part THEN {"member", "other"} ELSE {"member"},
                       IF k = part THEN {"f"} ELSE {})]
                \o enum,
              {Field(<<Letters[k]>>) : k \in declared},
              {Function(<<>>, NoValue, Raw(<<"f">>))}, {}) :
        shape \in Shapes, declared \in SUBSET (1 .. 4), part \in {0, 1, 3},
        enum \in {<<>>, <<Enum(<<"D">>, <<"D">>, {"enumerator"})>>, <<Enum(<<"D">>, <<"D">>, {})>>}},
   callers |-> {Member(<<"D">>, "run")},
   calls |-> PlainCalls]

(* A class in a class in a namespace, next to an unnamed one; methods      *)
(* declared or only defined outside, and a class of another file.          *)
NestedFiles ==
  [files |->
     {CppFile(<<Class(<<"n">>, "B", <<>>, {"member"}, {}),
                Class(<<"n">>, "O", outer, {"member"}, {}),
                Class(<<"n", "O">>, "I", inner, {"member"}, {})>>,
              fields, functions, anonymous) :
        outer \in {<<>>, <<Raw(<<"B">>)>>}, inner \in {<<>>, <<[absolute |-> TRUE, path |-> <<"n", "B">>]>>, <<Raw(<<"n", "B">>)>>},
        fields \in SUBSET {Field(<<"n", "O">>), Field(<<"n", "B">>)},
        functions \in SUBSET {Function(<<>>, NoValue, Raw(<<"f">>)), Function(<<"n">>, NoValue, Raw(<<"f">>)),
                              Function(<<"n", Anonymous>>, NoValue, Raw(<<"f">>)),
                              Function(<<"n">>, NoValue, Raw(<<"Far", "f">>))},
        anonymous \in {{<<"n">>}}},
   callers |-> {Member(<<"n", "O", "I">>, "run"), Member(<<"n", "O">>, "run"),
                Function(<<>>, NoValue, Raw(<<"n", "O", "run">>)),
                Function(<<"n">>, NoValue, Raw(<<"Far", "run">>)), Function(<<"n">>, NoValue, Raw(<<"run">>)),
                Function(<<>>, NoValue, Raw(<<"run">>))},
   calls |-> PlainCalls]

(* Every form of a call.                                                   *)
CallForms ==
  [files |-> {CppFile(<<Class(<<"n">>, "O", <<>>, {"member"}, {})>>, {},
                      {Function(<<>>, NoValue, Raw(<<"f">>)), Function(<<"n">>, NoValue, Raw(<<"O", "f">>))}, {})},
   callers |-> {Member(<<"n", "O">>, "run"), Function(<<"n">>, NoValue, Raw(<<"run">>))},
   calls |-> {CppCall(kind, raw, bound) : kind \in {"plain", "this", "other"}, raw \in {Raw(<<"f">>)}, bound \in BOOLEAN}
               \union {CppCall("qualified", [absolute |-> a, path |-> <<"O", "f">>], FALSE) : a \in BOOLEAN}]

CppFiles == {ClassFiles, NestedFiles, CallForms}

(***************************************************************************)
(* PythonNames.                                                            *)
(***************************************************************************)
Definition(kind, name, parent, bases, first) ==
  [kind |-> kind, name |-> name, parent |-> parent, bases |-> bases, first |-> first]
Import(source, dots, module, name, alias) ==
  [source |-> source, dots |-> dots, module |-> module, name |-> name, alias |-> alias]
PythonCall(source, receiver, name) == [source |-> source, receiver |-> receiver, name |-> name]
InModule == {<<"src", "p", "m">>}

(* A function in a method of a class; h is defined, assigned and imported  *)
(* in some of the four scopes.                                             *)
PythonScopes ==
  [definitions |->
     {<<Definition("type", "C", 0, <<>>, NoValue), Definition("function", "m", 1, <<>>, "self"),
        Definition("function", "g", 2, <<>>, NoValue)>> \o nested :
        nested \in {[k \in 1 .. Cardinality(scopes) |-> Definition("function", "h", SetToSeq(scopes)[k], <<>>, NoValue)] :
                      scopes \in SUBSET (0 .. 3)}},
   values |-> {{}, {<<0, "h">>}, {<<1, "h">>}, {<<2, "h">>}, {<<2, "g">>}},
   imports |-> {{}, {Import(0, 0, <<"a">>, "h", NoValue)}, {Import(2, 0, <<"a">>, "x", "h")},
                {Import(1, 0, <<"a">>, "h", NoValue), Import(0, 0, <<"h", "b">>, NoValue, NoValue)},
                {Import(0, 0, <<"a">>, "h", NoValue), Import(0, 0, <<"b">>, "h", NoValue)},
                {Import(2, 0, <<"a">>, "h", NoValue), Import(2, 0, <<"a">>, NoValue, "h")},
                {Import(3, 1, <<"a">>, "h", NoValue), Import(3, 1, <<"a">>, "h", "h")}},
   paths |-> InModule,
   calls |-> {PythonCall(source, NoValue, name) : source \in 0 .. 3, name \in {"h", "g"}}]

(* Calls of self and cls, in a class whose bases are of the module, of     *)
(* another one, or of nobody knows where.                                  *)
PythonBases ==
  [definitions |->
     {<<Definition("function", "make", 0, <<>>, NoValue), Definition("type", "B", holder, <<>>, NoValue),
        Definition("function", "f", holder, <<>>, "self"),
        Definition("type", "C", 1, bases, NoValue), Definition("function", "run", 4, <<>>, first),
        Definition("function", "in", 5, <<>>, "self"), Definition("function", other, 4, <<>>, NoValue)>> :
        holder \in {0, 1}, first \in {"self", "cls", NoValue}, other \in {"f", "B"},
        bases \in {<<>>, << <<"B">> >>, << <<"p", "D">>, <<"B">> >>, << <<"x">>, <<"q", "D">> >>}},
   values |-> {{}, {<<1, "B">>}, {<<0, "x">>}},
   imports |-> {{}, {Import(0, 0, <<"p", "D">>, NoValue, NoValue)}, {Import(1, 0, <<"z">>, "q", NoValue)},
                {Import(0, 0, <<"z">>, "B", NoValue)}},
   paths |-> InModule,
   calls |-> {PythonCall(source, receiver, "f") : source \in {5, 6}, receiver \in {"self", "cls", "other", NoValue}}]

(* Relative imports, from a module, a package and the top.                 *)
PythonTargets ==
  [definitions |-> {<<Definition("function", "f", 0, <<>>, NoValue), Definition("function", "g", 0, <<>>, NoValue)>>,
                    <<Definition("function", "f", 0, <<>>, NoValue), Definition("function", "f", 0, <<>>, NoValue),
                      Definition("function", "h", 1, <<>>, NoValue)>>},
   values |-> {{}},
   imports |-> {{Import(source, dots, module, name, alias)} :
                  source \in {0, 1}, dots \in 1 .. 3, module \in {<<>>, <<"n">>}, name \in {"h"}, alias \in {NoValue, "k"}}
                 \union {{Import(0, 0, <<"n", "o">>, NoValue, alias)} : alias \in {NoValue, "k"}},
   paths |-> {<<"src", "m">>, <<"src", "p", "m">>, <<"p", "__init__">>, <<"__init__">>, <<"a", "b", "m">>},
   calls |-> {PythonCall(source, NoValue, name) : source \in 0 .. 2, name \in {"h", "k", "n"}}]

PythonFiles == {PythonScopes, PythonBases, PythonTargets}

(***************************************************************************)
(* RustNames.                                                              *)
(***************************************************************************)
Item(kind, name, holder, module) ==
  [kind |-> kind, name |-> name, holder |-> holder, impl |-> 0, trait |-> 0, module |-> module,
   block |-> IF holder = 0 THEN 0 ELSE 1]
Fn(name, holder) == Item("function", name, holder, 0)
Type(name, holder) == Item("type", name, holder, 0)
MethodIn(impl, name, holder) == [Fn(name, holder) EXCEPT !.impl = impl]
TraitMethod(trait, name) == [Fn(name, 0) EXCEPT !.trait = trait]
ImplOf(target) == [target |-> target, of |-> NoValue, module |-> 0]
Use(source, module, path) ==
  [source |-> source, module |-> module, path |-> path, alias |-> NoValue, glob |-> FALSE,
   block |-> source # 0, exported |-> FALSE]
UseAs(source, module, path, alias) == [Use(source, module, path) EXCEPT !.alias = alias]
UseAll(source, module, path) == [Use(source, module, path) EXCEPT !.glob = TRUE]
RustCall(source, path, module) ==
  [source |-> source, path |-> path, receiver |-> NoValue, blocks |-> {0, 1}, module |-> module]
Package == {<<"Cargo.toml">>, <<"src", "lib.rs">>, <<"src", "m">>}
InPackage == {[inventory |-> Package, path |-> <<"src", "m">>]}

(* A method, a function in a function, and an inline module; f is declared *)
(* in some of them.                                                        *)
RustScopes ==
  [files |->
     {[definitions |->
         <<Type("T", 0), MethodIn(1, "run", 0), Fn("outer", 0), Fn("inner", 3), Item("function", "g", 0, 1)>> \o fs,
       impls |-> <<ImplOf(<<"T">>)>>, modules |-> <<[name |-> "n", parent |-> 0]>>] :
        fs \in {SetToSeq(set) : set \in SUBSET
                  {Fn("f", 0), MethodIn(1, "f", 0), Fn("f", 3), Fn("f", 4), Fn("f", 2), Item("function", "f", 0, 1)}}},
   imports |-> {{}, {Use(0, 0, <<"crate", "a", "f">>)}, {UseAs(0, 1, <<"super", "f">>, NoValue)},
                {Use(0, 0, <<"a", "f">>), UseAs(0, 0, <<"b">>, "f")}, {UseAll(0, 0, <<"a">>)},
                {UseAll(0, 0, <<"a">>), UseAll(0, 0, <<"b">>)}, {Use(3, 0, <<"a", "f">>)}, {UseAll(4, 0, <<"a">>)}},
   values |-> {<<>>, <<[source |-> 4, name |-> "f", type |-> NoValue]>>},
   places |-> InPackage,
   calls |-> {RustCall(source, <<"f">>, 0) : source \in {0, 2, 3, 4}} \union {RustCall(source, <<"f">>, 1) : source \in {0, 5}}]

(* A type of a module and one of a function, their members, and a trait.   *)
RustTypes ==
  [files |->
     {[definitions |-> <<Fn("outer", 0), Type("S", 0), TraitMethod(2, "new")>> \o types \o members,
       impls |-> <<ImplOf(<<"T">>), [target |-> <<"T">>, of |-> <<"S">>, module |-> 0]>>, modules |-> <<>>] :
        types \in {<<>>, <<Type("T", 0)>>, <<Type("T", 1)>>, <<Type("T", 0), Type("T", 1)>>,
                    <<Type("T", 0), [Type("T", 1) EXCEPT !.block = 2]>>},
        members \in {<<MethodIn(1, "new", 0)>>, <<MethodIn(2, "new", 0), MethodIn(1, "run", 1)>>}},
   imports |-> {{}, {Use(0, 0, <<"a", "T">>)}, {Use(1, 0, <<"a", "T">>)}, {UseAll(0, 0, <<"a">>)},
                {[Use(0, 0, <<"a", "S">>) EXCEPT !.exported = TRUE]}},
   values |-> {<<>>, <<[source |-> 1, name |-> "x", type |-> <<"T">>]>>,
               <<[source |-> 1, name |-> "x", type |-> <<"T">>], [source |-> 1, name |-> "x", type |-> <<"S">>]>>},
   places |-> InPackage,
   calls |-> {[RustCall(source, path, 0) EXCEPT !.receiver = receiver, !.blocks = blocks] :
                source \in {0, 1, 3}, path \in {<<"T", "new">>, <<"Self", "new">>}, receiver \in {NoValue},
                blocks \in {{0, 1}, {0, 1, 2}}}
               \union {[RustCall(source, <<"new">>, 0) EXCEPT !.receiver = receiver] :
                          source \in {1, 3}, receiver \in {"self", "x"}}]

(* Where a file is, and what it means by crate, self and super.            *)
Inventory ==
  {<<"src", "lib.rs">>, <<"src", "main.rs">>, <<"src", "m">>, <<"src", "m", "mod.rs">>, <<"src", "m", "k">>,
   <<"src", "mod.rs">>, <<"src", "bin", "t">>, <<"src", "bin", "t", "main.rs">>, <<"src", "bin", "t", "k">>,
   <<"tests", "t">>, <<"tests", "t", "k">>, <<"benches", "t">>, <<"examples", "t">>, <<"build.rs">>, <<"x", "src", "m">>,
   <<"x", "build.rs">>, <<"src", "m", "tests", "k">>, <<"x", "tests", "t">>, <<"t">>}
Places ==
  {[inventory |-> (Inventory \union manifests) \ left, path |-> path] :
     manifests \in {{<<"Cargo.toml">>}, {<<"Cargo.toml">>, <<"x", "Cargo.toml">>}},
     left \in {{}, {<<"src", "lib.rs">>}, {<<"src", "lib.rs">>, <<"src", "main.rs">>}},
     path \in {<<"src", "m", "k">>, <<"src", "lib.rs">>, <<"tests", "t", "k">>, <<"x", "src", "m">>}}
RustPlaces ==
  [files |-> {[definitions |-> <<Fn("run", 0), Fn("f", 0)>>, impls |-> <<>>, modules |-> <<[name |-> "n", parent |-> 0]>>]},
   imports |-> {{Use(0, module, root \o <<"f">>)} : module \in {0, 1},
                  root \in {<<"crate">>, <<"self">>, <<"super">>, <<"super", "super">>, <<"self", "super">>}},
   values |-> {<<>>},
   places |-> Places,
   calls |-> {RustCall(1, <<"f">>, 0)}]

RustFiles == {RustScopes, RustTypes, RustPlaces}

=============================================================================
