------------------------- MODULE MCGraphResolution -------------------------
(* Instances of GraphResolution for TLC.                                   *)
EXTENDS GraphResolution, TLC

CONSTANTS pa, pb, pc, pd, pe, pf, pg, kExport, kBarrel, kLocal, kWorker

(* What a path may hold; it may also be absent.  The first five are        *)
(* scripts: pa and pb are modules of one name (a.js and a/index.js) and    *)
(* export a class or a function C; pc and pd are again of one name, and    *)
(* export again what the first module exports, or a class of their own; pe *)
(* uses both modules.  The others are C++: a class Worker with a method, a *)
(* function of that name, and a method declared outside of its class.  A   *)
(* node id is <<path, shape, name>>.                                       *)
Mixed ==
     pa :> {"class", "func"} @@ pb :> {"class"} @@ pc :> {"barrel"} @@ pd :> {"barrel", "own"}
  @@ pe :> {"caller"} @@ pf :> {"worker"} @@ pg :> {"outline"}
Cpp == pf :> {"inline", "worker"} @@ pg :> {"inline", "outline"}

CONSTANT Shapes

SourceIds == UNION {{<<p, shape>> : shape \in Shapes[p]} : p \in DOMAIN Shapes}
PathOfSource == [s \in SourceIds |-> s[1]]

At(s, name) == <<s[1], s[2], name>>
FileKind == [kind |-> "file", name |-> "file", keys |-> {}, parent |-> NoValue,
             owner |-> NoValue, class |-> FALSE, static |-> FALSE, first |-> 1, last |-> 9]
Definition(s, kind, name, keys, lines) ==
  [FileKind EXCEPT !.kind = kind, !.name = name, !.keys = keys,
                   !.parent = At(s, "file"), !.first = lines[1], !.last = lines[2]]

Class(s, key) == [Definition(s, "type", "C", {key}, <<1, 4>>) EXCEPT !.class = TRUE]
Method(s, parent) == [Definition(s, "function", "run", {}, <<2, 3>>) EXCEPT !.parent = At(s, parent)]

(* The nodes of a source by name.                                          *)
Columns(s) ==
  "file" :> FileKind @@
  CASE s[2] = "class" ->
         "C" :> Class(s, kExport) @@ "run" :> [Method(s, "C") EXCEPT !.static = TRUE]
    [] s[2] = "own" ->
         "C" :> Class(s, kBarrel) @@ "run" :> [Method(s, "C") EXCEPT !.static = TRUE]
    [] s[2] = "func" -> "C" :> Definition(s, "function", "C", {kExport}, <<1, 2>>)
    [] s[2] = "caller" ->
         "D" :> Definition(s, "type", "D", {kLocal}, <<1, 1>>)
         @@ "call" :> Definition(s, "function", "call", {}, <<2, 4>>)
         @@ "test" :> Definition(s, "test", "test", {}, <<5, 6>>)
    [] s[2] = "inline" ->
         "Worker" :> Definition(s, "type", "Worker", {kWorker}, <<1, 4>>)
         @@ "run" :> [Method(s, "Worker") EXCEPT !.owner = kWorker]
    [] s[2] = "worker" -> "Worker" :> Definition(s, "function", "Worker", {kWorker}, <<1, 2>>)
    [] s[2] = "outline" ->
         "run" :> [Method(s, "file") EXCEPT !.owner = kWorker]
    [] OTHER -> <<>>

NodeIds == [s \in SourceIds |-> {At(s, name) : name \in DOMAIN Columns(s)}]
NodeTable ==
  [n \in UNION {NodeIds[s] : s \in SourceIds} |->
     Columns(<<n[1], n[2]>>)[n[3]] @@ ("file" :> At(<<n[1], n[2]>>, "file"))]

Call(s, name, line, keys) ==
  [source |-> At(s, name), kind |-> "CALLS", line |-> line, keys |-> keys, alias |-> NoValue]
Run(key) == [owner |-> key, name |-> "run"]

(* A barrel imports what it exports; a caller calls what the barrel        *)
(* exports twice, and a static method of it, and a test one of the module; *)
(* its own class extends the one of the barrel.                            *)
References(s) ==
  CASE s[2] = "barrel" ->
         <<[source |-> At(s, "file"), kind |-> "IMPORTS", line |-> 1,
            keys |-> <<kExport>>, alias |-> kBarrel]>>
    [] s[2] = "caller" ->
         <<Call(s, "call", 2, <<kBarrel>>), Call(s, "call", 3, <<kBarrel>>),
           Call(s, "call", 4, <<Run(kBarrel)>>), Call(s, "test", 5, <<Run(kExport)>>)>>
    [] OTHER -> <<>>

RefIds == [s \in SourceIds |-> {<<s, i>> : i \in DOMAIN References(s)}]
RefTable ==
  [r \in UNION {RefIds[s] : s \in SourceIds} |-> References(r[1])[r[2]]]

ImplementationIds == [s \in SourceIds |-> IF s[2] = "caller" THEN {<<s, 1>>} ELSE {}]
ImplementationTable ==
  [i \in UNION {ImplementationIds[s] : s \in SourceIds} |->
     [implementor |-> kLocal, trait |-> kBarrel]]

AllNames == {"file", "C", "D", "Worker", "run", "call", "test"}
AllKeys == {kExport, kBarrel, kLocal, kWorker}
ExportKeys == {kExport, kBarrel}

(* SCIP defines the method run of pa and its class, and sees them on three *)
(* lines of pe.                                                            *)
Occurrence(symbol, path, line, definition) ==
  [symbol |-> symbol, path |-> path, line |-> line, definition |-> definition]
ScipIndex ==
  {Occurrence("pa#run", pa, 2, TRUE), Occurrence("pa#C", pa, 1, TRUE),
   Occurrence("pa#C", pe, 2, FALSE), Occurrence("pa#run", pe, 4, FALSE),
   Occurrence("pa#run", pe, 5, FALSE)}
SymbolNames == "pa#run" :> "run" @@ "pa#C" :> "C"
KeyNames == kExport :> "C" @@ kBarrel :> "C" @@ kLocal :> "D" @@ kWorker :> "Worker"
============================================================================
