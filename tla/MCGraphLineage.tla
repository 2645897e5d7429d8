--------------------------- MODULE MCGraphLineage ---------------------------
(* Instances of GraphLineage for TLC.                                      *)
EXTENDS GraphLineage, TLC

CONSTANTS t1, t2, m1, m2, m3, m4

File(path, version) == [path |-> path, version |-> version]

(* Two trees with one file in two versions and one of their own each; the  *)
(* second's has the path of an output m1 attests.                          *)
TwoTrees ==
  t1 :> {File("lib", 1), File("main", 1)} @@ t2 :> {File("lib", 2), File("out", 1)}

(* m1 attests an output and names an index, m2 and m3 name an index only,  *)
(* m4 neither (a coverage report).  All the indexes know the call of the   *)
(* first tree's main, that of m1 also the one of its output.               *)
Outputs == m1 :> {File("out", 2)} @@ [m \in {m2, m3, m4} |-> {}]
Indexes ==
  m1 :> {File("main", 1), File("out", 2)} @@ [m \in {m2, m3} |-> {File("main", 1)}] @@
    m4 :> {}

(* Each tree without a base, with no evidence and with each manifest; and  *)
(* each as a base, once of a source snapshot and once of an evidence one.  *)
SomeAsked ==
  {s \in Snapshots : s.base = NoValue} \union
    {[head |-> t2, base |-> t1, manifest |-> NoValue],
     [head |-> t1, base |-> t2, manifest |-> m1]}
============================================================================
