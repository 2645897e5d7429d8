--------------------------- MODULE MCJobRegistry ---------------------------
(* Instances of JobRegistry for TLC.                                       *)
EXTENDS JobRegistry, TLC

Count(done, total, reused, parsed) ==
  [done |-> done, total |-> total, reused |-> reused, parsed |-> parsed]

(* One stage, without counts.                                              *)
OneStage == [stage : {"capturing"}, counters : {Count(0, 0, 0, 0)}]

(* Clients are interchangeable, and so are workspaces and selections.      *)
Symmetry == Permutations(Clients) \union Permutations(Workspaces)
              \union Permutations(Selections)
============================================================================
