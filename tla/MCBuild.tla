-------------------------------- MODULE MCBuild --------------------------------
(***************************************************************************)
(* Two sides of a build for one run of TLC: the images it may be seeded by *)
(* and what is made of them (GraphLineage), and the threads that parse the *)
(* files and report about it (BuildProgress).  A behaviour is one of one   *)
(* side; the other side is idle.                                           *)
(***************************************************************************)
EXTENDS MCGraphLineage, BuildProgress

VARIABLE side

all == <<side, vars, progressVars>>

(* A build of no files that is over.                                       *)
NoProgress ==
  /\ fate = [r \in 1 .. Rounds |-> <<>>] /\ exact = [r \in 1 .. Rounds |-> FALSE]
  /\ phase = "published" /\ round = Rounds /\ reusing = 1 /\ pending = <<>>
  /\ crew = {} /\ next = 1 /\ completed = 0 /\ lock = None
  /\ worker = [w \in Workers |-> "out"] /\ taken = [w \in Workers |-> None]
  /\ done = [w \in Workers |-> 0] /\ parts = [w \in Workers |-> {}]
  /\ sums = [done |-> 0, reused |-> 0, parsed |-> 0]
  /\ sent = NoReport /\ shown = NoReport

InitBuild ==
  \/ side = "lineage" /\ Init /\ NoProgress
  \/ side = "progress" /\ InitProgress /\ Init

BuilderStep == side = "progress" /\ Builder /\ UNCHANGED <<side, vars>>
ParserStep(w) == side = "progress" /\ Parser(w) /\ UNCHANGED <<side, vars>>

NextBuild ==
  \/ side = "lineage" /\ Next /\ UNCHANGED <<side, progressVars>>
  \/ BuilderStep
  \/ \E w \in Workers : ParserStep(w)
  \/ side = "progress" /\ Ended /\ UNCHANGED <<side, vars>>

(* The fairness of BuildProgress.                                          *)
FairSpec ==
  /\ InitBuild /\ [][NextBuild]_all
  /\ WF_all(BuilderStep)
  /\ \A w \in Workers : WF_all(ParserStep(w))
=============================================================================
