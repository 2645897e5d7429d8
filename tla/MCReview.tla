-------------------------------- MODULE MCReview --------------------------------
(***************************************************************************)
(* The parts of a review, each on inputs of its own, for one run of TLC.   *)
(* A behaviour is one of one part; the variables of the others are idle.   *)
(***************************************************************************)
EXTENDS QueryInputs, ReviewAnswers

Roots == INSTANCE ChangeRoots WITH Inputs <- Patches, RootLimit <- 3
Flow == INSTANCE ChangeDiagram WITH Inputs <- FlowGraphs, ScanLimit <- 1, DotBudget <- 8
Api == INSTANCE ApiDiff WITH Inputs <- Versions, RecordLimit <- 2
Queries == INSTANCE GraphWalks WITH
             Inputs <- Walks, Image <- Here, ViewBudget <- 9, SearchBudget <- 7, MarkWidth <- 2,
             NoteLimit <- 2, DispatchDepth <- 2
Names == INSTANCE NameInputs
Cpp == INSTANCE CppNames WITH Inputs <- Names!CppFiles, ClassLimit <- 9, Anonymous <- Names!Anonymous
Python == INSTANCE PythonNames WITH Inputs <- Names!PythonFiles
Rust == INSTANCE RustNames WITH Inputs <- Names!RustFiles

Init ==
  \/ /\ part \in {"roots", "flow", "api", "queries", "cpp", "python", "rust"}
     /\ NoAnswer /\ NoPaging /\ NoCall
  \/ InitAnswers
  \/ InitCalls /\ NoAnswer /\ NoPaging

Next ==
  \/ ChangesStep
  \/ part = "roots" /\ Roots!Next /\ UNCHANGED <<paging, callsVars>>
  \/ part = "flow" /\ Flow!Next /\ UNCHANGED <<paging, callsVars>>
  \/ part = "api" /\ Api!Next /\ UNCHANGED <<paging, callsVars>>
  \/ EvidenceStep
  \/ part = "queries" /\ Queries!Next /\ UNCHANGED <<paging, callsVars>>
  \/ part = "cpp" /\ Cpp!Next /\ UNCHANGED <<paging, callsVars>>
  \/ part = "python" /\ Python!Next /\ UNCHANGED <<paging, callsVars>>
  \/ part = "rust" /\ Rust!Next /\ UNCHANGED <<paging, callsVars>>
  \/ PagesStep
  \/ RunStep /\ UNCHANGED <<answered, paging>>
  \/ BlobStep /\ UNCHANGED <<answered, paging>>

Spec == Init /\ [][Next]_answersVars
FairSpec == Spec /\ FairCalls

(* Every changed line is in a changed symbol or told (ChangeRoots).        *)
ChangedLinesAreTold == part = "roots" => Roots!ChangedLinesAreTold

(* A walk that flags no omission left nothing out (ChangeFlow).            *)
CompleteMeansExhaustive == part = "flow" => Flow!CompleteMeansExhaustive

(* The cycles told are the cycles there are (ChangeFlow).                  *)
CyclesAreReal == part = "flow" => Flow!CyclesAreReal

(* The report says what the walks and the two images say (ChangeDiagram,   *)
(* ApiDiff).                                                               *)
ReportIsHonest ==
  /\ part = "flow" => Flow!ReportIsHonest
  /\ part = "api" => Api!ChangesOfApiAreExact

(* The queries of an image are exact, or marked (GraphWalks).              *)
QueriesAreExact ==
  part = "queries" => Queries!OmissionsAreMarked /\ Queries!PathsAreShortest

(* A call is keyed to what its language finds for the name (CppNames,      *)
(* PythonNames, RustNames).                                                *)
NamesAreScoped ==
  /\ part = "cpp" => Cpp!NamesAreScoped
  /\ part = "python" => Python!NamesAreScoped
  /\ part = "rust" => Rust!NamesAreScoped

=============================================================================
