----------------------------- MODULE ReviewAnswers -----------------------------
(***************************************************************************)
(* What a reader of a review is told of: the changes that were captured    *)
(* (GitChanges), the evidence that was imported (EvidenceReview), and the  *)
(* pages they are shown on (ReviewPages).  A behaviour is one of one part; *)
(* the variables of the others are idle, and so are those of the calls of  *)
(* Git.                                                                    *)
(***************************************************************************)
EXTENDS GitCalls, FiniteSets

CONSTANTS
  \* of GitChanges
  TreePaths, TreeSources, VendoredPaths, UnsafePaths, SemanticPaths, TreeEntries, TreeStates,
  NoEntry,
  \* of EvidenceReview
  DependencyPaths, Manifests, LastParts, RustSources, WorktreePaths, ReportPaths, Outside,
  ArtifactLimit, TotalLimit, LinkLimit, ReportLimit, ObservationLimit, CountLimit,
  \* of ReviewPages
  PageReaders, PageSituations, FirstPage, NextPage, PageHeader, PageCache

VARIABLES
  input, result,                           \* of a part that computes one answer
  situation, rendered, calls, readings     \* of ReviewPages

answered == <<input, result>>
paging == <<situation, rendered, calls, readings>>
answersVars == <<callsVars, answered, paging>>

Git == INSTANCE GitChanges WITH
         Paths <- TreePaths, SourceNames <- TreeSources, Vendored <- VendoredPaths,
         Unsafe <- UnsafePaths, Semantic <- SemanticPaths, Entries <- TreeEntries,
         Inputs <- TreeStates, Absent <- NoEntry, NoValue <- Nothing
Ev == INSTANCE EvidenceReview WITH
        Inputs <- Manifests, BaseName <- LastParts, RustPaths <- RustSources,
        SafePaths <- WorktreePaths, PathOf <- ReportPaths, External <- Outside,
        Absent <- NoEntry, NoValue <- Nothing
Pages == INSTANCE ReviewPages WITH
           Readers <- PageReaders, Situations <- PageSituations, Initial <- FirstPage,
           Available <- NextPage, Overhead <- PageHeader, CacheLimit <- PageCache,
           NoValue <- Nothing

(* The texts are UTF-8, every page has room for a header and a character   *)
(* in each section, and the mark of no value is no cursor.                 *)
ReviewAnswersAssumption ==
  /\ PageHeader \in Nat /\ NextPage \in Nat /\ FirstPage \in [Pages!Ranks -> Nat]
  /\ \E width \in 1 .. NextPage :
       /\ \A k \in Pages!Ranks : FirstPage[k] >= PageHeader + width
       /\ NextPage >= 5 * (PageHeader + width)
       /\ \A s \in PageSituations : \A key \in DOMAIN s.reviews : \A k \in Pages!Ranks :
            Pages!IsText(s.reviews[key].texts[k], width)
  /\ \A s \in PageSituations :
       /\ s.readers \subseteq PageReaders
       /\ \A key \in DOMAIN s.reviews :
            /\ s.reviews[key].key = key /\ s.reviews[key].maxNodes \in Nat \ {0}
            /\ Nothing \notin [offsets : [Pages!Ranks -> Nat], review : {s.reviews[key]}]
ASSUME ReviewAnswersAssumption

(* Finitely many paths; the marks of what is not there are no entry, no    *)
(* path, no omission and no input.                                         *)
GitInputs ==
  [base : Git!Tree, now : Git!Tree, other : Git!Tree, mode : {f.mode : f \in TreeStates},
   renames : SUBSET (TreePaths \X TreePaths)]
GitChangesAssumption ==
  /\ IsFiniteSet(TreePaths)
  /\ TreeSources \subseteq TreePaths /\ UnsafePaths \subseteq TreePaths
  /\ TreeEntries \subseteq [regular : BOOLEAN, form : Git!Forms, id : {e.id : e \in TreeEntries}]
  /\ NoEntry \notin TreeEntries
  /\ Nothing \notin TreePaths \union GitInputs
  /\ Nothing \notin {"binary", "non_regular", "oversized", "type_changed"}
  /\ \A family \in TreeStates : family.trees \subseteq Git!Tree
ASSUME GitChangesAssumption

(* The inputs have the types they have in the program, and what is asked   *)
(* of an image is in it.                                                   *)
EvidenceAssumption == Ev!InputsAreSound /\ Ev!AsksAreSound
ASSUME EvidenceAssumption

NoAnswer == input = Nothing /\ result = Nothing
NoPaging ==
  situation = Nothing /\ rendered = Nothing /\ calls = Nothing /\ readings = Nothing

InitAnswers ==
  \/ part = "git" /\ Git!Init /\ NoPaging /\ NoCall
  \/ part = "evidence" /\ Ev!Init /\ NoPaging /\ NoCall
  \/ part = "pages" /\ Pages!Init /\ NoAnswer /\ NoCall

ChangesStep == part = "git" /\ Git!Next /\ UNCHANGED <<paging, callsVars>>
EvidenceStep == part = "evidence" /\ Ev!NextReview /\ UNCHANGED <<paging, callsVars>>
PagesStep == part = "pages" /\ Pages!Next /\ UNCHANGED <<answered, callsVars>>
NextAnswers == ChangesStep \/ EvidenceStep \/ PagesStep

SpecAnswers == InitAnswers /\ [][NextAnswers]_answersVars

(***************************************************************************)
(* Properties.                                                             *)
(***************************************************************************)

(* One state of the worktree is never taken for two (merge_changes,        *)
(* git.rs:3838-3991).                                                      *)
OneStateIsMerged == part = "git" => Git!OneStateIsMerged

(* Each changed path is told exactly once, as what it is                   *)
(* (coalesce_renames, validate_source_projection, git.rs:3526-3708).       *)
EveryChangeIsTold == part = "git" => Git!EveryChangeIsTold

(* A review is called complete only if everything that differs is in it    *)
(* (change_content_complete, git.rs:586-608).                              *)
CompleteMeansComplete == part = "git" => Git!CompleteMeansComplete

(* What is imported is what the manifest and its reports say               *)
(* (insert_evidence, store.rs:6266-6654, against                           *)
(* require_evidence_invariants, 2089-2343).                                *)
EvidenceIsTheManifests == part = "evidence" => Ev!EvidenceIsTheManifests

(* What is said of the evidence is what is there (render_evidence,         *)
(* coverage_relevance, store.rs:4407-4755).                                *)
ClaimsAreHonest == part = "evidence" => Ev!ClaimsAreHonest

(* The pages of a review are the review, and a cursor is good for it for   *)
(* ever and for nothing else (Engine::changes, index.rs:892-943;           *)
(* record_coverage, 2300-2318).                                            *)
PagesAreTheReview == part = "pages" => Pages!PagesAreTheReview /\ Pages!CursorsHold

=============================================================================
