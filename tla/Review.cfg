\* The parts of a review, each on inputs of its own.
CONSTANTS
  NoValue = NoValue
  Nothing = NoValue
  Commands <- GitCommands
  PipeSize = 1
  MaxOutput <- OutputLimits
  Works <- BlobWorks
  Readers = 3
  TreePaths <- Paths
  TreeSources <- SourceNames
  VendoredPaths = {"v"}
  UnsafePaths = {"u"}
  SemanticPaths = {"a1"}
  TreeEntries <- Entries
  TreeStates <- Worktrees
  NoEntry = Absent
  DependencyPaths = {"n.rs"}
  Manifests <- Imports
  LastParts <- LastPart
  RustSources <- RustNamed
  WorktreePaths <- InWorktree
  ReportPaths <- ReportNames
  Outside <- External
  ArtifactLimit = 2
  TotalLimit = 5
  LinkLimit = 2
  ReportLimit = 1
  ObservationLimit = 6
  CountLimit = 3
  PageReaders = {"r1", "r2"}
  PageSituations <- Readings
  FirstPage <- FirstBudgets
  NextPage = 17
  PageHeader = 1
  PageCache = 2
  Absent = Absent
  NoNode = NoNode
  NoPackage = NoPackage
SPECIFICATION FairSpec
INVARIANTS
  OneStateIsMerged
  EveryChangeIsTold
  CompleteMeansComplete
  ChangedLinesAreTold
  CompleteMeansExhaustive
  CyclesAreReal
  EvidenceIsTheManifests
  ClaimsAreHonest
  ReportIsHonest
  QueriesAreExact
  NamesAreScoped
  PagesAreTheReview
  AnswersAreGits
PROPERTY GitCallsEnd
CHECK_DEADLOCK FALSE
