\* Two trees, manifests with a generated output, a SCIP index, both or neither; two
\* rounds of up to three files, four in all, by two parser threads.
CONSTANTS
  t1 = t1
  t2 = t2
  m1 = m1
  m2 = m2
  m3 = m3
  m4 = m4
  NoValue = NoValue
  Trees = {t1, t2}
  Sources <- TwoTrees
  Manifests = {m1, m2, m3, m4}
  Generated <- Outputs
  Indexed = {m1, m2, m3}
  Scip <- Indexes
  Asked <- SomeAsked
  None = None
  Rounds = 2
  MaxFiles = 3
  MaxTotal = 4
  Threads = 2
  Share = 1
SPECIFICATION FairSpec
INVARIANTS
  ImagesHoldTheirFiles
  EvidenceIsOfTheManifest
  FilesAreDivided
  EveryReportIsShown
PROPERTY BuildEnds
