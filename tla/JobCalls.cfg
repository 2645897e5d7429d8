\* Two handlers and two jobs of one workspace: calls, cancellation, closing.
CONSTANTS
  Clients = {c1, c2}
  Workspaces = {w1}
  Selections = {s1, s2}
  Evidence = {}
  Reports <- OneStage
  Caches = {x}
  MaxJobs = 2
  NoValue = NoValue
SPECIFICATION SafetySpec
INVARIANTS
  TypeOK
  OneJobPerWorkspace
  EndedJobFreesWorkspace
  AnswersNeverRegress
  OutcomeIsHonest
  CloseLeavesNothingRunning
PROPERTY EndIsFinal
SYMMETRY Symmetry
