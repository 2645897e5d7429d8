\* An index call with an evidence manifest while a source-only job is active.
CONSTANTS
  Clients = {c1, c2}
  Workspaces = {w1}
  Selections = {s1}
  Evidence = {e1}
  Reports <- OneStage
  Caches = {}
  MaxJobs = 2
  NoValue = NoValue
SPECIFICATION SafetySpec
INVARIANT EvidenceIsImported
