\* Two workspaces, one handler, builds that report nothing, threads that run.
CONSTANTS
  Clients = {c1}
  Workspaces = {w1, w2}
  Selections = {s1}
  Evidence = {}
  Reports = {}
  Caches = {}
  MaxJobs = 2
  NoValue = NoValue
SPECIFICATION Spec
PROPERTIES
  ImplementsWorkspaceJobs
  StartedJobsEnd
  CloseEnds
