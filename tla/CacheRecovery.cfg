\* Two processes race to build one snapshot with a base graph, with a fault at
\* any time.
CONSTANTS
  b1 = b1
  b2 = b2
  p1 = p1
  p2 = p2
  s1 = s1
  s2 = s2
  s3 = s3
  g1 = g1
  g2 = g2
  g3 = g3
  r1 = r1
  r2 = r2
  Junk = Junk
  NoValue = NoValue
  Processes = {p1, p2}
  Builders = {b1, b2}
  Host <- TwoProcesses
  Snapshots = {s1}
  Graphs = {g1, g2}
  GraphOf <- OneHead
  BaseOf <- OneBase
  Reviews = {r1}
  ReviewOf <- OneReview
  SourceOf <- NoEvidence
  MaxImages = 3
  MaxFaults = 1
SPECIFICATION Spec
INVARIANTS
  PublicationIsAtomic
  RacingBuildsSucceed
