\* One builder, one fault at any time, two snapshots of which one's graph is the
\* other's base, and a third that adds evidence to the first.
CONSTANTS
  b1 = b1
  b2 = b2
  p1 = p1
  p2 = p2
  s1 = s1
  s2 = s2
  s3 = s3
  g1 = g1
  g2 = g2
  g3 = g3
  r1 = r1
  r2 = r2
  Junk = Junk
  NoValue = NoValue
  Processes = {p1}
  Builders = {b1}
  Host <- OneBuilder
  Snapshots = {s1, s2, s3}
  Graphs = {g1, g2, g3}
  GraphOf <- HeadGraphs
  BaseOf <- BaseGraphs
  Reviews = {r1, r2}
  ReviewOf <- OwnReviews
  SourceOf <- OneWithEvidence
  MaxImages = 5
  MaxFaults = 1
SPECIFICATION FairSpec
INVARIANT UndisturbedBuildRepairs
PROPERTIES
  RepairKeepsGoodSnapshots
  BuildsEnd
