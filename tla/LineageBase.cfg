\* A base graph seeded by an evidence image.
CONSTANTS
  t1 = t1
  t2 = t2
  m1 = m1
  m2 = m2
  m3 = m3
  m4 = m4
  NoValue = NoValue
  Trees = {t1, t2}
  Sources <- TwoTrees
  Manifests = {m1, m2, m3, m4}
  Generated <- Outputs
  Indexed = {m1, m2, m3}
  Scip <- Indexes
  Asked <- SomeAsked
SPECIFICATION Spec
INVARIANT SourceImagesCarryNoEvidence
