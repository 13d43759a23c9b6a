SPECIFICATION FairSpec
CONSTANTS
  m1 = m1
  m2 = m2
  w1 = w1
  w2 = w2
  w3 = w3
  SourceWriters = {s}
  Queries = {q, r}
  Guards = {g1}
  Planners = {p}
  Maintainers = {m1, m2}
  Workers = {w1, w2, w3}
  MaintainerOf <- MCMaintainersOf
  None = None
  MaxIntents = 3
INVARIANTS
  ReadersExcludePublication
  LeasesAreExact
  GenerationUnderMaintenance
PROPERTIES
  EveryoneProceeds
