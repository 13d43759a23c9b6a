SPECIFICATION FairSpec
CONSTANTS
  Parents = {p,q}
  Backlog = {p,q}
  Profiles = {f,g}
  Runners = {s, m}
  Scheduled = s
  None = None
  SegmentTarget = 1
  SegmentHardLimit = 2
  EmbeddingBatch = 1
  MaxRevision = 4
  MaxDisturbances = 1
PROPERTIES
  EveryRefreshReturns
  DebtIsWorkedOff
