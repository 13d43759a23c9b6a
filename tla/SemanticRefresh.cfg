SPECIFICATION Spec
CONSTANTS
  Parents = {p,q,o,n}
  Backlog = {p,q,o,n}
  Profiles = {f,g}
  Runners = {s, m}
  Scheduled = s
  None = None
  SegmentTarget = 2
  SegmentHardLimit = 3
  EmbeddingBatch = 2
  MaxRevision = 5
  MaxDisturbances = 2
INVARIANTS
  StageIsEarned
  RunningHasARunner
PROPERTIES
  EmbeddingKeepsL0Bounded
  CompletionIsEarned
SYMMETRY Interchangeable
