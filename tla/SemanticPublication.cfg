SPECIFICATION FairSpec
CONSTANTS
  Segments = {a, b}
  Builders = {x, y}
  Collector = c
  Readers = {r}
  Temporary = t
  None = None
  RetainPublished = 2
  Position <- InOrder
  MaxGenerations = 3
  MaxDisturbances = 1
INVARIANTS
  NothingMissing
  PointersResolve
PROPERTY
  LeftoversAreCollected
