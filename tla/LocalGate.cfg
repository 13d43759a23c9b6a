SPECIFICATION FairSpec
CONSTANTS
  Goroutines = {a, b, c, d}
  Entries = {e1, e2}
  None = None
INVARIANTS
  GateIsExact
  NoStrandedWaiter
PROPERTIES
  NoOvertaking
  WaitersAreGranted
