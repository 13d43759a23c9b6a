SPECIFICATION FairSpec
CONSTANTS
  k1 = k1
  k2 = k2
  s1 = s1
  Keys = {k1, k2}
  Scopes = {s1}
  ScopeOf <- MCScopeOf
  Flights = {f1, f2}
  Callers = {c1, c2}
  Searchers = {t1, t2}
  None = None
  MaxSequence = 2
INVARIANTS
  RootsAreSafe
  CacheCoherent
  DrainedIsClean
  CountersSound
PROPERTIES
  ImplementsLifecycle
  LeasesGrantedOnCurrentRoot
  ShutdownDrains
  NobodyIsForgotten
