SPECIFICATION FairSpec
CONSTANTS
  a = a
  b = b
  c = c
  d = d
  p = p
  q = q
  Clients = {a, b, c, d}
  Procs = {p, q}
  ProcOf <- MCProcOf
  TryClients = {d}
  None = None
  MaxSequence = 2
  MaxArrivals = 2
  MaxCrashes = 1
INVARIANTS
  LineIsSound
  MutualExclusion
PROPERTIES
  ImplementsFairLock
  WritersAreServed
