SPECIFICATION FairSpec
CONSTANTS
  URLs = {u}
  Workers = {w1, w2}
  Savers = {s1, s2}
  None = None
  MaxAttempts = 3
  EnqueueRounds = 3
  MaxInterrupts = 1
INVARIANTS
  AcceptedIsKept
  BudgetIsKept
  DeadLetterIsEarned
PROPERTIES
  EveryCaptureSettles
