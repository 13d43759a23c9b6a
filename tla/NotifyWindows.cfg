SPECIFICATION LiveSpec
CONSTANTS
    Failures = {f1}
    Providers = {p1}
    None = None
    RepeatAfter = 2
    MaxEnvelopes = 2
    MaxTime = 3
    MaxFailures = 3
    MaxFaults = 1
    ClockStepsBack = FALSE
INVARIANTS
    FlapsAreSuppressed
    AmbiguousRetryIsDue
PROPERTY PendingDrains
