SPECIFICATION Spec
CONSTANTS
    Failures = {f1}
    Providers = {p1}
    None = None
    RepeatAfter = 2
    MaxEnvelopes = 2
    MaxTime = 3
    MaxFailures = 2
    MaxFaults = 0
    ClockStepsBack = TRUE
INVARIANT FlapsAreSuppressed
