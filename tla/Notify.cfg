SPECIFICATION Spec
CONSTANTS
    Failures = {f1, f2}
    Providers = {p1, p2}
    None = None
    RepeatAfter = 1
    MaxEnvelopes = 2
    MaxTime = 2
    MaxFailures = 2
    MaxFaults = 1
    ClockStepsBack = FALSE
SYMMETRY Symmetry
INVARIANTS
    NeverRefused
    AnnouncementsAreHonest
    NoRepeatAfterRecord
PROPERTY DroppedWhenDone
