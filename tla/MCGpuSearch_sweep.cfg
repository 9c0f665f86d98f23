SPECIFICATION Spec
CONSTANTS
    NTargets = 1
    KeepFound = FALSE
    Keys <- MCKeys
    Doomed <- MCDoomed
    SaltSpace = 2
    Matches <- MCMatches
    Compliant <- MCCompliant
    Count = 1
    MaxSalt = 1
    Options <- MCCanonical
    MaxHits = 1
    DeviceExact = TRUE
    BatchBound = 1
INVARIANTS
    SweepLosesNothing
