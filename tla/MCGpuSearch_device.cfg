SPECIFICATION FairSpec
CONSTANTS
    NTargets = 3
    KeepFound = FALSE
    Keys <- MCKeys
    Doomed <- MCDoomed
    SaltSpace = 2
    Matches <- MCMatches
    Compliant <- MCCompliant
    Count = 2
    MaxSalt = 1
    Options <- MCOptions
    MaxHits = 2
    DeviceExact = FALSE
    BatchBound = 3
INVARIANTS
    TypeOK
    HitsAreUsable
    HitsShareNothing
    BatchNotWasted
PROPERTIES
    ImplementsLedger
    BatchesEnd
