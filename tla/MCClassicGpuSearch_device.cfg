SPECIFICATION Spec
CONSTANTS
    NTargets = 3
    KeepFound = FALSE
    Overlap <- MCOverlap
    Count = 2
    Options <- MCOptions
    MaxHits = 3
    BatchBound = 3
INVARIANTS
    TypeOK
    HitsShareNothing
    NoFalseAlarm
    NothingMissed
PROPERTIES
    ImplementsLedger
