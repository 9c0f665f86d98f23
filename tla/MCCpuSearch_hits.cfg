SPECIFICATION Spec
CONSTANTS
    NTargets = 3
    KeepFound = FALSE
    Keys <- MCKeys
    SaltSpace = 2
    Matches <- MCMatches
    Compliant <- MCCompliant
    Workers = {w1, w2, w3}
    Count = 2
    MaxSalt = 1
    CanonicalOnly = TRUE
    Progress = TRUE
    HasTpm = TRUE
SYMMETRY WorkerSymmetry
INVARIANTS
    TypeOK
    HitAccounting
    NoTargetLost
    StopHasCause
    WorkerHitsShareNothing
