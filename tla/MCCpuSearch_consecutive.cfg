SPECIFICATION Spec
CONSTANTS
    NTargets = 1
    KeepFound = FALSE
    Keys <- MCKeys
    SaltSpace = 2
    Matches <- MCMatches
    Compliant <- MCCompliant
    Workers = {w1, w2}
    Count = 2
    MaxSalt = 1
    CanonicalOnly = TRUE
    Progress = TRUE
    HasTpm = TRUE
INVARIANTS
    ConsecutiveHitsShareNothing
