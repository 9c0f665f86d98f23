SPECIFICATION Spec
CONSTANTS
    NTargets = 2
    KeepFound = TRUE
    Keys <- MCKeys
    SaltSpace = 2
    Matches <- MCMatches
    Compliant <- MCCompliant
    Workers = {w1, w2}
    Count <- DefaultCount
    MaxSalt = 1
    CanonicalOnly = TRUE
    Progress = TRUE
    HasTpm = TRUE
INVARIANTS
    DefaultIsOnePerTarget
