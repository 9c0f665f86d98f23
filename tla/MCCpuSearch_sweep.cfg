SPECIFICATION FairSpec
CONSTANTS
    NTargets = 2
    KeepFound = FALSE
    Keys <- MCKeys
    SaltSpace = 2
    Matches <- MCMatches
    Compliant <- MCCompliant
    Workers = {w1, w2}
    Count = 2
    MaxSalt = 3
    CanonicalOnly = FALSE
    Progress = TRUE
    HasTpm = FALSE
INVARIANTS
    HitsAreUsable
PROPERTIES
    ImplementsLedger
    SearchEnds
