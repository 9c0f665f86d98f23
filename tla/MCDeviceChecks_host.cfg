SPECIFICATION Spec
CONSTANTS
    NTargets = 2
    KeepFound = TRUE
    Keys <- MCKeys
    SaltSpace = 2
    Matches <- MCMatches
    Compliant <- MCCompliant
    Entropies <- MCEntropies
    Attempts <- MCAttempts
    MaxAttempts = 3
    NoKey = NoKey
    Threads = {1, 2, 3}
    Batches <- MCBatches
    SelfTests <- MCSelfTests
    RetryItems = 3
    TestSalts = {0, 1}
    MaxSalt = 1
    EdMatching = {"first", "late"}
    SlackShare = 200
    SlackFloor = 1
    FaultSets <- MCFaultSets
INVARIANTS
    TypeOK
    ImportGivesShownAddress
    SelfTestVerdict
