SPECIFICATION Spec
CONSTANTS
    NTargets = 3
    KeepFound = FALSE
    Workers = {w1, w2}
    Count = 2
    CpuRun = 4
    Poll = 2
    BaseBound = 3
    Overlap <- MCOverlap
INVARIANTS
    TypeOK
    OneKeyPerBase
    KeysExact
    StopIsPrompt
    WorkerHitsShareNothing
PROPERTIES
    ImplementsLedger
