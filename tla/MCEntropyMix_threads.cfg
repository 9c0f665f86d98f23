SPECIFICATION Spec
CONSTANTS
    Threads = {w1, w2, w3}
    Size = 2
    MaxReply = 3
    CtrSpace = 2
    MaxRefreshes = 2
    MaxCalls = 3
INVARIANTS
    TypeOK
    OutputsDiffer
    OwnRefreshRenews
PROPERTIES
    ImplementsAtomicMix
    NextNeverWaitsForDevice
