SPECIFICATION Spec
CONSTANTS
    PerThread = {1, 4, 5}
    Block = {1, 2}
    MaxItems = 7
    MaxHits = 2
    CtrSpace = 7
    SizeSpace = 11
    IntSpace = 6
    Junk = Junk
INVARIANTS
    TypeOK
    SlotsAccounted
    AnswerIsExact
