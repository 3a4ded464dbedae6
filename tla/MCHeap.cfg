SPECIFICATION FairSpec
CONSTANTS
    a = a
    b = b
    Texts <- MCTexts
    Allocated = {"data", "closure"}
    MaxSize = 5
    MaxFields = 2
    MaxRuns = 2
INVARIANTS
    HeapInv
    InternedOnce
PROPERTIES
    MainGrows
    PublishesTheGraph
    PublicationEnds
CHECK_DEADLOCK FALSE
