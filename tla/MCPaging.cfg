CONSTANTS
    EventText <- MCEventText
    Limit = 2
    MaxBytes = 3
    MaxRune = 2
    MaxSeq = 3
    MaxLives = 1
SPECIFICATION FairSpec
INVARIANTS
    TypeOK
    PageFits
    ReadsInOrder
    EmptyPageIsEnd
PROPERTIES
    ReadsAll
CHECK_DEADLOCK FALSE
