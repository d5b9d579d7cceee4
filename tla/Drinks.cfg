SPECIFICATION Spec
CONSTANTS
    IdMod = 4
    CountMod = 4
    BufferSize = 15
    InitialSize = 1
    Numbers = {1, 5}
    MaxPairs = 2
    MaxLines = 2
INVARIANTS
    TypeOK
    ArrayFits
    EachLineAlone
    GoodFilesLoad
    FoundAsWritten
PROPERTIES
    EveryStepConsumes
CHECK_DEADLOCK FALSE
