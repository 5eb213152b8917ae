CONSTANTS
    Word = 64
    Keys <- HalfRange
    TableSize = 5
    Preloads <- Stages
    DeleteInner = FALSE
    DataChunk = 1
    MaxOps = 2
    MaxStops = 1
SPECIFICATION Spec
INVARIANTS
    NoDangling
    FileIsSound
PROPERTIES
    RestartKeepsAll
    ImplementsStore
CHECK_DEADLOCK FALSE
