SPECIFICATION Spec
CONSTANTS
    MaxText = 5
    BufferLens = {4, 6}
    MaxWords = 2
    MaxSeg = 2
INVARIANTS
    WholeTextWritten
    ChunksPartitionText
    Utf8OrAsWritten
    BreaksInPauses
CHECK_DEADLOCK FALSE
