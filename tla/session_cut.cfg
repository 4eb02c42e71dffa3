SPECIFICATION Spec
CONSTANTS
    MaxChunks = 2
    SendRoom = 2
    RecvRoom = 2
    Faults = {"cut"}
    MaxFaults = 1
INVARIANTS
    SpokenWhole
