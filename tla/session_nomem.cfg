SPECIFICATION Spec
CONSTANTS
    MaxChunks = 2
    SendRoom = 2
    RecvRoom = 2
    Faults = {"nomem"}
    MaxFaults = 1
INVARIANTS
    OwnAudio
