SPECIFICATION UnitSpec
CONSTANTS
    Requests = {r1}
    Owner = o
    Callers = {o}
    Task = t
    ShutMsg = shut
    None = none
    MaxChunks = 2
    SendRoom = 6
    RecvRoom = 2
    Faults = {"connect", "fin", "hang", "reset", "timeout", "torn", "cut", "nomem"}
    MaxFaults = 1
INVARIANTS
    AnswerTellsOutcome
    ClosedIsDisconnected
PROPERTIES
    ImplementsDevice
