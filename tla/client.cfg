SPECIFICATION Spec
CONSTANTS
    Runs = 2
    Payload = 3
    Piece = 2
    RbufRoom = 8
    SinkRoom = 4
INVARIANTS
    TypeOK
    PcmAsSent
    ResultTellsRun
    NothingLeft
PROPERTIES
    ClientEnds
CHECK_DEADLOCK FALSE
