SPECIFICATION FairSpec
CONSTANTS
    MaxChunks = 3
    SendRoom = 9
    RecvRoom = 2
    Faults = {"connect", "fin", "hang", "reset", "timeout", "torn", "cut", "nomem", "drip"}
    MaxFaults = 2
INVARIANTS
    TypeOK
    PlaysOwnAudio
    SuccessMeansComplete
    HeldLinkIsQuiet
PROPERTIES
    UtteranceEnds
    Recovers
    ImplementsSpeech
