SPECIFICATION Spec
CONSTANTS
    MaxChunks = 1
    SendRoom = 1
    RecvRoom = 2
    Faults = {"fin"}
    MaxFaults = 1
INVARIANTS
    HealthyServerSpeaks
