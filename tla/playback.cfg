SPECIFICATION Spec
CONSTANTS
    Cap = 12
    HeadStart = 6
    PreRoll = 2
    Formats = {mono, stereo}
    Unknown = Unknown
    MaxPayload = 4
    MaxBytes = 12
    WholeTakes = TRUE
INVARIANTS
    TypeOK
    BufferHoldsSamples
    HeardInOrder
    NothingCutOff
    CaptureFollowsBuffer
    NoHalfOpen
    RightFormat
