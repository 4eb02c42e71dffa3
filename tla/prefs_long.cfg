SPECIFICATION Spec
CONSTANTS
    Lines <- MCLines
    MaxLines = 2
    MaxRead = 8
    ValueRoom = 3
    LongHalf = 256
    PortSize = 128
    Volumes = {0, 1, 65535}
INVARIANTS
    SettingsHonoured
