\* A device whose smallest buffer is larger than the user's wish.
SPECIFICATION BridgeSpec
CONSTANTS
    Samples = {0, 1, 2}
    M = 3
    CAP = 11
    F = 2
    CAPTURE = 20
    HwBuffers = {4}
    DeviceMin = 9
    DeviceMax = 9
    MaxHiccups = 0
INVARIANT SteadyIsHeard
