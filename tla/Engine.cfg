\* A session from start to shutdown: devices of several buffer sizes, clients that
\* come and go while frames are under way.
SPECIFICATION Spec
CONSTANTS
    Samples = {0, 1, 2}
    M = 3
    CAP = 11
    F = 2
    CAPTURE = 20
    HwBuffers = {3, 9}
    DeviceMin = 1
    DeviceMax = 9
    MaxHiccups = 2
    Half = 2
    MAX_CLIENTS = 1
    MAX_NAME_LEN = 0
    ROOM_CODE_LEN = 0
    TX_RING = 2
    REDUNDANCY = TRUE
    MaxTenants = 2
    MaxFrames = 3
    Kinds <- SessionKinds
INVARIANTS
    TypeOK
    SteadyIsHeard
    RedundantIsPrevious
    DepartedLeftAlone
    GoodbyeSaid
PROPERTIES
    InOrder
    ShutdownEnds
    NewcomerServed
