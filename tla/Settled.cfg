\* Who gets in, and who is dropped: two clients, either with the room code or without,
\* and one slot; packets late or twice.
SPECIFICATION HSpec
CONSTANTS
    Clients = {c1, c2}
    MayBeWrong = {c1, c2}
    MAX_CLIENTS = 1
    CONTROL_RETRY = 1
    CONTROL_MAX_TRIES = 1
    PEER_TIMEOUT = 2
    REJOIN_WINDOW = 1
    MaxDelay = 1
    MaxNet = 1
    MaxQueue = 1
    MaxDups = 1
    MaxHostFaults = 0
    MaxClientFaults = 0
    MaxStarts = 1
SYMMETRY ClientSymmetry
INVARIANTS
    TypeOK
    NoEntryWithoutCode
    HomeInv
PROPERTY OnlySilentEvicted
