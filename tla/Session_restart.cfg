\* A client that comes back is dropped at once.
SPECIFICATION Spec
CONSTANTS
    Clients = {c1}
    MayBeWrong = {}
    MAX_CLIENTS = 1
    CONTROL_RETRY = 1
    CONTROL_MAX_TRIES = 2
    PEER_TIMEOUT = 2
    REJOIN_WINDOW = 3
    MaxDelay = 0
    MaxNet = 2
    MaxQueue = 1
    MaxDups = 0
    MaxHostFaults = 0
    MaxClientFaults = 1
    MaxStarts = 2
PROPERTY OnlySilentDropped
