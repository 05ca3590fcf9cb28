\* One client's list of players: joins, leaves, lost and reordered rosters, a host
\* that starts again, sequence numbers that wrap.
SPECIFICATION Spec
CONSTANTS
    Half = 8
    MAX_CLIENTS = 2
    MAX_NAME_LEN = 3
    ROOM_CODE_LEN = 2
    HostName <- HostNameIs
    MyName <- MyNameIs
    OtherNames <- OtherNamesAre
    First = 13
    MaxNumbers = 6
    MaxAfter = 4
    MaxNet = 2
    MaxRestarts = 1
INVARIANTS
    TypeOK
    WireFaithful
    OnlyWholeParses
    SameRoom
    OneRowIsMe
PROPERTY NewsIsTaken
