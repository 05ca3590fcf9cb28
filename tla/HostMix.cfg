\* Flags toggled, cleared and read at the same time.
SPECIFICATION Spec
CONSTANTS
    MAX_CLIENTS = 2
    MaxTurns = 1
INVARIANTS
    TypeOK
    MutedIsSilent
    SoloIsolates
    VoidSoloIgnored
    FreshSlot
