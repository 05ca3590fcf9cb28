\* One stream through losses, outages, restarts and changes of the peer.
SPECIFICATION Spec
CONSTANTS
    Half = 32
    SLOTS = 4
    FRAME = 2
    MinTarget = 2
    MaxTarget = 3
    DriftDeadband = 2
    ResetAfterMisses = 4
    FirstSeq = 61
    LastSeq = 5
    StrayNumbers = {5, 24, 62}
    Window = 1
    MaxAhead = 6
    MaxJoins = 2
    MaxStrays = 1
INVARIANTS
    TypeOK
    CalmIsHeard
    CalmInBand
    LeadIsConcealed
