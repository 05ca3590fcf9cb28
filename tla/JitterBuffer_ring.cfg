\* One writer, one reader; the writer may lap the reader.
SPECIFICATION Spec
CONSTANTS
    Half = 8
    SLOTS = 2
    FirstFrame = 13
    LastFrame = 17
    Window = 1
    MaxAhead = 4
    Target = 1
    ResetAfterMisses = 2
INVARIANTS
    TypeOK
    StoredFramePlayedIntact
    OverwritesOnlyOlder
    NoStoredFrameConcealed
PROPERTIES
    LateMeansPassed
    PositionMovesByOne
