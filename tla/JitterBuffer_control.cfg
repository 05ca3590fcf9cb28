\* The control thread resets the buffer while the callback is inside a pop.
SPECIFICATION SharedSpec
CONSTANTS
    Half = 8
    SLOTS = 2
    FirstFrame = 13
    LastFrame = 17
    Window = 1
    MaxAhead = 2
    Target = 1
    ResetAfterMisses = 2
PROPERTY PositionMovesByOne
