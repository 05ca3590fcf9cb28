\* A copy that mixes two packets passes the re-check of take.
SPECIFICATION Spec
CONSTANTS
    Half = 8
    SLOTS = 2
    FirstFrame = 13
    LastFrame = 17
    Window = 1
    MaxAhead = 2
    Target = 1
    ResetAfterMisses = 2
INVARIANT PoppedIntact
