SPECIFICATION Spec
CONSTANTS
    c1 = c1
    c2 = c2
    c3 = c3
    Half = Half
    None = None
    Names = {1, 2, 3, 4}
    InFolder = {1, 2, 3}
    Receipt = 4
    TempOf <- MCTempOf
    Contents = {c1, c2, c3}
    Size <- MCSize
    StandsFor = 0
    MaxClock = 1
    MaxEdits = 2
    MaxReadErrors = 1
    MaxCommands = 3
SYMMETRY SameSize
INVARIANTS
    NothingHalfMirrored
    ReplicationsAreEarned
    DrillsAreEarned
    PostureIsEarned
PROPERTY
    PrunesComeLast
CHECK_DEADLOCK FALSE
