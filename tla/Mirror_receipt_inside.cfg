SPECIFICATION Spec
CONSTANTS
    c1 = c1
    c2 = c2
    c3 = c3
    Half = Half
    None = None
    Names = {1, 2, 4, 5}
    InFolder = {1, 2, 4, 5}
    Receipt = 4
    TempOf <- MCTempOf
    Contents = {c1, c2, c3}
    Size <- MCSize
    StandsFor = 1
    MaxClock = 1
    MaxEdits = 1
    MaxReadErrors = 0
    MaxCommands = 2
PROPERTY
    ClaimsStand
CHECK_DEADLOCK FALSE
