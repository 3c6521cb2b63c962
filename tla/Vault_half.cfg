SPECIFICATION Spec
CONSTANTS
    w1 = w1
    w2 = w2
    mail = mail
    notes = notes
    small = small
    large = large
    Workers = {w1, w2}
    Names = {notes}
    Payloads = {small, large}
    Size <- MCSize
    Writes <- MCSameName
    Reads <- MCNoReads
    Limit = 3
    ObjectCount = 4
    MaxPowerCuts = 0
    MaxExits = 0
    MaxDiskErrors = 0
INVARIANT NeverHalfAFile
CHECK_DEADLOCK FALSE
