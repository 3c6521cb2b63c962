SPECIFICATION Spec
CONSTANTS
    w1 = w1
    w2 = w2
    mail = mail
    notes = notes
    small = small
    large = large
    Workers = {w1, w2}
    Names = {mail, notes}
    Payloads = {small, large}
    Size <- MCSize
    Writes <- MCOneWriterEach
    Reads <- MCOtherReads
    Limit = 3
    ObjectCount = 5
    MaxPowerCuts = 2
    MaxExits = 1
    MaxDiskErrors = 1
INVARIANTS
    ReadersSeeWholeFiles
    OvershootBounded
    PromisedFilesSurvive
PROPERTY StoreSpec
CHECK_DEADLOCK FALSE
VIEW MCView
CONSTRAINT MCTroubles
