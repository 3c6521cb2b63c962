SPECIFICATION FairSpec
CONSTANTS
    IntMax = 1000000
    WarnTemp = 45
    CriticalTemp = 52
    HardStopTemp = 60
    DegradedHealth = 80
    RetireHealth = 60
    Ceiling = 60
    FailureMax = 3
    ShedAfter = 1
    QuiesceAfter = 2
    Reserve = 10
    MaxElapsed = 2
    NoReading = NoReading
    Readings <- MCReadings
    Readbacks <- MCReadbacks
INVARIANTS
    BlindnessDerates
    AtMostOneReadingUnweighed
    EscalationEarned
    LadderInOrder
    ShutdownIsAboutCharge
PROPERTIES
    LevelNeverFalls
    LadderMoves
    HotCellHalts
    LostCellDerates
    LongOutageQuiesces
