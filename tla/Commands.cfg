SPECIFICATION MCSpec
CONSTANTS
    Devices = {d1, d2}
    Sessions = {s1, s2}
    FileCount = 4
    MaxMints = 2
    MaxUnflushed = 1
    MaxCuts = 1
    Worlds <- MCWorlds
    Elsewhere <- MCElsewhere
    RequestLines <- MCRequestLines
    Streams <- MCStreams
    StorageOutcomes <- MCStorageOutcomes
    IntMax = 16777216
    WarnTemp = 45
    CriticalTemp = 52
    HardStopTemp = 60
    DegradedHealth = 80
    RetireHealth = 60
    Ceiling = 60
    FailureMax = 3
    NoReading = NoReading
    MaxBoots = 3
    Machines <- MCMachines
    CommandLines <- MCCommandLines
    Manifests <- MCManifests
    FileSystems <- MCFileSystems
    Setups <- MCSetups
    Invocations <- MCInvocations
    Registrations <- MCRegistrations
    UpgradeBudget = 1
    NodeCount = 3
    Members = {m1, m2, m3, m4}
    MaxClock = 2
INVARIANTS
    OnlyWholeCredentials
    RevokedStaysOut
    StrangersLearnNothing
    DeviceClaimsStand
    DeviceWordStands
    DeviceStartStands
    OneAwayAtATime
    NoSplitBrain
SYMMETRY Interchangeable
CHECK_DEADLOCK FALSE
