SPECIFICATION MCSpec
CONSTANTS
    PublishTimeout = 3
    StableAfter = 2
    DaemonCount = 3
    MaxCrashes = 1
    MaxFailedSpawns = 1
    MaxStarts = 2
    Listeners = {panel, site}
    Workers = {w1, w2, w3}
    ReadTimeout = 1
    SilentRate = 1
    Backlog = 2
INVARIANTS NoDaemonLost NothingLeftOnceReturned DelaysAreEarned SilenceLeavesAWorker
PROPERTIES HotCellSheds OnionNeverGivesUp AsksAreAnswered
CHECK_DEADLOCK FALSE
