SPECIFICATION OnionFairSpec
CONSTANTS
    PublishTimeout = 2
    StableAfter = 2
    DaemonCount = 2
    MaxCrashes = 1
    MaxFailedSpawns = 0
    MaxStarts = 1
PROPERTY RestartedWhenItDies
CHECK_DEADLOCK FALSE
