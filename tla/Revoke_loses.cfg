SPECIFICATION EnrolSpec
CONSTANTS
    Devices = {d1, d2}
    Sessions = {s1, s2}
    FileCount = 4
    MaxMints = 2
    MaxUnflushed = 0
    MaxCuts = 0
PROPERTY RevokingLeavesTheOthers
CHECK_DEADLOCK FALSE
