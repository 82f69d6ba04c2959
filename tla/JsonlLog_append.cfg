SPECIFICATION FairSpec
CONSTANTS
    Faults = {"write", "sync", "close", "rollback", "names"}
    FsyncCommitsNames = TRUE
    MaxEvents = 5
    MaxCrashes = 3
    MaxFaults = 3
CHECK_DEADLOCK FALSE
INVARIANTS AckedSurvives CursorIsStored
PROPERTIES EverythingStored
