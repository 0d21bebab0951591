SPECIFICATION LiveSpec
CONSTANTS
    Days = 1
    Weeks = 1
    DaysPerWeek = 2
    MaxTime = 4
    MaxEdits = 2
    MaxSchema = 2
    MaxFaults = 2
INVARIANTS BackedUpIsKept
PROPERTIES PruneKeepsCover UserFileKept PendingSettles
CHECK_DEADLOCK FALSE
