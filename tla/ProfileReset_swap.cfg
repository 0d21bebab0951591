SPECIFICATION LiveSpec
CONSTANTS
    Resets = {o1, o2}
    Original = Original
    NoDatabase = NoDatabase
    NoReset = NoReset
    Faults = {"write", "sync", "move", "read"}
    MaxFaults = 2
    MaxCrashes = 2
    MaxEdits = 2
INVARIANTS TypeOK CompleteOldOrNew NeverLost BackedUpFirst
PROPERTIES StartupConverges
CHECK_DEADLOCK FALSE
