SPECIFICATION LiveSpec
CONSTANTS
    Callers = {c1, c2}
    NoCaller = NoCaller
    Capacity = 2
    Oldest = 2
    Latest = 4
    MaxCalls = 5
    MaxFailures = 1
    MaxCrashes = 1
INVARIANTS TypeOK ReadyServes NothingLost
PROPERTIES MigratesWhatIsBackedUp EveryCallEnds Settles StartupConverges
CHECK_DEADLOCK FALSE
