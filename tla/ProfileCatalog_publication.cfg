SPECIFICATION LiveSpec
CONSTANTS
    Profiles = {p1, p2}
    Restored = {p2}
    Retried = {p1, p2}
    Names = {n1, n2}
    FirstName = n1
    Deletes = {d1, d2}
    Absent = Absent
    NoProfile = NoProfile
    NoDelete = NoDelete
    Faults = {"registry", "move", "journal", "sync", "build"}
    MaxFaults = 2
    MaxCrashes = 2
INVARIANTS ListedIsWhole PromisedKept DeletedStaysDeleted
PROPERTIES StartupConverges
CHECK_DEADLOCK FALSE
