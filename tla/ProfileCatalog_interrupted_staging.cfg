SPECIFICATION LiveSpec
CONSTANTS
    Profiles = {p1}
    Restored = {}
    Retried = {}
    Names = {n1}
    FirstName = n1
    Deletes = {d1}
    Absent = Absent
    NoProfile = NoProfile
    NoDelete = NoDelete
    Faults = {"build"}
    MaxFaults = 1
    MaxCrashes = 1
PROPERTIES StartsAgain
CHECK_DEADLOCK FALSE
