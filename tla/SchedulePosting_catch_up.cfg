CONSTANTS
    Schedules = {s1, s2}
    Cap = 2
    Periods = {1}
    Starts = {0}
    Ends = {1}
    MaxDay = 3
    MaxEdits = 2
    MaxFaults = 1
SPECIFICATION Spec
INVARIANTS PostedOnce PassSettles
CHECK_DEADLOCK FALSE
