SPECIFICATION Spec
CONSTANTS
    Profiles = {p, q}
    NoProfile = NoProfile
    Windows = {main, quick}
    Main = main
    MaxSessions = 3
    MaxRequests = 2
    MaxReloads = 1
    MaxOpens = 1
    MaxRepeats = 1
INVARIANTS TypeOK JobsKeepTheirSession
PROPERTIES ConsentedSwitch NoSilentClose
SYMMETRY Symmetry
CHECK_DEADLOCK FALSE
