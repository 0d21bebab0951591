SPECIFICATION LiveSpec
CONSTANTS
    Forms = {f1, f2}
    Requests = {r1, r2}
    PreChecked = {r2}
    NoRequest = NoRequest
    MaxOps = 2
    MaxCalls = 2
    MaxReopens = 1
INVARIANTS TypeOK AtMostOnce SavedIsDurable SilentEffectKeepsMarker
PROPERTIES ImplementsOnceOnly EveryCallEnds
CHECK_DEADLOCK FALSE
