CONSTANTS
    Accounts = {a1, a2}
    Ids = {t1}
    Goals = {g1}
    Currencies = {vnd}
    Amounts = {1}
    MaxStated = 1
    MaxSteps = 4
SPECIFICATION Spec
INVARIANT NoSelfTransfer
CHECK_DEADLOCK FALSE
