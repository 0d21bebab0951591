CONSTANTS
    Accounts = {a1, a2}
    Ids = {t1, t2, t3}
    Goals = {g1}
    Currencies = {vnd}
    Amounts = {1}
    MaxStated = 1
    MaxSteps = 4
SPECIFICATION Spec
INVARIANTS TypeOK QueriesAgree SettlesToStated
CHECK_DEADLOCK FALSE
