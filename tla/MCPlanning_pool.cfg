SPECIFICATION PlanSpec
CONSTANTS
    Buckets = {b1, b2, adj}
    Adjustments = adj
    Tags = {t1, t2}
    Ids = {i1, i2}
    Months = {1, 2, 3}
    Amounts = {2}
    Allocations = {0, 1}
    MaxSteps = 3
SYMMETRY Symmetry
INVARIANTS PlanTypeOK MoneyIsConserved ReportsAgree
CHECK_DEADLOCK FALSE
