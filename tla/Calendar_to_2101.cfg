\* 47,847 days: every date the schema admits, 1970-01-01 to 2100-12-31.
SPECIFICATION Walk
CONSTANT LastDay = 47846
INVARIANTS CalendarsAgree RecurrencesAgree
CHECK_DEADLOCK FALSE
