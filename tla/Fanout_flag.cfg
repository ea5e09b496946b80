SPECIFICATION Spec
CONSTANTS
    N = 2
    Concurrency = 2
    Budget = 4
    Cap = 3
    PageSize = 2
    MaxAttempts = 1
    Ladders <- MCLadders
    Court = {1, 2, 3, 4}
    Says <- MCSays
    Record <- MCRecord
    Errors = {"upstream_unavailable", "query_too_broad"}
CHECK_DEADLOCK FALSE
INVARIANTS
    BudgetHitIsFlagged
