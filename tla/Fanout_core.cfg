SPECIFICATION FairSpec
CONSTANTS
    N = 3
    Concurrency = 2
    Budget = 6
    Cap = 3
    PageSize = 2
    MaxAttempts = 2
    Ladders <- MCLadders
    Court = {1, 2, 3, 4}
    Says <- MCSays
    Record <- MCRecord
    Errors = {"upstream_unavailable", "query_too_broad"}
CHECK_DEADLOCK FALSE
INVARIANTS
    TypeOK
    BudgetBound
    EachCandidateOnce
    HonestTruncation
    OrderIndependent
    CapFilled
    BestReturned
    BudgetHitIsTruncated
PROPERTIES
    RequestSettles
    IsBudgetedSearch
    WorkRunsOut
