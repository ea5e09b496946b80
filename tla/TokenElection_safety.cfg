SPECIFICATION Spec
CONSTANTS
    s1 = s1
    s2 = s2
    b1 = b1
    d1 = d1
    d2 = d2
    None = None
    Search = {s1, s2}
    Background = {b1}
    Pod = {d1, d2}
    PodOf <- MCPodOf
    LockTtl = 2
    WaitMax = 1
    RefillEvery = 1
    MaxLogins = 3
    MaxCrashes = 0
    MaxLost = 0
    Prompt = FALSE
INVARIANTS
    TypeOK
    ExclusiveUnlessOverrun
    OneShotRetry
    StoresNewest
