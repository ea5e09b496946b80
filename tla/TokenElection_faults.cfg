SPECIFICATION FairSpec
CONSTANTS
    s1 = s1
    s2 = s2
    b1 = b1
    d1 = d1
    d2 = d2
    None = None
    Search = {s1, s2}
    Background = {}
    Pod = {d1, d2}
    PodOf <- MCPodOf
    LockTtl = 1
    WaitMax = 1
    RefillEvery = 1
    MaxLogins = 2
    MaxCrashes = 1
    MaxLost = 1
    Prompt = FALSE
INVARIANTS
    ExclusiveUnlessOverrun
    LockHasReleaser
PROPERTIES
    EverySearchEnds
    LockAlwaysFreed
    IsRotation
