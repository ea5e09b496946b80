SPECIFICATION Spec
CONSTANTS
    s1 = s1
    s2 = s2
    b1 = b1
    d1 = d1
    d2 = d2
    None = None
    Search = {s1, s2}
    Background = {}
    Pod = {d1, d2}
    PodOf <- MCPodOf
    LockTtl = 2
    WaitMax = 1
    RefillEvery = 4
    MaxLogins = 2
    MaxCrashes = 0
    MaxLost = 0
    Prompt = TRUE
PROPERTIES
    SeamlessRotation
