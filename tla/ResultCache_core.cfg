SPECIFICATION FairSpec
CONSTANTS
    r1 = r1
    r2 = r2
    r3 = r3
    d1 = d1
    d2 = d2
    Mary = Mary
    None = None
    Request = {r1, r2, r3}
    Pod = {d1, d2}
    PodOf <- MCPodOf
    Entity <- MCConfident
    Threshold = 2
    LongTtl = 2
    ShortTtl = 1
    Stale = 1
INVARIANTS
    TypeOK
    OwnAnswer
    OneSharedPromise
PROPERTIES
    IsOneAnswer
    EveryRequestEnds
