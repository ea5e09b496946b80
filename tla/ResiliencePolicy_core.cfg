SPECIFICATION FairSpec
CONSTANTS
    s1 = s1
    s2 = s2
    Login = Login
    None = None
    Slot = {s1, s2}
    Watched = s1
    Orphan = Orphan
    SlotCount = 2
    Bulkhead = 3
    MaxTries = 2
    Threshold = 2
INVARIANTS
    TypeOK
    HalfOpenIsTested
    LeakBound
    ToldAfterRetries
PROPERTIES
    IsCircuit
    EveryCallEnds
    CircuitRecovers
