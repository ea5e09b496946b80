SPECIFICATION FairSpec
CONSTANTS
    p1 = p1
    p2 = p2
    None = None
    k1 = k1
    k2 = k2
    Pod = {p1}
    Slot = {k1}
    MaxCeiling = 5
    MinFloor = 1
    Quiet = 1
    MaxSent = 2
    MaxRestarts = 1
PROPERTIES
    RateRecovers
