SPECIFICATION Spec
CONSTANTS
    r1 = r1
    r2 = r2
    Request = {r1, r2}
    None = None
    MaxPings = 2
INVARIANTS
    ClientsOutliveRequests
