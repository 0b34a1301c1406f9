CONSTANTS
    r1 = r1
    r2 = r2
    f1 = f1
    f2 = f2
    Requests = {r1, r2}
    Files = {f1, f2}
    MaxWorld = 1
    Faults = {"disk", "locked", "crash"}
    MaxSecond = 1
    MaxRequests = 3
SPECIFICATION Spec
SYMMETRY Symmetric
INVARIANTS TypeOK 
