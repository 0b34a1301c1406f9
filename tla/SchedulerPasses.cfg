CONSTANTS
    s1 = s1
    s2 = s2
    Servers = {s1, s2}
    Day = 3
    Dedup = 2
    Plans <- ZipPlans
    Dailies <- SnapshotTimes
    Faults = {"failed", "locked", "crash", "drift"}
    MaxTime = 7
    MaxEdits = 1
    MaxLost = 1
SPECIFICATION Spec
SYMMETRY Symmetric
INVARIANTS TypeOK OncePerInstant 
CHECK_DEADLOCK FALSE
