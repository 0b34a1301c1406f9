SPECIFICATION BackupSpec
CONSTANTS
    s1 = s1
    s2 = s2
    p1 = p1
    p2 = p2
    w1 = w1
    w2 = w2
    NoPid = NoPid
    Expired = Expired
    Worlds = {w1, w2}
    Allowed <- AllowRestoreAndStart
    Sessions = {s1, s2}
    Pids = {p1, p2}
    MaxActive = 2
    Faults = {}
    Recycled = {}
    Keep = 1
    MaxRow = 3
    MaxSecond = 2
    MaxSuffix = 1
INVARIANTS QuietRestore
