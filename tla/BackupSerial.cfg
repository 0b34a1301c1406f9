SPECIFICATION BackupSpec
CONSTANTS
    s1 = s1
    s2 = s2
    p1 = p1
    p2 = p2
    w1 = w1
    w2 = w2
    NoPid = NoPid
    Expired = Expired
    Worlds = {w1, w2}
    Allowed <- AllowAll
    Sessions = {s1}
    Pids = {p1}
    MaxActive = 1
    Faults = {"unit_restart"}
    Recycled = {}
    Keep = 1
    MaxRow = 3
    MaxSecond = 3
    MaxSuffix = 1
SYMMETRY Symmetric
INVARIANTS BackupTypeOK  QuietRestore SafetyNet Retention
PROPERTIES OnlyNormalsPruned 
