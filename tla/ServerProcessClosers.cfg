SPECIFICATION Spec
CONSTANTS
    s1 = s1
    s2 = s2
    s3 = s3
    p1 = p1
    p2 = p2
    NoPid = NoPid
    Expired = Expired
    Sessions = {s1, s2, s3}
    Pids = {p1, p2}
    Allowed <- AllowClosers
    MaxActive = 3
    Faults = {"crash", "unit_restart", "locked"}
    Recycled = {"other", "private"}
SYMMETRY Symmetric
INVARIANTS StoppedMeansDead
PROPERTIES NeverResurrected
