SPECIFICATION FairSpec
CONSTANTS
    s1 = s1
    s2 = s2
    s3 = s3
    p1 = p1
    p2 = p2
    NoPid = NoPid
    Expired = Expired
    Sessions = {s1, s2}
    Pids = {p1, p2}
    Allowed <- AllowOperatorAndConsole
    MaxActive = 2
    Faults = {}
    Recycled = {"other", "private"}
PROPERTIES DeadPidCleared
