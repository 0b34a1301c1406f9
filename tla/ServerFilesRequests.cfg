CONSTANTS
    s1 = s1
    s2 = s2
    s3 = s3
    Sessions = {s1, s2}
    Values <- TwoPorts
    Kinds = {"rcon", "plain", "nofile"}
    Allowed <- AllowAll
    Edits = {"motd", "port", "password"}
    Faults = {"disk", "locked", "crash"}
SPECIFICATION Spec
SYMMETRY Symmetric
INVARIANTS TypeOK SavedSurvives  UploadKept
PROPERTIES KeysKept
