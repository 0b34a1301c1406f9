CONSTANTS
    s1 = s1
    s2 = s2
    s3 = s3
    Sessions = {s1, s2, s3}
    MaxVersion = 2
    MaxCrashes = 1
    Allowed <- AllowAll
SPECIFICATION Spec
SYMMETRY Symmetric
INVARIANTS TypeOK 
PROPERTIES CheckRepairs
