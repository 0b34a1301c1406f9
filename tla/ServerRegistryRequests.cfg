CONSTANTS
    s1 = s1
    s2 = s2
    s3 = s3
    n1 = n1
    n2 = n2
    Sessions = {s1, s2, s3}
    Names = {n1, n2}
    Faults = {"disk", "cached", "locked", "crash"}
SPECIFICATION Spec
SYMMETRY Symmetric
INVARIANTS TypeOK RowsWhole OwnTree RefusedLeavesNothing
