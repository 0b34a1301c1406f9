CONSTANTS
    r1 = r1
    r2 = r2
    Requests = {r1, r2}
    Allowed = {17, 21}
    Permitted = {21}
    Versions <- Edge
    Forms <- Some
    MaxBuild = 2
    MaxRequests = 3
    MaxChanges = 2
SPECIFICATION Spec
SYMMETRY Symmetric
CHECK_DEADLOCK FALSE
INVARIANTS TypeOK  CommandMatches
PROPERTY ChoiceHeld
