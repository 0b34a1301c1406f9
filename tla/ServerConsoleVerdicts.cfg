CONSTANTS
    c1 = c1
    c2 = c2
    Consoles = {c1}
    Scan = 4
    MaxRuns = 2
SPECIFICATION PolledSpec
INVARIANTS TypeOK FirstRunTruth CrashReported
PROPERTIES VerdictSettles
