SPECIFICATION Spec
CONSTANTS
    Officers = {o1}
    Users = {u1, u2}
    NoThread = NoThread
    Faults = {"integrity", "kat", "entropy", "pct"}
    FiniBeforeInit = TRUE
    ErrorReportLimit = 1
    o1 = o1
    u1 = u1
    u2 = u2
CHECK_DEADLOCK FALSE
INVARIANTS
    ErrorReportsBounded ErrorLatchHolds
PROPERTIES
    RunningHasHadDrbg UntestedOnlyDuringSelfTest
