SPECIFICATION Spec
CONSTANTS
    Officers = {o1}
    Users = {u1}
    NoThread = NoThread
    Faults = {"pct"}
    FiniBeforeInit = FALSE
    ErrorReportLimit = 2
    o1 = o1
    u1 = u1
CHECK_DEADLOCK FALSE
PROPERTY ErrorLatched
