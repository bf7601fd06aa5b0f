SPECIFICATION Spec
CONSTANTS
    Officers = {o1, o2}
    Users = {}
    NoThread = NoThread
    Faults = {"integrity", "kat", "entropy", "pct"}
    FiniBeforeInit = FALSE
    ErrorReportLimit = 2
    o1 = o1
    o2 = o2
INVARIANTS
    TypeOK SelfTestExclusive RunningIsComplete LockDiscipline
PROPERTIES
    RefinesFSM LockReleased
