SPECIFICATION Spec
CONSTANTS
    t1 = t1
    t2 = t2
    NoThread = NoThread
    Threads = {t1, t2}
    Calls = {"seed"}
    Faults = {}
    MaxChunks = 2
    RESEED_INTERVAL = 3
    CountModulus = 8
INVARIANT
    HealthTestsExclusive
