SPECIFICATION Spec
CONSTANTS
    t1 = t1
    t2 = t2
    t3 = t3
    NoThread = NoThread
    Threads = {t1, t2, t3}
    Calls = {"bytes", "init", "reseed", "seed", "cleanup"}
    Faults = {"read", "health"}
    MaxChunks = 2
    RESEED_INTERVAL = 2
    CountModulus = 4
INVARIANTS
    TypeOK
    ReseedBound
    OvertakenBounded
PROPERTIES
    RandLockReleased
