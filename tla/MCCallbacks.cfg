SPECIFICATION Spec
CONSTANTS
    o1 = o1
    o2 = o2
    u1 = u1
    Officers = {o1, o2}
    Users = {u1}
    Nobody = Nobody
    Severities = {"FATAL"}
    AuditRateLimit = 1
    MaxCalls = 3
INVARIANTS
    AuditBounded
    QuietCleanupSafe
    PairsMatch
    UnregisterEffective
PROPERTIES
    AuditLockReleased
CHECK_DEADLOCK FALSE
