CHECK_DEADLOCK FALSE
SPECIFICATION Spec
CONSTANTS
    a1 = a1
    a2 = a2
    o = o
    Apps = {a1, a2}
    Officer = o
    Nobody = Nobody
    CastFamily <- MCCastFamily
    GateOnly = {"ML-DSA"}
    Managers = {a2}
    Faults = {"kat", "draw", "pct"}
PROPERTIES
    NeverLockedOut
