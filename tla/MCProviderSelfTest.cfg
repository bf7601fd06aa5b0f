SPECIFICATION Spec
CONSTANTS
    p1 = p1
    p2 = p2
    u1 = u1
    u2 = u2
    Loaders = {p1, p2}
    Users = {u1, u2}
    Lenient = {p2}
    Nobody = Nobody
INVARIANTS
    TypeOK
    RunningIsTested
    OnDemandIsTested
    SelfTestIsHeld
PROPERTIES
    ProviderLatchHolds
    PostReleases
