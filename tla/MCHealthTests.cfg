SPECIFICATION Spec
CONSTANTS
    a = a
    b = b
    c = c
    Samples = {a, b, c}
    Zero = a
    RctCutoff = 3
    AptCutoff = 4
    AptWindow = 5
    MaxSamples = 11
INVARIANTS
    TypeOK
    VerdictExact
