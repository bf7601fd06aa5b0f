SPECIFICATION Spec
CONSTANTS
    k1 = k1
    k2 = k2
    d1 = d1
    d2 = d2
    z1 = z1
    z2 = z2
    Slots = {k1, k2}
    Seeds <- MCSeeds
    Dks <- MCDks
    None = None
    Bad = Bad
    Zero = Zero
INVARIANTS
    WholeKeys
    AgreesWithInput
    PairwiseConsistent
    NoSharedStorage
    ReimportIsIdentity
PROPERTIES
    KeysImmutable
