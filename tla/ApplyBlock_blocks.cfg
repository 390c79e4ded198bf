SPECIFICATION Spec
SYMMETRY Alike
CONSTANTS
    PubKey <- TwoKeys
    k1 = k1
    k2 = k2
    SIG_VALIDITY = 1
    MaxHeight = 2
    MaxEvents = 2
    MaxTerms = 2
    MaxReverts = 3
    UsizeMax = 7
CHECK_DEADLOCK FALSE
INVARIANTS
    DatabasesAsChain
PROPERTIES
    StepsAreExact
