\* Statements the code does not keep (README, section 6).  TLC stops at the first
\* one it finds violated: leave one alone to see its counterexample.
SPECIFICATION Spec
SYMMETRY Alike
CONSTANTS
    PubKey <- TwoKeys
    k1 = k1
    k2 = k2
    SIG_VALIDITY = 1
    MaxHeight = 4
    MaxEvents = 1
    MaxTerms = 2
    MaxReverts = 2
    UsizeMax = 7
CHECK_DEADLOCK FALSE
INVARIANTS
    NeverFatal
    DividendsOfChain
    NoStaleMembership
    CertificationsKept
    CountIsLinks
