\* Statements the code does not keep (README, section 6).  TLC stops at the first
\* one it finds violated: leave one alone to see its counterexample.
SPECIFICATION Spec
CONSTANTS
    k1 = k1
    k2 = k2
    PubKey = {k1, k2}
    Member = {k1}
    UD <- TwoBases
    Transfers = {50, 950}
    MIN_BALANCE = 100
    MaxHeight = 4
    MaxTxs = 3
    MaxReverts = 1
CHECK_DEADLOCK FALSE
INVARIANTS
    NeverFatal
    DestroyedOnce
    BalanceWithinDust
