SPECIFICATION Spec
CONSTANTS
    k1 = k1
    k2 = k2
    PubKey = {k1, k2}
    Member = {k1}
    UD <- OneBase
    Transfers = {50, 950, 1000}
    MIN_BALANCE = 100
    MaxHeight = 3
    MaxTxs = 3
    MaxReverts = 1
CHECK_DEADLOCK FALSE
INVARIANTS
    SourcesAgree
    BalanceWithinDust
PROPERTIES
    DividendSpendingUndone
