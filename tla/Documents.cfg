SPECIFICATION Spec
CONSTANTS
    Conditions = {"sigA", "sigB", "csv"}
    GroupSet = "chains"
    Fields <- MCFields
    SigningKeys <- MCSigningKeys
    Numbers = {0, 1}
    NoDividend = NoDividend
    Undecodable = Undecodable
    Dividends = {0, NoDividend}
    Nonces = {1}
CHECK_DEADLOCK FALSE
INVARIANTS
    FormsAgree
    ValidIsSigned
    TxHashIsShared
    ConditionsAsWritten
    KeptIsWhole
