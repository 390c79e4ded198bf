\* Statements the code does not keep (README, section 6).  TLC stops at the first
\* one it finds violated: leave one alone to see its counterexample.
SPECIFICATION Spec
CONSTANTS
    Conditions = {"sigA", "sigB", "csv"}
    GroupSet = "mixed"
    Fields <- MCFields
    SigningKeys <- MCSigningKeys
    Numbers = {0, 1}
    NoDividend = NoDividend
    Undecodable = Undecodable
    Dividends = {0, NoDividend}
    Nonces = {1}
CHECK_DEADLOCK FALSE
INVARIANTS
    AlwaysValidIsSigned
    CurrencyIsKept
    HashIsShared
    UnsignedIsRefused
    DamageIsRefused
    RevertIsPossible
    ReturnIsPossible
    ServedIsRead
    AcceptedIsSigned
    ConditionsAsWritten
