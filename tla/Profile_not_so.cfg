\* Statements the code does not keep (README, section 6).  TLC stops at the first
\* one it finds violated: leave one alone to see its counterexample.
CONSTANTS
    Proc <- MCProc
    Priority <- MCPriority
    Network <- MCNetwork
    MemberKeyModules = {}
    PubKey = {"A", "B"}
    Quota = {"5"}
    Currency <- MCCurrency
    Commands <- MCCommands
    None = None
    MaxDraws = 12
    Scenarios <- MCNotSo

SPECIFICATION Spec
CHECK_DEADLOCK FALSE
INVARIANTS
    NoCommandFails
    ResetAllResets
    ResetDataResets
    ServerKeyIsSaved
PROPERTIES
    CommandsAreAtomic
