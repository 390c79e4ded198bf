CONSTANTS
    Proc <- MCProc
    Priority <- MCPriority
    Network <- MCNetwork
    MemberKeyModules = {}
    PubKey = {"A", "B"}
    Quota = {"5"}
    Currency <- MCCurrency
    Commands <- MCCommands
    None = None
    MaxDraws = 12
    Scenarios <- MCScenarios

SPECIFICATION Spec
CHECK_DEADLOCK FALSE
INVARIANTS
    ProfileObeysUser
PROPERTIES
    CommandsAreAtomic
