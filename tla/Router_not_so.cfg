\* Statements the code does not keep (README, section 6).  TLC stops at the first
\* one it finds violated: leave one alone to see its counterexample.
SPECIFICATION Spec
CONSTANTS
    Module <- MCModule
    Blockchain = "blockchain"
    Network <- MCNetwork
    Interests <- MCInterests
    Message <- StopMessages
    MAX_REGISTRATION_DELAY = 1
    MaxTime = 2
    NoMessage = "none"
CHECK_DEADLOCK FALSE
INVARIANTS
    EndpointsReachNetwork
