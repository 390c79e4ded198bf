SPECIFICATION LiveSpec
CONSTANTS
    Module <- MCModule
    Blockchain = "blockchain"
    Network <- MCNetwork
    Interests <- MCInterests
    Message <- StartMessages
    MAX_REGISTRATION_DELAY = 1
    MaxTime = 2
    NoMessage = "none"
CHECK_DEADLOCK FALSE
INVARIANTS
    EarlyMessagesReach
    DeliveredInOrder
PROPERTIES
    NodeStops
