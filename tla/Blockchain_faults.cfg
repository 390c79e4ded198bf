SPECIFICATION Spec
CONSTANTS
    Number <- MCNumber
    Previous <- MCPrevious
    MedianTime <- MCMedianTime
    NoBlock = NoBlock
    NoNode = NoNode
    Block = {"a0", "a1", "a2", "a3", "b1", "b2", "b3"}
    Batches <- FaultBatches
    Forged = {}
    Refused = {}
    FORK_WINDOW_SIZE = 3
    ADVANCE_BLOCKS = 1
    ADVANCE_TIME = 300
    RevertsOnce = {"a2"}
    MaxCrashes = 1
    CrashWhileSaving = TRUE
CHECK_DEADLOCK FALSE
INVARIANTS
    ChainsSurvive
PROPERTIES
    BuriedBlocksStay
