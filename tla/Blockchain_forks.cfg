SPECIFICATION Spec
CONSTANTS
    Number <- MCNumber
    Previous <- MCPrevious
    MedianTime <- MCMedianTime
    NoBlock = NoBlock
    NoNode = NoNode
    Block = {"a0", "a1", "a2", "a3", "c2", "c3", "x2"}
    Batches <- ForkBatches
    Forged = {}
    Refused = {"x2"}
    RevertsOnce = {}
    FORK_WINDOW_SIZE = 2
    ADVANCE_BLOCKS = 3
    ADVANCE_TIME = 900
    MaxCrashes = 1
    CrashWhileSaving = FALSE
CHECK_DEADLOCK FALSE
INVARIANTS
    DatabasesAgree
    OrphansWait
PROPERTIES
    StackableIsStacked
