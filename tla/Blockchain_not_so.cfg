\* Statements the code does not keep (README, section 6).  TLC stops at the first
\* one it finds violated: leave one alone to see its counterexample.
SPECIFICATION LiveSpec
CONSTANTS
    Number <- MCNumber
    Previous <- MCPrevious
    MedianTime <- MCMedianTime
    NoBlock = NoBlock
    NoNode = NoNode
    Block = {"a0", "a1", "a2", "b1", "b2", "b3"}
    Batches <- SplitBatches
    Forged = {}
    Refused = {}
    FORK_WINDOW_SIZE = 3
    ADVANCE_BLOCKS = 1
    ADVANCE_TIME = 300
    RevertsOnce = {}
    MaxCrashes = 1
    CrashWhileSaving = TRUE
CHECK_DEADLOCK FALSE
INVARIANTS
    PreviousInMainBranch
    CurrentBlockStored
    RevertedToCommonBlock
PROPERTIES
    RollbackEnds
