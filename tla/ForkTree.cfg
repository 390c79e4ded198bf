SPECIFICATION TreeSpec
CONSTANTS
    Block <- BushBlock
    Number <- BushNumber
    Previous <- BushPrevious
    NoBlock = NoBlock
    NoNode = NoNode
    FORK_WINDOW_SIZE = 2
CHECK_DEADLOCK FALSE
INVARIANTS
    MainBranchIsChain
    SheetsAreLeaves
PROPERTIES
    RemovalsReported
    WindowBranchesKept
