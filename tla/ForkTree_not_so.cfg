\* Statements the code does not keep (README, section 6).  TLC stops at the first
\* one it finds violated: leave one alone to see its counterexample.
SPECIFICATION TreeSpec
CONSTANTS
    Block <- BushBlock
    Number <- BushNumber
    Previous <- BushPrevious
    NoBlock = NoBlock
    NoNode = NoNode
    FORK_WINDOW_SIZE = 2
CHECK_DEADLOCK FALSE
INVARIANTS
    SheetsReachMainBranch
