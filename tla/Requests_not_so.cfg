\* Statements the code does not keep (README, section 6).  TLC stops at the first
\* one it finds violated: leave one alone to see its counterexample.
SPECIFICATION LiveSpec
CONSTANTS
    Node = {"silent", "honest"}
    Honest = {"honest"}
    EndpointOrder <- Order
    HasUid = {"silent"}
    Self = "self"
    Top = 1
    CHUNK_SIZE = 2
    MAX_BLOCKS_REQUEST = 2
    Budgets <- Scenarios
INVARIANTS
    CountIsShown
    ShownIsEstablished
    HeadIsCurrent
PROPERTIES
    BlocksAreAnswered
