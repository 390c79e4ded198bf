SPECIFICATION LiveSpec
CONSTANTS
    Node = {"silent", "honest"}
    Honest = {"honest"}
    EndpointOrder <- Order
    HasUid = {"silent"}
    Self = "self"
    Top = 1
    CHUNK_SIZE = 2
    MAX_BLOCKS_REQUEST = 2
    Budgets <- Scenarios
INVARIANTS
    AnswersAreAsked
    ViewsAgree
PROPERTIES
    HeadsGoForward
    QuestionsAreAnswered
    CatchesUp
