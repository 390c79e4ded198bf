CONSTANTS
    Setups <- MCSetups
    InvalidLimit = 2
    MaxFaults = 1
    MaxForeign = 3
SPECIFICATION FairSpec
CHECK_DEADLOCK FALSE
INVARIANTS
    EndsAgree
    EstablishedHeardAll
    QuietMeansEstablished
PROPERTIES
    NegotiationsEnd
    NegotiatesInOrder
