CONSTANTS
    Top = 4
    CHUNK_SIZE = 2
    CHUNKS_STEP = 2
    FORK_WINDOW_SIZE = 2
    SigValidity = 3
    NoEnd = NoEnd
    MedianTime <- MCMedianTime
    Newcomers <- MCNewcomers
    Certs <- MCCerts
    Wrong <- MCWrong
    Scenarios <- MCScenarios

SPECIFICATION LiveSpec
CHECK_DEADLOCK FALSE
INVARIANTS
    SyncIsWhole
    ExpiredInTime
PROPERTIES
    EverySyncEnds
