\* Statements the code does not keep (README, section 6).  TLC stops at the first
\* one it finds violated: leave one alone to see its counterexample.
CONSTANTS
    Top = 4
    CHUNK_SIZE = 2
    CHUNKS_STEP = 2
    FORK_WINDOW_SIZE = 2
    SigValidity = 3
    NoEnd = NoEnd
    MedianTime <- MCMedianTime
    Newcomers <- MCNewcomers
    Certs <- MCCerts
    Wrong <- MCWrong
    Scenarios <- MCScenarios

SPECIFICATION Spec
CHECK_DEADLOCK FALSE
INVARIANTS
    AlreadyIsWhole
    HashesAreChecked
    SyncResumes
    ShortFileIsRead
    RerunIsWhole
    FinishedAtTarget
