\* Statements the code does not keep (README, section 6).  TLC stops at the first
\* one it finds violated: leave one alone to see its counterexample.
CONSTANTS
    Setups <- MCSetups
    InvalidLimit = 2
    MaxFaults = 1
    MaxForeign = 3
SPECIFICATION Spec
CHECK_DEADLOCK FALSE
INVARIANTS
    EndIsTold
    RemoteIsKnown
    CompatibleWhenEstablished
    EstablishedIsAnnounced
PROPERTIES
    OverIsFinal
