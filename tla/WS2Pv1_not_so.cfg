\* Statements the code does not keep (README, section 6).  TLC stops at the first
\* one it finds violated: leave one alone to see its counterexample.
CONSTANTS
    Endpoint = {"e1", "e2"}
    Issuer <- MCIssuer
    OwnKey = "k0"
    SyncEndpoints = {"e1"}
    PreferedPubkeys = {"k2"}
    NeedsSsl = {}
    OutcomingQuota = 1
    MaxConns = 2
    MaxChannel = 2
    MaxRequests = 1
    SavedTables <- MCSavedTables
    NoConn = NoConn
SPECIFICATION Spec
CHECK_DEADLOCK FALSE
INVARIANTS
    RepliesOnOwnSocket
    AckFindsWebsocket
