CONSTANTS
    Endpoint = {"e1", "e2"}
    Issuer <- MCIssuer
    OwnKey = "k0"
    SyncEndpoints = {"e1"}
    PreferedPubkeys = {"k2"}
    NeedsSsl = {}
    OutcomingQuota = 1
    MaxConns = 2
    MaxChannel = 2
    MaxRequests = 1
    SavedTables <- MCSavedTables
    NoConn = NoConn
SPECIFICATION FairSpec
CHECK_DEADLOCK FALSE
INVARIANTS
    TablesFollowThreads
PROPERTIES
    NegotiationEnds
    NegotiatesInOrder
