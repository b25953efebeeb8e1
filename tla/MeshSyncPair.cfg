SPECIFICATION FairSpec
CONSTANTS
    n1 = n1
    n2 = n2
    n3 = n3
    v1 = v1
    v2 = v2
    t1 = t1
    t2 = t2
    h1 = h1
    h2 = h2
    NoData = NoData
    Tombstone = Tombstone
    Node = {n1, n2}
    Value = {v1}
    Table = {t1}
    Data <- Records
    FreshData <- FirstRecord
    Handler = {h1}
    KeyHash <- TwoKeyHash
    HashModulus = 1000003
    StaleTime = 1
    PeerRole = {n1, n2}
    Rank <- TwoRank
    Branch = 1
    InfectionCount = 1
    SyncInterval = 1
    PullInterval = 0
    Founders = {n1}
    Leavers = {n1, n2}
    Rejoiners = {n2}
    MaxTime = 0
    MaxSyncs = 2
    Requests = {"table"}
    MaxWrites = 1
    MaxFailures = 1
    MaxSessions = 2
\* The bounds let the system run out of steps.
CHECK_DEADLOCK FALSE
INVARIANTS
    TypeOK
    SyncersNeverPanic
    EndpointsInStep
    SessionTransfersAll
PROPERTIES
    SyncEnds
