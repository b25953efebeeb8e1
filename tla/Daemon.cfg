SPECIFICATION FairSpec
CONSTANTS
    m1 = m1
    m2 = m2
    h1 = h1
    Mesh = {m1, m2}
    Host = {h1}
    HostOf <- OneHost
    NoPeer = nopeer
    InfectionCount = 2
    MaxChanges = 2
    MaxFailures = 2
INVARIANTS
    TypeOK
    CachedConnectionsOpen
    SendersHaveRoom
PROPERTIES
    SyncMeshesEnds
    ChangesOfferedOneByOne
