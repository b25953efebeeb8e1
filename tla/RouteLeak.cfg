SPECIFICATION FairSpec
CONSTANTS
    n1 = n1
    n2 = n2
    n3 = n3
    m1 = m1
    m2 = m2
    m3 = m3
    Node = {n1, n2, n3}
    Mesh = {m1, m2, m3}
    Default = default
    Member0 <- Parallel
    Churn <- ParallelChurn
    AdvertiseRoutes <- Parallel
    AdvertiseDefaultRoute <- TailDefault
    MaxChurn = 2
INVARIANTS
    TypeOK
    NoRoutingLoops
PROPERTIES
    RoutesRetracted
