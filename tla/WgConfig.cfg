SPECIFICATION Spec
CONSTANTS
    n1 = n1
    n2 = n2
    n3 = n3
    c1 = c1
    m1 = m1
    m2 = m2
    d1 = d1
    Node = {n1, n2, n3, c1}
    Client = {c1}
    Mesh = {m1, m2}
    Members <- TwoMeshes
    Dest = {m1, m2, d1}
    Hash <- Ring
    MaxHops = 2
    MaxChanges = 3
    MaxFailures = 1
\* A panic ends the daemon.
CHECK_DEADLOCK FALSE
INVARIANTS
    TypeOK
    ClientsAgree
    DevicesFollowStores
    RoutesMatchDevices
    NearestGateway
