SPECIFICATION Spec
CONSTANTS
    n1 = n1
    n2 = n2
    n3 = n3
    c1 = c1
    m1 = m1
    m2 = m2
    d1 = d1
    Node = {n1, n2, n3}
    Client = {}
    Mesh = {m1}
    Members <- TwoExits
    Dest = {m1, d1}
    Hash <- PeerRing
    MaxHops = 1
    MaxChanges = 2
    MaxFailures = 0
PROPERTIES
    StableGateway
