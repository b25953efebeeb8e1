SPECIFICATION Spec
CONSTANTS
    Request = {r1, r2, r3}
    Mesh = {m1, m2}
    InterfaceId = {i1, i2}
    MaxFailures = 1
SYMMETRY Symmetries
\* Every request may have been served, and the daemon may have ended.
CHECK_DEADLOCK FALSE
INVARIANTS
    TypeOK
    MeshHasDevice
    LeftMeansGone
    NoLeaveNoPanic
    NoInterfaceLost
    EntryHasItsAddress
