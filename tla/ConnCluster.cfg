SPECIFICATION FairSpec
CONSTANTS
    Keys = 8
    Id <- MCId
    MaxLen = 7
    ClusterSize = 2
    Branch = 2
\* A call that has returned takes no further step.
CHECK_DEADLOCK FALSE
INVARIANTS
    TypeOK
    NeighboursNearest
    SomebodyToContact
PROPERTIES
    CallReturns
