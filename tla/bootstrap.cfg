SPECIFICATION BFairSpec
CONSTANTS
    Replicas = {r1, r2, r3}
    N = 2
    MaxFailures = 1
INVARIANTS
    BTypeOK
    ListensWithAdmin
PROPERTIES
    AdminIsSetUp
    EveryReplicaListens
CHECK_DEADLOCK FALSE
