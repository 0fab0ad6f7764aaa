SPECIFICATION FairSpec
CONSTANTS
    RingSize = 2
    FetchLimit = 2
    Retention = 1
    MaxSeq = 4
    MaxInstances = 2
    MaxTime = 2
    MaxFaults = 1
CHECK_DEADLOCK FALSE
INVARIANTS
    TypeOK
    LossIsReported
PROPERTY
    RingIsStored
