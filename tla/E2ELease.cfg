SPECIFICATION FairSpec
CONSTANTS
    r1 = r1
    r2 = r2
    r3 = r3
    Runners = {r1, r2, r3}
    Holder <- LockID
    None = None
    leaseDuration = 4
    Gap = 1
    CallTime = 1
INVARIANTS
    MutualExclusion
PROPERTIES
    ActiveLeaseRespected
    LeaseFreed
