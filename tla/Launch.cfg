SPECIFICATION Spec
CONSTANTS
    c1 = c1
    c2 = c2
    t1 = t1
    t2 = t2
    a = a
    b = b
    NoZone = NoZone
    NoType = NoType
    Claims <- OneClaim
    Types <- TwoTypes
    Zones <- MCZones
    ClusterZones <- MCZones
    Offered <- MCOffered
    Price <- MCPrice
    Rank <- MCRank
    ZoneReq <- AnywhereClaims
    CapacityReq <- BothCapacities
    Launchable <- AllLaunchable
    QuotaBackoff = TRUE
    Ranges = 1
    MaxCreates = 2
    MaxRestarts = 1
CHECK_DEADLOCK FALSE
INVARIANTS
    OneVMPerNodeClaim
    FallbackOnlyForCapacity
