SPECIFICATION FairSpec
CONSTANTS
    c1 = c1
    c2 = c2
    t1 = t1
    t2 = t2
    a = a
    b = b
    NoZone = NoZone
    NoType = NoType
    Claims <- TwoClaims
    Types <- OneType
    Zones <- MCZones
    ClusterZones <- MCZones
    Offered <- MCOffered
    Price <- MCPrice
    Rank <- MCRank
    ZoneReq <- PinnedClaims
    CapacityReq <- BothCapacities
    Launchable <- AllLaunchable
    QuotaBackoff = FALSE
    Ranges = 2
    MaxCreates = 1
    MaxRestarts = 0
CHECK_DEADLOCK FALSE
INVARIANTS
    TopologyHonoured
    SuccessNeverEvicts
PROPERTIES
    CreateReturns
