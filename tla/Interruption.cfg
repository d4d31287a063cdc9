SPECIFICATION FairSpec
CONSTANTS
    n1 = n1
    n2 = n2
    t = t
    a = a
    b = b
    l1 = l1
    NodeOrder <- Order
    OfferingOf <- LabelsOf
    NoLabels = NoLabels
    CallTime = 1
    Launches = {l1}
    Types = {t}
    Zones = {a, b}
    CapacityTypes = {"spot"}
    Offered <- OfferedSpot
    ipSpaceInsufficientCapacityTTL = 2
    stockoutTTL = 2
    unsupportedConfigurationTTL = 2
    DefaultTTL = 3
    QuotaTTLs = {0, 4}
INVARIANTS
    MarkedWhenDeleted
    ZeroDisablesQuotaBackoff
PROPERTIES
    InterruptedClaimsGo
    OfferingsRecover
