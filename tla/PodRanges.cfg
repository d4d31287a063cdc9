SPECIFICATION FairSpec
CONSTANTS
    p = p
    q = q
    s = s
    l1 = l1
    l2 = l2
    Launches = {l1, l2}
    Explicit <- OneExplicit
    ConfigNames <- TwoConfigs
    Subnet <- ThreeSubnets
    NoRange = NoRange
    DualStack = TRUE
    cacheTTL = 2
    failureTTL = 1
    MaxTypes = 2
INVARIANTS
    RejectionHeeded
    CooldownAfterFailureOnly
PROPERTIES
    CountsAreFresh
    RangesRecover
