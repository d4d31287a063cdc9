SPECIFICATION FairSpec
CONSTANTS
    default = default
    fallback = fallback
    other = other
    NoPool = NoPool
    PoolOrder <- Order
    DefaultPool = default
    Fallback = fallback
    Groups = {g1, g2}
    PreferredPools = {NoPool, other}
    Callers = {c1}
    MaxTemplates <- OneRollout
    MaxDeletes = 1
INVARIANTS
    NeverStale
PROPERTIES
    SourceRecovers
    FallbackGivenUp
