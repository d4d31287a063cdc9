SPECIFICATION FairSpec
CONSTANTS
    r1 = r1
    r2 = r2
    Readers <- MCReaders
    Unlocated <- MCUnlocated
    MaxVersion = 2
    MaxGeneration = 1
    clusterCacheTTL = 2
    zoneCacheExpiration = 1
PROPERTIES
    LocationChangesArrive
    ConfigReadsAreFresh
