SPECIFICATION FairSpec
CONSTANTS
    c1 = c1
    za = za
    zb = zb
    Claims = {c1}
    ZoneOrder <- TwoZones
    Readers = {"gc"}
    NoZone = NoZone
    gcGracePeriod = 1
    Wait = 0
    PatchDelay = 0
    MaxBlind = 1
INVARIANTS
    DeletedWithNodeClaim
PROPERTIES
    DeletionCompletes
    OrphansStopped
