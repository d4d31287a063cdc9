SPECIFICATION Spec
CONSTANTS
    c1 = c1
    za = za
    zb = zb
    Claims = {c1}
    ZoneOrder <- OneZone
    Readers = {"gc", "core"}
    NoZone = NoZone
    gcGracePeriod = 3
    Wait = 1
    PatchDelay = 1
    MaxBlind = 0
PROPERTIES
    AwaitedSpared
