SPECIFICATION FairSpec
CONSTANTS
    Claims = {c1}
    Unready = {c1}
    MaxSpec = 2
    MaxImage = 2
    Worlds <- MCWorlds
    Channels <- MCChannels
    Minors = {1, 2, 3}
INVARIANTS
    OutlivesItsClaims
    LatestIsNewestUsable
    MachineGetsItsImage
    ChannelKeepsMinor
PROPERTIES
    ImageDriftSettles
    DriftIsNoticed
    FalseDriftEnds
    TerminationCompletes
