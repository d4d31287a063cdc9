SPECIFICATION FairSpec
CONSTANTS
    a = a
    b = b
    m = m
    NameOrder <- Names
    Types = {m}
    MachineType <- OneType
    Zones = {z1, z2}
    FirstZones = {{}, {z1}}
    Prices = {1, 2}
    NoPrice = 0
    ListPrice <- TwoPrices
    MaxChanges = 1
    MaxErrors = 1
    MemoryOverhead = 7
    Machines <- MCMachines
    Kubelets <- MCKubelets
    Classes <- MCClasses
    Sources <- MCSources
    Shapes <- MCShapes
    DiskLists <- MCDiskLists
    Requests <- MCRequests
INVARIANTS
    ReadyHasShape
    LargerMachineHoldsMore
    PlanMatchesKubelet
    
    BuiltAsPlanned
PROPERTIES
    WithdrawnOnEvidence
    Settles
CHECK_DEADLOCK FALSE
