SPECIFICATION FairSpec
CONSTANTS
    Claims = {c1}
    Unready = {c1}
    MaxSpec = 2
    MaxImage = 1
PROPERTIES
    TerminatingIsNotFound
