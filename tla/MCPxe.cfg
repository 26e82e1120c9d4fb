SPECIFICATION FairSpec
CONSTANTS
    m = m
    n = n
    i = i
    j = j
    k = k
    Nodes = {n}
    IPs = {i, j}
    Address <- OneNode
    Nothing = Nothing
    Disturbances = 3
INVARIANTS
    TypeOK
    NoneStranded
PROPERTIES
    EveryNodeBoots
CHECK_DEADLOCK FALSE
