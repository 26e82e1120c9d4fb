SPECIFICATION Spec
CONSTANTS
    m = m
    n = n
    i = i
    j = j
    k = k
    Nodes = {m, n}
    IPs = {i, j, k}
    Address <- TwoNodes
    Nothing = Nothing
    Disturbances = 1
INVARIANTS
    BootedAsItself
CHECK_DEADLOCK FALSE
