CONSTANTS
    d1 = d1  d2 = d2  d3 = d3
    eth = eth
    i1 = i1  i2 = i2  i3 = i3
    Device = {d1, d2, d3}
    Name = {eth}
    IP = {i1, i2, i3}
    NoIP = NoIP
    Topologies <- MCTopologies
    Task = {t1, t2, t3}
    Nothing = Nothing
    MaxHops = 2
    MaxBusy = 3
SPECIFICATION Spec
CHECK_DEADLOCK FALSE
SYMMETRY TaskSymmetry
INVARIANTS
    AdjacencyIsKept
    AdjacencyIsReported
    RadiusHasNeighbours
