SPECIFICATION RideSpec
CONSTANTS
    o1 = o1
    p1 = p1
    p2 = p2
    Absent = Absent
    Orders = {o1}
    Panels = {p1, p2}
    Underway = {}
    MaxCalls = 1
    MaxQueries = 1
    MaxLeaves = 1
    MaxDepth = 4
SYMMETRY Symmetry
INVARIANTS
    OneScreenPerOrder
    RoutesLive
    PanelsHoused
PROPERTIES
    KeepsPromise
