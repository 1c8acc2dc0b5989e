SPECIFICATION RideSpec
CONSTANTS
    o1 = o1
    p1 = p1
    Absent = Absent
    o2 = o2
    Orders = {o1, o2}
    Panels = {p1}
    Underway = {}
    MaxCalls = 1
    MaxQueries = 2
    MaxLeaves = 1
    MaxDepth = 3
SYMMETRY Symmetry
INVARIANTS
    RideTypeOK
