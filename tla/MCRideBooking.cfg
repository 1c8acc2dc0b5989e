SPECIFICATION RideSpec
CONSTANTS
    o1 = o1
    p1 = p1
    Absent = Absent
    Orders = {o1}
    Panels = {p1}
    Underway = {"accepted"}
    MaxCalls = 1
    MaxQueries = 2
    MaxLeaves = 1
    MaxDepth = 3
INVARIANTS
    RideHasDriver
PROPERTIES
    BookedStaysBooked
