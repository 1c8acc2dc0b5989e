SPECIFICATION Spec
CONSTANTS
    o1 = o1
    o2 = o2
    Absent = Absent
    Orders = {o1, o2}
    p1 = p1
    p2 = p2
    Panels = {p1, p2}
    Underway = {}
    timerMaxSeconds = 2
    PollEvery = 1
    MaxCalls = 1
SYMMETRY Symmetry
INVARIANTS
    TypeOK
    PrefsPaired
    DeafOnlyAfterCancel
    AutoStopsTimer
PROPERTIES
    DisposedPanelIsSilent
