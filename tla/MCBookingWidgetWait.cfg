SPECIFICATION Spec
CONSTANTS
    o1 = o1
    o2 = o2
    p1 = p1
    Absent = Absent
    Orders = {o1, o2}
    Panels = {p1}
    Underway = {"accepted"}
    timerMaxSeconds = 4
    PollEvery = 2
    MaxCalls = 1
SYMMETRY Symmetry
INVARIANTS
    NotEarly
