SPECIFICATION FairSpec
CONSTANTS
    o1 = o1
    Absent = Absent
    Orders = {o1}
    p1 = p1
    Panels = {p1}
    Underway = {"accepted"}
    timerMaxSeconds = 4
    PollEvery = 2
    MaxCalls = 2
PROPERTIES
    WaitEnds
    Implements
