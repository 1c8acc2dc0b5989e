SPECIFICATION Spec
CONSTANTS
    p1 = p1
    p2 = p2
    Payments = {p1, p2}
    Amount = 1
    Opening = 1
    Fares = {2}
    s1 = s1
    s2 = s2
    Slots = {s1, s2}
    MaxPricing = 1
    MaxDepth = 3
SYMMETRY Symmetric
PROPERTIES FundedOrders
