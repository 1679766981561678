CONSTANTS
    g1 = g1
    g2 = g2
    r1 = r1
    r2 = r2
    r3 = r3
    Group = {g1}
    Request = {r1, r2}
    GroupOf <- MCGroupOf2
    DayLength = 2
    Period = 4
    Grace = 2
    MaxTime = 10
    MaxFaults = 0
    Faults = {}
SPECIFICATION Spec
PROPERTY CancelHonoured
CHECK_DEADLOCK FALSE
