CONSTANTS
    g1 = g1
    g2 = g2
    r1 = r1
    r2 = r2
    r3 = r3
    Group = {g1}
    Request = {r1, r2}
    GroupOf <- MCGroupOf2
    DayLength = 2
    Period = 3
    Grace = 2
    MaxTime = 10
    MaxFaults = 1
    Faults = {"db"}
SPECIFICATION FairSpec
PROPERTY RenewalsAreRecovered
CHECK_DEADLOCK FALSE
