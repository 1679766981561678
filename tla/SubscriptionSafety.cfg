CONSTANTS
    g1 = g1
    g2 = g2
    r1 = r1
    r2 = r2
    r3 = r3
    Group = {g1}
    Request = {r1, r2, r3}
    GroupOf <- MCGroupOf3
    DayLength = 2
    Period = 4
    Grace = 2
    MaxTime = 10
    MaxFaults = 2
    Faults = {"db", "crash", "down"}
SPECIFICATION Spec
SYMMETRY MCSymmetry
INVARIANTS
    TypeOK
    NoDoubleCharge
    UnrecordedRenewalIsRetried
    PeriodsArePaid
    FirstChargeIsRecorded
PROPERTIES
    ExpiredIsFinal
    NoUnaskedLapse
    RefinesLedger
CHECK_DEADLOCK FALSE
