CONSTANTS
    g1 = g1
    g2 = g2
    r1 = r1
    r2 = r2
    r3 = r3
    a1 = a1
    a2 = a2
    c1 = c1
    c2 = c2
    Group = {g1, g2}
    Request = {r1, r2, r3}
    ByAdmin = {r3}
    GroupOf <- MCGroupOf
    Start = {a1, a2}
    Scan <- MCScan
    Limit = 1
    Payer = {g1, g2}
    Call = {c1, c2}
    CallOf <- MCCallOf
    DayLength = 2
    Period = 3
    Grace = 2
    MaxTime = 10
    MaxFaults = 1
    Faults = {"db", "lost", "crash", "down"}
SPECIFICATION MCSpec
INVARIANTS
    TypeOK
    FreeGamesWithinLimit
PROPERTIES
    CounterMovesWithGames
    RefinesQuota
    SavesAreAnswered
    OverdueIsSettled
CHECK_DEADLOCK FALSE
