CONSTANTS
    Player = {p1, p2}
    Teams = 2
    MaxTeams = 3
    MaxCalls = 2
    MaxOthers = 1
    MaxTaps = 2
SPECIFICATION Spec
INVARIANT AssignmentsConverge
SYMMETRY MCSymmetry
CHECK_DEADLOCK FALSE
