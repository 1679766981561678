CONSTANTS
    a = a
    b = b
    c = c
    Games = {1, 2}
    Players = {a, b, c}
    Items = {"three", "free"}
    Value <- MCValue
    Hidden = {"free"}
    Shots = {"three", "free"}
    Side <- MCSide
    Day <- MCDay
    SeasonOf <- MCSeasonOf
    Axis <- MCAxis
    MinAxes = 4
    MinDynamic = 3
    MaxDynamic = 6
    CLOSE_MARGIN = 5
    RECENT_FORM_LIMIT = 10
    MIN_CHEMISTRY_GAMES = 3
    MaxLogs = 2
    MaxDeleted = 1
SPECIFICATION Spec
INVARIANT DeletedGamesAreExcluded
