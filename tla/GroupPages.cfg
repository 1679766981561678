CONSTANTS
    m1 = m1
    m2 = m2
    NoSeason = NoSeason
    Page = {m1, m2}
    Regulation = 2
    LastQuarter = 3
    MaxTaps = 4
    Games <- MCGames
    Players = {"a", "b", "c"}
    Items = {"three", "free", "foul"}
    Value <- MCValue
    Hidden = {"free"}
    Shots = {"three", "free"}
    Side <- MCSide
    GameDay <- MCDay
    SeasonOf <- MCSeasonOf
    Axis <- MCAxis
    MinAxes = 2
    MinDynamic = 2
    MaxDynamic = 2
    CLOSE_MARGIN = 2
    RECENT_FORM_LIMIT = 2
    MIN_CHEMISTRY_GAMES = 2
    MaxLogs = 2
    MaxDeleted = 1
    FirstYear = 2027
    LastYear = 2028
    GRACE_DAYS = 3
    MaxRenewals = 4
    FirstGames <- MCFirstGames
    MaxGames = 3
    InRange = {1}
    FINISHED_PAGE_SIZE = 1
    MaxSent = 3
    Season = {m1, m2}
    MaxRequests = 6
    MaxChanges = 2
    Group = {"g1", "g2"}
    Own = "g1"
    GamesOf <- MCGamesOf
    PAGE_SIZE = 1
    MaxHomeGames = 2
    MaxSelects = 3
    MaxMore = 2
    Tab = {m1, m2}
    MaxAuths = 1
    MaxCalls = 5
    MaxReloads = 1
    MaxLapses = 1
    LastDay = 2
    RecordsOf <- MCRecordsOf
    Halves = {m1, m2}
    MaxRecordChanges = 2
    MaxMoves = 2
SPECIFICATION MCSpec
INVARIANTS
    TypesOK
    OrderedUnlessConcurrent
    QuietPageAgrees
    AggregatesAgree
    ResultsAgree
    PagesAgreeUnlessDeleted
    DatesAgree
    ListsAgree
    SelectionIsShown
    ShownIsSelected
    BillingPageAgrees
PROPERTIES
    UndoTakesTheLast
SYMMETRY Sym
CHECK_DEADLOCK FALSE
