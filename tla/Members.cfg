CONSTANTS
    m1 = m1
    m2 = m2
    None = None
    Player = {m1, m2}
    Teams = 2
    MaxTeams = 3
    MaxCalls = 2
    MaxOthers = 1
    MaxTaps = 2
    Slot = {m1, m2}
    GroupName = {"g1", "g2"}
    RESEND_COOLDOWN = 1
    CODE_TTL = 1
    TOKEN_TTL = 2
    DAY = 3
    DAILY_SEND_LIMIT = 2
    MAX_CONFIRM_ATTEMPTS = 2
    MaxTime = 2
    MaxSlotCalls = 4
    Text = {m1, m2}
    PageSize = 1
    MaxInquiries = 2
    MaxAnswers = 2
    Tab = {m1, m2}
    Group = {"g1", "g2"}
    MaxTokens = 3
    MaxAsked = 3
    Email = {m1, m2}
    SECOND = 2
    COOLDOWN = 1
    FORM_CODE_TTL = 3
    MaxFormTime = 4
    MaxFormCalls = 4
    MaxForms = 2
    MaxVisits = 2
    MaxSends = 4
SPECIFICATION MCSpec
INVARIANTS
    TypesOK
    OneTeamPerPlayer
    EditsConverge
    CodesAreSpaced
    VerificationsServeOnce
    GroupsStartWhole
    AnsweredMeansMailed
    PageShowsInquiries
    SessionIsWhole
    FormSpeaksTrue
PROPERTIES
    UpdateReplaces
SYMMETRY Sym
CHECK_DEADLOCK FALSE
