CONSTANTS
    g1 = g1
    g2 = g2
    s1 = s1
    s2 = s2
    s3 = s3
    x1 = x1
    x3 = x3
    Group = {g1, g2}
    Season = {s1, s2, s3}
    Game = {x1, x3}
    SeasonGroup <- MCSeasonGroup
    GameGroup <- MCGameGroup
    NoSeason = NoSeason
    Handler = {h1, h2}
SPECIFICATION Spec
INVARIANT PointersAreLive
