---------------------------- MODULE MCGroupPages ----------------------------
EXTENDS GroupPages, TLC

CONSTANTS m1, m2

\* Three players who meet as teammates and as opponents, on two days, in and out of a season.
Sides(a, b, c) == "a" :> a @@ "b" :> b @@ "c" :> c
MCSide  == <<Sides("home", "home", "away"), Sides("home", "home", "away"), Sides("home", "away", "away")>>
MCDay   == <<2, 1, 2>>
MCSeasonOf == <<0, 1, 1>>
MCGames == 1..3
MCValue == "three" :> 3 @@ "free" :> 1 @@ "foul" :> -1
Axes(items, present, values, up) == [items |-> items, present |-> present, values |-> values, up |-> up]
MCAxis  == {Axes({"three", "free", "foul"}, {"three", "free"}, TRUE, TRUE),
            Axes({"three"}, {"three"}, FALSE, TRUE), Axes({"foul"}, {"foul"}, FALSE, FALSE)}

MCFirstGames == <<"FINISHED", "FINISHED">>
\* Of two games one is in progress; the other group has one that is finished.
MCGamesOf == [g1 |-> <<"IN_PROGRESS", "FINISHED">>, g2 |-> <<"FINISHED">>]
\* Both groups have records, on two days and on one.
MCRecordsOf == [g1 |-> <<1, 1>>, g2 |-> <<1, 0>>]

\* What does not move begins in one state.
Begin ==
    /\ PagesInit
    /\ part # "calendar" => today = 0
    /\ part # "billing" => sub = "none"
    /\ dGroup = "g1"

MCSpec == Begin /\ [][PagesNext]_<<part, vars, statVars, calVars, gamesVars, seasonVars, homeVars,
                                   billVars, dailyVars>>

Sym == Permutations({m1, m2})
=============================================================================
