----------------------------- MODULE Statistics -----------------------------
(***************************************************************************)
(* What is computed from the logs of a group: the rankings, the games and  *)
(* the players of a day, a player's ability, team impact and own page, and *)
(* the score of the record page.  Each adds the same rows up in a query of *)
(* its own, with its own answer to games and players that are deleted.     *)
(*                                                                         *)
(* The steps are those that change what is added up.  Rosters do not       *)
(* change, and rows are counted and not listed: nothing here depends on    *)
(* their order.  Who belongs to the group is left out.                     *)
(***************************************************************************)
EXTENDS Integers, Sequences, FiniteSets, FiniteSetsExt, SequencesExt

CONSTANTS
    Games,         \* the ids of the games, numbers
    Players,
    Items,         \* Logitem, the group's list
    Value,         \* Logitem.value of each
    Hidden,        \* items with a free throw in their name
    Shots,         \* items with a shot of two, of three or a free throw in their name
    Side,          \* InGamePlayer: home, away or out, for each game and player
    Day,           \* Game.date of each
    SeasonOf,      \* Game.seasonId of each, 0 for none
    Axis,          \* the basketball axes and the items that feed each
    MinAxes,       \* axes that must be there for a basketball chart, 4
    MinDynamic,    \* items that must be there for any other chart, 3
    MaxDynamic,    \* items such a chart shows, 6
    CLOSE_MARGIN,  \* 5
    RECENT_FORM_LIMIT,     \* 10
    MIN_CHEMISTRY_GAMES,   \* 3
    MaxLogs,       \* bound: rows of Log
    MaxDeleted     \* bound: players that are deleted

VARIABLES
    count,    \* rows of Log for each game, player and item
    status,   \* Game.status
    deleted   \* players that are deleted: their rows and rosters stay

vars == <<count, status, deleted>>

Sum(f(_), S) == MapThenSumSet(f, S)

\* Math.round of a / b, for b > 0.
Round(a, b) == (2 * a + b) \div (2 * b)

\* A sort by a comparator: nobody follows whom they are before, ties are in any order.
Sorted(S, before(_, _)) ==
    CHOOSE s \in [1..Cardinality(S) -> S] : \A k, l \in 1..Cardinality(S) :
        k < l => s[k] # s[l] /\ ~before(s[l], s[k])

Init ==
    /\ count = [g \in Games |-> [p \in Players |-> [i \in Items |-> 0]]]
    /\ status = [g \in Games |-> "IN_PROGRESS"]
    /\ deleted = {}

\* createLog: the game may be finished or deleted, the player is there.
RecordLog(g, p, i) ==
    /\ Side[g][p] # "out" /\ p \notin deleted
    /\ Sum(LAMBDA h : Sum(LAMBDA q : Sum(LAMBDA j : count[h][q][j], Items), Players), Games) < MaxLogs
    /\ count' = [count EXCEPT ![g][p][i] = @ + 1]
    /\ UNCHANGED <<status, deleted>>

UpdateGameStatus(g, s) ==
    /\ status[g] # s
    /\ status' = [status EXCEPT ![g] = s]
    /\ UNCHANGED <<count, deleted>>

DeletePlayer(p) ==
    /\ p \notin deleted /\ Cardinality(deleted) < MaxDeleted
    /\ deleted' = deleted \cup {p}
    /\ UNCHANGED <<count, status>>

Next ==
    \/ \E g \in Games, p \in Players, i \in Items : RecordLog(g, p, i)
    \/ \E g \in Games, s \in {"IN_PROGRESS", "FINISHED", "DELETED"} : UpdateGameStatus(g, s)
    \/ \E p \in Players : DeletePlayer(p)

Spec == Init /\ [][Next]_vars

-----------------------------------------------------------------------------
(* Rankings.  scope: the games of the season that is asked for, or all.    *)

\* The joins of aggregateRankings and aggregateGroupAbility drop both.
Live          == Players \ deleted
Counted       == {g \in Games : status[g] # "DELETED"}
AllGames      == Games
Scope(season) == IF season = 0 THEN AllGames ELSE {g \in Games : SeasonOf[g] = season}
Seasons       == {0} \cup {SeasonOf[g] : g \in Games}

\* The mutant counts the games that were deleted.
ItemCountOfAll(p, i, scope) == Sum(LAMBDA g : count[g][p][i], scope)
ItemCount(p, i, scope) == Sum(LAMBDA g : count[g][p][i], scope \cap Counted)
GamesPlayed(p, scope)  == Cardinality({g \in scope \cap Counted : Side[g][p] # "out"})

\* computeRankings: free throws are not listed but count as points.
Listed(i, scope)  == {p \in Live : i \notin Hidden /\ ItemCount(p, i, scope) > 0}
Points(p, scope)  == Sum(LAMBDA i : Value[i] * ItemCount(p, i, scope), Items)
HasScore(scope)   == \E p \in Live : Points(p, scope) > 0
Scoring(scope)    == IF HasScore(scope)
                     THEN {p \in Live : \E i \in Items : ItemCount(p, i, scope) > 0} ELSE {}

\* The page of the rankings: who has the better total or, by the other tab, the better
\* average, the fewer being the better for an item that costs points.
MoreOf(a, b, worth) == IF worth < 0 THEN a < b ELSE a > b
PerGame(n, p, q, scope) == IF GamesPlayed(p, scope) = 0 THEN 0 ELSE n * GamesPlayed(q, scope)
Better(tab, p, q, amount, worth, scope) ==
    IF tab = "total" THEN MoreOf(amount[p], amount[q], worth)
    ELSE MoreOf(PerGame(amount[p], p, q, scope), PerGame(amount[q], q, p, scope), worth)
ItemCard(i, tab, scope) ==
    LET amount == [p \in Players |-> ItemCount(p, i, scope)]
    IN  Sorted(Listed(i, scope), LAMBDA p, q : Better(tab, p, q, amount, Value[i], scope))
ScoringCard(tab, scope) ==
    LET amount == [p \in Players |-> Points(p, scope)]
    IN  Sorted(Scoring(scope), LAMBDA p, q : Better(tab, p, q, amount, 1, scope))

-----------------------------------------------------------------------------
(* The daily page, of the one day all rows are recorded.                   *)

PointsIn(g, p) == Sum(LAMBDA i : Value[i] * count[g][p][i], Items)
Recorded(g)    == \E p \in Players, i \in Items : count[g][p][i] > 0

\* getDailyGames: one card for each game with a row that is not deleted.
DailyGames     == {g \in Counted : Recorded(g)}
DailyScore(g)  == [t \in {"home", "away"} |->
                     Sum(LAMBDA p : PointsIn(g, p), {p \in Live : Side[g][p] = t})]

\* findDailyDates: the day is offered by the page.
DayListed      == \E g \in Counted : \E p \in Players, i \in Items : count[g][p][i] > 0

\* getLogByDaily and the table: ranks are shared, 1-2-2-4.
DailyPlayers   == {p \in Live : \E g \in Counted, i \in Items : count[g][p][i] > 0}
DailyTotal     == [p \in DailyPlayers |-> Sum(LAMBDA g : PointsIn(g, p), Counted)]
ByTotal        == Sorted(DailyPlayers, LAMBDA p, q : DailyTotal[p] > DailyTotal[q])
DailyRank      ==
    LET f[k \in DOMAIN ByTotal] ==
          IF k > 1 /\ DailyTotal[ByTotal[k]] = DailyTotal[ByTotal[k - 1]] THEN f[k - 1] ELSE k
    IN  f

-----------------------------------------------------------------------------
(* Ability: the percentile of a player among those who played.             *)

Pool(scope)         == {p \in Live : GamesPlayed(p, scope) >= 1}
Present(scope)      == {i \in Items : \E p \in Live : ItemCount(p, i, scope) > 0}
Raw(p, axis, scope) == Sum(LAMBDA i : (IF axis.values THEN Value[i] ELSE 1) * ItemCount(p, i, scope),
                           axis.items)

\* The items that were recorded most often, when too few axes are there.
TotalOf(i, scope) == Sum(LAMBDA p : ItemCount(p, i, scope), Live)
Top(scope) ==
    LET order == Sorted(Present(scope), LAMBDA i, j : TotalOf(i, scope) > TotalOf(j, scope))
    IN  ToSet(SubSeq(order, 1, Min({Len(order), MaxDynamic})))
BasketballAxes == Axis
Axes(scope) ==
    IF Cardinality({a \in Axis : a.present \cap Present(scope) # {}}) >= MinAxes
    THEN BasketballAxes
    ELSE IF Cardinality(Top(scope)) < MinDynamic THEN {}
         ELSE {[items |-> {i}, present |-> {i}, values |-> FALSE, up |-> TRUE] : i \in Top(scope)}

HasAbility(p, scope) == p \in Pool(scope) /\ Axes(scope) # {}

\* a's average is below b's.
Below(a, b, axis, scope) ==
    Raw(a, axis, scope) * GamesPlayed(b, scope) < Raw(b, axis, scope) * GamesPlayed(a, scope)
Ties(p, axis, scope) ==
    {q \in Pool(scope) : ~Below(p, q, axis, scope) /\ ~Below(q, p, axis, scope)}
Worse(p, axis, scope) ==
    {q \in Pool(scope) : IF axis.up THEN Below(q, p, axis, scope) ELSE Below(p, q, axis, scope)}
PercentileRank(p, axis, scope) ==
    Round(100 * (2 * Cardinality(Worse(p, axis, scope)) + Cardinality(Ties(p, axis, scope))),
          2 * Cardinality(Pool(scope)))

-----------------------------------------------------------------------------
(* Team impact: a player's finished games, in the order of date and id.    *)

FinishedGames(p, scope) == {g \in scope : status[g] = "FINISHED" /\ Side[g][p] # "out"}
InOrder(S) == Sorted(S, LAMBDA g, h : Day[g] < Day[h] \/ (Day[g] = Day[h] /\ g < h))
Opponent(t) == IF t = "home" THEN "away" ELSE "home"

\* aggregateTeamByItem: players that are deleted do not score.
TeamScore(g, t) == Sum(LAMBDA p : PointsIn(g, p), {p \in Live : Side[g][p] = t})
Margin(g, p) == TeamScore(g, Side[g][p]) - TeamScore(g, Opponent(Side[g][p]))
Letter(m)    == IF m > 0 THEN "W" ELSE IF m < 0 THEN "L" ELSE "D"
Results(p, scope) ==
    LET games == InOrder(FinishedGames(p, scope))
    IN  [k \in DOMAIN games |-> [game |-> games[k], margin |-> Margin(games[k], p),
                                 result |-> Letter(Margin(games[k], p)),
                                 us |-> TeamScore(games[k], Side[games[k]][p]),
                                 them |-> TeamScore(games[k], Opponent(Side[games[k]][p])),
                                 points |-> PointsIn(games[k], p)]]

\* Some of the games are sets of places in the list.
Where(rs, r)   == {k \in DOMAIN rs : rs[k].result = r}
Tally(rs, r)   == Cardinality(Where(rs, r))
Clutch(rs)     == {k \in DOMAIN rs : rs[k].margin \in (-CLOSE_MARGIN)..CLOSE_MARGIN}
\* The mutant takes the oldest games.
OldestForm(rs) == SubSeq(rs, 1, Min({Len(rs), RECENT_FORM_LIMIT}))
RecentForm(rs) == LET n == Len(rs) IN SubSeq(rs, Max({1, n - RECENT_FORM_LIMIT + 1}), n)

\* Averages are rounded to tenths, and counted in them here.
Average(field, rs, games) == Round(10 * Sum(LAMBDA k : rs[k][field], games), Cardinality(games))
Averages(rs) == [field \in {"us", "them", "margin"} |-> Average(field, rs, DOMAIN rs)]
AvgPointsIn(rs, r) == Average("points", rs, Where(rs, r))

\* computeStreak: the run that ends with the last game, and the longest run of wins.
CurrentType(rs) == rs[Len(rs)].result
Current(rs) == Max({0} \cup {n \in 1..Len(rs) :
                 \A k \in (Len(rs) - n + 1)..Len(rs) : rs[k].result = CurrentType(rs)})
BestRun(rs) ==
    LET run[k \in 0..Len(rs)] ==
          IF k = 0 \/ rs[k].result # "W" THEN 0 ELSE run[k - 1] + 1
    IN  Max({run[k] : k \in 0..Len(rs)})

\* computeContributions, for points: the share of p in what its teams scored by shots.
ShotsIn(g, p)       == Sum(LAMBDA i : Value[i] * count[g][p][i], Shots)
TeamShots(g, t)     == Sum(LAMBDA p : ShotsIn(g, p), {p \in Live : Side[g][p] = t})
TeamTotal(p, scope) == Sum(LAMBDA g : TeamShots(g, Side[g][p]), FinishedGames(p, scope))
SelfTotal(p, scope) == Sum(LAMBDA g : ShotsIn(g, p), FinishedGames(p, scope))
Share(p, scope)     == Round(100 * SelfTotal(p, scope), TeamTotal(p, scope))

\* computeChemistry: games on the same side, and mates before the best are taken.
Together(p, q, scope) == {g \in FinishedGames(p, scope) : Side[g][q] = Side[g][p]}
Mates(p, scope)       == {q \in Live \ {p} : Cardinality(Together(p, q, scope)) >= MIN_CHEMISTRY_GAMES}
WinsWith(p, q, scope) == Cardinality({g \in Together(p, q, scope) : Letter(Margin(g, p)) = "W"})
WinRate(p, q, scope)  == Round(100 * WinsWith(p, q, scope), Cardinality(Together(p, q, scope)))

-----------------------------------------------------------------------------
(* A player's page, the record page and the first page add rows up         *)
(* themselves.                                                             *)

\* findByPlayerId joins the game but does not look at its status.
PageGames(p, scope) == {g \in scope : \E i \in Items : count[g][p][i] > 0}
\* The mutant leaves out the items that the rankings do not list.
PageScoreOfListed(p, scope) ==
    Sum(LAMBDA g : Sum(LAMBDA i : Value[i] * count[g][p][i], Items \ Hidden), PageGames(p, scope))
PageScore(p, scope) == Sum(LAMBDA g : PointsIn(g, p), PageGames(p, scope))

\* The table of the page: the count of each item, and its average over the games that
\* the player has a record in, in tenths.
TotalStats(p, i, scope)   == Sum(LAMBDA g : count[g][p][i], PageGames(p, scope))
AverageStats(p, i, scope) == Round(10 * TotalStats(p, i, scope), Cardinality(PageGames(p, scope)))

\* getGameById leaves players that are deleted out of both sides: a row that is of
\* no home player counts for the other side.
HomePlayers(g)      == {p \in Live : Side[g][p] = "home"}
Scoreboard(g)       == [home |-> Sum(LAMBDA p : PointsIn(g, p), HomePlayers(g)),
                        away |-> Sum(LAMBDA p : PointsIn(g, p), Players \ HomePlayers(g))]

\* getGames does the same, but a card of the first page counts the players of each side,
\* and tells how the game ended for it.
CardPlayers(g, t) == {p \in Live : Side[g][p] = t}
LogSummary(g, p)  == [i \in {i \in Items : count[g][p][i] > 0} |->
                        [count |-> count[g][p][i], value |-> count[g][p][i] * Value[i]]]
CardScore(g)      == [t \in {"home", "away"} |-> Sum(LAMBDA p : PointsIn(g, p), CardPlayers(g, t))]
CardResult(g, t)  == LET us == CardScore(g)[t]  them == CardScore(g)[Opponent(t)] IN
                     IF us > them THEN "win" ELSE IF us < them THEN "lose" ELSE "draw"

-----------------------------------------------------------------------------
TypeOK ==
    /\ count \in [Games -> [Players -> [Items -> Nat]]]
    /\ status \in [Games -> {"IN_PROGRESS", "FINISHED", "DELETED"}]
    /\ deleted \subseteq Players

\* The rankings, the cards and the table of a day are three aggregations of the same
\* rows: free throws, deleted games and deleted players are treated alike by all, and
\* the table's order is that of the card of points, its ranks competition ranks in them.
DayAgreesWithRankings ==
    LET scored == Sum(LAMBDA p : DailyTotal[p], DailyPlayers) IN
    /\ DayListed <=> DailyGames # {}
    /\ scored = Sum(LAMBDA g : DailyScore(g)["home"] + DailyScore(g)["away"], DailyGames)
    /\ HasScore(AllGames) =>
          LET card == ScoringCard("total", AllGames) IN
          /\ scored = Sum(LAMBDA p : Points(p, AllGames), Scoring(AllGames))
          /\ Len(card) = Len(ByTotal)
          /\ \A k \in DOMAIN card : DailyTotal[card[k]] = DailyTotal[ByTotal[k]]
    /\ \A k \in DOMAIN ByTotal :
          DailyRank[k] = 1 + Cardinality({q \in DailyPlayers : Points(q, AllGames) > Points(ByTotal[k], AllGames)})

\* Whoever is listed under an item is among those who played, and the card of averages
\* and the axis of the item put them in one order; on every axis the
\* percentiles average 50, since ties count half; and the shares of a team in a single
\* game are those of a whole.  Rounding moves each of them by half a point.
PartsAddUp ==
    /\ \A season \in Seasons : LET scope == Scope(season)
                                   n     == Cardinality(Pool(scope)) IN
         /\ \A i \in Items : Listed(i, scope) \subseteq Pool(scope)
         /\ \A i \in Items, axis \in Axes(scope) : axis.items = {i} /\ ~axis.values =>
             LET card    == ItemCard(i, "average", scope)
                 rank(k) == PercentileRank(card[k], axis, scope) IN
             \A k, l \in DOMAIN card : k < l =>
                 IF axis.up = (Value[i] >= 0) THEN rank(k) >= rank(l) ELSE rank(k) <= rank(l)
         /\ n > 1 => \A axis \in Axes(scope) :
             2 * Sum(LAMBDA p : PercentileRank(p, axis, scope), Pool(scope)) - 100 * n \in (-n)..n
    /\ \A g \in Games, t \in {"home", "away"} :
         LET team == {p \in Live : Side[g][p] = t} IN
         status[g] = "FINISHED" /\ TeamShots(g, t) > 0 =>
             2 * Sum(LAMBDA p : Share(p, {g}), team) - 200 \in (-Cardinality(team))..Cardinality(team)

\* The streaks, the close games, the recent form and the averages of a player are parts
\* of one record, and agree with it up to their rounding.
StreaksAgree ==
    \A p \in Live, season \in Seasons : LET rs == Results(p, Scope(season)) IN rs # <<>> =>
        /\ Current(rs) \in 1..Tally(rs, CurrentType(rs))
        /\ BestRun(rs) <= Tally(rs, "W") /\ (BestRun(rs) = 0 <=> Tally(rs, "W") = 0)
        /\ CurrentType(rs) = "W" => Current(rs) <= BestRun(rs)
        /\ Where(rs, "D") \subseteq Clutch(rs)
        /\ LET avg == Averages(rs) IN avg["us"] - avg["them"] - avg["margin"] \in -1..1
        /\ Tally(rs, "D") = 0 =>
             LET of(r) == IF Tally(rs, r) = 0 THEN 0 ELSE Tally(rs, r) * AvgPointsIn(rs, r)
                 all   == Sum(LAMBDA g : PointsIn(g, p), FinishedGames(p, Scope(season))) IN
             2 * (of("W") + of("L") - 10 * all) \in (-Len(rs))..Len(rs)
        /\ Current(RecentForm(rs)) = Min({Current(rs), Len(RecentForm(rs))})

\* Two players read the games they share alike: opponents in all their games have
\* opposite records, game by game, and teammates have the same record in each other's
\* list.
SharedGamesAgree ==
    \A p, q \in Live : LET of == Results(p, AllGames)  other == Results(q, AllGames) IN
        /\ FinishedGames(p, AllGames) = FinishedGames(q, AllGames)
             /\ (\A g \in FinishedGames(p, AllGames) : Side[g][p] # Side[g][q])
           => \A k \in DOMAIN of : of[k].game = other[k].game /\ of[k].margin = -other[k].margin
                                  /\ (of[k].result = "W" <=> other[k].result = "L")
        /\ p # q =>
             /\ q \in Mates(p, AllGames) <=> p \in Mates(q, AllGames)
             /\ q \in Mates(p, AllGames) => /\ WinRate(p, q, AllGames) = WinRate(q, p, AllGames)
                                            /\ WinRate(p, q, AllGames) \in 0..100

\* The first page shows the score of the day, and calls a game won that the impact of its
\* players counts as won; so does the record page, and a player's page shows the points
\* and the counts of the rankings, and averages that are no lower, since it divides by
\* fewer games, unless rows of deleted players or games are left.
PagesAgreeUnlessDeleted ==
    /\ \A g \in Counted : CardScore(g) = DailyScore(g)
    /\ \A g \in Counted, t \in {"home", "away"} :
          CardScore(g)[t] = Sum(LAMBDA p : LET row == LogSummary(g, p) IN
                                  Sum(LAMBDA i : row[i].value, DOMAIN row), CardPlayers(g, t))
    /\ \A p \in Live : \A g \in FinishedGames(p, AllGames) :
          Letter(Margin(g, p)) = [win |-> "W", lose |-> "L", draw |-> "D"][CardResult(g, Side[g][p])]
    /\ \A g \in Counted : (\A p \in deleted : PointsIn(g, p) = 0) => Scoreboard(g) = DailyScore(g)
    /\ \A p \in Live : (\A g \in Games \ Counted : PointsIn(g, p) = 0)
                       => PageScore(p, AllGames) = Points(p, AllGames)
    /\ \A p \in Live, i \in Items : PageGames(p, AllGames) \subseteq Counted =>
          /\ TotalStats(p, i, AllGames) = ItemCount(p, i, AllGames)
          /\ ItemCount(p, i, AllGames) > 0 =>
               AverageStats(p, i, AllGames)
                 >= Round(10 * ItemCount(p, i, AllGames), GamesPlayed(p, AllGames))

\* "The logs of deleted games are excluded from the records of the day and of the
\* player" (2026-07-19-player-ability-radar-design.md:23).
DeletedGamesAreExcluded ==
    \A p \in Live : PageGames(p, AllGames) \subseteq Counted
=============================================================================
