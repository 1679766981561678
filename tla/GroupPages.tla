----------------------------- MODULE GroupPages -----------------------------
(***************************************************************************)
(* What a group records and looks at: the record of a game, what is        *)
(* computed from the records, the first page, the page of games, the pages *)
(* of a season and of a day, that of the subscription, and dates.  They    *)
(* share nothing but the run: one of them moves, the others stay as they   *)
(* begin.                                                                  *)
(***************************************************************************)
EXTENDS GameLog

CONSTANTS
    Games, Players, Items, Value, Hidden, Shots, Side, GameDay, SeasonOf, \* Statistics
    Axis, MinAxes, MinDynamic, MaxDynamic,
    CLOSE_MARGIN, RECENT_FORM_LIMIT, MIN_CHEMISTRY_GAMES, MaxLogs, MaxDeleted,
    FirstYear, LastYear, GRACE_DAYS, MaxRenewals,                    \* Calendar
    FirstGames, MaxGames, InRange, FINISHED_PAGE_SIZE, MaxSent,      \* GamesPage
    Season, NoSeason, MaxRequests, MaxChanges,                       \* SeasonView
    Group, Own, GamesOf, PAGE_SIZE, MaxHomeGames, MaxSelects, MaxMore,   \* HomePage
    Tab, MaxAuths, MaxCalls, MaxReloads, MaxLapses,                  \* SubscriptionPage
    LastDay, RecordsOf, Halves, MaxRecordChanges, MaxMoves               \* DailyPage

\* Some games there may be, and a page of the finished ones holds one at least.
GamesBounds ==
    /\ MaxGames \in Nat \ {0} /\ FINISHED_PAGE_SIZE \in Nat \ {0} /\ MaxSent \in Nat
    /\ \A g \in DOMAIN FirstGames : FirstGames[g] \in {"none", "IN_PROGRESS", "FINISHED", "DELETED"}
ASSUME GamesAssumption == GamesBounds

ViewBounds == MaxRequests \in Nat /\ MaxChanges \in Nat
ASSUME SeasonAssumption == ViewBounds

\* A page holds a game at least, and each group begins with a few games.
HomeBounds ==
    /\ PAGE_SIZE \in Nat \ {0} /\ MaxHomeGames \in Nat /\ MaxSelects \in Nat /\ MaxMore \in Nat
    /\ GamesOf \in [Group -> Seq({"IN_PROGRESS", "FINISHED", "DELETED"})]
    /\ \A g \in Group : Len(GamesOf[g]) <= MaxHomeGames
ASSUME HomeAssumption == HomeBounds

BillBounds ==
    MaxAuths \in Nat /\ MaxCalls \in Nat /\ MaxReloads \in Nat /\ MaxLapses \in Nat
ASSUME BillingAssumption == BillBounds

Day == 1..LastDay

\* Each group begins with records on some days.
DayBounds ==
    /\ LastDay \in Nat /\ RecordsOf \in [Group -> [Day -> {0, 1}]]
    /\ MaxRecordChanges \in Nat \ {0} /\ MaxMoves \in Nat
ASSUME DailyAssumption == DayBounds

\* Date.UTC takes a year below 100 as one of the twentieth century.
DateBounds ==
    /\ FirstYear \in Nat /\ FirstYear >= 100 /\ LastYear \in Nat /\ LastYear >= FirstYear
    /\ GRACE_DAYS \in Int /\ MaxRenewals \in Nat
ASSUME DateAssumption == DateBounds

\* A group has finitely many games, numbered, players and items; a player is on one side of
\* a game at most; a chart has what items there are; form and chemistry take a game at least.
StatBounds ==
    /\ IsFiniteSet(Games) /\ IsFiniteSet(Players) /\ IsFiniteSet(Items)
    /\ Games \subseteq Int /\ GameDay \in [Games -> Int]
    /\ Value \in [Items -> Int] /\ Shots \subseteq Items
    /\ Side \in [Games -> [Players -> {"home", "away", "out"}]]
    /\ \A axis \in Axis : axis.items \subseteq Items /\ axis.values \in BOOLEAN /\ axis.up \in BOOLEAN
    /\ MaxDynamic \in Nat /\ CLOSE_MARGIN \in Nat
    /\ RECENT_FORM_LIMIT \in Nat \ {0} /\ MIN_CHEMISTRY_GAMES \in Nat \ {0}
ASSUME StatAssumption == StatBounds

VARIABLES
    part,
    count, gameStatus, deleted,
    today, cycle, end, renewals,
    gStatus, inProgress, finished, hasMore, loaded, loading, generation,
    selectMode, selected, rangeApplied, assigning, gAsked, gSent, shifted, behind,
    live, current, changes, stored, page, listed, listedCurrent, selection, ready,
    failed, shown, busy, asked, sent, answered, overtaken,
    hGames, hGroup, hList, hMore, hLoaded, hBusy, hLoading, hError, hInProgress, hAsked,
    hSelects, hMores, hLate, hShifted,
    customerKey, keys, sub, auths, used, refused, rekeyed, posts, bAsked, bCalls, at, url,
    submitted, bShown, waiting, pending, lapses, reloads, stale,
    records, dChanges, dGroup, dDate, dData, dFailed, dAsked, dMoves, dStale

statVars   == <<count, gameStatus, deleted>>
calVars    == <<today, cycle, end, renewals>>
gamesVars  == <<gStatus, inProgress, finished, hasMore, loaded, loading, generation, selectMode,
                selected, rangeApplied, assigning, gAsked, gSent, shifted, behind>>
seasonVars == <<live, current, changes, stored, page, listed, listedCurrent, selection, ready,
                failed, shown, busy, asked, sent, answered, overtaken>>
homeVars   == <<hGames, hGroup, hList, hMore, hLoaded, hBusy, hLoading, hError, hInProgress, hAsked,
                hSelects, hMores, hLate, hShifted>>
billVars   == <<customerKey, keys, sub, auths, used, refused, rekeyed, posts, bAsked, bCalls, at, url,
                submitted, bShown, waiting, pending, lapses, reloads, stale>>
dailyVars  == <<records, dChanges, dGroup, dDate, dData, dFailed, dAsked, dMoves, dStale>>

Stats == INSTANCE Statistics WITH status <- gameStatus, Day <- GameDay

Dates == INSTANCE Calendar

GamePage == INSTANCE GamesPage WITH status <- gStatus, asked <- gAsked, sent <- gSent, First <- FirstGames

SeasonPage == INSTANCE SeasonView

Home == INSTANCE HomePage WITH
    games <- hGames, selectedGroup <- hGroup, list <- hList, hasMore <- hMore, loaded <- hLoaded,
    busy <- hBusy, loading <- hLoading, error <- hError, inProgress <- hInProgress, asked <- hAsked,
    selects <- hSelects, mores <- hMores, late <- hLate, shifted <- hShifted,
    First <- GamesOf, MaxGames <- MaxHomeGames

Billing == INSTANCE SubscriptionPage WITH asked <- bAsked, calls <- bCalls, shown <- bShown

Daily == INSTANCE DailyPage WITH
    changes <- dChanges, selectedGroup <- dGroup, selectedDate <- dDate, data <- dData,
    failed <- dFailed, asked <- dAsked, moves <- dMoves, stale <- dStale,
    First <- RecordsOf, Parts <- Halves, MaxChanges <- MaxRecordChanges

PartNames == {"log", "statistics", "calendar", "games", "season", "home", "billing", "daily"}

PagesInit ==
    /\ part \in PartNames
    /\ Init /\ Stats!Init /\ Dates!Init /\ GamePage!Init /\ SeasonPage!Init
    /\ Home!Init /\ Billing!Init /\ Daily!Init

PagesNext ==
    /\ UNCHANGED part
    /\ IF part = "log" THEN Next ELSE UNCHANGED vars
    /\ IF part = "statistics" THEN Stats!Next ELSE UNCHANGED statVars
    /\ IF part = "calendar" THEN Dates!Next ELSE UNCHANGED calVars
    /\ IF part = "games" THEN GamePage!Next ELSE UNCHANGED gamesVars
    /\ IF part = "season" THEN SeasonPage!Next ELSE UNCHANGED seasonVars
    /\ IF part = "home" THEN Home!Next ELSE UNCHANGED homeVars
    /\ IF part = "billing" THEN Billing!Next ELSE UNCHANGED billVars
    /\ IF part = "daily" THEN Daily!Next ELSE UNCHANGED dailyVars

PagesSpec == PagesInit /\ [][PagesNext]_<<part, vars, statVars, calVars, gamesVars, seasonVars,
                                          homeVars, billVars, dailyVars>>

-----------------------------------------------------------------------------
\* Every part stays in its domain.
TypesOK == CASE part = "log" -> TypeOK [] part = "statistics" -> Stats!TypeOK [] part = "calendar" -> Dates!TypeOK
             [] part = "games" -> GamePage!TypeOK [] part = "season" -> SeasonPage!TypeOK
             [] part = "home" -> Home!TypeOK [] part = "billing" -> Billing!TypeOK
             [] part = "daily" -> Daily!TypeOK

\* The aggregations of a day and the rankings agree; percentiles balance, and shares of a
\* team make a whole (Statistics.tla).
AggregatesAgree == part = "statistics" => Stats!DayAgreesWithRankings /\ Stats!PartsAddUp

\* Streaks, close games and recent form are parts of one record, and two players read
\* the games they share alike (Statistics.tla).
ResultsAgree == part = "statistics" => Stats!StreaksAgree /\ Stats!SharedGamesAgree

\* The record page and a player's page agree with the rankings, deletions aside (Statistics.tla).
PagesAgreeUnlessDeleted == part = "statistics" => Stats!PagesAgreeUnlessDeleted

\* Renewed periods hold together, and ranges take real days only (Calendar.tla).
DatesAgree == part = "calendar" => Dates!DatesAgree

\* The lists of the games page, and that of the first page with its banner, are those of
\* the server (GamesPage.tla, HomePage.tla).
ListsAgree == /\ part = "games" => GamePage!ListsAgree
              /\ part = "home" => Home!HomeListAgrees

\* Only games that are shown are selected (GamesPage.tla).
SelectionIsShown == part = "games" => GamePage!SelectionIsShown

\* A page shows the season its selector stands on, and the page of a day the records of
\* the day it stands on (SeasonView.tla, DailyPage.tla).
ShownIsSelected == /\ part = "season" => SeasonPage!ShownIsSelected
                   /\ part = "daily" => Daily!DayIsShown

\* An authorisation is sent once, and a tab shows the status of the group
\* (SubscriptionPage.tla).
BillingPageAgrees == part = "billing" => Billing!BillingPageAgrees
=============================================================================
