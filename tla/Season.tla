------------------------------- MODULE Season -------------------------------
(***************************************************************************)
(* Seasons and the pointers to them: SeasonService, and the handlers of    *)
(* GameService that write Game.seasonId.  Neither Game.seasonId nor        *)
(* Group.currentSeasonId is a foreign key, so the handlers alone keep them *)
(* right; each reads first and writes in a later statement.                *)
(*                                                                         *)
(* A handler is a slot that serves one request after another.  Rows are    *)
(* created with ids that are never used again; which group creates which   *)
(* id is fixed.  The names of seasons are left out.                        *)
(***************************************************************************)

CONSTANTS
    Group,        \* tenants
    Season,       \* ids of seasons
    Game,         \* ids of games
    SeasonGroup,  \* the group that creates each season
    GameGroup,    \* the group that creates each game
    NoSeason,     \* null
    Handler       \* requests that are served at the same time

ASSUME OwnerAssumption == SeasonGroup \in [Season -> Group] /\ GameGroup \in [Game -> Group]
ASSUME NullAssumption  == NoSeason \notin Season /\ Group # {}

VARIABLES
    season,           \* the Season table: "none", "live" or "deleted"
    currentSeasonId,  \* of each Group
    status,           \* Game.status: "none" before the game is there
    seasonId,         \* Game.seasonId
    pc,               \* where each handler stands
    arg,              \* its group, its games, and the season it asserted or read
    raced             \* history: seasons deleted while a handler held a stale read

vars == <<season, currentSeasonId, status, seasonId, pc, arg, raced>>
handlers == <<pc, arg>>

SeasonRef == Season \cup {NoSeason}
Local == [group : Group, games : SUBSET Game, season : SeasonRef, wasCurrent : BOOLEAN]
Args(g, games, s) == [group |-> g, games |-> games, season |-> s, wasCurrent |-> FALSE]
NoArgs == Args(CHOOSE g \in Group : TRUE, {}, NoSeason)

Init ==
    /\ season = [s \in Season |-> "none"]
    /\ currentSeasonId = [g \in Group |-> NoSeason]
    /\ status = [x \in Game |-> "none"]
    /\ seasonId = [x \in Game |-> NoSeason]
    /\ pc = [h \in Handler |-> "idle"]
    /\ arg = [h \in Handler |-> NoArgs]
    /\ raced = {}

Goto(h, label) == pc' = [pc EXCEPT ![h] = label]

\* A request of group g, which is that of its token (assertSameGroup), gets past its first
\* statement.
Begin(h, label, g, games, s) ==
    /\ pc[h] = "idle"
    /\ Goto(h, label)
    /\ arg' = [arg EXCEPT ![h] = Args(g, games, s)]

\* It answers; what it read is gone.
Answer(h) ==
    /\ Goto(h, "idle")
    /\ arg' = [arg EXCEPT ![h] = NoArgs]

\* A statement throws, or the connection is lost: nothing of it is stored.
Fail(h) ==
    /\ pc[h] # "idle"
    /\ Answer(h)
    /\ UNCHANGED <<season, currentSeasonId, status, seasonId, raced>>

\* assertSeasonInGroup(s, g); the mutants forget one half of it.
SeasonExists(s, g)  == season[s] = "live"
SeasonOfGroup(s, g) == SeasonGroup[s] = g
SeasonInGroup(s, g) == season[s] = "live" /\ SeasonGroup[s] = g

-----------------------------------------------------------------------------
(* createSeason                                                            *)

CreateSeason(s) ==
    /\ season[s] = "none"
    /\ season' = [season EXCEPT ![s] = "live"]
    /\ UNCHANGED <<currentSeasonId, status, seasonId, handlers, raced>>

-----------------------------------------------------------------------------
(* deleteSeason: the season and whether it is current are read before the  *)
(* transaction.                                                            *)

DeleteAssert(h, g, s) ==
    /\ SeasonInGroup(s, g)
    /\ Begin(h, "readCurrent", g, {}, s)
    /\ UNCHANGED <<season, currentSeasonId, status, seasonId, raced>>

DeleteRead(h) ==
    /\ pc[h] = "readCurrent"
    /\ arg' = [arg EXCEPT ![h].wasCurrent =
                 (currentSeasonId[arg[h].group] = arg[h].season)]
    /\ Goto(h, "delete")
    /\ UNCHANGED <<season, currentSeasonId, status, seasonId, raced>>

\* History: another handler is about to write s, or s became current since it was
\* read.
StaleReadOf(s, h) ==
    \/ \E other \in Handler \ {h} :
         /\ pc[other] \in {"setCurrent", "assign", "insert", "overwrite"}
         /\ arg[other].season = s
    \/ ~arg[h].wasCurrent /\ currentSeasonId[arg[h].group] = s

\* The games lose the season, the deleted ones too: updateGameStatus can bring
\* them back.  The mutant forgets that.
RestoreLiveGames(s) ==
    seasonId' = [x \in Game |-> IF seasonId[x] = s /\ status[x] # "DELETED"
                                THEN NoSeason ELSE seasonId[x]]
RestoreGames(s) ==
    seasonId' = [x \in Game |-> IF seasonId[x] = s THEN NoSeason ELSE seasonId[x]]

DeleteSeason(h) ==
    LET s == arg[h].season IN
    /\ pc[h] = "delete"
    /\ RestoreGames(s)
    /\ currentSeasonId' = IF arg[h].wasCurrent
                          THEN [currentSeasonId EXCEPT ![arg[h].group] = NoSeason]
                          ELSE currentSeasonId
    /\ season' = [season EXCEPT ![s] = "deleted"]
    /\ raced' = IF StaleReadOf(s, h) THEN raced \cup {s} ELSE raced
    /\ Answer(h)
    /\ UNCHANGED status

-----------------------------------------------------------------------------
(* setCurrentSeason                                                        *)

ClearCurrent(g) ==
    /\ currentSeasonId' = [currentSeasonId EXCEPT ![g] = NoSeason]
    /\ UNCHANGED <<season, status, seasonId, handlers, raced>>

SetCurrentAssert(h, g, s) ==
    /\ SeasonInGroup(s, g)
    /\ Begin(h, "setCurrent", g, {}, s)
    /\ UNCHANGED <<season, currentSeasonId, status, seasonId, raced>>

SetCurrentSeason(h) ==
    /\ pc[h] = "setCurrent"
    /\ currentSeasonId' = [currentSeasonId EXCEPT ![arg[h].group] = arg[h].season]
    /\ Answer(h)
    /\ UNCHANGED <<season, status, seasonId, raced>>

-----------------------------------------------------------------------------
(* assignSeason: the games, then the season, then one UPDATE.              *)

AssignAssertGames(h, g, games, s) ==
    /\ games # {} /\ \A x \in games : status[x] # "none" /\ GameGroup[x] = g
    /\ Begin(h, IF s = NoSeason THEN "assign" ELSE "assertSeason", g, games, s)
    /\ UNCHANGED <<season, currentSeasonId, status, seasonId, raced>>

AssignAssertSeason(h) ==
    /\ pc[h] = "assertSeason"
    /\ IF SeasonInGroup(arg[h].season, arg[h].group)
       THEN Goto(h, "assign") /\ UNCHANGED arg
       ELSE Answer(h)
    /\ UNCHANGED <<season, currentSeasonId, status, seasonId, raced>>

AssignSeason(h) ==
    /\ pc[h] = "assign"
    /\ seasonId' = [x \in Game |->
         IF x \in arg[h].games /\ GameGroup[x] = arg[h].group /\ status[x] # "DELETED"
         THEN arg[h].season ELSE seasonId[x]]
    /\ Answer(h)
    /\ UNCHANGED <<season, currentSeasonId, status, raced>>

-----------------------------------------------------------------------------
(* saveGameAndLogs: resolveSeasonId reads, the save writes.                *)

\* A new game: the current season of its group.
ResolveCurrent(h, g) ==
    /\ Begin(h, "insert", g, {}, currentSeasonId[g])
    /\ UNCHANGED <<season, currentSeasonId, status, seasonId, raced>>

InsertGame(h, x) ==
    /\ pc[h] = "insert"
    /\ status[x] = "none" /\ GameGroup[x] = arg[h].group
    /\ status' = [status EXCEPT ![x] = "live"]
    /\ seasonId' = [seasonId EXCEPT ![x] = arg[h].season]
    /\ Answer(h)
    /\ UNCHANGED <<season, currentSeasonId, raced>>

\* A game that is there: the season it has.
ResolveExisting(h, x) ==
    /\ status[x] # "none"
    /\ Begin(h, "overwrite", GameGroup[x], {x}, seasonId[x])
    /\ UNCHANGED <<season, currentSeasonId, status, seasonId, raced>>

OverwriteGame(h) ==
    /\ pc[h] = "overwrite"
    /\ seasonId' = [x \in Game |-> IF x \in arg[h].games THEN arg[h].season ELSE seasonId[x]]
    /\ Answer(h)
    /\ UNCHANGED <<season, currentSeasonId, status, raced>>

-----------------------------------------------------------------------------
(* deleteGame keeps the row; updateGameStatus takes any status.            *)

DeleteGame(x) ==
    /\ status[x] # "none"
    /\ status' = [status EXCEPT ![x] = "DELETED"]
    /\ UNCHANGED <<season, currentSeasonId, seasonId, handlers, raced>>

UpdateGameStatus(x) ==
    /\ status[x] # "none"
    /\ status' = [status EXCEPT ![x] = "live"]
    /\ UNCHANGED <<season, currentSeasonId, seasonId, handlers, raced>>

SeasonStep(h) ==
    \/ \E g \in Group, s \in Season : DeleteAssert(h, g, s) \/ SetCurrentAssert(h, g, s)
    \/ DeleteRead(h) \/ DeleteSeason(h) \/ SetCurrentSeason(h)

GameStep(h) ==
    \/ \E g \in Group, games \in SUBSET Game, s \in SeasonRef : AssignAssertGames(h, g, games, s)
    \/ AssignAssertSeason(h) \/ AssignSeason(h)
    \/ \E g \in Group : ResolveCurrent(h, g)
    \/ \E x \in Game : InsertGame(h, x) \/ ResolveExisting(h, x)
    \/ OverwriteGame(h)

Next ==
    \/ \E h \in Handler : SeasonStep(h) \/ GameStep(h) \/ Fail(h)
    \/ \E s \in Season : CreateSeason(s)
    \/ \E g \in Group : ClearCurrent(g)
    \/ \E x \in Game : DeleteGame(x) \/ UpdateGameStatus(x)

Spec == Init /\ [][Next]_vars

-----------------------------------------------------------------------------
PointedTo(s) == (\E g \in Group : currentSeasonId[g] = s) \/ (\E x \in Game : seasonId[x] = s)

\* Every row and program counter stays in its domain; a pointer
\* names a season that was created.
TypeOK ==
    /\ season \in [Season -> {"none", "live", "deleted"}]
    /\ currentSeasonId \in [Group -> SeasonRef]
    /\ status \in [Game -> {"none", "live", "DELETED"}]
    /\ seasonId \in [Game -> SeasonRef]
    /\ pc \in [Handler -> {"idle", "readCurrent", "delete", "setCurrent", "assertSeason",
                           "assign", "insert", "overwrite"}]
    /\ arg \in [Handler -> Local]
    /\ raced \subseteq Season
    /\ \A s \in Season : season[s] = "none" => ~PointedTo(s)

\* No game and no group ever points to a season of another group, whatever the ids
\* in a request ("a client could put a game in any season", game.service.ts:135).
SeasonsStayInGroup ==
    /\ \A g \in Group : currentSeasonId[g] # NoSeason => SeasonGroup[currentSeasonId[g]] = g
    /\ \A x \in Game : seasonId[x] # NoSeason => SeasonGroup[seasonId[x]] = GameGroup[x]

\* A deleted season leaves no pointer behind, not even from a deleted game that is
\* brought back, unless a handler had a stale read of it when it was deleted.
DanglingOnlyByRace ==
    \A s \in Season : season[s] = "deleted" /\ PointedTo(s) => s \in raced

\* "No foreign key: when a season is deleted the service clears it to null"
\* (Group.entity.ts:23, Game.entity.ts:13).
PointersAreLive == \A s \in Season : PointedTo(s) => season[s] = "live"
=============================================================================
