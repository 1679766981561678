---------------------------- MODULE SeasonProofs ----------------------------
(***************************************************************************)
(* Proofs about Season, for every set of groups, seasons and games and any *)
(* number of requests that are served at the same time.                    *)
(***************************************************************************)
EXTENDS Season, TLAPS

Writers == {"setCurrent", "assign", "insert", "overwrite"}

\* What a handler is about to do with the season it read: a writer holds one of its
\* own group that is there, or was until a deletion that saw the race; a deletion
\* holds one of its own group.
HeldInv ==
    \A h \in Handler :
        LET s == arg[h].season IN
        /\ pc[h] \in {"readCurrent", "delete"} => s \in Season
        /\ pc[h] \in Writers \cup {"readCurrent", "delete"} /\ s # NoSeason =>
             season[s] # "none" /\ SeasonGroup[s] = arg[h].group
        /\ pc[h] \in Writers /\ s # NoSeason /\ season[s] = "deleted" => s \in raced
        /\ pc[h] = "overwrite" => \A x \in arg[h].games : GameGroup[x] = arg[h].group

SeasonInv == TypeOK /\ SeasonsStayInGroup /\ DanglingOnlyByRace /\ HeldInv

USE OwnerAssumption, NullAssumption

\* The empty locals have their type.
LEMMA NoArgsFacts == NoArgs \in Local /\ NoArgs.season = NoSeason /\ NoArgs.games = {}
  BY DEF NoArgs, Args, Local, SeasonRef

\* The locals of a request that begins are what it was given.
LEMMA ArgsFacts ==
    ASSUME NEW g \in Group, NEW games \in SUBSET Game, NEW s \in SeasonRef
    PROVE  /\ Args(g, games, s) \in Local
           /\ Args(g, games, s).group = g /\ Args(g, games, s).games = games
           /\ Args(g, games, s).season = s
  BY DEF Args, Local

\* The tables are empty.
LEMMA InitSeason == Init => SeasonInv
<1> SUFFICES ASSUME Init PROVE SeasonInv
  OBVIOUS
<1>1. TypeOK
  BY NoArgsFacts DEF Init, TypeOK, SeasonRef, PointedTo
<1>2. SeasonsStayInGroup /\ DanglingOnlyByRace /\ HeldInv
  BY DEF Init, SeasonsStayInGroup, DanglingOnlyByRace, HeldInv, Writers
<1> QED  BY <1>1, <1>2 DEF SeasonInv

\* A request that reads and begins: the tables stay, and what it read is sound.
LEMMA BeginKeepsInv ==
    ASSUME SeasonInv, NEW h \in Handler, NEW g \in Group, NEW games \in SUBSET Game,
           NEW s \in SeasonRef,
           NEW l \in {"readCurrent", "setCurrent", "assertSeason", "assign", "insert", "overwrite"},
           Begin(h, l, g, games, s),
           UNCHANGED <<season, currentSeasonId, status, seasonId, raced>>,
           l \in Writers \cup {"readCurrent"} /\ s # NoSeason =>
             /\ season[s] # "none" /\ SeasonGroup[s] = g
             /\ season[s] = "deleted" => s \in raced,
           l = "readCurrent" => s # NoSeason,
           l = "overwrite" => \A x \in games : GameGroup[x] = g
    PROVE  SeasonInv'
<1>1. /\ pc' = [pc EXCEPT ![h] = l] /\ arg' = [arg EXCEPT ![h] = Args(g, games, s)]
  BY DEF Begin, Goto
<1>2. TypeOK'
  BY <1>1, ArgsFacts DEF SeasonInv, TypeOK, PointedTo
<1>3. HeldInv'
  <2>1. /\ pc'[h] = l /\ arg'[h].season = s /\ arg'[h].group = g /\ arg'[h].games = games
    BY <1>1, ArgsFacts DEF SeasonInv, TypeOK
  <2>2. \A o \in Handler : o # h => pc'[o] = pc[o] /\ arg'[o] = arg[o]
    BY <1>1 DEF SeasonInv, TypeOK
  <2> QED  BY <2>1, <2>2 DEF SeasonInv, HeldInv, Writers, SeasonRef
<1> QED
  BY <1>2, <1>3 DEF SeasonInv, SeasonsStayInGroup, DanglingOnlyByRace, PointedTo

\* A request that answers keeps the types and holds nothing.
LEMMA AnswerFacts ==
    ASSUME SeasonInv, NEW h \in Handler, Answer(h)
    PROVE  /\ pc' \in [Handler -> {"idle", "readCurrent", "delete", "setCurrent",
                                   "assertSeason", "assign", "insert", "overwrite"}]
           /\ arg' \in [Handler -> Local]
           /\ pc'[h] = "idle"
           /\ \A o \in Handler : o # h => pc'[o] = pc[o] /\ arg'[o] = arg[o]
  BY NoArgsFacts DEF Answer, Goto, SeasonInv, TypeOK

\* A pointer that is written is sound when what the writer held is.
LEMMA WriteKeepsInv ==
    ASSUME SeasonInv, NEW h \in Handler, pc[h] \in Writers, Answer(h),
           UNCHANGED <<season, raced>>,
           status' \in [Game -> {"none", "live", "DELETED"}],
           currentSeasonId' \in [Group -> SeasonRef], seasonId' \in [Game -> SeasonRef],
           \A g \in Group : currentSeasonId'[g] # currentSeasonId[g] =>
               currentSeasonId'[g] = arg[h].season /\ g = arg[h].group,
           \A x \in Game : seasonId'[x] # seasonId[x] =>
               seasonId'[x] = arg[h].season /\ GameGroup[x] = arg[h].group
    PROVE  SeasonInv'
<1>1. \A s \in Season : PointedTo(s)' => PointedTo(s) \/ s = arg[h].season
  BY DEF PointedTo
<1>2. arg[h].season # NoSeason =>
        /\ SeasonGroup[arg[h].season] = arg[h].group /\ season[arg[h].season] # "none"
        /\ season[arg[h].season] = "deleted" => arg[h].season \in raced
  BY DEF SeasonInv, HeldInv
<1>3. TypeOK'
  <2>1. \A s \in Season : season'[s] = "none" => ~PointedTo(s)'
    BY <1>1, <1>2 DEF SeasonInv, TypeOK
  <2> QED  BY <2>1, AnswerFacts DEF SeasonInv, TypeOK
<1>4. SeasonsStayInGroup'
  BY <1>2 DEF SeasonInv, SeasonsStayInGroup
<1>5. DanglingOnlyByRace'
  BY <1>1, <1>2 DEF SeasonInv, DanglingOnlyByRace
<1>6. HeldInv'
  BY AnswerFacts DEF SeasonInv, HeldInv, Writers
<1> QED  BY <1>3, <1>4, <1>5, <1>6 DEF SeasonInv

\* A deletion unlinks what it can see, and what it cannot is in raced.
LEMMA DeleteSeasonKeepsInv ==
    ASSUME SeasonInv, NEW h \in Handler, DeleteSeason(h)
    PROVE  SeasonInv'
<1> DEFINE s == arg[h].season
<1> DEFINE g == arg[h].group
<1>1. /\ s \in Season /\ g \in Group /\ SeasonGroup[s] = g /\ pc[h] = "delete"
  BY DEF DeleteSeason, SeasonInv, HeldInv, TypeOK, Local
<1>2. /\ RestoreGames(s) /\ Answer(h) /\ status' = status
      /\ season' = [season EXCEPT ![s] = "deleted"]
      /\ raced' = IF StaleReadOf(s, h) THEN raced \cup {s} ELSE raced
      /\ currentSeasonId' = IF arg[h].wasCurrent
                            THEN [currentSeasonId EXCEPT ![g] = NoSeason]
                            ELSE currentSeasonId
  BY DEF DeleteSeason
<1>3. /\ currentSeasonId' \in [Group -> SeasonRef] /\ seasonId' \in [Game -> SeasonRef]
      /\ season' \in [Season -> {"none", "live", "deleted"}]
      /\ raced' \subseteq Season /\ raced \subseteq raced'
  BY <1>1, <1>2 DEF RestoreGames, SeasonInv, TypeOK, SeasonRef
<1>4. /\ \A x \in Game : seasonId'[x] # s /\ (seasonId'[x] = seasonId[x] \/ seasonId'[x] = NoSeason)
      /\ \A k \in Group : currentSeasonId'[k] = currentSeasonId[k] \/ currentSeasonId'[k] = NoSeason
      /\ \A k \in Group : currentSeasonId'[k] = s => s \in raced'
  <2>1. \A x \in Game : seasonId'[x] # s /\ (seasonId'[x] = seasonId[x] \/ seasonId'[x] = NoSeason)
    BY <1>1, <1>2 DEF RestoreGames, SeasonInv, TypeOK
  <2>2. \A k \in Group : currentSeasonId'[k] = currentSeasonId[k] \/ currentSeasonId'[k] = NoSeason
    BY <1>1, <1>2 DEF SeasonInv, TypeOK
  <2>3. ASSUME NEW k \in Group, currentSeasonId'[k] = s
        PROVE  s \in raced'
    <3>1. currentSeasonId[k] = s /\ k = g
      BY <1>1, <2>2, <2>3 DEF SeasonInv, SeasonsStayInGroup
    <3>2. ~arg[h].wasCurrent
      BY <1>1, <1>2, <2>3, <3>1 DEF SeasonInv, TypeOK
    <3> QED  BY <1>2, <3>1, <3>2 DEF StaleReadOf
  <2> QED  BY <2>1, <2>2, <2>3
<1> HIDE DEF s, g
<1>5. \A t \in Season : PointedTo(t)' => PointedTo(t) /\ (t = s => s \in raced')
  BY <1>1, <1>4 DEF PointedTo
<1>6. \A t \in Season : t # s => season'[t] = season[t]
  BY <1>2 DEF SeasonInv, TypeOK
<1>7. season'[s] = "deleted"
  BY <1>1, <1>2 DEF SeasonInv, TypeOK
<1>8. TypeOK'
  <2>1. \A t \in Season : season'[t] = "none" => ~PointedTo(t)'
    BY <1>5, <1>6, <1>7 DEF SeasonInv, TypeOK
  <2> QED  BY <1>2, <1>3, <2>1, AnswerFacts DEF SeasonInv, TypeOK
<1>9. SeasonsStayInGroup'
  BY <1>4 DEF SeasonInv, SeasonsStayInGroup
<1>10. DanglingOnlyByRace'
  BY <1>3, <1>5, <1>6 DEF SeasonInv, DanglingOnlyByRace
<1>11. HeldInv'
  <2>1. ASSUME NEW o \in Handler, o # h, pc[o] \in Writers, arg[o].season = s
        PROVE  s \in raced'
    BY <1>2, <2>1 DEF StaleReadOf, Writers
  <2>2. \A o \in Handler : arg[o].season \in SeasonRef
    BY DEF SeasonInv, TypeOK, Local
  <2> QED  BY <1>2, <1>3, <1>6, <1>7, <2>1, <2>2, AnswerFacts DEF SeasonInv, HeldInv, Writers, SeasonRef
<1> QED  BY <1>8, <1>9, <1>10, <1>11 DEF SeasonInv

\* A request that is refused, or fails, leaves the tables as they are.
LEMMA RefusalKeepsInv ==
    ASSUME SeasonInv, NEW h \in Handler, Answer(h),
           UNCHANGED <<season, currentSeasonId, status, seasonId, raced>>
    PROVE  SeasonInv'
<1>1. TypeOK'
  BY AnswerFacts DEF SeasonInv, TypeOK, PointedTo
<1>2. HeldInv'
  BY AnswerFacts DEF SeasonInv, HeldInv, Writers
<1> QED  BY <1>1, <1>2 DEF SeasonInv, SeasonsStayInGroup, DanglingOnlyByRace, PointedTo

\* The request stays where it is bound for, with the season it named.
LEMMA MoveKeepsInv ==
    ASSUME SeasonInv, NEW h \in Handler, NEW l \in {"delete", "assign"},
           Goto(h, l), arg' \in [Handler -> Local],
           \A o \in Handler : arg'[o].season = arg[o].season /\ arg'[o].group = arg[o].group
                              /\ arg'[o].games = arg[o].games,
           UNCHANGED <<season, currentSeasonId, status, seasonId, raced>>,
           l = "delete" => pc[h] = "readCurrent",
           l = "assign" => SeasonInGroup(arg[h].season, arg[h].group)
    PROVE  SeasonInv'
<1>1. pc' = [pc EXCEPT ![h] = l]
  BY DEF Goto
<1>2. TypeOK'
  BY <1>1 DEF SeasonInv, TypeOK, PointedTo
<1>3. HeldInv'
  BY <1>1 DEF SeasonInv, HeldInv, TypeOK, SeasonInGroup, Writers
<1> QED  BY <1>2, <1>3 DEF SeasonInv, SeasonsStayInGroup, DanglingOnlyByRace, PointedTo

\* Every step keeps the invariant.
LEMMA NextKeepsSeason == SeasonInv /\ [Next]_vars => SeasonInv'
<1> SUFFICES ASSUME SeasonInv, [Next]_vars PROVE SeasonInv'
  OBVIOUS
<1>1. ASSUME NEW h \in Handler, NEW g \in Group, NEW s \in Season, DeleteAssert(h, g, s)
      PROVE  SeasonInv'
  <2>1. /\ Begin(h, "readCurrent", g, {}, s) /\ s \in SeasonRef
        /\ season[s] = "live" /\ SeasonGroup[s] = g
        /\ UNCHANGED <<season, currentSeasonId, status, seasonId, raced>>
    BY <1>1 DEF DeleteAssert, SeasonInGroup, SeasonRef
  <2> QED  BY <2>1, BeginKeepsInv
<1>2. ASSUME NEW h \in Handler, NEW g \in Group, NEW s \in Season, SetCurrentAssert(h, g, s)
      PROVE  SeasonInv'
  <2>1. /\ Begin(h, "setCurrent", g, {}, s) /\ s \in SeasonRef
        /\ season[s] = "live" /\ SeasonGroup[s] = g
        /\ UNCHANGED <<season, currentSeasonId, status, seasonId, raced>>
    BY <1>2 DEF SetCurrentAssert, SeasonInGroup, SeasonRef
  <2> QED  BY <2>1, BeginKeepsInv
<1>3. ASSUME NEW h \in Handler, DeleteRead(h)
      PROVE  SeasonInv'
  <2>1. /\ arg' \in [Handler -> Local]
        /\ \A o \in Handler : arg'[o].season = arg[o].season /\ arg'[o].group = arg[o].group
                              /\ arg'[o].games = arg[o].games
    <3>1. PICK b \in BOOLEAN : arg' = [arg EXCEPT ![h] = [@ EXCEPT !.wasCurrent = b]]
      BY <1>3, Zenon DEF DeleteRead
    <3> QED  BY <3>1 DEF SeasonInv, TypeOK, Local
  <2> QED  BY <1>3, <2>1, MoveKeepsInv DEF DeleteRead
<1>4. ASSUME NEW h \in Handler, DeleteSeason(h)
      PROVE  SeasonInv'
  BY <1>4, DeleteSeasonKeepsInv
<1>5. ASSUME NEW h \in Handler, SetCurrentSeason(h)
      PROVE  SeasonInv'
  <2>1. /\ currentSeasonId' \in [Group -> SeasonRef]
        /\ \A g \in Group : currentSeasonId'[g] # currentSeasonId[g] =>
             currentSeasonId'[g] = arg[h].season /\ g = arg[h].group
    BY <1>5 DEF SetCurrentSeason, SeasonInv, TypeOK, Local
  <2> QED  BY <1>5, <2>1, WriteKeepsInv DEF SetCurrentSeason, SeasonInv, TypeOK, Writers
<1>6. ASSUME NEW h \in Handler, NEW g \in Group, NEW games \in SUBSET Game,
             NEW s \in SeasonRef, AssignAssertGames(h, g, games, s)
      PROVE  SeasonInv'
  <2>1. CASE s = NoSeason
    BY <1>6, <2>1, BeginKeepsInv DEF AssignAssertGames
  <2>2. CASE s # NoSeason
    BY <1>6, <2>2, BeginKeepsInv DEF AssignAssertGames, Writers
  <2> QED  BY <2>1, <2>2
<1>7. ASSUME NEW h \in Handler, AssignAssertSeason(h)
      PROVE  SeasonInv'
  <2>1. CASE SeasonInGroup(arg[h].season, arg[h].group)
    BY <1>7, <2>1, MoveKeepsInv DEF AssignAssertSeason, SeasonInv, TypeOK
  <2>2. CASE ~SeasonInGroup(arg[h].season, arg[h].group)
    BY <1>7, <2>2, RefusalKeepsInv DEF AssignAssertSeason
  <2> QED  BY <2>1, <2>2
<1>8. ASSUME NEW h \in Handler, AssignSeason(h)
      PROVE  SeasonInv'
  <2>1. /\ seasonId' \in [Game -> SeasonRef]
        /\ \A x \in Game : seasonId'[x] # seasonId[x] =>
             seasonId'[x] = arg[h].season /\ GameGroup[x] = arg[h].group
    BY <1>8 DEF AssignSeason, SeasonInv, TypeOK, Local
  <2> QED  BY <1>8, <2>1, WriteKeepsInv DEF AssignSeason, SeasonInv, TypeOK, Writers
<1>9. ASSUME NEW h \in Handler, NEW g \in Group, ResolveCurrent(h, g)
      PROVE  SeasonInv'
  <2>1. currentSeasonId[g] \in SeasonRef
    BY DEF SeasonInv, TypeOK
  <2>2. currentSeasonId[g] # NoSeason =>
          /\ season[currentSeasonId[g]] # "none" /\ SeasonGroup[currentSeasonId[g]] = g
          /\ season[currentSeasonId[g]] = "deleted" => currentSeasonId[g] \in raced
    BY <2>1 DEF SeasonInv, TypeOK, SeasonsStayInGroup, DanglingOnlyByRace, PointedTo, SeasonRef
  <2> QED  BY <1>9, <2>1, <2>2, BeginKeepsInv DEF ResolveCurrent
<1>10. ASSUME NEW h \in Handler, NEW x \in Game, ResolveExisting(h, x)
       PROVE  SeasonInv'
  <2>1. seasonId[x] \in SeasonRef /\ GameGroup[x] \in Group
    BY DEF SeasonInv, TypeOK
  <2>2. seasonId[x] # NoSeason =>
          /\ season[seasonId[x]] # "none" /\ SeasonGroup[seasonId[x]] = GameGroup[x]
          /\ season[seasonId[x]] = "deleted" => seasonId[x] \in raced
    BY <2>1 DEF SeasonInv, TypeOK, SeasonsStayInGroup, DanglingOnlyByRace, PointedTo, SeasonRef
  <2> QED  BY <1>10, <2>1, <2>2, BeginKeepsInv DEF ResolveExisting
<1>11. ASSUME NEW h \in Handler, NEW x \in Game, InsertGame(h, x)
       PROVE  SeasonInv'
  <2>1. /\ seasonId' \in [Game -> SeasonRef]
        /\ status' \in [Game -> {"none", "live", "DELETED"}]
        /\ \A y \in Game : seasonId'[y] # seasonId[y] =>
             seasonId'[y] = arg[h].season /\ GameGroup[y] = arg[h].group
    BY <1>11 DEF InsertGame, SeasonInv, TypeOK, Local
  <2> QED  BY <1>11, <2>1, WriteKeepsInv DEF InsertGame, SeasonInv, TypeOK, Writers
<1>12. ASSUME NEW h \in Handler, OverwriteGame(h)
       PROVE  SeasonInv'
  <2>1. /\ seasonId' \in [Game -> SeasonRef]
        /\ \A y \in Game : seasonId'[y] # seasonId[y] =>
             seasonId'[y] = arg[h].season /\ GameGroup[y] = arg[h].group
    BY <1>12 DEF OverwriteGame, SeasonInv, HeldInv, TypeOK, Local
  <2> QED  BY <1>12, <2>1, WriteKeepsInv DEF OverwriteGame, SeasonInv, TypeOK, Writers
<1>13. ASSUME NEW h \in Handler, Fail(h)
       PROVE  SeasonInv'
  BY <1>13, RefusalKeepsInv DEF Fail
<1>14. ASSUME NEW s \in Season, CreateSeason(s)
       PROVE  SeasonInv'
  <2>1. /\ season' = [season EXCEPT ![s] = "live"] /\ season[s] = "none"
        /\ UNCHANGED <<currentSeasonId, status, seasonId, pc, arg, raced>>
    BY <1>14 DEF CreateSeason, handlers
  <2>2. \A o \in Handler : arg[o].season \in SeasonRef
    BY DEF SeasonInv, TypeOK, Local
  <2>3. TypeOK' /\ DanglingOnlyByRace'
    BY <2>1 DEF SeasonInv, TypeOK, DanglingOnlyByRace, PointedTo
  <2>4. HeldInv'
    BY <2>1, <2>2 DEF SeasonInv, HeldInv, TypeOK, Writers, SeasonRef
  <2> QED  BY <2>1, <2>3, <2>4 DEF SeasonInv, SeasonsStayInGroup
<1>15. ASSUME NEW g \in Group, ClearCurrent(g)
       PROVE  SeasonInv'
  BY <1>15 DEF ClearCurrent, handlers, SeasonInv, TypeOK, SeasonsStayInGroup, DanglingOnlyByRace,
               HeldInv, PointedTo, SeasonRef
<1>16. ASSUME NEW x \in Game, DeleteGame(x) \/ UpdateGameStatus(x)
       PROVE  SeasonInv'
  BY <1>16 DEF DeleteGame, UpdateGameStatus, handlers, SeasonInv, TypeOK, SeasonsStayInGroup,
               DanglingOnlyByRace, HeldInv, PointedTo
<1>17. CASE UNCHANGED vars
  BY <1>17 DEF vars, SeasonInv, TypeOK, SeasonsStayInGroup, DanglingOnlyByRace, HeldInv, PointedTo
<1> QED
  BY <1>1, <1>2, <1>3, <1>4, <1>5, <1>6, <1>7, <1>8, <1>9, <1>10, <1>11, <1>12, <1>13, <1>14,
     <1>15, <1>16, <1>17 DEF Next, SeasonStep, GameStep

-----------------------------------------------------------------------------
\* Rows and pointers stay in their domains (Season, Game.seasonId and
\* Group.currentSeasonId).
THEOREM SeasonTypeCorrect == Spec => []TypeOK
<1>1. SeasonInv => TypeOK
  BY DEF SeasonInv
<1> QED  BY <1>1, InitSeason, NextKeepsSeason, PTL DEF Spec

\* No interleaving of requests, whatever ids they name, moves a game or a group to
\* a season of another group (assertSeasonInGroup, assertIdsInGroup).
THEOREM SeasonOwnership == Spec => []SeasonsStayInGroup
<1>1. SeasonInv => SeasonsStayInGroup
  BY DEF SeasonInv
<1> QED  BY <1>1, InitSeason, NextKeepsSeason, PTL DEF Spec

\* A pointer to a deleted season is always the trace of a race with its deletion
\* (the order of the statements of deleteSeason).
THEOREM DanglingNeedsRace == Spec => []DanglingOnlyByRace
<1>1. SeasonInv => DanglingOnlyByRace
  BY DEF SeasonInv
<1> QED  BY <1>1, InitSeason, NextKeepsSeason, PTL DEF Spec
=============================================================================
