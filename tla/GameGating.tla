----------------------------- MODULE GameGating -----------------------------
(***************************************************************************)
(* The free limit: GameService.saveGameAndLogs for a new game, and         *)
(* AdminService.startMonetization.                                         *)
(*                                                                         *)
(* Both are PostgreSQL transactions at READ COMMITTED: a statement reads   *)
(* what is committed when it begins; an UPDATE holds the lock of its row   *)
(* until its transaction ends, waits for that of another, and then works   *)
(* on the row that transaction left.                                       *)
(***************************************************************************)
EXTENDS Integers, FiniteSets

CONSTANTS
    Group,     \* tenants
    Request,   \* requests that create a game; a game has the id of its request
    ByAdmin,   \* the requests whose token has the role admin
    GroupOf,   \* the group of each request
    Start,     \* requests that start monetization
    Scan,      \* the order in which an UPDATE of every group meets the rows
    Limit      \* getFreeGameLimit()

ASSUME RequestAssumption == IsFiniteSet(Request) /\ GroupOf \in [Request -> Group]
ASSUME StartAssumption   == Start \cap Request = {} /\ ByAdmin \subseteq Request
ASSUME ScanAssumption    == Scan \in [Group -> Nat] /\ \A g, h \in Group : Scan[g] = Scan[h] => g = h
ASSUME LimitAssumption   == Limit \in Nat

VARIABLES
    monetized,      \* is the setting MONETIZATION_STARTED_KEY committed
    freeGamesUsed,  \* the counter of each group, as committed
    game,           \* the status of each game: "none" before it is committed
    subscribed,     \* has the group an active or past_due subscription
    lock,           \* the transaction, if any, that holds the row of a group
    written,        \* the counter it has written there
    counted,        \* the games of each group that an UPDATE counted
    pc              \* where each request stands

vars == <<monetized, freeGamesUsed, game, subscribed, lock, written, counted, pc>>
tables == <<monetized, freeGamesUsed, game>>

Txn == Request \cup Start
GamesOf(g) == {r \in Request : GroupOf[r] = g}

Init ==
    /\ monetized = FALSE
    /\ freeGamesUsed \in [Group -> 0..Limit]
    /\ game = [r \in Request |-> "none"]
    /\ subscribed \in [Group -> BOOLEAN]
    /\ lock = [g \in Group |-> {}]
    /\ written = [g \in Group |-> 0]
    /\ counted = [a \in Start |-> [g \in Group |-> 0]]
    /\ pc = [t \in Txn |-> "idle"]

Goto(t, label) == pc' = [pc EXCEPT ![t] = label]
Holds(t) == {g \in Group : t \in lock[g]}
Release(t) == lock' = [g \in Group |-> lock[g] \ {t}]
Publish(t) == freeGamesUsed' =
    [g \in Group |-> IF t \in lock[g] THEN written[g] ELSE freeGamesUsed[g]]

-----------------------------------------------------------------------------
(* saveGameAndLogs without an id                                           *)

\* Before the start, and for an admin, the gate and the counter are off.
ReadSetting(r) ==
    /\ pc[r] = "idle"
    /\ Goto(r, IF monetized /\ r \notin ByAdmin THEN "count" ELSE "save")
    /\ UNCHANGED <<tables, subscribed, lock, written, counted>>

CountActiveSubs(r) ==
    /\ pc[r] = "count"
    /\ Goto(r, IF subscribed[GroupOf[r]] THEN "save" ELSE "consume")
    /\ UNCHANGED <<tables, subscribed, lock, written, counted>>

\* SET "freeGamesUsed" = "freeGamesUsed" + 1 WHERE "freeGamesUsed" < :limit
ConsumeUnchecked(r) ==  \* mutant: the limit is not checked again
    /\ pc[r] = "consume" /\ lock[GroupOf[r]] = {}
    /\ lock' = [lock EXCEPT ![GroupOf[r]] = {r}]
    /\ written' = [written EXCEPT ![GroupOf[r]] = freeGamesUsed[GroupOf[r]] + 1]
    /\ Goto(r, "save")
    /\ UNCHANGED <<tables, subscribed, counted>>
ConsumeOutside(r) ==    \* mutant: the counter is not part of the transaction
    /\ pc[r] = "consume" /\ freeGamesUsed[GroupOf[r]] < Limit
    /\ lock[GroupOf[r]] = {}
    /\ freeGamesUsed' = [freeGamesUsed EXCEPT ![GroupOf[r]] = @ + 1]
    /\ Goto(r, "save")
    /\ UNCHANGED <<monetized, game, lock, written, subscribed, counted>>
Consume(r) ==
    /\ pc[r] = "consume" /\ freeGamesUsed[GroupOf[r]] < Limit
    /\ lock[GroupOf[r]] = {}
    /\ lock' = [lock EXCEPT ![GroupOf[r]] = {r}]
    /\ written' = [written EXCEPT ![GroupOf[r]] = freeGamesUsed[GroupOf[r]] + 1]
    /\ Goto(r, "save")
    /\ UNCHANGED <<tables, subscribed, counted>>

\* No row is affected: 402, and the transaction is rolled back.
Refuse(r) ==
    /\ pc[r] = "consume" /\ freeGamesUsed[GroupOf[r]] >= Limit
    /\ Goto(r, "refused")
    /\ UNCHANGED <<tables, subscribed, lock, written, counted>>

\* The game, its players and its logs are inserted and the transaction commits.
\* A game that took one from the counter ends as "counted".
Commit(r) ==
    /\ pc[r] = "save"
    /\ game' = [game EXCEPT ![r] = "live"]
    /\ Publish(r) /\ Release(r)
    /\ Goto(r, IF Holds(r) # {} THEN "counted" ELSE "done")
    /\ UNCHANGED <<monetized, subscribed, written, counted>>

\* Any of these statements may fail, or the connection is lost with the process.
RollbackKeepsLock(r) == \* mutant: the connection is released in its transaction
    /\ pc[r] = "save"
    /\ Goto(r, "failed")
    /\ UNCHANGED <<tables, subscribed, lock, written, counted>>
Rollback(r) ==
    /\ pc[r] = "save"
    /\ Release(r)
    /\ Goto(r, "failed")
    /\ UNCHANGED <<tables, subscribed, written, counted>>

\* deleteGame keeps the row; updateGameStatus takes any status, so it also
\* brings a deleted game back.
DeleteGame(r) ==
    /\ game[r] = "live"
    /\ game' = [game EXCEPT ![r] = "DELETED"]
    /\ UNCHANGED <<monetized, freeGamesUsed, subscribed, lock, written, counted, pc>>

UpdateGameStatus(r) ==
    /\ game[r] = "DELETED"
    /\ game' = [game EXCEPT ![r] = "live"]
    /\ UNCHANGED <<monetized, freeGamesUsed, subscribed, lock, written, counted, pc>>

-----------------------------------------------------------------------------
(* startMonetization: one UPDATE of every group, and the setting           *)

\* The UPDATE begins: its subquery sees the games that are committed now.
Backfill(a) ==
    /\ pc[a] = "idle"
    /\ counted' = [counted EXCEPT ![a] =
         [g \in Group |-> Cardinality({r \in GamesOf(g) : game[r] = "live"})]]
    /\ Goto(a, "backfill")
    /\ UNCHANGED <<tables, subscribed, lock, written>>

BackfillSum(a, g) == freeGamesUsed[g] + counted[a][g]              \* mutant
Greatest(a, g) ==
    IF freeGamesUsed[g] < counted[a][g] THEN counted[a][g] ELSE freeGamesUsed[g]

\* It meets the rows one by one.
BackfillRow(a, g) ==
    /\ pc[a] = "backfill" /\ lock[g] = {}
    /\ \A h \in Group : Scan[h] < Scan[g] => a \in lock[h]
    /\ lock' = [lock EXCEPT ![g] = {a}]
    /\ written' = [written EXCEPT ![g] = Greatest(a, g)]
    /\ UNCHANGED <<tables, subscribed, counted, pc>>

\* The insert of the setting decides: the second one violates its primary key.
InsertSettingAgain(a) == \* mutant: the setting is upserted
    /\ pc[a] = "backfill" /\ Holds(a) = Group
    /\ monetized' = TRUE
    /\ Publish(a) /\ Release(a)
    /\ Goto(a, "done")
    /\ UNCHANGED <<game, subscribed, written, counted>>
InsertSetting(a) ==
    /\ pc[a] = "backfill" /\ Holds(a) = Group /\ ~monetized
    /\ monetized' = TRUE
    /\ Publish(a) /\ Release(a)
    /\ Goto(a, "done")
    /\ UNCHANGED <<game, subscribed, written, counted>>

\* 409 when it has started already; any other error rolls back as well.
StartFails(a) ==
    /\ pc[a] = "backfill"
    /\ Release(a)
    /\ Goto(a, "failed")
    /\ UNCHANGED <<tables, subscribed, written, counted>>

-----------------------------------------------------------------------------
\* External to this module: a group subscribes, or its subscription ends.
ChangeSubscription(g) ==
    /\ subscribed' = [subscribed EXCEPT ![g] = ~@]
    /\ UNCHANGED <<tables, lock, written, counted, pc>>

SaveStep(r) ==
    \/ ReadSetting(r) \/ CountActiveSubs(r) \/ Consume(r) \/ Refuse(r)
    \/ Commit(r) \/ Rollback(r)

StartStep(a) ==
    \/ Backfill(a) \/ (\E g \in Group : BackfillRow(a, g))
    \/ InsertSetting(a) \/ StartFails(a)

Next ==
    \/ \E r \in Request : SaveStep(r) \/ DeleteGame(r) \/ UpdateGameStatus(r)
    \/ \E a \in Start : StartStep(a)
    \/ \E g \in Group : ChangeSubscription(g)

Spec == Init /\ [][Next]_vars

\* A transaction that has begun runs to its end.
FairSpec ==
    /\ Spec
    /\ \A r \in Request : WF_vars(pc[r] # "idle" /\ SaveStep(r))
    /\ \A a \in Start : WF_vars(pc[a] # "idle" /\ StartStep(a))

-----------------------------------------------------------------------------
\* The counters stay below the limit or the number of games there were.
TypeOK ==
    /\ monetized \in BOOLEAN
    /\ freeGamesUsed \in [Group -> Nat]
    /\ \A g \in Group : freeGamesUsed[g] <= Limit \/ freeGamesUsed[g] <= Cardinality(GamesOf(g))
    /\ game \in [Request -> {"none", "live", "DELETED"}]
    /\ subscribed \in [Group -> BOOLEAN]
    /\ lock \in [Group -> SUBSET Txn]
    /\ written \in [Group -> Nat]
    /\ counted \in [Start -> [Group -> Nat]]
    /\ pc \in [Txn -> {"idle", "count", "consume", "save", "counted", "done", "refused",
                       "failed", "backfill"}]

FreeGames == {r \in Request : pc[r] = "counted"}

\* However many requests run at once, and whatever is deleted in between, a group
\* creates no more free games than the limit once the service is paid for
\* ("prevents the race of concurrent requests", game.service.ts:262).
FreeGamesWithinLimit ==
    \A g \in Group : Cardinality(FreeGames \cap GamesOf(g)) <= Limit

\* The counter moves with a game that is created for free, by one, and once at the
\* start, where it never gets smaller; neither a failed save nor a second start
\* moves it.
CounterMovesWithGames ==
    [][\A g \in Group : freeGamesUsed'[g] # freeGamesUsed[g] =>
          \/ /\ freeGamesUsed'[g] = freeGamesUsed[g] + 1
             /\ \E r \in GamesOf(g) : game[r] = "none" /\ game'[r] = "live"
          \/ /\ freeGamesUsed'[g] > freeGamesUsed[g]
             /\ ~monetized /\ monetized']_vars

\* The transactions implement the quota of FreeQuota: a free game and its count are
\* one step, there is one start, and a failure leaves no trace.
Quota == INSTANCE FreeQuota WITH Game <- Request, gated <- monetized,
                                 used <- freeGamesUsed, free <- FreeGames
RefinesQuota == Quota!QuotaSpec

\* A save that has begun is answered: no transaction waits for a lock forever.
SavesAreAnswered ==
    \A r \in Request :
        pc[r] = "save" \/ pc[r] = "count" \/ pc[r] = "consume"
            ~> pc[r] \in {"counted", "done", "refused", "failed"}
=============================================================================
