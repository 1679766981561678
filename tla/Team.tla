--------------------------------- MODULE Team ---------------------------------
(***************************************************************************)
(* The teams of a group: TeamService's transactions over Team and          *)
(* TeamPlayer, the players, and the page that edits them.  The page shows  *)
(* an edit at once, sends the team 400 ms after the last edit of it, and   *)
(* loads everything again when that fails.                                 *)
(*                                                                         *)
(* The database is PostgreSQL at READ COMMITTED: a statement sees what is  *)
(* committed when it begins and what its own transaction did, waits for     *)
(* another that deleted a row it deletes or inserted a key it inserts, and *)
(* a deadlock aborts one.  Names, back numbers and the upload of teams a browser      *)
(* kept are left out; a list of players is a set.  The calls of other      *)
(* devices name any teams, and players that were given out; a load reads   *)
(* players and teams at once.                                              *)
(***************************************************************************)
EXTENDS Integers, Sequences, SequencesExt

CONSTANTS
    Player,
    Teams,     \* teams there are at first
    MaxTeams,  \* bound: teams that are created
    MaxCalls,  \* bound: calls of all devices, next to one load
    MaxOthers, \* bound: calls of other devices
    MaxTaps    \* bound: edits on the page

ASSUME BoundAssumption ==
    Teams \in Nat /\ MaxTeams \in Nat /\ Teams <= MaxTeams
    /\ MaxCalls \in Nat /\ MaxOthers \in Nat /\ MaxTaps \in Nat

VARIABLES
    alive,     \* the rows of Player
    fresh,     \* ids of players that were not given out
    teams,     \* the rows of Team
    lastTeam,  \* its serial
    rows,      \* the rows of TeamPlayer
    call, sent,  \* the calls, by the order in which they were sent
    open, free, squad, picked, timers,  \* the page and its state
    taps, others,  \* bound: edits, and calls of other devices, so far
    behind     \* history: the page may differ from the server

server == <<alive, fresh, teams, lastTeam, rows>>
page   == <<open, free, squad, picked, timers>>
bounds == <<taps, others>>
vars   == <<server, call, sent, page, bounds, behind>>

TeamId  == 1..MaxTeams
CallId  == 1..(MaxCalls + 1)
Row     == [team : TeamId, player : Player]
Squads  == UNION {[T -> SUBSET Player] : T \in SUBSET TeamId}
Kinds   == {"update", "create", "delete", "reset", "bulk",
            "rename", "load", "players", "addPlayer", "deletePlayer", "savePlayer", "none"}
\* Where a call stands: on its way, at a statement of its transaction, answered, done.
Steps   == {"sent", "steal", "clear", "drop", "insert", "commit"}
Call    == [kind : Kinds, own : BOOLEAN, team : 0..MaxTeams, players : SUBSET Player,
            pc : Steps \cup {"ok", "error", "unique", "done"}, left : SUBSET Player,
            seen : SUBSET Row, dead : SUBSET Row, born : SUBSET Row, gone : SUBSET TeamId, crossed : BOOLEAN,
            free : SUBSET Player, squad : Squads]
Nowhere == [t \in {} |-> {}]
Done    == [kind |-> "none", own |-> FALSE, team |-> 0, players |-> {}, pc |-> "done", left |-> {},
            seen |-> {}, dead |-> {}, born |-> {}, gone |-> {}, crossed |-> FALSE, free |-> {},
            squad |-> Nowhere]

\* getTeamsByGroupId: players that are deleted, and rows without a team, are not shown.
Members(t) == {r.player : r \in {x \in rows : x.team = t /\ x.player \in alive}}
Composition == [t \in teams |-> Members(t)]
Assigned(s) == UNION {s[t] : t \in DOMAIN s}

\* A page that is loaded and shows some composition.
Init ==
    /\ fresh \in SUBSET Player /\ alive = Player \ fresh
    /\ teams = 1..Teams /\ lastTeam = Teams
    /\ \E T \in SUBSET alive : \E s \in [T -> teams] : rows = {[team |-> s[p], player |-> p] : p \in T}
    /\ call = [i \in CallId |-> Done] /\ sent = 0 /\ taps = 0 /\ others = 0 /\ behind = FALSE
    /\ open = TRUE /\ squad = Composition /\ free = alive \ Assigned(squad)
    /\ picked = {} /\ timers = {}

InFlight(i) == call[i].pc # "done"
Mine        == {i \in CallId : InFlight(i) /\ call[i].own}
Loading     == \E i \in Mine : call[i].kind = "load"

\* What a statement of i deletes.  One that waits has seen rows, and deletes those of them
\* that are left; rows that were inserted since are not among them.
\* The mutant deletes rows of the players only, and leaves others in the team.
DeletingPlayers(i) == {r \in rows : r.player \in call[i].players} \ call[i].dead
Deleting(i) ==
    (IF call[i].seen # {} THEN rows \cap call[i].seen
     ELSE IF call[i].pc = "steal" THEN {r \in rows : r.player \in call[i].players}
     ELSE {r \in rows : call[i].kind = "reset" \/ r.team = call[i].team}) \ call[i].dead
Free(i, R) == \A j \in CallId \ {i} : R \cap call[j].dead = {}

-----------------------------------------------------------------------------
(* TeamService                                                             *)

Advance(i, c) == call' = [call EXCEPT ![i] = c] /\ UNCHANGED sent
\* What another device is answered is of no interest here.
End(c, pc)    == IF c.own THEN [c EXCEPT !.pc = pc, !.left = {}, !.seen = {}, !.dead = {}, !.born = {},
                                         !.gone = {}, !.crossed = FALSE]
                 ELSE Done
InsertNext(c) == [c EXCEPT !.pc = IF c.left = {} THEN "commit" ELSE "insert"]

\* What a handler reads before its transaction begins.
BeginUpdate(i) ==
    /\ call[i].pc = "sent" /\ call[i].kind = "update"
    /\ Advance(i, IF call[i].team \in teams THEN [call[i] EXCEPT !.pc = "steal", !.left = call[i].players]
                                           ELSE End(call[i], "error"))
    /\ UNCHANGED <<server, page, bounds, behind>>

BeginDelete(i) ==
    /\ call[i].pc = "sent" /\ call[i].kind \in {"delete", "reset"}
    /\ Advance(i, IF call[i].kind = "reset" \/ call[i].team \in teams
                  THEN [call[i] EXCEPT !.pc = "clear"] ELSE End(call[i], "error"))
    /\ UNCHANGED <<server, page, bounds, behind>>

\* createTeam.
BeginCreate(i) ==
    /\ call[i].pc = "sent" /\ call[i].kind = "create" /\ lastTeam < MaxTeams
    /\ lastTeam' = lastTeam + 1
    /\ Advance(i, [call[i] EXCEPT !.team = lastTeam + 1, !.left = call[i].players, !.pc = "steal"])
    /\ UNCHANGED <<alive, fresh, teams, rows, page, bounds, behind>>

\* bulkCreateTeams for one team: it does not see a team that is not committed, and
\* steals no players.
BeginBulk(i) ==
    /\ call[i].pc = "sent" /\ call[i].kind = "bulk" /\ lastTeam < MaxTeams
    /\ IF teams # {}
       THEN Advance(i, End(call[i], "error")) /\ UNCHANGED lastTeam
       ELSE /\ lastTeam' = lastTeam + 1
            /\ Advance(i, InsertNext([call[i] EXCEPT !.team = lastTeam + 1, !.left = call[i].players \cap alive]))
    /\ UNCHANGED <<alive, fresh, teams, rows, page, bounds, behind>>

\* A statement waits for a transaction that deletes one of the rows it has seen.
Wait(i) ==
    /\ call[i].pc \in {"steal", "clear"} /\ call[i].seen = {} /\ ~Free(i, Deleting(i))
    /\ Advance(i, [call[i] EXCEPT !.seen = Deleting(i)])
    /\ UNCHANGED <<server, page, bounds, behind>>

\* replaceTeamPlayers: deleteByGroupIdAndPlayerIds, deleteByTeamId, then row by row.
Steal(i) ==
    /\ call[i].pc = "steal" /\ Free(i, Deleting(i))
    /\ Advance(i, [call[i] EXCEPT !.pc = "clear", !.seen = {}, !.dead = @ \cup Deleting(i)])
    /\ UNCHANGED <<server, page, bounds, behind>>

Clear(i) ==
    /\ call[i].pc = "clear" /\ Free(i, Deleting(i))
    /\ LET c == [call[i] EXCEPT !.seen = {}, !.dead = @ \cup Deleting(i)] IN
       Advance(i, IF c.kind \in {"delete", "reset"} THEN [c EXCEPT !.pc = "drop"] ELSE InsertNext(c))
    /\ UNCHANGED <<server, page, bounds, behind>>

\* deleteTeam, deleteByGroupId.
Drop(i) ==
    /\ call[i].pc = "drop"
    /\ Advance(i, [call[i] EXCEPT !.pc = "commit",
                     !.gone = IF call[i].kind = "reset" THEN teams ELSE {call[i].team}])
    /\ UNCHANGED <<server, page, bounds, behind>>

\* The key of TeamPlayer is unique in group and player: a row with the key fails the
\* insert, one that another transaction deletes or inserts makes it wait.  A row that is
\* there already is saved again.
\* The mutant has no such key.
NeverTaken(i, p) == FALSE
Taken(i, p) == \E r \in rows \ call[i].dead : r.player = p
Held(i, p)  == \E j \in CallId \ {i} : \E r \in call[j].dead \cup call[j].born : r.player = p

Insert(i, p) ==
    /\ call[i].pc = "insert" /\ p \in call[i].left /\ ~Held(i, p)
    /\ LET r == [team |-> call[i].team, player |-> p]  there == rows \ call[i].dead IN
       Advance(i, IF r \notin there /\ Taken(i, p) THEN End(call[i], "unique")
                  ELSE InsertNext([call[i] EXCEPT !.left = @ \ {p}, !.born = @ \cup ({r} \ there)]))
    /\ UNCHANGED <<server, page, bounds, behind>>

\* History: a transaction over the same team is crossed by the commit, and a call of
\* the page that is committed before one it sent earlier leaves the page behind.
Commit(i) ==
    /\ call[i].pc = "commit"
    /\ rows' = (rows \ call[i].dead) \cup call[i].born
    /\ teams' = (teams \cup (IF call[i].kind \in {"create", "bulk"} THEN {call[i].team} ELSE {})) \ call[i].gone
    /\ call' = [j \in CallId |->
                  IF j = i THEN End(call[i], "ok")
                  ELSE [call[j] EXCEPT !.crossed = @ \/ (call[j].team = call[i].team
                                                         /\ call[j].pc \in Steps \ {"sent"})]]
    /\ behind' = (behind \/ ~call[i].own \/ call[i].crossed
                          \/ \E j \in Mine : j < i /\ call[j].pc \in Steps)
    /\ UNCHANGED <<alive, fresh, lastTeam, sent, page, bounds>>

\* A statement throws, or the transaction is the victim of a deadlock.
Abort(i) ==
    /\ call[i].pc \in Steps
    /\ Advance(i, End(call[i], "error"))
    /\ UNCHANGED <<server, page, bounds, behind>>

-----------------------------------------------------------------------------
(* Reads, and the handlers of players                                      *)

\* History: what is read while another call of the page is on its way may be old.
Read(i) ==
    /\ call[i].pc = "sent" /\ call[i].kind \in {"load", "players"}
    /\ Advance(i, [call[i] EXCEPT !.pc = "ok", !.free = alive, !.squad = Composition])
    /\ behind' = (behind \/ \E j \in Mine \ {i} : call[j].pc \in Steps)
    /\ UNCHANGED <<server, page, bounds>>

CreatePlayer(i, p) ==
    /\ call[i].pc = "sent" /\ call[i].kind = "addPlayer" /\ p \in fresh
    /\ alive' = alive \cup {p} /\ fresh' = fresh \ {p}
    /\ Advance(i, End([call[i] EXCEPT !.players = {p}], "ok"))
    /\ behind' = (behind \/ ~call[i].own)
    /\ UNCHANGED <<teams, lastTeam, rows, page, bounds>>

\* The row goes, its rows in TeamPlayer stay.
DeletePlayer(i) ==
    /\ call[i].pc = "sent" /\ call[i].kind = "deletePlayer"
    /\ Advance(i, End(call[i], IF call[i].players \subseteq alive THEN "ok" ELSE "error"))
    /\ alive' = alive \ call[i].players
    /\ behind' = (behind \/ ~call[i].own)
    /\ UNCHANGED <<fresh, teams, lastTeam, rows, page, bounds>>

\* The name changes, of a player or (updateTeam without players) of a team.
Rename(i) ==
    /\ call[i].pc = "sent" /\ call[i].kind \in {"savePlayer", "rename"}
    /\ Advance(i, End(call[i], IF call[i].players \subseteq alive
                                  /\ (call[i].kind = "rename" => call[i].team \in teams)
                               THEN "ok" ELSE "error"))
    /\ UNCHANGED <<server, page, bounds, behind>>

-----------------------------------------------------------------------------
(* The page                                                                *)

\* A call with what its handler has in its closure: the state it was rendered with.
Request(kind, t, S) == [Done EXCEPT !.kind = kind, !.own = TRUE, !.team = t, !.players = S,
                                    !.pc = "sent", !.free = free, !.squad = squad]
Send(calls, c) == /\ sent < MaxCalls + (IF c.kind \in {"load", "players"} THEN 1 ELSE 0)
                  /\ call' = [calls EXCEPT ![sent + 1] = c] /\ sent' = sent + 1
Close(i)       == [call EXCEPT ![i] = Done]
Abandon(i)     == [call EXCEPT ![i] = [@ EXCEPT !.own = FALSE]]
Finish(i)      == call' = Close(i) /\ UNCHANGED sent
Reload(i)      == Send(Close(i), Request("load", 0, {}))

\* History: only updates of teams may be on their way together.
Overlaps(kind) == \E j \in Mine : kind # "update" \/ call[j].kind # "update"

\* While it loads, the page shows nothing to tap.
Tap == open /\ ~Loading /\ taps < MaxTaps /\ taps' = taps + 1 /\ UNCHANGED others

Open ==
    /\ ~open /\ open' = TRUE
    /\ free' = {} /\ squad' = Nowhere /\ picked' = {} /\ timers' = {}
    /\ Send(call, [Request("load", 0, {}) EXCEPT !.free = {}, !.squad = Nowhere])
    /\ behind' = (\E i \in CallId : InFlight(i))
    /\ UNCHANGED <<server, bounds>>

Select(p) ==
    /\ Tap /\ p \in free
    /\ picked' = IF p \in picked THEN picked \ {p} ELSE picked \cup {p}
    /\ UNCHANGED <<server, call, sent, open, free, squad, timers, behind>>

\* scheduleSync: each team has a timer of its own; the mutant has one for all.
OnlySync(t)     == timers' = {t}
ScheduleSync(t) == timers' = timers \cup {t}

\* handleAddToTeam and handleRemoveFromTeam.
AddToTeam(t) ==
    /\ Tap /\ picked # {} /\ t \in DOMAIN squad
    /\ squad' = [squad EXCEPT ![t] = @ \cup picked]
    /\ free' = free \ picked /\ picked' = {}
    /\ ScheduleSync(t)
    /\ behind' = (behind \/ ~(picked \subseteq free))
    /\ UNCHANGED <<server, call, sent, open>>

RemoveFromTeam(t, p) ==
    /\ Tap /\ t \in DOMAIN squad /\ p \in squad[t]
    /\ squad' = [squad EXCEPT ![t] = @ \ {p}]
    /\ free' = free \cup {p}
    /\ ScheduleSync(t)
    /\ UNCHANGED <<server, call, sent, open, picked, behind>>

\* The timer of team t fires: what the team is now is sent.
Fire(t) ==
    /\ open /\ t \in timers /\ timers' = timers \ {t}
    /\ IF t \in DOMAIN squad THEN Send(call, Request("update", t, squad[t])) ELSE UNCHANGED <<call, sent>>
    /\ behind' = (behind \/ (t \in DOMAIN squad /\ Overlaps("update")))
    /\ UNCHANGED <<server, open, free, squad, picked, bounds>>

\* A tap that calls the server: create, rename, delete and reset teams, and players.
Submit(kind, t, S) ==
    /\ Tap
    /\ kind \in {"delete", "rename"} => t \in DOMAIN squad
    /\ kind = "reset" => DOMAIN squad # {}
    /\ kind \in {"deletePlayer", "savePlayer"} => \E p \in free \cup Assigned(squad) : S = {p}
    /\ Send(call, Request(kind, t, S))
    /\ behind' = (behind \/ Overlaps(kind))
    /\ UNCHANGED <<server, page>>

\* An answer that is handled sets the lists from the closure.  History: the page may
\* have changed since.
Answered(i, kind) == i \in Mine /\ call[i].kind = kind /\ call[i].pc = "ok"
Show(i, f, s) ==
    /\ free' = f /\ squad' = s
    /\ behind' = (behind \/ call[i].free # free \/ call[i].squad # squad)
    /\ UNCHANGED <<server, open, picked, timers, bounds>>
Without(s, t) == [u \in DOMAIN s \ {t} |-> s[u]]

LoadAnswer(i) ==
    /\ Answered(i, "load") /\ Finish(i)
    /\ squad' = call[i].squad /\ free' = call[i].free \ Assigned(call[i].squad)
    /\ UNCHANGED <<server, open, picked, timers, bounds, behind>>

CreateAnswer(i) ==
    /\ Answered(i, "create") /\ Finish(i)
    /\ Show(i, free, [u \in DOMAIN call[i].squad \cup {call[i].team} |->
                        IF u = call[i].team THEN {} ELSE call[i].squad[u]])

DeleteAnswer(i) ==
    /\ Answered(i, "delete") /\ Finish(i)
    /\ Show(i, call[i].free \cup call[i].squad[call[i].team], Without(call[i].squad, call[i].team))

\* handleResetTeams asks for the players before it lists them.
ResetAnswer(i) ==
    /\ Answered(i, "reset")
    /\ Send(Close(i), [Request("players", 0, {}) EXCEPT !.squad = Nowhere])
    /\ Show(i, free, Nowhere)

PlayersAnswer(i) ==
    /\ Answered(i, "players") /\ Finish(i)
    /\ free' = call[i].free
    /\ behind' = (behind \/ squad # Nowhere)
    /\ UNCHANGED <<server, open, squad, picked, timers, bounds>>

AddPlayerAnswer(i) ==
    /\ Answered(i, "addPlayer") /\ Finish(i)
    /\ Show(i, call[i].free \cup call[i].players, squad)

DeletePlayerAnswer(i) ==
    /\ Answered(i, "deletePlayer") /\ Finish(i)
    /\ Show(i, call[i].free \ call[i].players, [u \in DOMAIN call[i].squad |-> call[i].squad[u] \ call[i].players])

SavePlayerAnswer(i) ==
    /\ Answered(i, "savePlayer") /\ Finish(i)
    /\ Show(i, call[i].free, call[i].squad)

RenameAnswer(i) ==
    /\ Answered(i, "rename") /\ Finish(i)
    /\ Show(i, free, call[i].squad)

UpdateAnswer(i) ==
    /\ Answered(i, "update") /\ Finish(i)
    /\ UNCHANGED <<server, page, bounds, behind>>

\* A call fails for the page while the server goes on with it.  History: what the server
\* does to it later is not shown.
LostCall(i) ==
    /\ i \in Mine /\ call[i].pc \in Steps /\ call[i].kind \notin {"load", "players"}
    /\ IF call[i].kind = "update" THEN Send(Abandon(i), Request("load", 0, {}))
       ELSE call' = Abandon(i) /\ UNCHANGED sent
    /\ behind' = TRUE
    /\ UNCHANGED <<server, page, bounds>>

\* The call failed, or its answer is lost.  History: only a failed update loads again.
FailedAnswer(i) ==
    /\ i \in Mine /\ call[i].pc \in {"ok", "error", "unique"}
    /\ IF call[i].kind = "update"
       THEN Reload(i) /\ UNCHANGED behind
       ELSE Finish(i) /\ behind' = (behind \/ call[i].pc = "ok" \/ call[i].kind \in {"load", "players"})
    /\ UNCHANGED <<server, page, bounds>>

\* The page is left: what waits for its timer is sent at once, and no answer is handled.
Leave ==
    /\ open /\ open' = FALSE
    /\ LET last == SetToSeq(timers \cap DOMAIN squad) IN
       /\ sent' = sent + Len(last) /\ sent' <= MaxCalls
       /\ call' = [i \in CallId |->
                     [(IF i \in sent + 1..sent' THEN Request("update", last[i - sent], squad[last[i - sent]])
                       ELSE call[i]) EXCEPT !.own = FALSE]]
    /\ free' = {} /\ squad' = Nowhere /\ picked' = {} /\ timers' = {}
    /\ behind' = TRUE
    /\ UNCHANGED <<server, bounds>>

\* Another device calls a handler.
OtherCall(kind, t, S) ==
    /\ others < MaxOthers /\ others' = others + 1
    /\ Send(call, [Request(kind, t, S) EXCEPT !.own = FALSE, !.free = {}, !.squad = Nowhere])
    /\ behind' = TRUE
    /\ UNCHANGED <<server, page, taps>>

ServerStep(i) ==
    \/ BeginUpdate(i) \/ BeginDelete(i) \/ BeginCreate(i) \/ BeginBulk(i)
    \/ Wait(i) \/ Steal(i) \/ Clear(i) \/ Drop(i) \/ Commit(i)
    \/ Abort(i) \/ Read(i) \/ DeletePlayer(i) \/ Rename(i)
    \/ \E p \in Player : Insert(i, p) \/ CreatePlayer(i, p)

PageStep ==
    \/ Open \/ Leave
    \/ \E p \in Player : Select(p)
    \/ \E t \in TeamId : AddToTeam(t) \/ Fire(t) \/ \E p \in Player : RemoveFromTeam(t, p)
    \/ \E k \in {"create", "reset", "addPlayer"} : Submit(k, 0, {})
    \/ \E k \in {"delete", "rename"}, t \in TeamId : Submit(k, t, {})
    \/ \E k \in {"deletePlayer", "savePlayer"}, p \in Player : Submit(k, 0, {p})

AnswerStep(i) ==
    \/ LoadAnswer(i) \/ CreateAnswer(i) \/ DeleteAnswer(i) \/ ResetAnswer(i) \/ PlayersAnswer(i)
    \/ AddPlayerAnswer(i) \/ DeletePlayerAnswer(i) \/ SavePlayerAnswer(i) \/ RenameAnswer(i)
    \/ UpdateAnswer(i) \/ FailedAnswer(i) \/ LostCall(i)

OtherStep ==
    \/ \E t \in TeamId, S \in SUBSET (Player \ fresh) : OtherCall("update", t, S)
    \/ \E k \in {"create", "bulk"}, S \in SUBSET (Player \ fresh) : OtherCall(k, 0, S)
    \/ \E t \in TeamId : OtherCall("delete", t, {})
    \/ OtherCall("reset", 0, {})
    \/ \E p \in Player \ fresh : OtherCall("deletePlayer", 0, {p})

Next ==
    \/ PageStep \/ OtherStep
    \/ \E i \in CallId : ServerStep(i) \/ AnswerStep(i)

Spec == Init /\ [][Next]_vars

-----------------------------------------------------------------------------
\* Rows, calls and the page stay in their domains.
TypeOK ==
    /\ alive \subseteq Player /\ fresh \subseteq Player
    /\ teams \subseteq 1..lastTeam /\ lastTeam \in 0..MaxTeams /\ rows \subseteq Row
    /\ call \in [CallId -> Call] /\ sent \in 0..(MaxCalls + 1)
    /\ open \in BOOLEAN /\ free \subseteq Player /\ squad \in Squads
    /\ picked \subseteq Player /\ timers \subseteq TeamId
    /\ taps \in 0..MaxTaps /\ others \in 0..MaxOthers /\ behind \in BOOLEAN

\* However transactions interleave, a player is in one team of the group.
OneTeamPerPlayer == \A r, s \in rows : r.player = s.player => r = s

\* An update leaves its team with the players it names and takes them out of every other,
\* unless another transaction over that team was committed while it ran.
UpdateReplaces ==
    [][\A i \in CallId :
          Commit(i) /\ call[i].kind = "update" /\ ~call[i].crossed
          => {r \in rows' : r.team = call[i].team \/ r.player \in call[i].players}
             = {[team |-> call[i].team, player |-> p] : p \in call[i].players}]_vars

\* A page on its own shows the teams of the server and every player once, when nothing is
\* left to send or to answer: if its calls were committed in the order in which it sent
\* them, none over a team that another was writing, if only updates of teams were on their
\* way together, if its state did not change under an answer, and if no player that was
\* selected was deleted before it was assigned.
EditsConverge ==
    open /\ ~behind /\ timers = {} /\ Mine = {} =>
        squad = Composition /\ free = alive \ Assigned(squad)

\* "Even when two devices assign one player to two teams at once, it converges to a final
\* state instead of a violation of the unique key" (team.service.ts:190).
AssignmentsConverge ==
    \A i \in CallId : call[i].kind = "update" => call[i].pc # "unique"
=============================================================================
