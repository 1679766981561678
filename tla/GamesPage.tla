------------------------------ MODULE GamesPage ------------------------------
(***************************************************************************)
(* The page of a group's games: the games in progress, and the finished    *)
(* ones, loaded page by page as the user scrolls, or of a range of dates   *)
(* while the user selects games for a season.  The page sends requests     *)
(* without waiting for each other, and changes its lists by itself when a  *)
(* game is created, finished, deleted or goes on.                          *)
(*                                                                         *)
(* The user may manage the group, and stays in it.  A request that asks    *)
(* for a confirmation is sent when the user taps it: what it uses when it  *)
(* is answered is of that moment.  Dates are typed when they are applied.  *)
(* A game's season is not shown (Season.tla stores it).                    *)
(***************************************************************************)
EXTENDS Integers, Sequences, SequencesExt, FiniteSets, FiniteSetsExt

CONSTANTS
    First,               \* the status of each game there is at first
    MaxGames,            \* bound: ids of games
    InRange,             \* the games of the range of dates that is typed
    FINISHED_PAGE_SIZE,
    MaxSent              \* bound: requests, after the first two, and changes by other devices

VARIABLES
    status,     \* Game.status, "none" before the game is created
    inProgress, finished, hasMore,   \* the lists of the page
    loaded, loading, generation,     \* finishedPageRef, finishedLoadingRef, finishedGenerationRef
    selectMode, selected, rangeApplied, assigning,  \* its other state
    asked, sent,    \* its requests in flight, and how many there were
    shifted,        \* history: the finished games changed since the list was last begun
    behind          \* history: what may differ from the server, or from the mode

lists == <<inProgress, finished, hasMore>>
refs  == <<loaded, loading, generation>>
mode  == <<selectMode, selected, rangeApplied>>
vars  == <<status, lists, refs, mode, assigning, asked, sent, shifted, behind>>

Game   == 1..MaxGames
Loads  == {"initial", "more", "range"}
Moves  == {"create", "finish", "delete", "restart"}

OfStatus(s) == {g \in Game : status[g] = s}
Nth(S, k)   == CHOOSE x \in S : Cardinality({y \in S : y < x}) = k - 1
Newest(S)   == [k \in 1..Cardinality(S) |-> Nth(S, Cardinality(S) + 1 - k)]
Request(kind) ==
    [n |-> sent + 1, kind |-> kind, pc |-> "sent", game |-> 0,
     page |-> 1, generation |-> generation, games |-> <<>>, more |-> FALSE]
Ahead(r)    == \E o \in asked : o.n > r.n /\ o.kind \in Loads
Without(s, g) ==
    LET kept == {i \in DOMAIN s : s[i] # g} IN [k \in 1..Cardinality(kept) |-> s[Nth(kept, k)]]

\* History: a request that changes games and any other are in flight at once.
Crossing(r) == IF \E o \in asked : {o.kind, r.kind} \cap Moves # {} THEN {"inProgress", "finished"} ELSE {}

Send(r) ==
    /\ sent < MaxSent + 2
    /\ asked' = asked \cup {r} /\ sent' = sent + 1

\* The page is mounted with its first two requests.
Init ==
    /\ status = [g \in Game |-> IF g \in DOMAIN First THEN First[g] ELSE "none"]
    /\ inProgress = <<>> /\ finished = <<>> /\ hasMore = FALSE
    /\ loaded = 0 /\ loading = TRUE /\ generation = 0
    /\ selectMode = FALSE /\ selected = {} /\ rangeApplied = FALSE /\ assigning = FALSE
    /\ sent = 2 /\ shifted = FALSE /\ behind = {}
    /\ asked = {[n |-> k, kind |-> <<"inProgress", "initial">>[k], pc |-> "sent", game |-> 0,
                 page |-> 1, generation |-> 0, games |-> <<>>, more |-> FALSE] : k \in 1..2}

-----------------------------------------------------------------------------
(* The server: getGames, createGame, updateGameStatus, deleteGame          *)

\* findByGroupId takes one more than a page, to see whether there is another.
GamesOfPage(k, size) ==
    LET all == Newest(OfStatus("FINISHED")) IN
    [games |-> SubSeq(all, (k - 1) * size + 1, Min({Len(all), k * size})),
     more  |-> Len(all) > k * size]

Answer(r, games, more) ==
    asked' = (asked \ {r}) \cup {[r EXCEPT !.pc = "ok", !.games = games, !.more = more]}

\* History: a page may repeat a game, or leave one out, once others moved.
ServeList(r) ==
    /\ r.pc = "sent"
    /\ \/ r.kind = "inProgress" /\ Answer(r, Newest(OfStatus("IN_PROGRESS")), FALSE)
       \/ /\ r.kind \in {"initial", "more"}
          /\ LET p == GamesOfPage(r.page, FINISHED_PAGE_SIZE) IN Answer(r, p.games, p.more)
       \/ r.kind = "range" /\ Answer(r, Newest(OfStatus("FINISHED") \cap InRange), FALSE)
    /\ shifted' = (shifted /\ r.kind \notin {"initial", "range"})
    /\ behind' = IF r.kind = "more" /\ shifted THEN behind \cup {"finished"} ELSE behind
    /\ UNCHANGED <<status, lists, refs, mode, assigning, sent>>

\* What a change makes of a game; the server does not look at the status it has.
Outcome(kind) == CASE kind \in {"create", "restart"} -> "IN_PROGRESS"
                   [] kind = "finish" -> "FINISHED"
                   [] kind = "delete" -> "DELETED"

\* Bound: a game that would be one too many is not created, its call fails.
ServeMove(r) ==
    /\ r.pc = "sent" /\ r.kind \in Moves
    /\ r.kind = "create" => OfStatus("none") # {}
    /\ LET g == IF r.kind = "create" THEN Min(OfStatus("none")) ELSE r.game IN
       /\ status' = [status EXCEPT ![g] = Outcome(r.kind)]
       /\ asked' = (asked \ {r}) \cup {[r EXCEPT !.pc = "ok", !.game = g]}
    /\ shifted' = TRUE
    /\ UNCHANGED <<lists, refs, mode, assigning, sent, behind>>

ChangeByOther(g, s) ==
    /\ sent < MaxSent + 2 /\ sent' = sent + 1
    /\ status[g] \notin {"none", s}
    /\ status' = [status EXCEPT ![g] = s]
    /\ shifted' = TRUE /\ behind' = behind \cup {"inProgress", "finished"}
    /\ UNCHANGED <<lists, refs, mode, assigning, asked>>

-----------------------------------------------------------------------------
(* Loading                                                                 *)

\* loadFinishedInitial, next to the requests in rest.
LoadInitial(rest) ==
    /\ sent < MaxSent + 2 /\ sent' = sent + 1
    /\ asked' = rest \cup {[Request("initial") EXCEPT !.generation = generation']}
    /\ loaded' = 0 /\ loading' = TRUE
    /\ finished' = <<>> /\ hasMore' = FALSE

\* History: a list that is begun while no other request is in flight is the server's.
Begun(rest) == IF rest = {} THEN behind \ {"finished"} ELSE behind \cup Crossing(Request("initial"))

Arrive(r) == r \in asked /\ asked' = asked \ {r}
Late(r)   == IF Ahead(r) THEN {"finished"} ELSE {}

InProgressAnswer(r) ==
    /\ r.kind = "inProgress" /\ r.pc = "ok" /\ Arrive(r)
    /\ inProgress' = r.games
    /\ UNCHANGED <<status, finished, hasMore, refs, mode, assigning, sent, shifted, behind>>

\* Whatever was asked for since.
InitialAnswer(r) ==
    /\ r.kind = "initial" /\ r.pc = "ok" /\ Arrive(r)
    /\ finished' = r.games /\ hasMore' = r.more
    /\ loaded' = 1 /\ loading' = FALSE
    /\ behind' = behind \cup Late(r) \cup (IF rangeApplied THEN {"finished"} ELSE {})
                        \cup (IF selected # {} THEN {"selection"} ELSE {})
    /\ UNCHANGED <<status, inProgress, generation, mode, assigning, sent, shifted>>

\* loadMoreFinished, when the end of the list is in sight.
LoadMore ==
    /\ hasMore /\ ~loading
    /\ Send([Request("more") EXCEPT !.page = loaded + 1])
    /\ loading' = TRUE
    /\ behind' = behind \cup Crossing(Request("more"))
    /\ UNCHANGED <<status, lists, loaded, generation, mode, assigning, shifted>>

\* An answer that a range was applied or cleared before is thrown away; the mutant
\* takes it.  History: one that another load of the list was sent before, is not.
AnyAnswer(r) == TRUE
Current(r)   == r.generation = generation
Overtaken(r) == IF r.generation = generation /\ (Ahead(r) \/ loaded + 1 # r.page) THEN {"finished"} ELSE {}
MoreAnswer(r) ==
    /\ r.kind = "more" /\ r.pc = "ok" /\ Arrive(r)
    /\ loading' = FALSE
    /\ IF Current(r)
       THEN /\ finished' = finished \o r.games /\ hasMore' = r.more /\ loaded' = r.page
            /\ behind' = behind \cup Overtaken(r)
       ELSE UNCHANGED <<finished, hasMore, loaded, behind>>
    /\ UNCHANGED <<status, inProgress, generation, mode, assigning, sent, shifted>>

LoadFails(r) ==
    /\ r.kind \in {"inProgress", "initial", "more"} /\ Arrive(r)
    /\ loading' = (loading /\ r.kind = "inProgress")
    /\ behind' = behind \cup (IF r.kind = "inProgress" THEN {"inProgress"}
                              ELSE IF r.kind = "initial" \/ Ahead(r) THEN {"finished"} ELSE {})
    /\ UNCHANGED <<status, lists, loaded, generation, mode, assigning, sent, shifted>>

-----------------------------------------------------------------------------
(* Selecting games for a season                                            *)

\* The buttons of the bar are off while it assigns.
EnterSelectMode ==
    /\ ~selectMode /\ selectMode' = TRUE
    /\ selected' = {} /\ behind' = behind \ {"selection"}
    /\ UNCHANGED <<status, lists, refs, rangeApplied, assigning, asked, sent, shifted>>

\* The mutant leaves the range applied.
ResetSelection       == selectMode' = FALSE /\ selected' = {} /\ UNCHANGED rangeApplied
ResetSelectModeState == selectMode' = FALSE /\ selected' = {} /\ rangeApplied' = FALSE
ModeSettled == {"mode", "selection"}

ExitSelectMode ==
    /\ selectMode /\ ~assigning
    /\ ResetSelectModeState /\ UNCHANGED generation
    /\ LoadInitial(asked)
    /\ behind' = Begun(asked) \ ModeSettled
    /\ UNCHANGED <<status, inProgress, assigning, shifted>>

ToggleGame(g) ==
    /\ selectMode /\ g \in ToSet(finished)
    /\ selected' = IF g \in selected THEN selected \ {g} ELSE selected \cup {g}
    /\ UNCHANGED <<status, lists, refs, selectMode, rangeApplied, assigning, asked, sent, shifted, behind>>

AllLoadedSelected == finished # <<>> /\ Cardinality(selected) = Len(finished)
ToggleSelectAll ==
    /\ selectMode
    /\ selected' = IF AllLoadedSelected THEN {} ELSE ToSet(finished)
    /\ behind' = behind \ {"selection"}
    /\ UNCHANGED <<status, lists, refs, selectMode, rangeApplied, assigning, asked, sent, shifted>>

ApplyRange ==
    /\ selectMode
    /\ generation' = generation + 1
    /\ Send([Request("range") EXCEPT !.generation = generation + 1])
    /\ behind' = behind \cup Crossing(Request("range"))
    /\ UNCHANGED <<status, lists, loaded, loading, mode, assigning, shifted>>

\* The list of the range, whether or not games are still selected.
RangeAnswer(r) ==
    /\ r.kind = "range" /\ r.pc = "ok" /\ Arrive(r)
    /\ finished' = r.games /\ hasMore' = FALSE
    /\ rangeApplied' = TRUE /\ selected' = {}
    /\ behind' = (behind \ {"selection"}) \cup Late(r) \cup (IF selectMode THEN {} ELSE {"mode"})
    /\ UNCHANGED <<status, inProgress, refs, selectMode, assigning, sent, shifted>>

\* An error is shown, the list stays.  History: a page of it may have been dropped.
RangeFails(r) ==
    /\ r.kind = "range" /\ Arrive(r)
    /\ behind' = behind \cup {"finished"}
    /\ UNCHANGED <<status, lists, refs, mode, assigning, sent, shifted>>

ClearRange ==
    /\ selectMode /\ rangeApplied
    /\ generation' = generation + 1
    /\ rangeApplied' = FALSE /\ selected' = {}
    /\ LoadInitial(asked)
    /\ behind' = Begun(asked) \ {"selection"}
    /\ UNCHANGED <<status, inProgress, selectMode, assigning, shifted>>

Assign ==
    /\ selectMode /\ selected # {} /\ ~assigning
    /\ assigning' = TRUE
    /\ Send(Request("assign"))
    /\ UNCHANGED <<status, lists, refs, mode, shifted, behind>>

\* No list depends on what assignSeason stores.
AssignAnswer(r) ==
    /\ r.kind = "assign" /\ r \in asked
    /\ assigning' = FALSE
    /\ ResetSelectModeState /\ UNCHANGED generation
    /\ LoadInitial(asked \ {r})
    /\ behind' = Begun(asked \ {r}) \ ModeSettled
    /\ UNCHANGED <<status, inProgress, shifted>>

AssignFails(r) ==
    /\ r.kind = "assign" /\ Arrive(r)
    /\ assigning' = FALSE
    /\ UNCHANGED <<status, lists, refs, mode, sent, shifted, behind>>

-----------------------------------------------------------------------------
(* Changes of games.  A card of a finished game has no buttons while games  *)
(* are selected, one in progress keeps them.                                *)

\* History: a card that is out of date may be moved once more.
Doubtful == IF behind \cap {"inProgress", "finished"} # {} THEN {"inProgress", "finished"} ELSE {}

Tap(kind, g) ==
    /\ kind = "create"  => g = 0 /\ OfStatus("none") # {}
    /\ kind = "finish"  => g \in ToSet(inProgress)
    /\ kind = "restart" => g \in ToSet(finished) /\ ~selectMode
    /\ kind = "delete"  => g \in ToSet(inProgress) \/ (g \in ToSet(finished) /\ ~selectMode)
    /\ Send([Request(kind) EXCEPT !.game = g])
    /\ behind' = behind \cup Crossing(Request(kind)) \cup Doubtful
    /\ UNCHANGED <<status, lists, refs, mode, assigning, shifted>>

\* History: a game that leaves the list may be selected, one that comes to it need not
\* be of the range.
Moved(g) == (IF g \in selected THEN {"selection"} ELSE {})
            \cup (IF rangeApplied /\ g \notin InRange THEN {"finished"} ELSE {})

\* The page moves the game between its lists by itself.
MoveAnswer(r, kinds) ==
    /\ r.kind \in kinds /\ r.pc = "ok" /\ Arrive(r)
    /\ behind' = behind \cup Moved(r.game)
    /\ UNCHANGED <<status, hasMore, refs, mode, assigning, sent, shifted>>

CreateAnswer(r) ==
    /\ MoveAnswer(r, {"create"})
    /\ inProgress' = <<r.game>> \o inProgress /\ UNCHANGED finished

FinishAnswer(r) ==
    /\ MoveAnswer(r, {"finish"})
    /\ inProgress' = Without(inProgress, r.game) /\ finished' = <<r.game>> \o finished

DeleteAnswer(r) ==
    /\ MoveAnswer(r, {"delete"})
    /\ inProgress' = Without(inProgress, r.game) /\ finished' = Without(finished, r.game)

\* The card is looked up in the list of the moment of the tap, where it was.
RestartAnswer(r) ==
    /\ MoveAnswer(r, {"restart"})
    /\ inProgress' = <<r.game>> \o inProgress /\ finished' = Without(finished, r.game)

\* The call failed, or its answer is lost.
MoveFails(r) ==
    /\ r.kind \in Moves /\ Arrive(r)
    /\ behind' = IF r.pc = "ok" THEN behind \cup {"inProgress", "finished"} ELSE behind
    /\ UNCHANGED <<status, lists, refs, mode, assigning, sent, shifted>>

AnswerStep(r) ==
    \/ ServeList(r) \/ ServeMove(r)
    \/ InProgressAnswer(r) \/ InitialAnswer(r) \/ MoreAnswer(r) \/ LoadFails(r)
    \/ RangeAnswer(r) \/ RangeFails(r) \/ AssignAnswer(r) \/ AssignFails(r)
    \/ CreateAnswer(r) \/ FinishAnswer(r) \/ DeleteAnswer(r) \/ RestartAnswer(r) \/ MoveFails(r)

\* The parts of the page that offer them.
Toolbar   == EnterSelectMode \/ ApplyRange \/ ClearRange \/ ToggleSelectAll
ActionBar == Assign \/ ExitSelectMode
Cards     == LoadMore \/ \E g \in Game : ToggleGame(g) \/ \E k \in Moves \ {"create"} : Tap(k, g)

Next ==
    \/ \E r \in asked : AnswerStep(r)
    \/ Toolbar \/ Cards \/ ActionBar \/ Tap("create", 0)
    \/ \E g \in Game, s \in {"IN_PROGRESS", "FINISHED", "DELETED"} : ChangeByOther(g, s)

Spec == Init /\ [][Next]_vars

-----------------------------------------------------------------------------
TypeOK ==
    /\ status \in [Game -> {"none", "IN_PROGRESS", "FINISHED", "DELETED"}]
    /\ ToSet(inProgress) \cup ToSet(finished) \cup selected \subseteq Game
    /\ {hasMore, loading, selectMode, rangeApplied, assigning, shifted} \subseteq BOOLEAN
    /\ loaded \in 0..MaxGames /\ generation \in 0..MaxSent /\ sent \in 0..(MaxSent + 2)
    /\ behind \subseteq {"inProgress", "finished", "selection", "mode"}

\* A page whose changes of games were made one at a time, with no answer that came after
\* a newer load was asked for, shows the games there are, each once, when all answers
\* are in: all of the range, or the newest, and all of them when it offers no more.
ListsAgree ==
    asked = {} =>
        /\ "inProgress" \notin behind =>
             IsInjective(inProgress) /\ ToSet(inProgress) = OfStatus("IN_PROGRESS")
        /\ "finished" \notin behind =>
             LET all == OfStatus("FINISHED") IN
             /\ IsInjective(finished) /\ ToSet(finished) \subseteq all
             /\ rangeApplied => ~hasMore /\ ToSet(finished) = all \cap InRange
             /\ ~rangeApplied /\ ~hasMore => ToSet(finished) = all
             /\ ~rangeApplied /\ ~shifted => \A g \in ToSet(finished), h \in all \ ToSet(finished) : g > h

\* Only games that are shown are selected for a season, and a list that is not selected
\* from is not kept to a range, which only the select mode could clear: unless a game
\* left the list while it was selected, or the range was answered after the mode ended.
SelectionIsShown ==
    /\ "selection" \notin behind => selected \subseteq ToSet(finished)
    /\ "mode" \notin behind /\ ~selectMode => selected = {} /\ ~rangeApplied
=============================================================================
