------------------------------ MODULE HomePage ------------------------------
(***************************************************************************)
(* The first page: the games of the selected group, a page of them at a    *)
(* time as the end of the list comes in sight, and a banner that counts    *)
(* the games in progress of the user's own group.                          *)
(*                                                                         *)
(* An answer is taken whatever group is selected by the time it arrives.   *)
(* Players, logs and scores of a game are left out (Statistics.tla has     *)
(* what is computed of them), and so is the list of the groups.            *)
(***************************************************************************)
EXTENDS Integers, Sequences, FiniteSets, FiniteSetsExt

CONSTANTS
    Group,
    Own,        \* the group of the user, which the page may manage
    First,      \* the status of the games that each group begins with
    PAGE_SIZE,  \* 5
    MaxGames, MaxSelects, MaxMore  \* bounds: games, selections, pages asked for

VARIABLES
    games,          \* the server: the status of each game of each group
    selectedGroup,  \* useGroupStore
    list, hasMore,  \* the games that are shown, as group and number
    loaded, busy,   \* pageRef, isLoadingRef
    loading, error,
    inProgress,     \* the games the banner counts
    asked,          \* requests and answers that are under way
    selects, mores, \* bounds: selections so far, and pages asked for
    late, shifted   \* history: an answer to an earlier selection was taken; games changed

server == <<games, shifted>>
view   == <<list, hasMore, loaded, busy, loading, error>>
vars   == <<server, selectedGroup, view, inProgress, asked, selects, mores, late>>

Init ==
    /\ games = First
    /\ selectedGroup = "none"
    /\ list = <<>> /\ hasMore = FALSE /\ loaded = 0 /\ busy = FALSE
    /\ loading = FALSE /\ error = FALSE /\ inProgress = {}
    /\ asked = {} /\ selects = 0 /\ mores = 0 /\ late = FALSE /\ shifted = FALSE

-----------------------------------------------------------------------------
(* getGames                                                                *)

\* The newest first, all but those that are deleted.
There(g) == {n \in DOMAIN games[g] : games[g][n] # "DELETED"}
Newest(g) == [k \in 1..Cardinality(There(g)) |->
                [group |-> g, id |-> CHOOSE n \in There(g) :
                                       Cardinality({m \in There(g) : m >= n}) = k]]
More(g, k) == Cardinality(There(g)) > k * PAGE_SIZE
Upto(g, k) == SubSeq(Newest(g), 1, Min({Cardinality(There(g)), k * PAGE_SIZE}))
GamesOfPage(g, k) == SubSeq(Newest(g), (k - 1) * PAGE_SIZE + 1, Min({Cardinality(There(g)), k * PAGE_SIZE}))
Running(g) == {[group |-> g, id |-> n] : n \in {m \in There(g) : games[g][m] = "IN_PROGRESS"}}

Serve(r) ==
    /\ r \in asked /\ r.pc = "sent"
    /\ asked' = (asked \ {r}) \cup
         {IF r.kind = "inProgress" THEN [r EXCEPT !.pc = "ok", !.running = Running(r.group)]
          ELSE [r EXCEPT !.pc = "ok", !.games = GamesOfPage(r.group, r.page), !.more = More(r.group, r.page)]}
    /\ UNCHANGED <<server, selectedGroup, view, inProgress, selects, mores, late>>

\* createGame, or a change of the status of a game.  Bound: one in a run.
Change(g, n, s) ==
    /\ games = First /\ shifted' = TRUE
    /\ \/ n = Len(games[g]) + 1 /\ n <= MaxGames /\ s # "DELETED"
          /\ games' = [games EXCEPT ![g] = Append(@, s)]
       \/ n \in There(g) /\ games[g][n] # s /\ games' = [games EXCEPT ![g][n] = s]
    /\ UNCHANGED <<selectedGroup, view, inProgress, asked, selects, mores, late>>

-----------------------------------------------------------------------------
(* The page                                                                *)

Request(kind, k) == [kind |-> kind, group |-> selectedGroup', page |-> k, at |-> selects', pc |-> "sent",
                     games |-> <<>>, more |-> FALSE, running |-> {}]
canManage == selectedGroup = Own

\* Header.onChangeGroup, then the effect on selectedGroup: nothing that is under way
\* is given up.
SelectGroup(g) ==
    /\ selects < MaxSelects /\ selects' = selects + 1
    /\ g # selectedGroup /\ selectedGroup' = g
    /\ list' = <<>> /\ hasMore' = FALSE /\ loaded' = 0 /\ busy' = TRUE
    /\ loading' = TRUE /\ error' = FALSE
    /\ asked' = asked \cup {Request("first", 1)}
                      \cup (IF canManage' THEN {Request("inProgress", 1)} ELSE {})
    /\ inProgress' = IF canManage' THEN inProgress ELSE {}
    /\ late' = FALSE /\ shifted' = FALSE
    /\ UNCHANGED <<games, mores>>

Arrive(r) == /\ r \in asked /\ r.pc = "ok" /\ asked' = asked \ {r}
             /\ late' = (late \/ r.at # selects)

\* fetchInitial.
FirstAnswer(r) ==
    /\ r.kind = "first" /\ Arrive(r)
    /\ list' = r.games /\ hasMore' = r.more
    /\ loaded' = 1 /\ busy' = FALSE /\ loading' = FALSE
    /\ UNCHANGED <<server, selectedGroup, error, inProgress, selects, mores>>

FirstFails(r) ==
    /\ r.kind = "first" /\ Arrive(r)
    /\ error' = TRUE /\ busy' = FALSE /\ loading' = FALSE
    /\ UNCHANGED <<server, selectedGroup, list, hasMore, loaded, inProgress, selects, mores>>

\* fetchInProgress; one that fails is left out, as it changes nothing.
InProgressAnswer(r) ==
    /\ r.kind = "inProgress" /\ Arrive(r)
    /\ inProgress' = r.running
    /\ UNCHANGED <<server, selectedGroup, view, selects, mores>>

\* Nothing but a spinner or the error is rendered until the list is there.
Rendered == selectedGroup # "none" /\ ~loading /\ ~error

\* loadMore, when the end of the list is in sight.  The mutant does not look at
\* isLoadingRef.
AnyTime == hasMore
MayLoad == hasMore /\ ~busy
LoadMore ==
    /\ Rendered /\ MayLoad
    /\ mores < MaxMore /\ mores' = mores + 1
    /\ UNCHANGED <<server, selectedGroup, selects, list, hasMore, loaded, loading, error, inProgress, late>>
    /\ busy' = TRUE
    /\ asked' = asked \cup {Request("more", loaded + 1)}

MoreAnswer(r) ==
    /\ r.kind = "more" /\ Arrive(r)
    /\ list' = list \o r.games /\ hasMore' = r.more
    /\ loaded' = r.page /\ busy' = FALSE
    /\ UNCHANGED <<server, selectedGroup, loading, error, inProgress, selects, mores>>

MoreFails(r) ==
    /\ r.kind = "more" /\ Arrive(r)
    /\ busy' = FALSE
    /\ UNCHANGED <<server, selectedGroup, list, hasMore, loaded, loading, error, inProgress, selects, mores>>

\* The banner is rendered above the list, for one's own group.
Banner == IF Rendered /\ canManage THEN inProgress ELSE {}

Next ==
    \/ \E g \in Group : SelectGroup(g)
    \/ LoadMore
    \/ \E g \in Group, n \in 1..MaxGames, s \in {"IN_PROGRESS", "FINISHED", "DELETED"} : Change(g, n, s)
    \/ \E r \in asked : \/ Serve(r) \/ FirstAnswer(r) \/ FirstFails(r) \/ InProgressAnswer(r)
                        \/ MoreAnswer(r) \/ MoreFails(r)

Spec == Init /\ [][Next]_vars

-----------------------------------------------------------------------------
Game == [group : Group, id : 1..MaxGames]

TypeOK ==
    /\ games \in [Group -> Seq({"IN_PROGRESS", "FINISHED", "DELETED"})]
    /\ selectedGroup \in Group \cup {"none"}
    /\ list \in Seq(Game) /\ inProgress \subseteq Game /\ Banner \subseteq inProgress
    /\ hasMore \in BOOLEAN /\ busy \in BOOLEAN /\ loading \in BOOLEAN /\ error \in BOOLEAN
    /\ loaded \in 0..(MaxMore + 1) /\ selects \in 0..MaxSelects /\ mores \in 0..MaxMore

\* Unless an answer arrived late, or games changed since the group was selected, the
\* list is that of the selected group, page after page, each page once, and its banner
\* counts the games in progress; more of it is loaded if and only if an answer is awaited.
HomeListAgrees ==
    ~late =>
        /\ busy <=> \E r \in asked : r.at = selects /\ r.kind # "inProgress"
        /\ Rendered =>
             /\ \A k \in DOMAIN list : list[k].group = selectedGroup
             /\ ~shifted => list = Upto(selectedGroup, loaded) /\ hasMore = More(selectedGroup, loaded)
             /\ ~shifted /\ ~(\E r \in asked : r.at = selects /\ r.kind = "inProgress") =>
                  Banner = IF canManage THEN Running(selectedGroup) ELSE {}
=============================================================================
