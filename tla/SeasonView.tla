----------------------------- MODULE SeasonView -----------------------------
(***************************************************************************)
(* The pages that show a season of a group: the rankings and the page of a *)
(* player, with the selector and the modal that manages seasons.  A page   *)
(* asks for the list of seasons, resolves which one to show, and asks for  *)
(* what it shows of it; it never cancels a request, and answers arrive in  *)
(* any order.                                                              *)
(*                                                                         *)
(* A request reads the server when it is sent.  The handlers of the server *)
(* are one step each (Season.tla has their interleavings).  A user who     *)
(* selects another group leaves the page.                                  *)
(***************************************************************************)
EXTENDS Integers

CONSTANTS
    Season,       \* ids of seasons of the group
    NoSeason,     \* null
    MaxRequests,  \* bound: requests the pages send
    MaxChanges    \* bound: changes to the seasons

VARIABLES
    live, current,    \* the seasons of the group and Group.currentSeasonId
    changes,          \* bound: changes so far
    stored,           \* selectionByGroup of the browser, for this group
    page,             \* the page that is open
    listed, listedCurrent, selection, ready, failed,    \* its state
    shown,            \* the season of each part it shows
    busy,             \* the call of the modal: no, called or refused; and what was
                      \* stored when it was tapped
    asked, sent,      \* requests in flight, and how many were sent
    answered,         \* history: for each part, the newest request that was answered
    overtaken         \* history: an answer of this page came after that of a later request

server == <<live, current, changes>>
client == <<stored, page, listed, listedCurrent, selection, ready, failed, shown>>
net    == <<asked, sent, answered, overtaken>>
vars   == <<server, client, busy, net>>

Pages      == {"rankings", "player"}
Parts      == {"board", "ability", "impact"}
Selections == Season \cup {"all"}
Nothing    == [p \in Parts |-> NoSeason]
NotBusy    == [call |-> "no", stored |-> NoSeason]

\* resolveSeasonSelection: what is stored, else the current season, else all; only
\* seasons that are listed.
\* The mutant trusts what is stored.
StoredOrCurrent(s, list, cur) == IF s # NoSeason THEN s ELSE IF cur \in list THEN cur ELSE "all"
Resolve(s, list, cur) ==
    IF s = "all" \/ s \in list THEN s ELSE IF cur \in list THEN cur ELSE "all"

Request(n, part, sel) ==
    [n |-> n, part |-> part, selection |-> sel, listed |-> live, current |-> current,
     stored |-> stored, first |-> FALSE]
SeasonsRequest(n, first) == [Request(n, "seasons", "all") EXCEPT !.first = first]

\* One more request in flight, next to those in rest.
Ask(rest, part, sel) ==
    /\ sent < MaxRequests
    /\ asked' = rest \cup {Request(sent + 1, part, sel)}
    /\ sent' = sent + 1

Init ==
    /\ live = {} /\ current = NoSeason /\ changes = 0
    /\ stored = NoSeason /\ page = "none"
    /\ listed = {} /\ listedCurrent = NoSeason /\ selection = "all"
    /\ ready = FALSE /\ failed = FALSE /\ shown = Nothing /\ busy = NotBusy
    /\ asked = {} /\ sent = 0
    /\ answered = [p \in Parts \cup {"seasons"} |-> 0] /\ overtaken = FALSE

\* A page is mounted.  The rankings ask for all seasons at once, before they know
\* which one is selected; a player's page waits for the list.
Open(p) ==
    /\ sent + 2 <= MaxRequests
    /\ page' = p
    /\ listed' = {} /\ listedCurrent' = NoSeason /\ selection' = "all"
    /\ ready' = FALSE /\ failed' = FALSE /\ shown' = Nothing /\ busy' = NotBusy
    /\ asked' = {SeasonsRequest(sent + 1, TRUE)}
                \cup (IF p = "rankings" THEN {Request(sent + 2, "board", "all")} ELSE {})
    /\ sent' = IF p = "rankings" THEN sent + 2 ELSE sent + 1
    /\ answered' = [x \in DOMAIN answered |-> 0] /\ overtaken' = FALSE
    /\ UNCHANGED <<server, stored>>

\* The rankings clear their error when they ask again.
ClearError == failed' = (failed /\ page = "player")

\* The effect that depends on the selection, once the list is there.
Select(sel, rest) ==
    /\ selection' = sel
    /\ IF sel # selection \/ (page = "player" /\ ~ready)
       THEN Ask(rest, "board", sel) /\ ClearError
       ELSE asked' = rest /\ UNCHANGED <<sent, failed>>
    /\ ready' = TRUE

\* The answer to r arrives.
Arrive(r) ==
    /\ r \in asked
    /\ overtaken' = (overtaken \/ r.n < answered[r.part])
    /\ answered' = [answered EXCEPT ![r.part] = IF r.n > @ THEN r.n ELSE @]

SeasonsAnswer(r) ==
    /\ r.part = "seasons" /\ Arrive(r)
    /\ listed' = r.listed /\ listedCurrent' = r.current
    /\ Select(Resolve(r.stored, r.listed, r.current), asked \ {r})
    /\ UNCHANGED <<server, stored, page, shown, busy>>

\* Without the list the page shows all seasons; a player's page that has a list keeps it.
SeasonsFail(r) ==
    /\ r.part = "seasons" /\ Arrive(r)
    /\ \/ /\ page = "rankings" \/ r.first
          /\ listed' = {} /\ listedCurrent' = NoSeason
          /\ Select("all", asked \ {r})
       \/ /\ page = "player" /\ ~r.first
          /\ asked' = asked \ {r}
          /\ UNCHANGED <<listed, listedCurrent, selection, ready, failed, sent>>
    /\ UNCHANGED <<server, stored, page, shown, busy>>

\* A player's page fails before the list: nothing more is asked.
PlayerFail(r) ==
    /\ r.part = "seasons" /\ r.first /\ page = "player" /\ Arrive(r)
    /\ failed' = TRUE /\ asked' = asked \ {r}
    /\ UNCHANGED <<server, stored, page, listed, listedCurrent, selection, ready, shown, busy, sent>>

\* The records of a player are there: ability and team impact are asked for.
BoardAnswer(r) ==
    /\ r.part = "board" /\ Arrive(r)
    /\ shown' = [shown EXCEPT !["board"] = r.selection]
    /\ IF page = "rankings" THEN asked' = asked \ {r} /\ UNCHANGED sent
       ELSE /\ sent + 2 <= MaxRequests
            /\ asked' = (asked \ {r}) \cup {Request(sent + 1, "ability", r.selection),
                                            Request(sent + 2, "impact", r.selection)}
            /\ sent' = sent + 2
    /\ UNCHANGED <<server, stored, page, listed, listedCurrent, selection, ready, failed, busy>>

BoardFail(r) ==
    /\ r.part = "board" /\ Arrive(r)
    /\ failed' = TRUE /\ asked' = asked \ {r}
    /\ UNCHANGED <<server, stored, page, listed, listedCurrent, selection, ready, shown, busy, sent>>

PartAnswer(r, value) ==
    /\ r.part \in {"ability", "impact"} /\ Arrive(r)
    /\ value \in {r.selection, NoSeason}
    /\ shown' = [shown EXCEPT ![r.part] = value]
    /\ asked' = asked \ {r}
    /\ UNCHANGED <<server, stored, page, listed, listedCurrent, selection, ready, failed, busy, sent>>

\* handleSeasonChange of both pages.
SeasonChange(s) ==
    /\ s \in ({"all"} \cup listed) \ {selection} /\ listed # {}
    /\ selection' = s /\ stored' = s
    /\ Ask(asked, "board", s) /\ ClearError
    /\ UNCHANGED <<server, page, listed, listedCurrent, ready, shown, busy, answered, overtaken>>

-----------------------------------------------------------------------------
(* The seasons change, by the modal of this page or by another user.       *)

\* What each call does to the server; one about a season that is gone fails.
Gone(kind, s) == kind \in {"delete", "current"} /\ s \in Season \ live
Effect(kind, s) ==
    \/ /\ kind = "create" /\ s \in Season \ live
       /\ live' = live \cup {s} /\ UNCHANGED current
    \/ /\ kind = "delete" /\ s \in live
       /\ live' = live \ {s} /\ current' = IF current = s THEN NoSeason ELSE current
    \/ /\ kind = "current" /\ s \in live \cup {NoSeason}
       /\ current' = s /\ UNCHANGED live
    \/ /\ kind = "rename" \/ Gone(kind, s)
       /\ UNCHANGED <<live, current>>
Change(kind, s) == changes < MaxChanges /\ changes' = changes + 1 /\ Effect(kind, s)

ChangeByOther(kind, s) ==
    /\ Change(kind, s) /\ <<live, current>>' # <<live, current>>
    /\ UNCHANGED <<client, busy, net>>

\* The buttons of the modal: those of the list that the page has, which may be old.
Buttons(kind) ==
    CASE kind = "create" -> Season
      [] kind = "current" -> (listed \ {listedCurrent}) \cup
                             (IF listedCurrent \in listed THEN {NoSeason} ELSE {})
      [] OTHER -> listed

\* They are off until the modal has its answer.
ChangeByModal(kind, s) ==
    /\ page # "none" /\ busy = NotBusy /\ s \in Buttons(kind)
    /\ Change(kind, s)
    /\ busy' = [call |-> IF Gone(kind, s) THEN "refused" ELSE "called", stored |-> stored]
    /\ UNCHANGED <<client, net>>

\* onChanged: the page loads the list again; not when the call failed or its answer is
\* lost.  It is the function of the render that was tapped, and knows what was stored then.
ReloadRequest(n) == [SeasonsRequest(n, FALSE) EXCEPT !.stored = busy.stored]
ModalAnswer(ok) ==
    /\ busy # NotBusy /\ busy' = NotBusy /\ (ok => busy.call = "called")
    /\ IF ok THEN sent < MaxRequests /\ asked' = asked \cup {ReloadRequest(sent + 1)}
                  /\ sent' = sent + 1
             ELSE UNCHANGED <<asked, sent>>
    /\ UNCHANGED <<server, client, answered, overtaken>>

Next ==
    \/ \E p \in Pages : Open(p)
    \/ \E r \in asked :
         \/ SeasonsAnswer(r) \/ SeasonsFail(r) \/ PlayerFail(r) \/ BoardAnswer(r) \/ BoardFail(r)
         \/ \E v \in Selections \cup {NoSeason} : PartAnswer(r, v)
    \/ \E s \in Selections : SeasonChange(s)
    \/ \E kind \in {"create", "delete", "current", "rename"}, s \in Season \cup {NoSeason} :
         ChangeByOther(kind, s) \/ ChangeByModal(kind, s)
    \/ \E ok \in BOOLEAN : ModalAnswer(ok)

Spec == Init /\ [][Next]_vars

-----------------------------------------------------------------------------
TypeOK ==
    /\ live \subseteq Season /\ current \in live \cup {NoSeason} /\ changes \in 0..MaxChanges
    /\ stored \in Selections \cup {NoSeason} /\ page \in Pages \cup {"none"}
    /\ listed \subseteq Season /\ selection \in Selections
    /\ shown \in [Parts -> Selections \cup {NoSeason}] /\ sent \in 0..MaxRequests

\* The selector never stands on a season it does not list, whatever was stored and
\* deleted since; and when all answers are in, and none was overtaken by that of a
\* later request, the page shows the season that is selected, or an error.
ShownIsSelected ==
    /\ selection \in listed \cup {"all"}
    /\ page # "none" /\ asked = {} /\ ~overtaken =>
         \/ failed
         \/ /\ shown["board"] = selection
            /\ shown["ability"] \in {selection, NoSeason} /\ shown["impact"] \in {selection, NoSeason}
=============================================================================
