------------------------------ MODULE DailyPage ------------------------------
(***************************************************************************)
(* The page of one day: it lists the days on which a group has records,    *)
(* stands on one of them, and shows the games and the records of it.       *)
(*                                                                         *)
(* The queries are those of TanStack Query: what a key has loaded is shown *)
(* at once when the page comes back to it, and loaded again; a load under  *)
(* way is joined.  A request reads the server when it is sent.  The items  *)
(* of the group, which are loaded like the rest, how the table is sorted   *)
(* and that unused data is dropped after minutes, are left out.            *)
(***************************************************************************)
EXTENDS Integers, FiniteSets, FiniteSetsExt

CONSTANTS
    Group, Day,            \* groups, and the numbers of days
    First,                 \* for each group and day 1 if there are records at first, else 0
    Parts,                 \* the two halves of the page: the games and the records of a day
    MaxChanges, MaxMoves   \* bounds: changes of records; moves of the user and failures

VARIABLES
    records, changes,      \* for each group and day the last change of its records, 0: none
    selectedGroup, selectedDate,   \* 0: no date yet
    data, failed,          \* what each key has loaded, and the keys in error
    asked,                 \* loads under way, with what they read
    moves,
    stale                  \* history: keys whose records changed after their load was sent

server == <<records, changes>>
place  == <<selectedGroup, selectedDate, moves>>
cache  == <<data, failed, asked>>
vars   == <<server, place, cache, stale>>

\* A key names what is loaded; the list of days is that of no day.
Dates(g) == [part |-> "dates", group |-> g, day |-> 0]
OfDay(g, d) == {[part |-> p, group |-> g, day |-> d] : p \in IF d = 0 THEN {} ELSE Parts}
Keys   == {Dates(g) : g \in Group} \cup UNION {OfDay(g, d) : g \in Group, d \in Day}
NoData == [d \in Day |-> -1]
Empty  == [k \in Keys |-> NoData]

\* What the server answers: which days there are, or the records of one.
Read(k) == [d \in Day |-> LET n == records[k.group][d] IN
                         IF k.day = d THEN n ELSE IF k.day = 0 THEN Min({1, n}) ELSE 0]

\* The days of a list, the newest of which is selected when the date is not among them.
Listed(dt, g) == {d \in Day : dt[Dates(g)][d] > 0}
Settled(dt, g, d) == IF Listed(dt, g) = {} \/ d \in Listed(dt, g) THEN d ELSE Max(Listed(dt, g))
Active(g, d) == {Dates(g)} \cup OfDay(g, d)

\* The keys ks without a load under way.
Idle(ks) == {k \in ks : \A r \in asked : r.key # k}
\* The mutant loads only what was never loaded.
FetchMissing(ks) == {k \in Idle(ks) : data[k] = NoData}
Fetch(ks) == Idle(ks)

\* Loads of the keys ks next to rest.  What has no data in dt is no longer in error.
Load(dt, ks, rest) ==
    /\ asked' = rest \cup {[key |-> k, read |-> Read(k)] : k \in ks}
    /\ failed' = failed \ {k \in ks : dt[k] = NoData}

\* The page is rendered over dt with group g and date d, and its effect settles the date;
\* each key that it begins to observe is loaded.
Render(dt, g, d, seen) ==
    LET date == Settled(dt, g, d)
        new  == (Active(g, d) \cup Active(g, date)) \ seen
    IN  /\ selectedGroup' = g /\ selectedDate' = date
        /\ data' = dt
        /\ Load(dt, Fetch(new), asked)
        /\ stale' = stale \ Idle(new)

Observed == Active(selectedGroup, selectedDate)

Init ==
    /\ records = First /\ changes = 1
    /\ selectedGroup \in Group /\ selectedDate = 0 /\ moves = 0
    /\ data = Empty /\ failed = {} /\ stale = {}
    /\ asked = {[key |-> Dates(selectedGroup), read |-> Read(Dates(selectedGroup))]}

\* A record is made or taken back, or the last game of the day is deleted.
Record(g, d, last) ==
    /\ changes < MaxChanges
    /\ changes' = changes + 1
    /\ records' = [records EXCEPT ![g][d] = IF last THEN 0 ELSE changes + 1]
    /\ stale' = stale \cup OfDay(g, d) \cup {Dates(g)}
    /\ UNCHANGED <<place, cache>>

Move == moves < MaxMoves /\ moves' = moves + 1

\* The page is left; another may select a group; it is opened again.
Open(g) ==
    /\ Move
    /\ Render(data, g, 0, {})
    /\ UNCHANGED server

\* The header selects a group, and the page is rendered until the first page replaces it.
SelectGroup(g) ==
    /\ Move /\ g # selectedGroup
    /\ Render(data, g, selectedDate, Observed)
    /\ UNCHANGED server

\* An administrator changes to the group, and all that was loaded or asked for is dropped.
SwitchGroup(g) ==
    /\ Move /\ g # selectedGroup
    /\ selectedGroup' = g /\ UNCHANGED <<selectedDate, server>>
    /\ data' = Empty /\ failed' = {} /\ stale' = {}
    /\ asked' = {[key |-> k, read |-> Read(k)] : k \in Active(g, selectedDate)}

\* The arrows and the list of the navigator, which is there unless the list is in error.
Navigate(d) ==
    /\ Move /\ Dates(selectedGroup) \notin failed
    /\ selectedDate \in Listed(data, selectedGroup)
    /\ d \in Listed(data, selectedGroup) \ {selectedDate}
    /\ Render(data, selectedGroup, d, Observed)
    /\ UNCHANGED server

\* The answer of a load: the effect runs if it is the list that is observed.
Answer(r) ==
    /\ r \in asked
    /\ data' = [data EXCEPT ![r.key] = r.read]
    /\ LET date == IF r.key = Dates(selectedGroup)
                   THEN Settled(data', selectedGroup, selectedDate) ELSE selectedDate
           new  == Active(selectedGroup, date) \ Observed
       IN  /\ selectedDate' = date
           /\ asked' = (asked \ {r}) \cup {[key |-> k, read |-> Read(k)] : k \in Fetch(new)}
           /\ failed' = failed \ ({r.key} \cup {k \in Fetch(new) : data[k] = NoData})
           /\ stale' = stale \ Idle(new)
    /\ UNCHANGED <<server, selectedGroup, moves>>

Fail(r) ==
    /\ Move
    /\ r \in asked
    /\ asked' = asked \ {r} /\ failed' = failed \cup {r.key}
    /\ UNCHANGED <<server, selectedGroup, selectedDate, data, stale>>

\* The button of an error gives up a load that is under way.
Retry(k) ==
    /\ k \in failed \cap Observed
    /\ k = Dates(selectedGroup) \/ Dates(selectedGroup) \notin failed
    /\ Load(data, {k}, {r \in asked : r.key # k})
    /\ stale' = stale \ {k}
    /\ UNCHANGED <<server, place, data>>

\* The window has the focus again.
Focus ==
    /\ Observed \cap (stale \cup failed) # {}
    /\ Load(data, Idle(Observed), asked) /\ stale' = stale \ Idle(Observed)
    /\ UNCHANGED <<server, place, data>>

Next ==
    \/ \E g \in Group, d \in Day, last \in BOOLEAN : Record(g, d, last)
    \/ \E g \in Group : Open(g) \/ SelectGroup(g) \/ SwitchGroup(g)
    \/ \E d \in Day : Navigate(d)
    \/ \E r \in asked : Answer(r) \/ Fail(r)
    \/ \E k \in Keys : Retry(k)
    \/ Focus

Spec == Init /\ [][Next]_vars

-----------------------------------------------------------------------------
TypeOK ==
    /\ records \in [Group -> [Day -> 0..MaxChanges]]
    /\ selectedGroup \in Group /\ selectedDate \in Day \cup {0} /\ moves \in 0..MaxMoves
    /\ \A k \in Keys : data[k] \in [Day -> -1..MaxChanges]
    /\ failed \subseteq Keys /\ stale \subseteq Keys
    /\ \A r \in asked : r.key \in Keys /\ \A q \in asked : q.key = r.key => q = r

\* The page stands on a day of its list, whatever group was selected before; and once
\* nothing is awaited and nothing is in error, what it lists and both halves of what it
\* shows are the records of the server, unless they changed after it asked for them.
DayIsShown ==
    /\ Listed(data, selectedGroup) # {} => selectedDate \in Listed(data, selectedGroup)
    /\ (\A r \in asked : r.key \notin Observed) /\ Observed \cap (failed \cup stale) = {} =>
         /\ Listed(data, selectedGroup) = {d \in Day : records[selectedGroup][d] > 0}
         /\ \A k \in OfDay(selectedGroup, selectedDate) :
               data[k][selectedDate] = records[selectedGroup][selectedDate]
=============================================================================
