------------------------------ MODULE GameLog ------------------------------
(***************************************************************************)
(* The record of one game: LogService.createLog, undoLastLog and redoLog,  *)
(* GameService.updateGameQuarter and updateGameStatus, and the record      *)
(* pages that call them.  A page appends what it recorded to its own copy  *)
(* of the game and loads the game again after an undo.                     *)
(*                                                                         *)
(* A call has its first read in the same step as the tap that sends it:    *)
(* until then only the page knows of it.  Who is in which team, the items  *)
(* and their values are left out; a page is of the game's own group.       *)
(***************************************************************************)
EXTENDS Integers, Sequences, FiniteSets, FiniteSetsExt

CONSTANTS
    Page,         \* open record pages
    Regulation,   \* quarters that are always offered, 4
    LastQuarter,  \* the highest quarter the server takes, 10
    MaxTaps       \* bound: calls that are made

ASSUME QuarterAssumption == Regulation \in Nat \ {0} /\ LastQuarter \in Nat /\ Regulation < LastQuarter
ASSUME TapAssumption     == MaxTaps \in Nat

VARIABLES
    log,             \* the rows of Log: id, sequence, quarter; and the newest id its call saw
    lastId,          \* the serial of Log
    status,          \* Game.status
    currentQuarter,  \* Game.currentQuarter
    call,            \* where each call of each page stands
    view,            \* each page's copy: the records it shows, quarter, status
    picked,          \* each page's selection: a player, an item
    blurred,         \* history: pages whose copy may differ from the game
    taps             \* bound: calls so far

server  == <<log, lastId, status, currentQuarter>>
vars    == <<server, call, view, picked, blurred, taps>>

\* The calls a page has in flight.  Nothing stops a second undo before the first
\* has answered.  No page calls redo; it is a route of its own.
Undo == {"undo", "undoAgain"}
Op   == {"record", "redo", "quarter"} \cup Undo

Quarters == 1..LastQuarter
Statuses == {"IN_PROGRESS", "FINISHED"}
Shown    == [id : Nat \ {0}, quarter : Quarters]
View     == [logs : Seq(Shown), quarter : Quarters, status : Statuses]
NoView   == [logs |-> <<>>, quarter |-> 1, status |-> "IN_PROGRESS"]
Call     == [pc : {"idle", "last", "insert", "delete", "refresh", "write", "answer"},
             quarter : Quarters, sequence : Nat, seen : Nat, target : Nat, loaded : View]
Idle     == [pc |-> "idle", quarter |-> 1, sequence |-> 0, seen |-> 0, target |-> 0,
             loaded |-> NoView]

Init ==
    /\ log = {} /\ lastId = 0
    /\ status = "IN_PROGRESS" /\ currentQuarter = 1
    /\ call = [p \in Page |-> [o \in Op |-> Idle]]
    /\ view = [p \in Page |-> NoView]
    /\ picked = [p \in Page |-> [player |-> FALSE, item |-> FALSE]]
    /\ blurred = {} /\ taps = 0

InFlight(p, o) == call[p][o].pc # "idle"
Quiet(p)       == \A o \in Op : ~InFlight(p, o)

\* findLastLogByGameId: the highest sequence; among equals the database may return
\* any.  The mutant orders by nothing.
AnyRows    == log
LastRows   == {r \in log : \A s \in log : s.sequence <= r.sequence}
\* The mutant counts down.
SequenceBefore(r) == r.sequence - 1
NextSequence(r)   == r.sequence + 1

\* What GET /game/:id may answer: all rows of the game, in no order that it asks for.
Show(r) == [id |-> r.id, quarter |-> r.quarter]
Rows    == {Show(r) : r \in log}
Loads   == [logs    : Bijection(1..Cardinality(Rows), Rows),
            quarter : {currentQuarter}, status : {status}]

\* History: the copies of all other pages fall behind, and p's own when it has
\* another call in flight.
Blur(p, o) == blurred' = blurred \cup (Page \ {p}) \cup
                         (IF \E other \in Op \ {o} : InFlight(p, other) THEN {p} ELSE {})

\* A tap of page p sends call o.
Send(p, o, c) ==
    /\ ~InFlight(p, o) /\ taps < MaxTaps
    /\ call' = [call EXCEPT ![p][o] = c]
    /\ taps' = taps + 1

Advance(p, o, c) == call' = [call EXCEPT ![p][o] = c]
Done(p, o)       == call' = [call EXCEPT ![p][o] = Idle]

-----------------------------------------------------------------------------
(* Taps on the record page that only select                                *)

\* A page that lists no player as selected offers the players.
PlayerTap(p) ==
    /\ ~picked[p].player
    /\ picked' = [picked EXCEPT ![p].player = TRUE]
    /\ UNCHANGED <<server, call, view, blurred, taps>>

CancelTap(p) ==
    /\ picked[p].player
    /\ picked' = [picked EXCEPT ![p] = [player |-> FALSE, item |-> FALSE]]
    /\ UNCHANGED <<server, call, view, blurred, taps>>

\* The item of a call that failed is still selected: a tap takes it back.
ItemUnpick(p) ==
    /\ picked[p].item /\ ~InFlight(p, "record")
    /\ picked' = [picked EXCEPT ![p].item = FALSE]
    /\ UNCHANGED <<server, call, view, blurred, taps>>

-----------------------------------------------------------------------------
(* createLog and redoLog                                                   *)

\* The call reads the game, and with it the quarter.  Another item than that of a
\* call that failed sends as well.
RecordTap(p) ==
    /\ picked[p].player
    /\ Send(p, "record", [Idle EXCEPT !.pc = "last", !.quarter = currentQuarter])
    /\ picked' = [picked EXCEPT ![p].item = TRUE]
    /\ Blur(p, "record")
    /\ UNCHANGED <<server, view>>

\* A row that is there is read, to be stored once more.
Redo(p, r) ==
    /\ Send(p, "redo", [Idle EXCEPT !.pc = "last", !.quarter = r.quarter])
    /\ blurred' = Page
    /\ UNCHANGED <<server, view, picked>>

ReadLast(p, o) ==
    /\ call[p][o].pc = "last"
    /\ \/ /\ log = {}
          /\ Advance(p, o, [call[p][o] EXCEPT !.pc = "insert", !.sequence = 1, !.seen = lastId])
       \/ \E r \in LastRows :
            Advance(p, o, [call[p][o] EXCEPT !.pc = "insert", !.sequence = NextSequence(r),
                                             !.seen = lastId])
    /\ UNCHANGED <<server, view, picked, blurred, taps>>

Insert(p, o) ==
    /\ call[p][o].pc = "insert"
    /\ log' = log \cup {[id |-> lastId + 1, sequence |-> call[p][o].sequence,
                         quarter |-> call[p][o].quarter, seen |-> call[p][o].seen]}
    /\ lastId' = lastId + 1
    /\ Advance(p, o, [call[p][o] EXCEPT !.pc = "answer", !.target = lastId + 1])
    /\ Blur(p, o)
    /\ UNCHANGED <<status, currentQuarter, view, picked, taps>>

\* The page appends the row it is answered and takes its quarter.  The mutant appends it
\* to the rows of its first render.
TakeFirst(v, c)  == [v EXCEPT !.logs = <<[id |-> c.target, quarter |-> c.quarter]>>,
                              !.quarter = c.quarter]
TakeRecord(v, c) == [v EXCEPT !.logs = Append(@, [id |-> c.target, quarter |-> c.quarter]),
                              !.quarter = c.quarter]

RecordAnswer(p) ==
    /\ call[p]["record"].pc = "answer"
    /\ view' = [view EXCEPT ![p] = TakeRecord(@, call[p]["record"])]
    /\ picked' = [picked EXCEPT ![p] = [player |-> FALSE, item |-> FALSE]]
    /\ Done(p, "record")
    /\ UNCHANGED <<server, blurred, taps>>

RedoAnswer(p) ==
    /\ call[p]["redo"].pc = "answer"
    /\ Done(p, "redo")
    /\ UNCHANGED <<server, view, picked, blurred, taps>>

-----------------------------------------------------------------------------
(* undoLastLog: the last row is read, then deleted by its id, there or not; *)
(* the page then loads the game again.                                      *)

UndoTap(p, o) ==
    /\ o = "undoAgain" => InFlight(p, "undo")
    /\ view[p].logs # <<>>
    /\ \E r \in LastRows :
         Send(p, o, [Idle EXCEPT !.pc = "delete", !.target = r.id, !.seen = lastId])
    /\ Blur(p, o)
    /\ UNCHANGED <<server, view, picked>>

Delete(p, o) ==
    /\ call[p][o].pc = "delete"
    /\ log' = {r \in log : r.id # call[p][o].target}
    /\ Advance(p, o, [call[p][o] EXCEPT !.pc = "refresh"])
    /\ Blur(p, o)
    /\ UNCHANGED <<lastId, status, currentQuarter, view, picked, taps>>

\* History: what is loaded while nothing else of the page is in flight is the game.
Refresh(p, o) ==
    /\ call[p][o].pc = "refresh"
    /\ \E v \in Loads : Advance(p, o, [call[p][o] EXCEPT !.pc = "answer", !.loaded = v])
    /\ blurred' = IF \A other \in Op \ {o} : ~InFlight(p, other) THEN blurred \ {p} ELSE blurred
    /\ UNCHANGED <<server, view, picked, taps>>

UndoAnswer(p, o) ==
    /\ call[p][o].pc = "answer"
    /\ view' = [view EXCEPT ![p] = call[p][o].loaded]
    /\ Done(p, o)
    /\ UNCHANGED <<server, picked, blurred, taps>>

-----------------------------------------------------------------------------
(* updateGameQuarter: the status is read, then the quarter is written.     *)

\* The chips: the regulation, overtime that is on or has records, and the next.
Chips(v) ==
    1..Max({Regulation, v.quarter} \cup {v.logs[i].quarter : i \in DOMAIN v.logs})
    \cup (IF v.quarter >= Regulation /\ v.quarter < LastQuarter THEN {v.quarter + 1} ELSE {})

QuarterTap(p, q) ==
    /\ view[p].status = "IN_PROGRESS" /\ q \in Chips(view[p]) \ {view[p].quarter}
    /\ status = "IN_PROGRESS"
    /\ Send(p, "quarter", [Idle EXCEPT !.pc = "write", !.quarter = q])
    /\ Blur(p, "quarter")
    /\ UNCHANGED <<server, view, picked>>

WriteQuarter(p) ==
    /\ call[p]["quarter"].pc = "write"
    /\ currentQuarter' = call[p]["quarter"].quarter
    /\ Advance(p, "quarter", [call[p]["quarter"] EXCEPT !.pc = "answer"])
    /\ Blur(p, "quarter")
    /\ UNCHANGED <<log, lastId, status, view, picked, taps>>

QuarterAnswer(p) ==
    /\ call[p]["quarter"].pc = "answer"
    /\ view' = [view EXCEPT ![p].quarter = call[p]["quarter"].quarter]
    /\ Done(p, "quarter")
    /\ UNCHANGED <<server, picked, blurred, taps>>

-----------------------------------------------------------------------------
(* The games page finishes the game or lets it go on; a call fails, or its  *)
(* answer is lost: the page shows an error and stays as it is.              *)

UpdateGameStatus(s) ==
    /\ status # s /\ taps < MaxTaps
    /\ status' = s /\ taps' = taps + 1
    /\ blurred' = Page
    /\ UNCHANGED <<log, lastId, currentQuarter, call, view, picked>>

Fail(p, o) ==
    /\ InFlight(p, o)
    /\ Done(p, o)
    /\ blurred' = blurred \cup {p}
    /\ UNCHANGED <<server, view, picked, taps>>

PageStep(p) ==
    \/ PlayerTap(p) \/ CancelTap(p) \/ ItemUnpick(p)
    \/ RecordTap(p) \/ RecordAnswer(p) \/ RedoAnswer(p)
    \/ \E o \in Undo : UndoTap(p, o) \/ UndoAnswer(p, o)
    \/ \E q \in Quarters : QuarterTap(p, q)
    \/ QuarterAnswer(p)

ServerStep(p) ==
    \/ \E r \in log : Redo(p, r)
    \/ \E o \in {"record", "redo"} : ReadLast(p, o) \/ Insert(p, o)
    \/ \E o \in Undo : Delete(p, o) \/ Refresh(p, o)
    \/ WriteQuarter(p)

Next ==
    \/ \E p \in Page : PageStep(p) \/ ServerStep(p) \/ \E o \in Op : Fail(p, o)
    \/ \E s \in Statuses : UpdateGameStatus(s)

Spec == Init /\ [][Next]_vars

-----------------------------------------------------------------------------
\* Every row, call and copy stays in its domain.
TypeOK ==
    /\ log \subseteq [id : 1..lastId, sequence : Nat \ {0}, quarter : Quarters, seen : 0..lastId]
    /\ lastId \in Nat /\ status \in Statuses /\ currentQuarter \in Quarters
    /\ call \in [Page -> [Op -> Call]]
    /\ view \in [Page -> View]
    /\ picked \in [Page -> [player : BOOLEAN, item : BOOLEAN]]
    /\ blurred \subseteq Page /\ taps \in 0..MaxTaps

\* A record whose call looked after another was stored, has a higher sequence for
\* as long as both are there: only calls that overlap share or swap their sequences.
OrderedUnlessConcurrent ==
    \A r, s \in log : r.id <= s.seen => r.sequence < s.sequence

\* An undo takes the last record: what it leaves was stored after it looked, or
\* was not recorded after the one it takes.
UndoTakesTheLast ==
    [][\A t \in log \ log' : \E p \in Page, o \in Undo :
          /\ call[p][o].target = t.id
          /\ \A r \in log' : r.id <= call[p][o].seen => r.seen < t.id]_vars

\* A page on its own that waits for one call before the next shows the game: each row
\* once, in some order, the one it appends among them, and the quarter of the server.
QuietPageAgrees ==
    \A p \in Page \ blurred : Quiet(p) => view[p] \in Loads
=============================================================================
