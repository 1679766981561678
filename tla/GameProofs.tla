------------------------------ MODULE GameProofs ------------------------------
(***************************************************************************)
(* Proofs about games.  First GameLog, for any number of pages, quarters   *)
(* and calls: the order of the rows and what an undo takes, what a page    *)
(* shows that waits for one call before the next, and the domains.  Then   *)
(* the page of games, as the instance GamePage that GroupPages makes of    *)
(* GamesPage, for any number of games, statuses, ranges, requests and      *)
(* changes by other devices: its lists are those of the server once        *)
(* nothing is on its way, and what is selected is shown.                   *)
(***************************************************************************)
EXTENDS GroupPages, FiniteSetTheorems, SequenceTheorems, NaturalsInduction, TLAPS

-----------------------------------------------------------------------------
(* GameLog                                                                 *)

\* Rows and the serial.
RowsInv ==
    /\ lastId \in Nat
    /\ \A r \in log : /\ r.id \in Nat /\ r.sequence \in Nat /\ r.seen \in Nat
                      /\ r.id <= lastId /\ r.seen <= lastId

\* What a call has read: the sequence it is about to store is above that of every row
\* it saw, and every row it saw was stored by a call that had not seen the one it is
\* about to delete.
Sound(c) ==
    /\ {"pc", "quarter", "sequence", "seen", "target", "loaded"} \subseteq DOMAIN c
    /\ c.sequence \in Nat /\ c.seen \in Nat /\ c.target \in Nat /\ c.seen <= lastId
    /\ c.pc = "insert" => \A r \in log : r.id <= c.seen => r.sequence < c.sequence
    /\ c.pc = "delete" => \A r \in log : r.id <= c.seen => r.seen < c.target

CallsInv ==
    /\ DOMAIN call = Page
    /\ \A p \in Page : DOMAIN call[p] = Op /\ \A o \in Op : Sound(call[p][o])

LogInv == RowsInv /\ OrderedUnlessConcurrent /\ CallsInv

\* A call that waits for nothing.
LEMMA IdleIsSound == RowsInv => Sound(Idle)
  BY DEF RowsInv, Sound, Idle

\* Nothing is stored and nobody calls.
LEMMA InitLog == Init => LogInv
  <1> SUFFICES ASSUME Init PROVE LogInv
    OBVIOUS
  <1>1. RowsInv /\ OrderedUnlessConcurrent
    BY DEF Init, RowsInv, OrderedUnlessConcurrent
  <1>2. CallsInv
    BY <1>1, IdleIsSound DEF Init, CallsInv
  <1> QED  BY <1>1, <1>2 DEF LogInv

\* One call moves, and the rows stay.
LEMMA CallStep ==
    ASSUME LogInv, UNCHANGED <<log, lastId>>, NEW p \in Page, NEW o \in Op, NEW c,
           Sound(c), call' = [call EXCEPT ![p][o] = c]
    PROVE  LogInv'
  <1>1. RowsInv' /\ OrderedUnlessConcurrent'
    BY DEF LogInv, RowsInv, OrderedUnlessConcurrent
  <1>2. DOMAIN call' = Page /\ \A q \in Page : DOMAIN call'[q] = Op
    BY DEF LogInv, CallsInv
  <1>3. \A q \in Page, x \in Op : call'[q][x] = IF q = p /\ x = o THEN c ELSE call[q][x]
    BY DEF LogInv, CallsInv
  <1>4. \A q \in Page, x \in Op : Sound(call'[q][x])
    BY <1>3 DEF LogInv, CallsInv
  <1>5. \A q \in Page, x \in Op : Sound(call[q][x])'
    BY <1>4 DEF Sound
  <1> QED  BY <1>1, <1>2, <1>5 DEF LogInv, CallsInv

\* Neither rows nor calls move.
LEMMA StillStep == LogInv /\ UNCHANGED <<log, lastId, call>> => LogInv'
  BY DEF LogInv, RowsInv, OrderedUnlessConcurrent, CallsInv, Sound

\* A call is sent, moves on without its rows, or ends.
LEMMA AdvanceFacts ==
    ASSUME LogInv, NEW p \in Page, NEW o \in Op
    PROVE  /\ Sound(call[p][o]) /\ Sound(Idle)
           /\ Done(p, o) => call' = [call EXCEPT ![p][o] = Idle]
           /\ \A c : Send(p, o, c) \/ Advance(p, o, c) => call' = [call EXCEPT ![p][o] = c]
  BY IdleIsSound DEF LogInv, CallsInv, Done, Advance, Send

-----------------------------------------------------------------------------
\* A record's call has looked for the last row: its sequence is above that of all rows.
LEMMA ReadLastKeeps ==
    ASSUME LogInv, NEW p \in Page, NEW o \in {"record", "redo"}, ReadLast(p, o)
    PROVE  LogInv'
  <1>1. o \in Op /\ UNCHANGED <<log, lastId>>
    BY DEF ReadLast, Op, server
  <1>2. Sound(call[p][o]) /\ lastId \in Nat
    BY <1>1, AdvanceFacts DEF LogInv, RowsInv
  <1>3. CASE /\ log = {}
             /\ Advance(p, o, [call[p][o] EXCEPT !.pc = "insert", !.sequence = 1, !.seen = lastId])
    <2> DEFINE c == [call[p][o] EXCEPT !.pc = "insert", !.sequence = 1, !.seen = lastId]
    <2>1. Sound(c)
      BY <1>2, <1>3 DEF Sound
    <2>2. call' = [call EXCEPT ![p][o] = c]
      BY <1>3 DEF Advance
    <2> QED  BY <1>1, <2>1, <2>2, CallStep
  <1>4. ASSUME NEW r \in LastRows,
               Advance(p, o, [call[p][o] EXCEPT !.pc = "insert", !.sequence = NextSequence(r),
                                                !.seen = lastId])
        PROVE  LogInv'
    <2> DEFINE c == [call[p][o] EXCEPT !.pc = "insert", !.sequence = NextSequence(r), !.seen = lastId]
    <2>1. /\ NextSequence(r) \in Nat
          /\ \A s \in log : s.sequence < NextSequence(r)
      BY DEF LastRows, NextSequence, LogInv, RowsInv
    <2>2. c.pc = "insert" /\ c.sequence = NextSequence(r) /\ c.seen = lastId
          /\ c.target = call[p][o].target /\ DOMAIN c = DOMAIN call[p][o]
      BY <1>2 DEF Sound
    <2>3. Sound(c)
      BY <1>2, <2>1, <2>2 DEF Sound
    <2>4. call' = [call EXCEPT ![p][o] = c]
      BY <1>4 DEF Advance
    <2> QED  BY <1>1, <2>3, <2>4, CallStep
  <1> QED  BY <1>3, <1>4 DEF ReadLast

\* The row that is stored is above all that its call saw, and newer than what any
\* other saw.
LEMMA InsertKeeps ==
    ASSUME LogInv, NEW p \in Page, NEW o \in {"record", "redo"}, Insert(p, o)
    PROVE  LogInv'
  <1> DEFINE c == call[p][o]
             n == [id |-> lastId + 1, sequence |-> c.sequence, quarter |-> c.quarter, seen |-> c.seen]
             d == [c EXCEPT !.pc = "answer", !.target = lastId + 1]
  <1>1. /\ o \in Op /\ c.pc = "insert" /\ log' = log \cup {n} /\ lastId' = lastId + 1
        /\ call' = [call EXCEPT ![p][o] = d]
    BY DEF Insert, Advance, Op
  <1>2. Sound(c) /\ lastId \in Nat /\ \A r \in log : r.id \in Nat /\ r.sequence \in Nat /\ r.seen \in Nat
                                                     /\ r.id <= lastId /\ r.seen <= lastId
    BY <1>1 DEF LogInv, CallsInv, RowsInv
  <1>3. /\ n.id = lastId + 1 /\ n.sequence = c.sequence /\ n.seen = c.seen
        /\ c.sequence \in Nat /\ c.seen \in Nat /\ c.seen <= lastId
        /\ \A r \in log : r.id <= c.seen => r.sequence < c.sequence
    BY <1>1, <1>2 DEF Sound
  <1> HIDE DEF n
  <1>4. RowsInv'
    <2>1. lastId' \in Nat
      BY <1>1, <1>2
    <2>2. \A r \in log' : /\ r.id \in Nat /\ r.sequence \in Nat /\ r.seen \in Nat
                          /\ r.id <= lastId + 1 /\ r.seen <= lastId + 1
      BY <1>1, <1>2, <1>3
    <2> QED  BY <1>1, <2>1, <2>2 DEF RowsInv
  <1>5. OrderedUnlessConcurrent'
    <2> SUFFICES ASSUME NEW r \in log', NEW s \in log', r.id <= s.seen PROVE r.sequence < s.sequence
      BY DEF OrderedUnlessConcurrent
    <2>1. r # n
      BY <1>1, <1>2, <1>3
    <2>2. CASE s = n
      BY <1>1, <1>3, <2>1, <2>2
    <2>3. CASE s # n
      BY <1>1, <2>1, <2>3 DEF LogInv, OrderedUnlessConcurrent
    <2> QED  BY <2>2, <2>3
  <1>6. CallsInv'
    <2>1. DOMAIN call' = Page /\ \A q \in Page : DOMAIN call'[q] = Op
      BY <1>1 DEF LogInv, CallsInv
    <2>2. \A q \in Page, x \in Op : call'[q][x] = IF q = p /\ x = o THEN d ELSE call[q][x]
      BY <1>1 DEF LogInv, CallsInv
    <2>3. ASSUME NEW q \in Page, NEW x \in Op PROVE Sound(call[q][x])'
      <3> DEFINE e == call'[q][x]
      <3>1. /\ {"pc", "quarter", "sequence", "seen", "target", "loaded"} \subseteq DOMAIN e
            /\ e.sequence \in Nat /\ e.seen \in Nat /\ e.target \in Nat /\ e.seen <= lastId
            /\ e.pc = "insert" => \A r \in log : r.id <= e.seen => r.sequence < e.sequence
            /\ e.pc = "delete" => \A r \in log : r.id <= e.seen => r.seen < e.target
        <4>1. CASE q = p /\ x = o
          <5>1. e = d
            BY <2>2, <4>1
          <5>2. /\ d.pc = "answer" /\ d.target = lastId + 1 /\ d.sequence = c.sequence
                /\ d.seen = c.seen /\ DOMAIN d = DOMAIN c
            BY <1>2 DEF Sound
          <5> QED  BY <1>2, <5>1, <5>2 DEF Sound
        <4>2. CASE ~(q = p /\ x = o)
          <5>1. e = call[q][x] /\ Sound(call[q][x])
            BY <2>2, <4>2 DEF LogInv, CallsInv
          <5> HIDE DEF e
          <5> QED  BY <5>1 DEF Sound
        <4> QED  BY <4>1, <4>2
      <3>2. \A r \in log' : r \in log \/ ~(r.id <= e.seen)
        BY <1>1, <1>2, <1>3, <3>1
      <3>3. e.seen <= lastId'
        BY <1>1, <1>2, <3>1
      <3> QED  BY <3>1, <3>2, <3>3 DEF Sound
    <2> QED  BY <2>1, <2>3 DEF CallsInv
  <1> QED  BY <1>4, <1>5, <1>6 DEF LogInv

\* An undo takes a row of the highest sequence: no row is of a call that saw it.
LEMMA UndoTapKeeps ==
    ASSUME LogInv, NEW p \in Page, NEW o \in Undo, UndoTap(p, o)
    PROVE  LogInv'
  <1>1. o \in Op /\ UNCHANGED <<log, lastId>>
    BY DEF UndoTap, Op, server
  <1>2. PICK r \in LastRows : Send(p, o, [Idle EXCEPT !.pc = "delete", !.target = r.id, !.seen = lastId])
    BY DEF UndoTap
  <1> DEFINE c == [Idle EXCEPT !.pc = "delete", !.target = r.id, !.seen = lastId]
  <1>3. call' = [call EXCEPT ![p][o] = c]
    BY <1>2 DEF Send
  <1>4. r \in log /\ r.id \in Nat /\ r.sequence \in Nat /\ lastId \in Nat
    BY DEF LastRows, LogInv, RowsInv
  <1>5. \A s \in log : s.seen < r.id
    <2> SUFFICES ASSUME NEW s \in log, r.id <= s.seen PROVE FALSE
      BY <1>4 DEF LogInv, RowsInv
    <2>1. r.sequence < s.sequence
      BY <1>4 DEF LogInv, OrderedUnlessConcurrent
    <2>2. s.sequence <= r.sequence /\ s.sequence \in Nat
      BY DEF LastRows, LogInv, RowsInv
    <2> QED  BY <1>4, <2>1, <2>2
  <1>6. Sound(c)
    BY <1>4, <1>5 DEF Sound, Idle
  <1> QED  BY <1>1, <1>3, <1>6, CallStep

\* Rows go: what was said of all of them holds of the rest.
LEMMA DeleteKeeps ==
    ASSUME LogInv, NEW p \in Page, NEW o \in Undo, Delete(p, o)
    PROVE  LogInv'
  <1> DEFINE c == [call[p][o] EXCEPT !.pc = "refresh"]
  <1>1. o \in Op /\ log' \subseteq log /\ lastId' = lastId /\ call' = [call EXCEPT ![p][o] = c]
    BY DEF Delete, Advance, Op
  <1>2. RowsInv' /\ OrderedUnlessConcurrent'
    BY <1>1 DEF LogInv, RowsInv, OrderedUnlessConcurrent
  <1>3. DOMAIN call' = Page /\ \A q \in Page : DOMAIN call'[q] = Op
    BY <1>1 DEF LogInv, CallsInv
  <1>4. Sound(c)
    <2>1. Sound(call[p][o])
      BY <1>1 DEF LogInv, CallsInv
    <2>2. /\ c.pc = "refresh" /\ DOMAIN c = DOMAIN call[p][o] /\ c.seen = call[p][o].seen
          /\ c.sequence = call[p][o].sequence /\ c.target = call[p][o].target
      BY <2>1 DEF Sound
    <2> QED  BY <2>1, <2>2 DEF Sound
  <1>5. \A q \in Page, x \in Op : Sound(call'[q][x])
    <2>1. \A q \in Page, x \in Op : call'[q][x] = IF q = p /\ x = o THEN c ELSE call[q][x]
      BY <1>1 DEF LogInv, CallsInv
    <2> QED  BY <1>4, <2>1 DEF LogInv, CallsInv
  <1>6. \A q \in Page, x \in Op : Sound(call[q][x])'
    BY <1>1, <1>5 DEF Sound
  <1> QED  BY <1>2, <1>3, <1>6 DEF LogInv, CallsInv

\* Calls that neither look for rows nor store any.
LEMMA OtherCallsKeep ==
    ASSUME LogInv, NEW p \in Page,
           \/ RecordTap(p) \/ \E r \in log : Redo(p, r)
           \/ \E q \in Quarters : QuarterTap(p, q)
           \/ WriteQuarter(p) \/ \E o \in Undo : Refresh(p, o)
    PROVE  LogInv'
  <1>1. Undo \subseteq Op /\ {"record", "redo", "quarter"} \subseteq Op
    BY DEF Op
  <1>2. ASSUME NEW o \in Op, NEW c, Sound(c), call' = [call EXCEPT ![p][o] = c],
               UNCHANGED <<log, lastId>>
        PROVE  LogInv'
    BY <1>2, CallStep
  <1>3. CASE RecordTap(p)
    <2> DEFINE c == [Idle EXCEPT !.pc = "last", !.quarter = currentQuarter]
    <2>1. Sound(c)
      BY DEF LogInv, RowsInv, Sound, Idle
    <2> QED  BY <1>1, <1>2, <1>3, <2>1 DEF RecordTap, Send, server
  <1>4. ASSUME NEW r \in log, Redo(p, r) PROVE LogInv'
    <2> DEFINE c == [Idle EXCEPT !.pc = "last", !.quarter = r.quarter]
    <2>1. Sound(c)
      BY DEF LogInv, RowsInv, Sound, Idle
    <2> QED  BY <1>1, <1>2, <1>4, <2>1 DEF Redo, Send, server
  <1>5. ASSUME NEW q \in Quarters, QuarterTap(p, q) PROVE LogInv'
    <2> DEFINE c == [Idle EXCEPT !.pc = "write", !.quarter = q]
    <2>1. Sound(c)
      BY DEF LogInv, RowsInv, Sound, Idle
    <2> QED  BY <1>1, <1>2, <1>5, <2>1 DEF QuarterTap, Send, server
  <1>6. CASE WriteQuarter(p)
    <2> DEFINE c == [call[p]["quarter"] EXCEPT !.pc = "answer"]
    <2>1. Sound(call[p]["quarter"])
      BY <1>1 DEF LogInv, CallsInv
    <2>2. Sound(c)
      BY <2>1 DEF Sound
    <2> QED  BY <1>1, <1>2, <1>6, <2>2 DEF WriteQuarter, Advance
  <1>7. ASSUME NEW o \in Undo, Refresh(p, o) PROVE LogInv'
    <2>0. PICK v : call' = [call EXCEPT ![p][o] = [call[p][o] EXCEPT !.pc = "answer", !.loaded = v]]
      BY <1>7 DEF Refresh, Advance
    <2> DEFINE c == [call[p][o] EXCEPT !.pc = "answer", !.loaded = v]
    <2>1. Sound(call[p][o])
      BY <1>1 DEF LogInv, CallsInv
    <2>2. /\ c.pc = "answer" /\ DOMAIN c = DOMAIN call[p][o] /\ c.seen = call[p][o].seen
          /\ c.sequence = call[p][o].sequence /\ c.target = call[p][o].target
      BY <2>1 DEF Sound
    <2>3. Sound(c)
      BY <2>1, <2>2 DEF Sound
    <2> QED  BY <1>1, <1>2, <1>7, <2>0, <2>3 DEF Refresh, server
  <1> QED  BY <1>3, <1>4, <1>5, <1>6, <1>7

\* A call ends, with its answer or without.
LEMMA EndKeeps ==
    ASSUME LogInv, NEW p \in Page,
           \/ RecordAnswer(p) \/ RedoAnswer(p) \/ QuarterAnswer(p)
           \/ \E o \in Undo : UndoAnswer(p, o)
           \/ \E o \in Op : Fail(p, o)
    PROVE  LogInv'
  <1>1. PICK o \in Op : call' = [call EXCEPT ![p][o] = Idle] /\ UNCHANGED <<log, lastId>>
    BY DEF RecordAnswer, RedoAnswer, QuarterAnswer, UndoAnswer, Fail, Done, Op, server
  <1>2. Sound(Idle)
    BY IdleIsSound DEF LogInv
  <1> QED  BY <1>1, <1>2, CallStep

-----------------------------------------------------------------------------
\* Every step keeps the invariant.
LEMMA NextLog == LogInv /\ [Next]_vars => LogInv'
  <1> SUFFICES ASSUME LogInv, [Next]_vars PROVE LogInv'
    OBVIOUS
  <1>1. CASE UNCHANGED vars
    BY <1>1, StillStep DEF vars, server
  <1>2. ASSUME NEW s \in Statuses, UpdateGameStatus(s) PROVE LogInv'
    BY <1>2, StillStep DEF UpdateGameStatus
  <1>3. ASSUME NEW p \in Page, PageStep(p) PROVE LogInv'
    <2>1. CASE PlayerTap(p) \/ CancelTap(p) \/ ItemUnpick(p)
      BY <2>1, StillStep DEF PlayerTap, CancelTap, ItemUnpick, server
    <2>2. CASE \E o \in Undo : UndoTap(p, o)
      BY <2>2, UndoTapKeeps
    <2>3. CASE RecordTap(p) \/ \E q \in Quarters : QuarterTap(p, q)
      BY <2>3, OtherCallsKeep
    <2>4. CASE RecordAnswer(p) \/ RedoAnswer(p) \/ QuarterAnswer(p) \/ \E o \in Undo : UndoAnswer(p, o)
      BY <2>4, EndKeeps
    <2> QED  BY <1>3, <2>1, <2>2, <2>3, <2>4 DEF PageStep
  <1>4. ASSUME NEW p \in Page, ServerStep(p) PROVE LogInv'
    <2>1. CASE \E o \in {"record", "redo"} : ReadLast(p, o) \/ Insert(p, o)
      BY <2>1, ReadLastKeeps, InsertKeeps
    <2>2. CASE \E o \in Undo : Delete(p, o)
      BY <2>2, DeleteKeeps
    <2>3. CASE (\E r \in log : Redo(p, r)) \/ WriteQuarter(p) \/ \E o \in Undo : Refresh(p, o)
      BY <2>3, OtherCallsKeep
    <2> QED  BY <1>4, <2>1, <2>2, <2>3 DEF ServerStep
  <1>5. ASSUME NEW p \in Page, NEW o \in Op, Fail(p, o) PROVE LogInv'
    BY <1>5, EndKeeps
  <1> QED  BY <1>1, <1>2, <1>3, <1>4, <1>5 DEF Next

\* The inductive invariant of the record of a game.
THEOREM RecordInvariant == Spec => []LogInv
  BY InitLog, NextLog, PTL DEF Spec

\* A record whose call looked after another was stored has a higher sequence, for as
\* long as both are there: only calls that overlap share or swap their sequences.
THEOREM RecordsAreOrdered == Spec => []OrderedUnlessConcurrent
  BY RecordInvariant, PTL DEF LogInv

\* Only the deletion of an undo takes a row.
LEMMA OnlyUndoTakes ==
    ASSUME LogInv, Next, NEW t \in log \ log'
    PROVE  \E p \in Page, o \in Undo : Delete(p, o) /\ call[p][o].target = t.id
  <1>1. log' # log
    OBVIOUS
  <1>2. ASSUME NEW p \in Page, NEW o \in {"record", "redo"}, Insert(p, o) PROVE FALSE
    BY <1>2 DEF Insert
  <1>3. PICK p \in Page, o \in Undo : Delete(p, o)
    BY <1>1, <1>2 DEF Next, PageStep, ServerStep, PlayerTap, CancelTap, ItemUnpick, RecordTap,
       RecordAnswer, RedoAnswer, UndoTap, UndoAnswer, QuarterTap, QuarterAnswer, Redo, ReadLast,
       Refresh, WriteQuarter, Fail, UpdateGameStatus, server
  <1>4. call[p][o].target = t.id
    BY <1>3 DEF Delete
  <1> QED  BY <1>3, <1>4

\* An undo takes the last record: what it leaves was stored after it looked, or was
\* not recorded after the one it takes, however many undos and records overlap.
THEOREM UndoIsOfTheLast == Spec => UndoTakesTheLast
  <1>1. ASSUME LogInv, [Next]_vars
        PROVE  [\A t \in log \ log' : \E p \in Page, o \in Undo :
                   /\ call[p][o].target = t.id
                   /\ \A r \in log' : r.id <= call[p][o].seen => r.seen < t.id]_vars
    <2> SUFFICES ASSUME Next, NEW t \in log \ log'
                 PROVE  \E p \in Page, o \in Undo :
                          /\ call[p][o].target = t.id
                          /\ \A r \in log' : r.id <= call[p][o].seen => r.seen < t.id
      BY <1>1
    <2>1. PICK p \in Page, o \in Undo : Delete(p, o) /\ call[p][o].target = t.id
      BY <1>1, OnlyUndoTakes
    <2>2. call[p][o].pc = "delete" /\ log' \subseteq log /\ o \in Op
      BY <2>1 DEF Delete, Op
    <2>3. \A r \in log : r.id <= call[p][o].seen => r.seen < t.id
      BY <1>1, <2>1, <2>2 DEF LogInv, CallsInv, Sound
    <2> QED  BY <2>1, <2>2, <2>3
  <1> QED  BY <1>1, RecordInvariant, PTL DEF Spec, UndoTakesTheLast

-----------------------------------------------------------------------------
(* What a page shows.  A game is loaded in any order of its rows, each     *)
(* once: a row that is stored and appended gives one of these orders.      *)

\* Some numbers have a least.
LEMMA LeastOf ==
    ASSUME NEW S \in SUBSET Nat, S # {}
    PROVE  \E m \in S : \A e \in S : m <= e
  <1>1. PICK x \in S : \A y \in S : ~(<<y, x>> \in OpToRel(<, Nat))
    BY NatLessThanWellFounded, WFMin
  <1>2. x \in Nat /\ \A y \in S : y \in Nat
    BY <1>1
  <1>3. \A y \in S : ~(y < x)
    BY <1>1, <1>2 DEF OpToRel
  <1>4. \A y \in S : x <= y
    BY <1>2, <1>3
  <1> QED  BY <1>1, <1>4

\* No two rows have an id.
Distinct == IsFiniteSet(log) /\ \A r, s \in log : r.id = s.id => r = s

\* As many rows are shown as there are.
LEMMA RowsAreShown ==
    ASSUME Distinct
    PROVE  IsFiniteSet(Rows) /\ Cardinality(Rows) = Cardinality(log) /\ Cardinality(Rows) \in Nat
  <1> DEFINE f == [r \in log |-> Show(r)]
  <1>1. f \in [log -> Rows] /\ \A t \in Rows : \E r \in log : f[r] = t
    BY DEF Rows
  <1>2. \A r, q \in log : f[r] = f[q] => r = q
    BY DEF Distinct, Show
  <1>3. f \in Bijection(log, Rows)
    <2>1. DOMAIN f = log
      OBVIOUS
    <2> HIDE DEF f
    <2> QED  BY <1>1, <1>2, <2>1 DEF Bijection, Injection, Surjection, IsInjective
  <1> HIDE DEF f
  <1> QED  BY <1>3, FS_Bijection, FS_CardinalityType DEF ExistsBijection, Distinct

\* The orders of some rows: each is at one place.
LEMMA Arranged ==
    ASSUME NEW R, NEW f
    PROVE  f \in Bijection(1..Cardinality(R), R) <=>
             /\ f \in [1..Cardinality(R) -> R]
             /\ \A a, b \in 1..Cardinality(R) : f[a] = f[b] => a = b
             /\ \A t \in R : \E a \in 1..Cardinality(R) : f[a] = t
  BY DEF Bijection, Injection, Surjection, IsInjective

\* A copy of a game with other records and another quarter.
LEMMA NewParts ==
    ASSUME NEW l, NEW q, NEW s, NEW e, NEW d
    PROVE  [[logs |-> l, quarter |-> q, status |-> s] EXCEPT !.logs = e, !.quarter = d]
           = [logs |-> e, quarter |-> d, status |-> s]
  <1>1. PICK r : r = [[logs |-> l, quarter |-> q, status |-> s] EXCEPT !.logs = e, !.quarter = d]
    OBVIOUS
  <1>2. r \in [logs : {e}, quarter : {d}, status : {s}]
    BY <1>1
  <1>3. r = [logs |-> e, quarter |-> d, status |-> s]
    BY <1>2
  <1> QED  BY <1>1, <1>3

\* A row that is stored is not among those there are.
LEMMA AppendedRow ==
    ASSUME RowsInv, Distinct, NEW n, n.id = lastId + 1, log' = log \cup {n}
    PROVE  /\ Distinct' /\ Rows' = Rows \cup {Show(n)} /\ Show(n) \notin Rows
           /\ Cardinality(Rows') = Cardinality(Rows) + 1
  <1>1. \A r \in log : r.id # n.id
    BY DEF RowsInv
  <1>2. Distinct'
    <2>1. IsFiniteSet(log')
      BY FS_AddElement DEF Distinct
    <2> QED  BY <1>1, <2>1 DEF Distinct
  <1>3. Rows' = Rows \cup {Show(n)}
    BY DEF Rows, Show
  <1>4. Show(n) \notin Rows
    BY <1>1 DEF Rows, Show
  <1>5. Cardinality(Rows \cup {Show(n)}) = Cardinality(Rows) + 1
    BY <1>4, RowsAreShown, FS_AddElement
  <1> QED  BY <1>2, <1>3, <1>4, <1>5

\* A copy that appends what is stored is one of those that may be loaded.
LEMMA InsertAppends ==
    ASSUME RowsInv, Distinct, NEW c, NEW n, log' = log \cup {n}, n.id = lastId + 1,
           UNCHANGED <<currentQuarter, status>>, n.quarter = currentQuarter,
           c.target = lastId + 1, c.quarter = currentQuarter, NEW v \in Loads
    PROVE  TakeRecord(v, c) \in Loads'
  <1> DEFINE m == Cardinality(Rows)
             t == Append(v.logs, Show(n))
  <1>1. /\ Rows' = Rows \cup {Show(n)} /\ Show(n) \notin Rows /\ Cardinality(Rows') = m + 1
        /\ m \in Nat
    BY AppendedRow, RowsAreShown
  <1>2. /\ v \in [logs : [1..m -> Rows], quarter : {currentQuarter}, status : {status}]
        /\ \A a, b \in 1..m : v.logs[a] = v.logs[b] => a = b
        /\ \A x \in Rows : \E a \in 1..m : v.logs[a] = x
    <2>1. /\ v = [logs |-> v.logs, quarter |-> v.quarter, status |-> v.status]
          /\ v.logs \in Bijection(1..m, Rows) /\ v.quarter = currentQuarter /\ v.status = status
      BY DEF Loads
    <2>2. /\ v.logs \in [1..m -> Rows]
          /\ \A a, b \in 1..m : v.logs[a] = v.logs[b] => a = b
          /\ \A x \in Rows : \E a \in 1..m : v.logs[a] = x
      BY <2>1, Arranged
    <2> HIDE DEF m
    <2> QED  BY <2>1, <2>2
  <1> HIDE DEF m
  <1>3. t = [k \in 1..m + 1 |-> IF k = m + 1 THEN Show(n) ELSE v.logs[k]]
    <2>1. v.logs \in Seq(Rows \cup {Show(n)}) /\ Len(v.logs) = m /\ Show(n) \in Rows \cup {Show(n)}
      BY <1>1, <1>2
    <2> QED  BY <1>1, <2>1
  <1>4. \A k \in 1..m : k \in 1..m + 1 /\ k # m + 1 /\ t[k] = v.logs[k] /\ v.logs[k] \in Rows
    BY <1>1, <1>2, <1>3
  <1>5. m + 1 \in 1..m + 1 /\ t[m + 1] = Show(n) /\ \A k \in 1..m + 1 : k \in 1..m \/ k = m + 1
    BY <1>1, <1>3
  <1>6. DOMAIN t = 1..m + 1 /\ t = [k \in 1..m + 1 |-> t[k]]
    BY <1>3
  <1>7. Show(n) = [id |-> c.target, quarter |-> c.quarter]
    BY DEF Show
  <1>8. TakeRecord(v, c) = [logs |-> t, quarter |-> currentQuarter, status |-> status]
    <2>1. PICK l : v = [logs |-> l, quarter |-> currentQuarter, status |-> status] /\ v.logs = l
      BY <1>2
    <2>2. TakeRecord(v, c) = [[logs |-> l, quarter |-> currentQuarter, status |-> status]
                                 EXCEPT !.logs = t, !.quarter = c.quarter]
      BY <1>7, <2>1 DEF TakeRecord
    <2> HIDE DEF t
    <2> QED  BY <2>2, NewParts
  <1> HIDE DEF t
  <1>9. t \in [1..m + 1 -> Rows']
    BY <1>1, <1>4, <1>5, <1>6
  <1>10. \A a, b \in 1..m + 1 : t[a] = t[b] => a = b
    <2> SUFFICES ASSUME NEW a \in 1..m + 1, NEW b \in 1..m + 1, t[a] = t[b] PROVE a = b
      OBVIOUS
    <2>1. CASE a \in 1..m /\ b \in 1..m
      BY <1>2, <1>4, <2>1
    <2>2. CASE a = m + 1 \/ b = m + 1
      BY <1>1, <1>4, <1>5, <2>2
    <2> QED  BY <1>5, <2>1, <2>2
  <1>11. \A x \in Rows' : \E a \in 1..m + 1 : t[a] = x
    BY <1>1, <1>2, <1>4, <1>5
  <1>12. t \in Bijection(1..Cardinality(Rows'), Rows')
    BY <1>1, <1>9, <1>10, <1>11, Arranged
  <1> QED  BY <1>8, <1>12 DEF Loads

\* What a page whose only call is c shows, next to the game.
Due(o, c, v, G) ==
    /\ c.pc = "idle" => v \in G
    /\ o = "record" /\ c.pc \in {"last", "insert"} => v \in G /\ c.quarter = v.quarter
    /\ o = "record" /\ c.pc = "answer" => TakeRecord(v, c) \in G
    /\ o = "quarter" /\ c.pc = "write" => v \in G
    /\ o = "quarter" /\ c.pc = "answer" => [v EXCEPT !.quarter = c.quarter] \in G
    /\ o \in Undo /\ c.pc = "answer" => c.loaded \in G

\* A page waits for at most one call, and that call's answer brings it to the game.
Alone(p, o) == \A x \in Op \ {o} : ~InFlight(p, x)
Agrees(p)   == \E o \in Op \ {"redo"} : Alone(p, o) /\ Due(o, call[p][o], view[p], Loads)

\* The inductive invariant of the pages that nobody disturbed.
PagesInv == Distinct /\ DOMAIN view = Page /\ \A p \in Page \ blurred : Agrees(p)

\* A page waits for nothing.
LEMMA QuietAgrees ==
    ASSUME NEW p, Agrees(p), Quiet(p)
    PROVE  view[p] \in Loads
  BY DEF Agrees, Quiet, InFlight, Due

\* A page waits for the one call.
LEMMA WaitsForOne ==
    ASSUME NEW p, NEW o \in Op, Agrees(p), InFlight(p, o)
    PROVE  o # "redo" /\ Alone(p, o) /\ Due(o, call[p][o], view[p], Loads)
  BY DEF Agrees, Alone

\* A game that is not written is loaded as before.
LEMMA SameGame ==
    ASSUME UNCHANGED <<log, status, currentQuarter>>
    PROVE  Loads' = Loads
  BY DEF Loads, Rows, Show

\* A page and its calls stay as they are.
LEMMA StaysAgreed ==
    ASSUME NEW p, Agrees(p), UNCHANGED <<log, status, currentQuarter>>,
           view'[p] = view[p], call'[p] = call[p]
    PROVE  Agrees(p)'
  <1>1. Loads' = Loads
    BY SameGame
  <1> QED  BY <1>1 DEF Agrees, Alone, InFlight

\* The only call of a page moves.
LEMMA CallMoves ==
    ASSUME LogInv, NEW p \in Page, NEW o \in Op, o # "redo", Alone(p, o), NEW c,
           call' = [call EXCEPT ![p][o] = c], Due(o, c, view'[p], Loads')
    PROVE  Agrees(p)'
  <1>1. call'[p][o] = c /\ \A x \in Op \ {o} : call'[p][x] = call[p][x]
    BY DEF LogInv, CallsInv
  <1>2. Alone(p, o)'
    BY <1>1 DEF Alone, InFlight
  <1> QED  BY <1>1, <1>2 DEF Agrees

\* The other pages.
LEMMA OthersAgree ==
    ASSUME LogInv, PagesInv, NEW p \in Page, NEW o \in Op, NEW c, NEW q \in Page \ blurred', q # p,
           call' = [call EXCEPT ![p][o] = c], view'[q] = view[q],
           UNCHANGED <<log, status, currentQuarter>>, blurred \ {p} \subseteq blurred'
    PROVE  Agrees(q)'
  <1>1. call'[q] = call[q]
    BY DEF LogInv, CallsInv
  <1>2. Agrees(q)
    BY DEF PagesInv
  <1> QED  BY <1>1, <1>2, StaysAgreed

\* A tap sends the only call of a page.
LEMMA TapAgrees ==
    ASSUME LogInv, PagesInv, NEW p \in Page, NEW o \in Op, o # "redo", NEW c, Send(p, o, c), Blur(p, o),
           UNCHANGED <<server, view>>,
           \A v, G : v \in G /\ currentQuarter = v.quarter => Due(o, c, v, G)
    PROVE  PagesInv'
  <1>1. Distinct' /\ DOMAIN view' = Page
    BY DEF PagesInv, Distinct, server
  <1>2. ASSUME NEW q \in Page \ blurred' PROVE Agrees(q)'
    <2>1. q = p /\ q \notin blurred /\ Alone(p, o)
      BY DEF Blur, Alone
    <2>2. Quiet(p)
      BY <2>1 DEF Send, Alone, Quiet
    <2>3. view[p] \in Loads /\ view[p].quarter = currentQuarter
      BY <2>1, <2>2, QuietAgrees DEF PagesInv, Loads
    <2>4. Loads' = Loads /\ view' = view
      BY SameGame DEF server
    <2>5. Due(o, c, view'[p], Loads')
      BY <2>3, <2>4
    <2> QED  BY <2>1, <2>5, CallMoves DEF Send
  <1> QED  BY <1>1, <1>2 DEF PagesInv

\* A call moves while the game is not written.
LEMMA MoveAgrees ==
    ASSUME LogInv, PagesInv, NEW p \in Page, NEW o \in Op, NEW c, call' = [call EXCEPT ![p][o] = c],
           UNCHANGED server, DOMAIN view' = Page, \A q \in Page \ {p} : view'[q] = view[q],
           blurred \ {p} \subseteq blurred',
           p \notin blurred' => o # "redo" /\ Alone(p, o) /\ Due(o, c, view'[p], Loads)
    PROVE  PagesInv'
  <1>1. Distinct' /\ Loads' = Loads
    BY SameGame DEF PagesInv, Distinct, server
  <1>2. ASSUME NEW q \in Page \ blurred' PROVE Agrees(q)'
    <2>1. CASE q = p
      BY <1>1, <2>1, CallMoves
    <2>2. CASE q # p
      BY <2>2, OthersAgree DEF server
    <2> QED  BY <2>1, <2>2
  <1> QED  BY <1>1, <1>2 DEF PagesInv

\* A call looks for the last row.
LEMMA ReadLastAgrees ==
    ASSUME LogInv, PagesInv, NEW p \in Page, NEW o \in {"record", "redo"}, ReadLast(p, o)
    PROVE  PagesInv'
  <1>1. o \in Op /\ call[p][o].pc = "last" /\ InFlight(p, o) /\ DOMAIN view = Page
        /\ UNCHANGED <<server, view, blurred>>
    BY DEF ReadLast, Op, InFlight, PagesInv
  <1>2. PICK s : call' = [call EXCEPT ![p][o] = [call[p][o] EXCEPT !.pc = "insert", !.sequence = s, !.seen = lastId]]
    BY DEF ReadLast, Advance
  <1> DEFINE c == [call[p][o] EXCEPT !.pc = "insert", !.sequence = s, !.seen = lastId]
  <1>3. Sound(call[p][o])
    BY <1>1 DEF LogInv, CallsInv
  <1>4. c.pc = "insert" /\ c.quarter = call[p][o].quarter
    BY <1>3 DEF Sound
  <1>5. ASSUME p \notin blurred PROVE o # "redo" /\ Alone(p, o) /\ Due(o, c, view[p], Loads)
    <2>1. o # "redo" /\ Alone(p, o) /\ Due(o, call[p][o], view[p], Loads)
      BY <1>1, <1>5, WaitsForOne DEF PagesInv
    <2>2. o = "record" /\ view[p] \in Loads /\ c.quarter = view[p].quarter
      BY <1>1, <1>4, <2>1 DEF Due
    <2>3. Due(o, c, view[p], Loads)
      BY <1>4, <2>2 DEF Due, Undo
    <2> QED  BY <2>1, <2>3
  <1> HIDE DEF c
  <1> QED  BY <1>1, <1>2, <1>5, MoveAgrees DEF c

\* A call stores its row.
LEMMA InsertAgrees ==
    ASSUME LogInv, PagesInv, NEW p \in Page, NEW o \in {"record", "redo"}, Insert(p, o)
    PROVE  PagesInv'
  <1> DEFINE c == [call[p][o] EXCEPT !.pc = "answer", !.target = lastId + 1]
             n == [id |-> lastId + 1, sequence |-> call[p][o].sequence,
                   quarter |-> call[p][o].quarter, seen |-> call[p][o].seen]
  <1>1. /\ o \in Op /\ call[p][o].pc = "insert" /\ InFlight(p, o) /\ log' = log \cup {n}
        /\ call' = [call EXCEPT ![p][o] = c] /\ UNCHANGED <<status, currentQuarter, view>> /\ Blur(p, o)
    BY DEF Insert, Op, InFlight, Advance
  <1>2. Sound(call[p][o])
    BY <1>1 DEF LogInv, CallsInv
  <1>3. c.pc = "answer" /\ c.target = lastId + 1 /\ c.quarter = call[p][o].quarter
    BY <1>2 DEF Sound
  <1>4. n.id = lastId + 1 /\ n.quarter = call[p][o].quarter /\ RowsInv /\ Distinct
    BY DEF LogInv, PagesInv
  <1> HIDE DEF c, n
  <1>5. Distinct'
    BY <1>1, <1>4, AppendedRow
  <1>6. ASSUME NEW q \in Page \ blurred' PROVE Agrees(q)'
    <2>1. q = p /\ q \notin blurred
      BY <1>1 DEF Blur
    <2>2. o # "redo" /\ Alone(p, o) /\ Due(o, call[p][o], view[p], Loads)
      BY <1>1, <2>1, WaitsForOne DEF PagesInv
    <2>3. o = "record" /\ view[p] \in Loads /\ call[p][o].quarter = currentQuarter
      BY <1>1, <2>2 DEF Due, Loads
    <2>4. TakeRecord(view[p], c) \in Loads'
      BY <1>1, <1>3, <1>4, <2>3, InsertAppends
    <2>5. Due(o, c, view'[p], Loads')
      BY <1>1, <1>3, <2>3, <2>4 DEF Due, Undo
    <2> QED  BY <1>1, <2>1, <2>2, <2>5, CallMoves
  <1> QED  BY <1>1, <1>5, <1>6 DEF PagesInv

\* The quarter is written.
LEMMA WriteQuarterAgrees ==
    ASSUME LogInv, PagesInv, NEW p \in Page, WriteQuarter(p)
    PROVE  PagesInv'
  <1> DEFINE d == call[p]["quarter"]
             c == [d EXCEPT !.pc = "answer"]
  <1>1. /\ "quarter" \in Op /\ d.pc = "write" /\ InFlight(p, "quarter") /\ currentQuarter' = d.quarter
        /\ call' = [call EXCEPT ![p]["quarter"] = c] /\ UNCHANGED <<log, status, view>> /\ Blur(p, "quarter")
    BY DEF WriteQuarter, Op, InFlight, Advance
  <1>2. Sound(d)
    BY <1>1 DEF LogInv, CallsInv
  <1>3. c.pc = "answer" /\ c.quarter = d.quarter
    BY <1>2 DEF Sound
  <1>4. Distinct'
    BY <1>1 DEF PagesInv, Distinct
  <1>5. ASSUME NEW q \in Page \ blurred' PROVE Agrees(q)'
    <2>1. q = p /\ q \notin blurred
      BY <1>1 DEF Blur
    <2>2. Alone(p, "quarter") /\ Due("quarter", d, view[p], Loads)
      BY <1>1, <2>1, WaitsForOne DEF PagesInv
    <2>3. view[p] \in Loads
      BY <1>1, <2>2 DEF Due
    <2>4. [view[p] EXCEPT !.quarter = c.quarter] \in Loads'
      <3> DEFINE B == Bijection(1..Cardinality(Rows), Rows)
      <3>1. Rows' = Rows
        BY <1>1 DEF Rows, Show
      <3>2. /\ Loads = [logs : B, quarter : {currentQuarter}, status : {status}]
            /\ Loads' = [logs : B, quarter : {c.quarter}, status : {status}]
        BY <1>1, <1>3, <3>1 DEF Loads
      <3> HIDE DEF c, d, B
      <3>3. \A v, k : v \in [logs : B, quarter : {currentQuarter}, status : {status}] =>
                        [v EXCEPT !.quarter = k] \in [logs : B, quarter : {k}, status : {status}]
        OBVIOUS
      <3> QED  BY <2>3, <3>2, <3>3
    <2>5. Due("quarter", c, view'[p], Loads')
      BY <1>1, <1>3, <2>3, <2>4 DEF Due, Undo
    <2> QED  BY <1>1, <2>1, <2>2, <2>5, CallMoves
  <1> QED  BY <1>1, <1>4, <1>5 DEF PagesInv

\* An undo deletes its row.
LEMMA DeleteAgrees ==
    ASSUME LogInv, PagesInv, NEW p \in Page, NEW o \in Undo, Delete(p, o)
    PROVE  PagesInv'
  <1> DEFINE c == [call[p][o] EXCEPT !.pc = "refresh"]
  <1>1. /\ o \in Op /\ InFlight(p, o) /\ log' \subseteq log
        /\ call' = [call EXCEPT ![p][o] = c] /\ UNCHANGED <<view>> /\ Blur(p, o)
    BY DEF Delete, Op, InFlight, Advance
  <1>2. c.pc = "refresh"
    <2>1. Sound(call[p][o])
      BY <1>1 DEF LogInv, CallsInv
    <2> QED  BY <2>1 DEF Sound
  <1>3. Distinct'
    BY <1>1, FS_Subset DEF PagesInv, Distinct
  <1>4. ASSUME NEW q \in Page \ blurred' PROVE Agrees(q)'
    <2>1. q = p /\ q \notin blurred
      BY <1>1 DEF Blur
    <2>2. o # "redo" /\ Alone(p, o)
      BY <1>1, <2>1, WaitsForOne DEF PagesInv
    <2>3. Due(o, c, view'[p], Loads')
      BY <1>2 DEF Due
    <2> QED  BY <1>1, <2>1, <2>2, <2>3, CallMoves
  <1> QED  BY <1>1, <1>3, <1>4 DEF PagesInv

\* The page loads the game after an undo.
LEMMA RefreshAgrees ==
    ASSUME LogInv, PagesInv, NEW p \in Page, NEW o \in Undo, Refresh(p, o)
    PROVE  PagesInv'
  <1>0. PICK v \in Loads : Advance(p, o, [call[p][o] EXCEPT !.pc = "answer", !.loaded = v])
    BY DEF Refresh
  <1> DEFINE c == [call[p][o] EXCEPT !.pc = "answer", !.loaded = v]
  <1>1. /\ o \in Op /\ InFlight(p, o) /\ o # "redo" /\ call' = [call EXCEPT ![p][o] = c]
        /\ UNCHANGED <<server, view>> /\ blurred \ {p} \subseteq blurred'
        /\ DOMAIN view = Page
    BY <1>0 DEF Refresh, Op, InFlight, Advance, Undo, PagesInv
  <1>2. c.pc = "answer" /\ c.loaded \in Loads
    <2>1. Sound(call[p][o])
      BY <1>1 DEF LogInv, CallsInv
    <2> QED  BY <2>1 DEF Sound
  <1>3. Due(o, c, view[p], Loads)
    BY <1>2 DEF Due, Undo
  <1>4. ASSUME p \notin blurred' PROVE Alone(p, o)
    <2>1. CASE \A other \in Op \ {o} : ~InFlight(p, other)
      BY <2>1 DEF Alone
    <2>2. CASE ~ \A other \in Op \ {o} : ~InFlight(p, other)
      BY <1>1, <1>4, <2>2, WaitsForOne DEF Refresh, PagesInv
    <2> QED  BY <2>1, <2>2
  <1> HIDE DEF c
  <1> QED  BY <1>1, <1>3, <1>4, MoveAgrees

\* An answer arrives, or the call failed.
LEMMA EndAgrees ==
    ASSUME LogInv, PagesInv, NEW p \in Page,
           \/ RecordAnswer(p) \/ RedoAnswer(p) \/ QuarterAnswer(p)
           \/ \E o \in Undo : UndoAnswer(p, o)
           \/ \E o \in Op : Fail(p, o)
    PROVE  PagesInv'
  <1>1. DOMAIN view = Page /\ Idle.pc = "idle"
    BY DEF PagesInv, Idle
  <1>2. ASSUME NEW o \in Op, InFlight(p, o), Done(p, o), UNCHANGED <<server, blurred>>,
               DOMAIN view' = Page, \A q \in Page \ {p} : view'[q] = view[q],
               o # "redo" /\ Due(o, call[p][o], view[p], Loads) => view'[p] \in Loads
        PROVE  PagesInv'
    <2>1. ASSUME p \notin blurred PROVE o # "redo" /\ Alone(p, o) /\ Due(o, Idle, view'[p], Loads)
      <3>1. o # "redo" /\ Alone(p, o) /\ Due(o, call[p][o], view[p], Loads)
        BY <1>2, <2>1, WaitsForOne DEF PagesInv
      <3>2. Due(o, Idle, view'[p], Loads)
        BY <1>1, <1>2, <3>1 DEF Due
      <3> QED  BY <3>1, <3>2
    <2> QED  BY <1>2, <2>1, MoveAgrees DEF Done
  <1>3. CASE RecordAnswer(p)
    <2>1. /\ "record" \in Op /\ InFlight(p, "record") /\ Done(p, "record") /\ UNCHANGED <<server, blurred>>
          /\ DOMAIN view' = Page /\ \A q \in Page \ {p} : view'[q] = view[q]
          /\ view'[p] = TakeRecord(view[p], call[p]["record"]) /\ call[p]["record"].pc = "answer"
      BY <1>1, <1>3 DEF RecordAnswer, Op, InFlight
    <2> QED  BY <1>2, <2>1 DEF Due
  <1>4. CASE RedoAnswer(p)
    <2>1. /\ "redo" \in Op /\ InFlight(p, "redo") /\ Done(p, "redo") /\ UNCHANGED <<server, blurred, view>>
      BY <1>4 DEF RedoAnswer, Op, InFlight
    <2> QED  BY <1>1, <1>2, <2>1
  <1>5. CASE QuarterAnswer(p)
    <2>1. /\ "quarter" \in Op /\ InFlight(p, "quarter") /\ Done(p, "quarter") /\ UNCHANGED <<server, blurred>>
          /\ DOMAIN view' = Page /\ \A q \in Page \ {p} : view'[q] = view[q]
          /\ view'[p] = [view[p] EXCEPT !.quarter = call[p]["quarter"].quarter]
          /\ call[p]["quarter"].pc = "answer"
      BY <1>1, <1>5 DEF QuarterAnswer, Op, InFlight
    <2> QED  BY <1>2, <2>1 DEF Due
  <1>6. ASSUME NEW o \in Undo, UndoAnswer(p, o) PROVE PagesInv'
    <2>1. /\ o \in Op /\ InFlight(p, o) /\ Done(p, o) /\ UNCHANGED <<server, blurred>>
          /\ DOMAIN view' = Page /\ \A q \in Page \ {p} : view'[q] = view[q]
          /\ view'[p] = call[p][o].loaded /\ call[p][o].pc = "answer"
      BY <1>1, <1>6 DEF UndoAnswer, Op, InFlight
    <2> QED  BY <1>2, <2>1 DEF Due
  <1>7. ASSUME NEW o \in Op, Fail(p, o) PROVE PagesInv'
    <2>1. /\ call' = [call EXCEPT ![p][o] = Idle] /\ UNCHANGED <<server, view>>
          /\ p \in blurred' /\ blurred \ {p} \subseteq blurred'
      BY <1>7 DEF Fail, Done
    <2> QED  BY <1>1, <2>1, MoveAgrees
  <1> QED  BY <1>3, <1>4, <1>5, <1>6, <1>7

\* Taps that call the server.
LEMMA TapsAgree ==
    ASSUME LogInv, PagesInv, NEW p \in Page,
           \/ RecordTap(p) \/ \E r \in log : Redo(p, r)
           \/ \E o \in Undo : UndoTap(p, o)
           \/ \E q \in Quarters : QuarterTap(p, q)
    PROVE  PagesInv'
  <1>1. Undo \subseteq Op \ {"redo"} /\ {"record", "redo", "quarter"} \subseteq Op
    BY DEF Op, Undo
  <1>2. CASE RecordTap(p)
    <2> DEFINE c == [Idle EXCEPT !.pc = "last", !.quarter = currentQuarter]
    <2>1. c.pc = "last" /\ c.quarter = currentQuarter
      BY DEF Idle
    <2>2. \A v, G : v \in G /\ currentQuarter = v.quarter => Due("record", c, v, G)
      BY <2>1 DEF Due, Undo
    <2> HIDE DEF c
    <2>3. Send(p, "record", c) /\ Blur(p, "record") /\ UNCHANGED <<server, view>>
      BY <1>2 DEF RecordTap, c
    <2> QED  BY <1>1, <2>2, <2>3, TapAgrees
  <1>3. ASSUME NEW o \in Undo, UndoTap(p, o) PROVE PagesInv'
    <2>1. PICK r : Send(p, o, [Idle EXCEPT !.pc = "delete", !.target = r.id, !.seen = lastId])
      BY <1>3 DEF UndoTap
    <2> DEFINE c == [Idle EXCEPT !.pc = "delete", !.target = r.id, !.seen = lastId]
    <2>2. c.pc = "delete"
      BY DEF Idle
    <2>3. \A v, G : v \in G /\ currentQuarter = v.quarter => Due(o, c, v, G)
      BY <2>2 DEF Due
    <2>4. o \in Op /\ o # "redo"
      BY <1>1
    <2> HIDE DEF c
    <2>5. Send(p, o, c) /\ Blur(p, o) /\ UNCHANGED <<server, view>>
      BY <1>3, <2>1 DEF UndoTap, c
    <2> QED  BY <2>3, <2>4, <2>5, TapAgrees
  <1>4. ASSUME NEW q \in Quarters, QuarterTap(p, q) PROVE PagesInv'
    <2> DEFINE c == [Idle EXCEPT !.pc = "write", !.quarter = q]
    <2>1. c.pc = "write"
      BY DEF Idle
    <2>2. \A v, G : v \in G /\ currentQuarter = v.quarter => Due("quarter", c, v, G)
      BY <2>1 DEF Due, Undo
    <2> HIDE DEF c
    <2>3. Send(p, "quarter", c) /\ Blur(p, "quarter") /\ UNCHANGED <<server, view>>
      BY <1>4 DEF QuarterTap, c
    <2> QED  BY <1>1, <2>2, <2>3, TapAgrees
  <1>5. ASSUME NEW r \in log, Redo(p, r) PROVE PagesInv'
    BY <1>5 DEF Redo, PagesInv, Distinct, server
  <1> QED  BY <1>2, <1>3, <1>4, <1>5

\* Neither the game nor a call nor a copy moves.
LEMMA StillAgrees == PagesInv /\ UNCHANGED <<server, call, view, blurred>> => PagesInv'
  <1> SUFFICES ASSUME PagesInv, UNCHANGED <<server, call, view, blurred>> PROVE PagesInv'
    OBVIOUS
  <1>1. Distinct' /\ \A p \in Page \ blurred : Agrees(p)'
    BY StaysAgreed DEF PagesInv, Distinct, server
  <1> QED  BY <1>1 DEF PagesInv

\* Every step keeps the copies.
LEMMA NextPages == LogInv /\ PagesInv /\ [Next]_vars => PagesInv'
  <1> SUFFICES ASSUME LogInv, PagesInv, [Next]_vars PROVE PagesInv'
    OBVIOUS
  <1>1. CASE UNCHANGED vars
    BY <1>1, StillAgrees DEF vars
  <1>2. ASSUME NEW s \in Statuses, UpdateGameStatus(s) PROVE PagesInv'
    BY <1>2 DEF UpdateGameStatus, PagesInv, Distinct
  <1>3. ASSUME NEW p \in Page, PageStep(p) PROVE PagesInv'
    <2>1. CASE PlayerTap(p) \/ CancelTap(p) \/ ItemUnpick(p)
      BY <2>1, StillAgrees DEF PlayerTap, CancelTap, ItemUnpick
    <2>2. CASE RecordTap(p) \/ (\E o \in Undo : UndoTap(p, o)) \/ \E q \in Quarters : QuarterTap(p, q)
      BY <2>2, TapsAgree
    <2>3. CASE RecordAnswer(p) \/ RedoAnswer(p) \/ QuarterAnswer(p) \/ \E o \in Undo : UndoAnswer(p, o)
      BY <2>3, EndAgrees
    <2> QED  BY <1>3, <2>1, <2>2, <2>3 DEF PageStep
  <1>4. ASSUME NEW p \in Page, ServerStep(p) PROVE PagesInv'
    <2>1. CASE \E r \in log : Redo(p, r)
      BY <2>1, TapsAgree
    <2> QED  BY <1>4, <2>1, ReadLastAgrees, InsertAgrees, DeleteAgrees, RefreshAgrees, WriteQuarterAgrees
             DEF ServerStep
  <1>5. ASSUME NEW p \in Page, NEW o \in Op, Fail(p, o) PROVE PagesInv'
    BY <1>5, EndAgrees
  <1> QED  BY <1>1, <1>2, <1>3, <1>4, <1>5 DEF Next

\* A new game has no rows, and every page shows it.
LEMMA InitPages == Init => PagesInv
  <1> SUFFICES ASSUME Init PROVE PagesInv
    OBVIOUS
  <1>1. Distinct /\ Rows = {} /\ Cardinality(Rows) = 0
    BY FS_EmptySet DEF Init, Distinct, Rows
  <1>2. NoView \in Loads
    <2>1. NoView = [logs |-> <<>>, quarter |-> currentQuarter, status |-> status]
      BY DEF Init, NoView
    <2>2. <<>> \in [1..0 -> {}]
      OBVIOUS
    <2>4. <<>> \in Bijection(1..Cardinality(Rows), Rows)
      BY <1>1, <2>2, Arranged
    <2> QED  BY <2>1, <2>4 DEF Loads
  <1>3. ASSUME NEW p \in Page PROVE Agrees(p)
    <2>1. "record" \in Op \ {"redo"} /\ \A o \in Op : call[p][o].pc = "idle"
      BY DEF Op, Init, Idle
    <2>2. view[p] \in Loads
      BY <1>2 DEF Init
    <2> QED  BY <2>1, <2>2 DEF Agrees, Alone, InFlight, Due, Undo
  <1>4. DOMAIN view = Page
    BY DEF Init
  <1> QED  BY <1>1, <1>3, <1>4 DEF PagesInv

\* A page on its own that waits for one call before the next shows the game.
THEOREM QuietPagesShowTheGame == Spec => []QuietPageAgrees
  <1>1. PagesInv => QuietPageAgrees
    BY QuietAgrees DEF PagesInv, QuietPageAgrees
  <1>2. Spec => [](LogInv /\ PagesInv)
    BY InitLog, NextLog, InitPages, NextPages, PTL DEF Spec
  <1> QED  BY <1>1, <1>2, PTL

-----------------------------------------------------------------------------
(* The domains                                                             *)

\* What is loaded is a copy of a game.
LEMMA LoadsAreViews ==
    ASSUME TypeOK, Distinct
    PROVE  Loads \subseteq View
  <1> SUFFICES ASSUME NEW v \in Loads PROVE v \in View
    OBVIOUS
  <1>1. v \in [logs : [1..Cardinality(Rows) -> Rows], quarter : {currentQuarter}, status : {status}]
    <2>1. /\ v = [logs |-> v.logs, quarter |-> v.quarter, status |-> v.status]
          /\ v.logs \in Bijection(1..Cardinality(Rows), Rows) /\ v.quarter = currentQuarter /\ v.status = status
      BY DEF Loads
    <2>2. v.logs \in [1..Cardinality(Rows) -> Rows]
      BY <2>1, Arranged
    <2> QED  BY <2>1, <2>2
  <1>2. Rows \subseteq Shown
    BY DEF TypeOK, Rows, Show, Shown
  <1>3. v.logs \in Seq(Shown)
    BY <1>1, <1>2, RowsAreShown
  <1> QED  BY <1>1, <1>3 DEF View, TypeOK

\* A row that is about to be stored has its sequence, and one that was stored its id.
NumberedCall(o, c) ==
    o \in {"record", "redo"} => (c.pc = "insert" => c.sequence > 0) /\ (c.pc = "answer" => c.target > 0)

\* The inductive type invariant.
GameTypes == TypeOK /\ \A p \in Page, o \in Op : NumberedCall(o, call[p][o])

\* A call moves, and the rest stays in its domain.
LEMMA CallTyped ==
    ASSUME GameTypes, NEW p \in Page, NEW o \in Op, NEW c \in Call, NumberedCall(o, c),
           call' = [call EXCEPT ![p][o] = c],
           /\ log' \subseteq [id : 1..lastId', sequence : Nat \ {0}, quarter : Quarters, seen : 0..lastId']
           /\ lastId' \in Nat /\ status' \in Statuses /\ currentQuarter' \in Quarters,
           view' \in [Page -> View], picked' \in [Page -> [player : BOOLEAN, item : BOOLEAN]],
           blurred' \subseteq Page, taps' \in 0..MaxTaps
    PROVE  GameTypes'
  <1>1. call' \in [Page -> [Op -> Call]]
    BY DEF GameTypes, TypeOK
  <1>2. \A q \in Page, x \in Op : call'[q][x] = IF q = p /\ x = o THEN c ELSE call[q][x]
    BY DEF GameTypes, TypeOK
  <1>3. \A q \in Page, x \in Op : NumberedCall(x, call'[q][x])
    BY <1>2 DEF GameTypes
  <1> QED  BY <1>1, <1>3 DEF GameTypes, TypeOK

\* A call moves while the game is not written.
LEMMA CallMovesTyped ==
    ASSUME GameTypes, NEW p \in Page, NEW o \in Op, NEW c \in Call, NumberedCall(o, c),
           call' = [call EXCEPT ![p][o] = c], UNCHANGED server,
           view' \in [Page -> View], picked' \in [Page -> [player : BOOLEAN, item : BOOLEAN]],
           blurred' \subseteq Page, taps' \in 0..MaxTaps
    PROVE  GameTypes'
  BY CallTyped DEF GameTypes, TypeOK, server

\* What a page and a call begin with.
LEMMA IdleTyped == NoView \in View /\ Idle \in Call /\ \A o : NumberedCall(o, Idle)
  <1>1. NoView \in View
    <2>1. 1 \in Quarters
      BY QuarterAssumption DEF Quarters
    <2> QED  BY <2>1 DEF NoView, View, Statuses
  <1> QED  BY <1>1, QuarterAssumption DEF Idle, Call, Quarters, NumberedCall

\* One more tap.
LEMMA SendTyped ==
    ASSUME GameTypes, NEW p \in Page, NEW o \in Op, NEW c \in Call, NumberedCall(o, c), Send(p, o, c),
           UNCHANGED <<server, view>>, picked' \in [Page -> [player : BOOLEAN, item : BOOLEAN]],
           blurred' \subseteq Page
    PROVE  GameTypes'
  <1>1. taps' \in 0..MaxTaps
    BY TapAssumption DEF Send, GameTypes, TypeOK
  <1> QED  BY <1>1, CallMovesTyped DEF Send, GameTypes, TypeOK

\* A page that is left or hidden.
LEMMA BlurTyped == \A p, o : GameTypes /\ Blur(p, o) /\ p \in Page => blurred' \subseteq Page
  BY DEF GameTypes, TypeOK, Blur

\* Taps of a page that is shown.
LEMMA TapsTyped ==
    ASSUME GameTypes, NEW p \in Page,
           \/ RecordTap(p) \/ \E r \in log : Redo(p, r)
           \/ \E o \in Undo : UndoTap(p, o)
           \/ \E q \in Quarters : QuarterTap(p, q)
    PROVE  GameTypes'
  <1>1. Undo \subseteq Op /\ {"record", "redo", "quarter"} \subseteq Op /\ Idle \in Call
        /\ picked \in [Page -> [player : BOOLEAN, item : BOOLEAN]] /\ lastId \in Nat
        /\ currentQuarter \in Quarters
        /\ \A r \in log : r.id \in Nat /\ r.quarter \in Quarters
    BY IdleTyped DEF Op, GameTypes, TypeOK
  <1>2. CASE RecordTap(p)
    <2> DEFINE c == [Idle EXCEPT !.pc = "last", !.quarter = currentQuarter]
    <2>1. c \in Call /\ NumberedCall("record", c)
      BY <1>1 DEF Call, NumberedCall
    <2>2. picked' \in [Page -> [player : BOOLEAN, item : BOOLEAN]]
      BY <1>1, <1>2 DEF RecordTap
    <2> HIDE DEF c
    <2>3. Send(p, "record", c) /\ Blur(p, "record") /\ UNCHANGED <<server, view>>
      BY <1>2 DEF RecordTap, c
    <2> QED  BY <1>1, <2>1, <2>2, <2>3, SendTyped, BlurTyped
  <1>3. ASSUME NEW o \in Undo, UndoTap(p, o) PROVE GameTypes'
    <2>1. PICK r \in LastRows : Send(p, o, [Idle EXCEPT !.pc = "delete", !.target = r.id, !.seen = lastId])
      BY <1>3 DEF UndoTap
    <2> DEFINE c == [Idle EXCEPT !.pc = "delete", !.target = r.id, !.seen = lastId]
    <2>2. r.id \in Nat
      BY <1>1 DEF LastRows
    <2>3. c \in Call /\ NumberedCall(o, c)
      BY <1>1, <2>2 DEF Call, NumberedCall, Undo
    <2> HIDE DEF c
    <2>4. Send(p, o, c) /\ Blur(p, o) /\ UNCHANGED <<server, view, picked>>
      BY <1>3, <2>1 DEF UndoTap, c
    <2> QED  BY <1>1, <2>3, <2>4, SendTyped, BlurTyped
  <1>4. ASSUME NEW q \in Quarters, QuarterTap(p, q) PROVE GameTypes'
    <2> DEFINE c == [Idle EXCEPT !.pc = "write", !.quarter = q]
    <2>1. c \in Call /\ NumberedCall("quarter", c)
      BY <1>1 DEF Call, NumberedCall
    <2> HIDE DEF c
    <2>2. Send(p, "quarter", c) /\ Blur(p, "quarter") /\ UNCHANGED <<server, view, picked>>
      BY <1>4 DEF QuarterTap, c
    <2> QED  BY <1>1, <2>1, <2>2, SendTyped, BlurTyped
  <1>5. ASSUME NEW r \in log, Redo(p, r) PROVE GameTypes'
    <2> DEFINE c == [Idle EXCEPT !.pc = "last", !.quarter = r.quarter]
    <2>1. c \in Call /\ NumberedCall("redo", c)
      BY <1>1 DEF Call, NumberedCall
    <2> HIDE DEF c
    <2>2. Send(p, "redo", c) /\ blurred' = Page /\ UNCHANGED <<server, view, picked>>
      BY <1>5 DEF Redo, c
    <2> QED  BY <1>1, <2>1, <2>2, SendTyped
  <1> QED  BY <1>2, <1>3, <1>4, <1>5

\* What calls do in the database.
LEMMA ServerTyped ==
    ASSUME LogInv, Distinct, GameTypes, NEW p \in Page,
           \/ \E o \in {"record", "redo"} : ReadLast(p, o) \/ Insert(p, o)
           \/ \E o \in Undo : Delete(p, o) \/ Refresh(p, o)
           \/ WriteQuarter(p)
    PROVE  GameTypes'
  <1>1. Undo \subseteq Op /\ {"record", "redo", "quarter"} \subseteq Op
        /\ picked \in [Page -> [player : BOOLEAN, item : BOOLEAN]] /\ lastId \in Nat
        /\ view \in [Page -> View] /\ taps \in 0..MaxTaps /\ blurred \subseteq Page
        /\ status \in Statuses /\ currentQuarter \in Quarters
        /\ log \subseteq [id : 1..lastId, sequence : Nat \ {0}, quarter : Quarters, seen : 0..lastId]
        /\ \A o \in Op : call[p][o] \in Call /\ NumberedCall(o, call[p][o]) /\ Sound(call[p][o])
    BY DEF Op, GameTypes, TypeOK, LogInv, CallsInv
  <1>2. ASSUME NEW o \in {"record", "redo"}, ReadLast(p, o) PROVE GameTypes'
    <2>1. PICK s \in Nat \ {0} : call' = [call EXCEPT ![p][o] = [call[p][o] EXCEPT !.pc = "insert", !.sequence = s, !.seen = lastId]]
      <3>1. \A r \in LastRows : NextSequence(r) \in Nat \ {0}
        BY <1>1 DEF LastRows, NextSequence
      <3>2. 1 \in Nat \ {0}
        OBVIOUS
      <3>3. CASE log = {} /\ Advance(p, o, [call[p][o] EXCEPT !.pc = "insert", !.sequence = 1, !.seen = lastId])
        BY <3>2, <3>3 DEF Advance
      <3>4. ASSUME NEW r \in LastRows,
                   Advance(p, o, [call[p][o] EXCEPT !.pc = "insert", !.sequence = NextSequence(r), !.seen = lastId])
            PROVE  \E s \in Nat \ {0} :
                      call' = [call EXCEPT ![p][o] = [call[p][o] EXCEPT !.pc = "insert", !.sequence = s, !.seen = lastId]]
        BY <3>1, <3>4 DEF Advance
      <3> QED  BY <1>2, <3>3, <3>4 DEF ReadLast
    <2> DEFINE c == [call[p][o] EXCEPT !.pc = "insert", !.sequence = s, !.seen = lastId]
    <2>2. o \in Op /\ call[p][o] \in Call
      BY <1>1
    <2>3. c \in Call
      BY <1>1, <2>2 DEF Call
    <2>4. c.pc = "insert" /\ c.sequence = s /\ s > 0
      BY <2>2 DEF Call
    <2> HIDE DEF c
    <2>5. NumberedCall(o, c)
      BY <2>4 DEF NumberedCall
    <2>6. call' = [call EXCEPT ![p][o] = c]
      BY <2>1 DEF c
    <2>7. UNCHANGED <<server, view, picked, blurred, taps>>
      BY <1>2 DEF ReadLast
    <2> QED  BY <1>1, <2>2, <2>3, <2>5, <2>6, <2>7, CallMovesTyped
  <1>3. ASSUME NEW o \in {"record", "redo"}, Insert(p, o) PROVE GameTypes'
    <2> DEFINE d == call[p][o]
               c == [d EXCEPT !.pc = "answer", !.target = lastId + 1]
               n == [id |-> lastId + 1, sequence |-> d.sequence, quarter |-> d.quarter, seen |-> d.seen]
    <2>1. o \in Op /\ d \in Call /\ d.pc = "insert" /\ d.sequence > 0 /\ d.seen <= lastId
      BY <1>1, <1>3 DEF Insert, NumberedCall, Sound
    <2>2. c \in Call /\ c.pc = "answer" /\ c.target = lastId + 1
      <3>1. PICK k \in Nat : k = lastId + 1
        BY <1>1
      <3>2. d \in [pc : {"idle", "last", "insert", "delete", "refresh", "write", "answer"},
                   quarter : Quarters, sequence : Nat, seen : Nat, target : Nat, loaded : View]
        BY <2>1 DEF Call
      <3> HIDE DEF d
      <3>3. [d EXCEPT !.pc = "answer", !.target = k] \in Call
        BY <3>2 DEF Call
      <3>4. [d EXCEPT !.pc = "answer", !.target = k].pc = "answer"
            /\ [d EXCEPT !.pc = "answer", !.target = k].target = k
        BY <3>2
      <3> QED  BY <3>1, <3>3, <3>4
    <2>3. NumberedCall(o, c)
      <3> HIDE DEF c
      <3> QED  BY <1>1, <2>2 DEF NumberedCall
    <2>4. n \in [id : 1..lastId + 1, sequence : Nat \ {0}, quarter : Quarters, seen : 0..lastId + 1]
      <3>1. d.sequence \in Nat \ {0} /\ d.quarter \in Quarters /\ d.seen \in 0..lastId + 1 /\ lastId + 1 \in 1..lastId + 1
        BY <1>1, <2>1 DEF Call
      <3> QED  BY <3>1
    <2>5. log \subseteq [id : 1..lastId + 1, sequence : Nat \ {0}, quarter : Quarters, seen : 0..lastId + 1]
      BY <1>1
    <2> HIDE DEF c, n
    <2>6. log' = log \cup {n} /\ lastId' = lastId + 1 /\ call' = [call EXCEPT ![p][o] = c] /\ Blur(p, o)
          /\ UNCHANGED <<status, currentQuarter, view, picked, taps>>
      BY <1>3 DEF Insert, Advance, c, n
    <2>7. log' \subseteq [id : 1..lastId', sequence : Nat \ {0}, quarter : Quarters, seen : 0..lastId'] /\ lastId' \in Nat
      BY <1>1, <2>4, <2>5, <2>6
    <2>8. blurred' \subseteq Page
      BY <2>6, BlurTyped
    <2> QED  BY <1>1, <2>1, <2>2, <2>3, <2>6, <2>7, <2>8, CallTyped
  <1>4. ASSUME NEW o \in Undo, Delete(p, o) PROVE GameTypes'
    <2> DEFINE c == [call[p][o] EXCEPT !.pc = "refresh"]
    <2>1. o \in Op /\ c \in Call /\ NumberedCall(o, c)
      BY <1>1 DEF Call, NumberedCall, Undo
    <2>2. log' \subseteq log /\ call' = [call EXCEPT ![p][o] = c] /\ Blur(p, o)
          /\ UNCHANGED <<lastId, status, currentQuarter, view, picked, taps>>
      BY <1>4 DEF Delete, Advance
    <2>3. blurred' \subseteq Page
      BY <2>2, BlurTyped
    <2> HIDE DEF c
    <2> QED  BY <1>1, <2>1, <2>2, <2>3, CallTyped
  <1>5. ASSUME NEW o \in Undo, Refresh(p, o) PROVE GameTypes'
    <2>0. PICK v \in Loads : Advance(p, o, [call[p][o] EXCEPT !.pc = "answer", !.loaded = v])
      BY <1>5 DEF Refresh
    <2> DEFINE c == [call[p][o] EXCEPT !.pc = "answer", !.loaded = v]
    <2>1. v \in View
      BY LoadsAreViews DEF GameTypes
    <2>2. o \in Op /\ c \in Call /\ NumberedCall(o, c)
      BY <1>1, <2>1 DEF Call, NumberedCall, Undo
    <2>3. call' = [call EXCEPT ![p][o] = c] /\ UNCHANGED <<server, view, picked, taps>> /\ blurred' \subseteq blurred
      BY <1>5, <2>0 DEF Refresh, Advance
    <2> HIDE DEF c
    <2> QED  BY <1>1, <2>2, <2>3, CallMovesTyped
  <1>6. CASE WriteQuarter(p)
    <2> DEFINE c == [call[p]["quarter"] EXCEPT !.pc = "answer"]
    <2>1. c \in Call /\ NumberedCall("quarter", c) /\ call[p]["quarter"].quarter \in Quarters
      BY <1>1 DEF Call, NumberedCall
    <2>2. currentQuarter' = call[p]["quarter"].quarter /\ call' = [call EXCEPT ![p]["quarter"] = c]
          /\ Blur(p, "quarter") /\ UNCHANGED <<log, lastId, status, view, picked, taps>>
      BY <1>6 DEF WriteQuarter, Advance
    <2>3. blurred' \subseteq Page
      BY <2>2, BlurTyped
    <2> HIDE DEF c
    <2> QED  BY <1>1, <2>1, <2>2, <2>3, CallTyped
  <1> QED  BY <1>2, <1>3, <1>4, <1>5, <1>6

\* A call ends.
LEMMA EndTyped ==
    ASSUME GameTypes, NEW p \in Page,
           \/ RecordAnswer(p) \/ RedoAnswer(p) \/ QuarterAnswer(p)
           \/ \E o \in Undo : UndoAnswer(p, o)
           \/ \E o \in Op : Fail(p, o)
    PROVE  GameTypes'
  <1>1. Undo \subseteq Op /\ {"record", "redo", "quarter"} \subseteq Op /\ Idle \in Call
        /\ picked \in [Page -> [player : BOOLEAN, item : BOOLEAN]] /\ taps \in 0..MaxTaps
        /\ view \in [Page -> View] /\ blurred \subseteq Page
        /\ (\A o : NumberedCall(o, Idle))
        /\ \A o \in Op : call[p][o] \in Call /\ NumberedCall(o, call[p][o])
    BY IdleTyped DEF Op, GameTypes, TypeOK
  <1>2. ASSUME NEW o \in Op, Done(p, o), UNCHANGED <<server, taps>>, blurred' \subseteq Page,
               view' \in [Page -> View], picked' \in [Page -> [player : BOOLEAN, item : BOOLEAN]]
        PROVE  GameTypes'
    BY <1>1, <1>2, CallMovesTyped DEF Done
  <1>3. CASE RecordAnswer(p)
    <2>1. call[p]["record"] \in Call /\ call[p]["record"].target > 0
      BY <1>1, <1>3 DEF RecordAnswer, NumberedCall
    <2>2. [id |-> call[p]["record"].target, quarter |-> call[p]["record"].quarter] \in Shown
      BY <2>1 DEF Shown, Call
    <2>3. view[p] \in View
      BY <1>1
    <2>4. Append(view[p].logs, [id |-> call[p]["record"].target, quarter |-> call[p]["record"].quarter]) \in Seq(Shown)
      BY <2>2, <2>3 DEF View
    <2>5. TakeRecord(view[p], call[p]["record"]) \in View
      BY <2>1, <2>3, <2>4 DEF TakeRecord, View, Call
    <2>6. view' \in [Page -> View] /\ picked' \in [Page -> [player : BOOLEAN, item : BOOLEAN]]
      BY <1>1, <1>3, <2>5 DEF RecordAnswer
    <2>7. Done(p, "record") /\ UNCHANGED <<server, blurred, taps>>
      BY <1>3 DEF RecordAnswer
    <2> QED  BY <1>1, <1>2, <2>6, <2>7
  <1>4. CASE RedoAnswer(p)
    BY <1>1, <1>2, <1>4 DEF RedoAnswer
  <1>5. CASE QuarterAnswer(p)
    <2>1. view[p] \in View /\ call[p]["quarter"] \in Call
      BY <1>1
    <2>2. [view[p] EXCEPT !.quarter = call[p]["quarter"].quarter] \in View
      BY <2>1 DEF View, Call
    <2>3. view' \in [Page -> View]
      BY <1>1, <1>5, <2>2 DEF QuarterAnswer
    <2>4. Done(p, "quarter") /\ UNCHANGED <<server, picked, blurred, taps>>
      BY <1>5 DEF QuarterAnswer
    <2> QED  BY <1>1, <1>2, <2>3, <2>4
  <1>6. ASSUME NEW o \in Undo, UndoAnswer(p, o) PROVE GameTypes'
    <2>1. o \in Op /\ call[p][o].loaded \in View
      BY <1>1 DEF Call
    <2>2. view' \in [Page -> View]
      BY <1>1, <1>6, <2>1 DEF UndoAnswer
    <2>3. Done(p, o) /\ UNCHANGED <<server, picked, blurred, taps>>
      BY <1>6 DEF UndoAnswer
    <2> QED  BY <1>1, <1>2, <2>1, <2>2, <2>3
  <1>7. ASSUME NEW o \in Op, Fail(p, o) PROVE GameTypes'
    BY <1>1, <1>2, <1>7 DEF Fail
  <1> QED  BY <1>3, <1>4, <1>5, <1>6, <1>7

\* Every step keeps the domains.
LEMMA NextTypes == LogInv /\ PagesInv /\ GameTypes /\ [Next]_vars => GameTypes'
  <1> SUFFICES ASSUME LogInv, PagesInv, GameTypes, [Next]_vars PROVE GameTypes'
    OBVIOUS
  <1>0. Distinct
    BY DEF PagesInv
  <1>1. CASE UNCHANGED vars
    BY <1>1 DEF vars, server, GameTypes, TypeOK
  <1>2. ASSUME NEW s \in Statuses, UpdateGameStatus(s) PROVE GameTypes'
    BY <1>2, TapAssumption DEF UpdateGameStatus, GameTypes, TypeOK
  <1>3. ASSUME NEW p \in Page, PageStep(p) PROVE GameTypes'
    <2>1. CASE PlayerTap(p) \/ CancelTap(p) \/ ItemUnpick(p)
      <3>1. picked' \in [Page -> [player : BOOLEAN, item : BOOLEAN]]
        <4>1. picked \in [Page -> [player : BOOLEAN, item : BOOLEAN]]
          BY DEF GameTypes, TypeOK
        <4>2. /\ [picked EXCEPT ![p].player = TRUE] \in [Page -> [player : BOOLEAN, item : BOOLEAN]]
              /\ [picked EXCEPT ![p].item = FALSE] \in [Page -> [player : BOOLEAN, item : BOOLEAN]]
              /\ [picked EXCEPT ![p] = [player |-> FALSE, item |-> FALSE]] \in [Page -> [player : BOOLEAN, item : BOOLEAN]]
          BY <4>1
        <4> QED  BY <2>1, <4>2 DEF PlayerTap, CancelTap, ItemUnpick
      <3>2. UNCHANGED <<server, call, view, blurred, taps>>
        BY <2>1 DEF PlayerTap, CancelTap, ItemUnpick
      <3> QED  BY <3>1, <3>2 DEF GameTypes, TypeOK, server
    <2>2. CASE RecordTap(p) \/ (\E o \in Undo : UndoTap(p, o)) \/ \E q \in Quarters : QuarterTap(p, q)
      BY <2>2, TapsTyped
    <2>3. CASE RecordAnswer(p) \/ RedoAnswer(p) \/ QuarterAnswer(p) \/ \E o \in Undo : UndoAnswer(p, o)
      BY <2>3, EndTyped
    <2> QED  BY <1>3, <2>1, <2>2, <2>3 DEF PageStep
  <1>4. ASSUME NEW p \in Page, ServerStep(p) PROVE GameTypes'
    <2>1. CASE \E r \in log : Redo(p, r)
      BY <2>1, TapsTyped
    <2> QED  BY <1>0, <1>4, <2>1, ServerTyped DEF ServerStep
  <1>5. ASSUME NEW p \in Page, NEW o \in Op, Fail(p, o) PROVE GameTypes'
    BY <1>5, EndTyped
  <1> QED  BY <1>1, <1>2, <1>3, <1>4, <1>5 DEF Next

\* The game begins in its domain.
LEMMA InitTypes == Init => GameTypes
  <1> SUFFICES ASSUME Init PROVE GameTypes
    OBVIOUS
  <1>1. TypeOK
    BY IdleTyped, QuarterAssumption, TapAssumption DEF Init, TypeOK, Quarters, Statuses
  <1>2. \A p \in Page, o \in Op : NumberedCall(o, call[p][o])
    BY IdleTyped DEF Init
  <1> QED  BY <1>1, <1>2 DEF GameTypes

\* Every row, call and copy stays in its domain.
THEOREM GamesStayTyped == Spec => []TypeOK
  <1>1. Spec => [](LogInv /\ PagesInv /\ GameTypes)
    BY InitLog, NextLog, InitPages, NextPages, InitTypes, NextTypes, PTL DEF Spec
  <1> QED  BY <1>1, PTL DEF GameTypes

-----------------------------------------------------------------------------
(* The page of games                                                       *)

\* Finite sets of an instance are those of the library.
LEMMA GamePageFiniteSets ==
    \A S : /\ GamePage!IsFiniteSet(S) <=> IsFiniteSet(S)
           /\ GamePage!Cardinality(S) = Cardinality(S)
  BY DEF GamePage!IsFiniteSet, IsFiniteSet, GamePage!Cardinality, Cardinality

\* A fact of the library about finite sets, for those of the instance.
LEMMA GamePageCardinalityType ==
    ASSUME NEW S, GamePage!IsFiniteSet(S)
    PROVE  GamePage!Cardinality(S) \in Nat
  BY FS_CardinalityType, GamePageFiniteSets

\* A fact of the library about finite sets, for those of the instance.
LEMMA GamePageSubset ==
    ASSUME NEW S, GamePage!IsFiniteSet(S), NEW T \in SUBSET S
    PROVE  /\ GamePage!IsFiniteSet(T)
           /\ GamePage!Cardinality(T) <= GamePage!Cardinality(S)
           /\ GamePage!Cardinality(S) = GamePage!Cardinality(T) => S = T
  BY FS_Subset, GamePageFiniteSets

\* A fact of the library about finite sets, for those of the instance.
LEMMA GamePageInterval ==
    ASSUME NEW a \in Int, NEW b \in Int
    PROVE  /\ GamePage!IsFiniteSet(a..b)
           /\ GamePage!Cardinality(a..b) = IF a > b THEN 0 ELSE b - a + 1
  BY FS_Interval, GamePageFiniteSets

\* A fact of the library about finite sets, for those of the instance.
LEMMA GamePageEmptySet ==
    /\ GamePage!IsFiniteSet({}) /\ GamePage!Cardinality({}) = 0
    /\ \A S : GamePage!IsFiniteSet(S) => (GamePage!Cardinality(S) = 0 <=> S = {})
  BY FS_EmptySet, GamePageFiniteSets

\* A fact of the library about finite sets, for those of the instance.
LEMMA GamePageAddElement ==
    ASSUME NEW S, NEW x, GamePage!IsFiniteSet(S)
    PROVE  /\ GamePage!IsFiniteSet(S \cup {x})
           /\ GamePage!Cardinality(S \cup {x}) = IF x \in S THEN GamePage!Cardinality(S) ELSE GamePage!Cardinality(S) + 1
  BY FS_AddElement, GamePageFiniteSets

GameStatuses == {"none", "IN_PROGRESS", "FINISHED", "DELETED"}
Lists  == {"inProgress", "finished"}
GameKinds  == GamePage!Loads \cup GamePage!Moves \cup {"inProgress", "assign"}


GamesAsked == [n : Nat, kind : GameKinds, pc : {"sent", "ok"}, game : 0..MaxGames, page : 1..MaxGames,
          generation : Nat, games : Seq(GamePage!Game), more : BOOLEAN]

-----------------------------------------------------------------------------
(* The inductive invariant                                                 *)

GamePageTypes ==
    /\ inProgress \in Seq(GamePage!Game) /\ finished \in Seq(GamePage!Game) /\ selected \subseteq GamePage!Game
    /\ hasMore \in BOOLEAN /\ loading \in BOOLEAN /\ selectMode \in BOOLEAN /\ rangeApplied \in BOOLEAN
    /\ assigning \in BOOLEAN /\ shifted \in BOOLEAN /\ behind \subseteq Lists \cup GamePage!ModeSettled
GamesCountTypes ==
    /\ loaded \in 0..MaxGames /\ gSent \in 2..(MaxSent + 2) /\ generation \in 0..(gSent - 2)
    /\ hasMore => loaded < MaxGames
ServerTypes == gStatus \in [GamePage!Game -> GameStatuses]
GamesAskedTypes ==
    \A r \in gAsked : /\ r \in GamesAsked /\ r.n <= gSent /\ r.generation <= generation
                      /\ r.kind = "initial" => r.page = 1
                      /\ r.more => r.page < MaxGames

GamesPageTypes == ServerTypes /\ GamePageTypes /\ GamesCountTypes /\ GamesAskedTypes

\* The games of the lists and of the requests were created.
Exist == GamePage!Game \ GamePage!OfStatus("none")
ExistInv ==
    /\ GamePage!ToSet(inProgress) \cup GamePage!ToSet(finished) \subseteq Exist
    /\ \A r \in gAsked : /\ GamePage!ToSet(r.games) \subseteq Exist
                         /\ r.kind \in GamePage!Moves /\ (r.kind # "create" \/ r.pc = "ok") => r.game \in Exist

\* More pages that were asked for before a range are of an earlier generation.
GenerationInv ==
    /\ \A r \in gAsked, q \in gAsked : r.kind = "more" /\ q.kind = "range" /\ r.n <= q.n => r.generation < q.generation
    /\ "finished" \notin behind /\ rangeApplied =>
          ~hasMore /\ \A r \in gAsked : r.kind = "more" => r.generation < generation

\* A change of a game is all that is under way but an assignment, of a game of the list it
\* was tapped in; or both lists may differ from the server.
MoveInv ==
    \A r \in gAsked : r.kind \in GamePage!Moves =>
      \/ Lists \subseteq behind
      \/ /\ behind \cap Lists = {}
         /\ \A q \in gAsked : q = r \/ q.kind = "assign"
         /\ r.kind = "finish"  => r.game \in GamePage!ToSet(inProgress)
         /\ r.kind = "restart" => r.game \in GamePage!ToSet(finished)
         /\ r.kind = "delete"  => r.game \in GamePage!ToSet(inProgress) \cup GamePage!ToSet(finished)
         /\ r.pc = "ok" => shifted /\ gStatus[r.game] = GamePage!Outcome(r.kind)

\* What the page knows the games to be: it does not know yet of a change that was made.
Served == {r \in gAsked : r.kind \in GamePage!Moves /\ r.pc = "ok"}
Before == [g \in GamePage!Game |-> IF \A r \in Served : r.game # g THEN gStatus[g]
                          ELSE IF \E r \in Served : r.kind = "create" THEN "none"
                          ELSE IF g \in GamePage!ToSet(inProgress) THEN "IN_PROGRESS" ELSE "FINISHED"]
Known(s) == {g \in GamePage!Game : Before[g] = s}

InProgressAgrees == GamePage!IsInjective(inProgress) /\ GamePage!ToSet(inProgress) = Known("IN_PROGRESS")
Upto(S, k) == SubSeq(GamePage!Newest(S), 1, GamePage!Min({GamePage!Cardinality(S), k * FINISHED_PAGE_SIZE}))
FinishedAgrees ==
    /\ GamePage!IsInjective(finished) /\ GamePage!ToSet(finished) \subseteq Known("FINISHED")
    /\ rangeApplied => GamePage!ToSet(finished) = Known("FINISHED") \cap InRange
    /\ ~rangeApplied /\ ~hasMore => GamePage!ToSet(finished) = Known("FINISHED")
    /\ ~rangeApplied /\ ~shifted => /\ finished = Upto(Known("FINISHED"), loaded)
                                    /\ hasMore = (GamePage!Cardinality(Known("FINISHED")) > loaded * FINISHED_PAGE_SIZE)

InProgressInv == "inProgress" \notin behind => InProgressAgrees \/ \E r \in gAsked : r.kind = "inProgress"
FinishedInv   == "finished" \notin behind => FinishedAgrees \/ \E r \in gAsked : r.kind \in {"initial", "range"}

\* An answer is what the server would answer now.
GamesAnswersInv ==
    \A r \in gAsked : r.pc = "ok" =>
      /\ r.kind = "inProgress" /\ "inProgress" \notin behind => r.games = GamePage!Newest(GamePage!OfStatus("IN_PROGRESS"))
      /\ "finished" \notin behind =>
           /\ r.kind \in {"initial", "more"} =>
                LET p == GamePage!GamesOfPage(r.page, FINISHED_PAGE_SIZE) IN r.games = p.games /\ r.more = p.more
           /\ r.kind = "more" => ~shifted
           /\ r.kind = "range" => r.games = GamePage!Newest(GamePage!OfStatus("FINISHED") \cap InRange)

GamesInv ==
    /\ GamesPageTypes /\ ExistInv /\ GenerationInv /\ MoveInv
    /\ InProgressInv /\ FinishedInv /\ GamesAnswersInv /\ GamePage!SelectionIsShown

-----------------------------------------------------------------------------
(* Lists of games                                                          *)

\* The lesser of two.
LEMMA LesserOfTwo ==
    ASSUME NEW a \in Int, NEW b \in Int
    PROVE  GamePage!Min({a, b}) = IF a <= b THEN a ELSE b
  BY DEF GamePage!Min

\* Some of the numbers up to n are finitely many.
LEMMA Finite ==
    ASSUME NEW n \in Nat, NEW S \in SUBSET (1..n)
    PROVE  GamePage!IsFiniteSet(S) /\ GamePage!Cardinality(S) \in Nat /\ GamePage!Cardinality(S) <= n
<1>1. GamePage!IsFiniteSet(1..n) /\ GamePage!Cardinality(1..n) = n
  <2>1. 1 \in Int /\ n \in Int
    OBVIOUS
  <2>2. GamePage!IsFiniteSet(1..n) /\ GamePage!Cardinality(1..n) = IF 1 > n THEN 0 ELSE n - 1 + 1
    BY <2>1, GamePageInterval
  <2> QED BY <2>2
<1>2. GamePage!IsFiniteSet(S) /\ GamePage!Cardinality(S) <= n
  BY <1>1, GamePageSubset
<1> QED BY <1>2, GamePageCardinalityType

Below(S, v) == {z \in S : z < v}

\* One number more is counted once.
LEMMA BelowCounts ==
    ASSUME NEW n \in Nat, NEW S \in SUBSET (1..n), NEW v \in S
    PROVE  /\ GamePage!IsFiniteSet(Below(S, v)) /\ GamePage!Cardinality(Below(S, v)) \in Nat
           /\ GamePage!IsFiniteSet(Below(S, v) \cup {v}) /\ GamePage!Cardinality(Below(S, v) \cup {v}) = GamePage!Cardinality(Below(S, v)) + 1
<1>1. v \in Int
  OBVIOUS
<1>2. ~ (v < v)
  BY <1>1
<1>3. Below(S, v) \in SUBSET (1..n) /\ v \notin Below(S, v)
  BY <1>2 DEF Below
<1>4. GamePage!IsFiniteSet(Below(S, v)) /\ GamePage!Cardinality(Below(S, v)) \in Nat
  BY <1>3, Finite
<1> QED BY <1>3, <1>4, GamePageAddElement

\* Below a smaller number there are fewer.
LEMMA SmallerHasFewer ==
    ASSUME NEW n \in Nat, NEW S \in SUBSET (1..n), NEW v \in S, NEW w \in S, v < w
    PROVE  GamePage!Cardinality(Below(S, v)) < GamePage!Cardinality(Below(S, w))
<1>1. v \in Int /\ w \in Int /\ \A z \in S : z \in Int
  OBVIOUS
<1>2. \A z \in Int : z < v => z < w
  BY <1>1
<1>3. Below(S, v) \cup {v} \in SUBSET Below(S, w)
  BY <1>1, <1>2 DEF Below
<1>4. GamePage!IsFiniteSet(Below(S, w)) /\ GamePage!Cardinality(Below(S, w)) \in Nat /\ GamePage!Cardinality(Below(S, v)) \in Nat
  BY BelowCounts
<1>5. GamePage!Cardinality(Below(S, v) \cup {v}) <= GamePage!Cardinality(Below(S, w))
  BY <1>3, <1>4, GamePageSubset
<1>6. GamePage!Cardinality(Below(S, v) \cup {v}) = GamePage!Cardinality(Below(S, v)) + 1
  BY BelowCounts
<1> QED BY <1>4, <1>5, <1>6

\* The smaller of two numbers of a set has fewer below it.
LEMMA FewerBelow ==
    ASSUME NEW n \in Nat, NEW S \in SUBSET (1..n), NEW x \in S, NEW y \in S
    PROVE  /\ GamePage!Cardinality(Below(S, x)) \in Nat /\ GamePage!Cardinality(Below(S, x)) < GamePage!Cardinality(S)
           /\ x < y <=> GamePage!Cardinality(Below(S, x)) < GamePage!Cardinality(Below(S, y))
<1>1. GamePage!Cardinality(Below(S, x)) \in Nat /\ GamePage!Cardinality(Below(S, y)) \in Nat
  BY BelowCounts
<1>2. GamePage!Cardinality(Below(S, x)) < GamePage!Cardinality(S)
  <2>1. Below(S, x) \cup {x} \in SUBSET S
    BY DEF Below
  <2>2. GamePage!IsFiniteSet(S) /\ GamePage!Cardinality(S) \in Nat
    BY Finite
  <2>3. GamePage!Cardinality(Below(S, x) \cup {x}) <= GamePage!Cardinality(S)
    BY <2>1, <2>2, GamePageSubset
  <2>4. GamePage!Cardinality(Below(S, x) \cup {x}) = GamePage!Cardinality(Below(S, x)) + 1
    BY BelowCounts
  <2> QED BY <1>1, <2>2, <2>3, <2>4
<1>3. x \in Int /\ y \in Int
  OBVIOUS
<1>4. x < y \/ x = y \/ y < x
  BY <1>3
<1>5. x < y => GamePage!Cardinality(Below(S, x)) < GamePage!Cardinality(Below(S, y))
  BY SmallerHasFewer
<1>6. y < x => GamePage!Cardinality(Below(S, y)) < GamePage!Cardinality(Below(S, x))
  BY SmallerHasFewer
<1>7. x = y => GamePage!Cardinality(Below(S, x)) = GamePage!Cardinality(Below(S, y))
  OBVIOUS
<1>8. \A a \in Nat, b \in Nat : ~ (a < b /\ b < a) /\ ~ (a < b /\ a = b)
  OBVIOUS
<1>9. x < y <=> GamePage!Cardinality(Below(S, x)) < GamePage!Cardinality(Below(S, y))
  BY <1>1, <1>4, <1>5, <1>6, <1>7, <1>8
<1> QED BY <1>1, <1>2, <1>9

\* The numbers of a set, from the smallest to the largest.
LEMMA NthOfAll ==
    ASSUME NEW n \in Nat, NEW S \in SUBSET (1..n)
    PROVE  /\ \A k \in 1..GamePage!Cardinality(S) : GamePage!Nth(S, k) \in S
           /\ \A x \in S : \E k \in 1..GamePage!Cardinality(S) : GamePage!Nth(S, k) = x
           /\ \A j \in 1..GamePage!Cardinality(S), k \in 1..GamePage!Cardinality(S) : j < k <=> GamePage!Nth(S, j) < GamePage!Nth(S, k)
<1> DEFINE c == GamePage!Cardinality(S)
           Missing == {k \in 1..c : \A x \in S : GamePage!Cardinality(Below(S, x)) # k - 1}
<1>0. \A z \in S : z \in Nat
  OBVIOUS
<1>1. GamePage!IsFiniteSet(S) /\ c \in Nat /\ \A z \in S : z \in Nat
  BY <1>0, Finite
<1>2. ASSUME Missing # {} PROVE FALSE
  <2>1. Missing \in SUBSET Nat
    BY <1>1
  <2>2. PICK k \in Missing : \A e \in Missing : k <= e
    <3> HIDE DEF Missing
    <3> QED BY <1>2, <2>1, LeastOf
  <2>3. k \in 1..c
    BY <2>2
  <2>4. \A x \in S : GamePage!Cardinality(Below(S, x)) # k - 1
    BY <2>2
  <2>5. k \in Nat /\ k >= 1
    BY <1>1, <2>3
  \* The numbers up to the one before.
  <2>6. PICK T \in SUBSET S : /\ GamePage!IsFiniteSet(T) /\ GamePage!Cardinality(T) = k - 1
                              /\ \A e \in S, m \in T : e <= m => e \in T
    <3>1. CASE k = 1
      <4>1. GamePage!IsFiniteSet({}) /\ GamePage!Cardinality({}) = k - 1
        BY <3>1, GamePageEmptySet
      <4> QED BY <4>1
    <3>2. CASE k # 1
      <4>1. k - 1 \in 1..c /\ ~ (k <= k - 1)
        BY <1>1, <2>3, <2>5, <3>2
      <4>2. k - 1 \notin Missing
        <5> HIDE DEF Missing
        <5> QED BY <2>2, <4>1
      <4>3. PICK m \in S : GamePage!Cardinality(Below(S, m)) = (k - 1) - 1
        BY <4>1, <4>2
      <4>6. GamePage!IsFiniteSet(Below(S, m) \cup {m}) /\ GamePage!Cardinality(Below(S, m) \cup {m}) = ((k - 1) - 1) + 1
        BY <4>3, BelowCounts
      <4>7. \A e \in S, x \in Below(S, m) \cup {m} : e <= x => e \in Below(S, m) \cup {m}
        <5>1. SUFFICES ASSUME NEW e \in S, NEW x \in Below(S, m) \cup {m}, e <= x
                       PROVE  e \in Below(S, m) \cup {m}
          OBVIOUS
        <5>2. x \in S /\ (x < m \/ x = m)
          BY DEF Below
        <5>3. e \in Nat /\ x \in Nat /\ m \in Nat
          BY <1>1, <5>2
        <5>4. e < m \/ e = m
          BY <5>1, <5>2, <5>3
        <5> QED BY <5>4 DEF Below
      <4>8. Below(S, m) \cup {m} \in SUBSET S
        BY DEF Below
      <4>9. ((k - 1) - 1) + 1 = k - 1
        BY <2>5
      <4> QED BY <4>6, <4>7, <4>8, <4>9
    <3> QED BY <3>1, <3>2
  <2>7. S \ T # {}
    <3>1. GamePage!Cardinality(T) # c
      BY <1>1, <2>3, <2>6
    <3>2. T # S
      BY <3>1
    <3> QED BY <2>6, <3>2
  <2>8. PICK x \in S \ T : \A e \in S \ T : x <= e
    <3>1. S \ T \in SUBSET Nat
      BY <1>1
    <3> QED BY <2>7, <3>1, LeastOf
  <2>9. Below(S, x) = T
    <3>1. \A e \in S : e < x => e \in T
      <4>1. \A a \in Nat, b \in Nat : a < b => ~ (b <= a)
        OBVIOUS
      <4> QED BY <1>1, <2>8, <4>1
    <3>2. \A e \in T : e < x
      <4>1. \A a \in Nat, b \in Nat : a < b \/ b <= a
        OBVIOUS
      <4> QED BY <1>1, <2>6, <2>8, <4>1
    <3> QED BY <2>6, <3>1, <3>2 DEF Below
  <2> QED BY <2>4, <2>6, <2>8, <2>9
<1>3. \A k \in 1..c : GamePage!Nth(S, k) \in S /\ GamePage!Cardinality(Below(S, GamePage!Nth(S, k))) = k - 1
  <2> SUFFICES ASSUME NEW k \in 1..c PROVE GamePage!Nth(S, k) \in S /\ GamePage!Cardinality(Below(S, GamePage!Nth(S, k))) = k - 1
    OBVIOUS
  <2>1. \E x \in S : GamePage!Cardinality(Below(S, x)) = k - 1
    BY <1>2
  <2> QED BY <2>1 DEF GamePage!Nth, Below
<1>4. ASSUME NEW j \in 1..c, NEW k \in 1..c PROVE j < k <=> GamePage!Nth(S, j) < GamePage!Nth(S, k)
  <2>1. /\ GamePage!Nth(S, j) \in S /\ GamePage!Cardinality(Below(S, GamePage!Nth(S, j))) = j - 1
        /\ GamePage!Nth(S, k) \in S /\ GamePage!Cardinality(Below(S, GamePage!Nth(S, k))) = k - 1
    BY <1>3
  <2>2. GamePage!Nth(S, j) < GamePage!Nth(S, k) <=> GamePage!Cardinality(Below(S, GamePage!Nth(S, j))) < GamePage!Cardinality(Below(S, GamePage!Nth(S, k)))
    BY <2>1, FewerBelow
  <2>3. j \in Nat /\ k \in Nat
    BY <1>1
  <2>4. j - 1 < k - 1 <=> j < k
    BY <2>3
  <2> QED BY <2>1, <2>2, <2>4
<1>5. ASSUME NEW x \in S PROVE \E k \in 1..c : GamePage!Nth(S, k) = x
  <2>1. PICK k : k = GamePage!Cardinality(Below(S, x)) + 1
    OBVIOUS
  <2>2. GamePage!Cardinality(Below(S, x)) \in Nat /\ GamePage!Cardinality(Below(S, x)) < c
    BY FewerBelow
  <2>3. k \in 1..c /\ k - 1 = GamePage!Cardinality(Below(S, x))
    BY <1>1, <2>1, <2>2
  <2>4. GamePage!Nth(S, k) \in S /\ GamePage!Cardinality(Below(S, GamePage!Nth(S, k))) = GamePage!Cardinality(Below(S, x))
    BY <1>3, <2>3
  <2>5. ~ (GamePage!Nth(S, k) < x) /\ ~ (x < GamePage!Nth(S, k))
    <3>1. GamePage!Nth(S, k) < x <=> GamePage!Cardinality(Below(S, GamePage!Nth(S, k))) < GamePage!Cardinality(Below(S, x))
      BY <2>4, FewerBelow
    <3>2. x < GamePage!Nth(S, k) <=> GamePage!Cardinality(Below(S, x)) < GamePage!Cardinality(Below(S, GamePage!Nth(S, k)))
      BY <2>4, FewerBelow
    <3>3. ~ (GamePage!Cardinality(Below(S, x)) < GamePage!Cardinality(Below(S, x)))
      BY <2>2
    <3> QED BY <2>4, <3>1, <3>2, <3>3
  <2>6. GamePage!Nth(S, k) \in Nat /\ x \in Nat
    BY <1>1, <2>4
  <2>7. GamePage!Nth(S, k) = x
    BY <2>5, <2>6
  <2> QED BY <2>3, <2>7
<1> QED BY <1>3, <1>4, <1>5

\* A set of games as a list: each game once, the newest first.
LEMMA NewestOf ==
    ASSUME NEW n \in Nat, NEW S \in SUBSET (1..n)
    PROVE  /\ GamePage!Newest(S) \in Seq(S) /\ Len(GamePage!Newest(S)) = GamePage!Cardinality(S) /\ GamePage!Cardinality(S) \in 0..n
           /\ GamePage!ToSet(GamePage!Newest(S)) = S /\ GamePage!IsInjective(GamePage!Newest(S))
           /\ \A j \in 1..GamePage!Cardinality(S), k \in 1..GamePage!Cardinality(S) : j < k => GamePage!Newest(S)[j] > GamePage!Newest(S)[k]
<1> DEFINE c == GamePage!Cardinality(S)
<1>1. c \in Nat /\ c <= n /\ \A z \in S : z \in Nat
  BY Finite
<1> HIDE DEF c
<1>2. \A k \in 1..c : c + 1 - k \in 1..c /\ c + 1 - (c + 1 - k) = k
  BY <1>1
<1>3. /\ \A k \in 1..c : GamePage!Nth(S, k) \in S
      /\ \A x \in S : \E k \in 1..c : GamePage!Nth(S, k) = x
      /\ \A j \in 1..c, k \in 1..c : j < k <=> GamePage!Nth(S, j) < GamePage!Nth(S, k)
  BY NthOfAll DEF c
<1> DEFINE w == GamePage!Newest(S)
<1>4. w = [k \in 1..c |-> GamePage!Nth(S, c + 1 - k)]
  BY DEF GamePage!Newest, c
<1> HIDE DEF w
<1>5. \A k \in 1..c : w[k] = GamePage!Nth(S, c + 1 - k) /\ w[k] \in S
  BY <1>2, <1>3, <1>4
<1>6. w \in [1..c -> S]
  BY <1>4, <1>5
<1>7. w \in Seq(S) /\ Len(w) = c /\ DOMAIN w = 1..c
  <2>1. w \in Seq(S)
    BY <1>1, <1>6, SeqDef
  <2>2. DOMAIN w = 1..c /\ DOMAIN w = 1..Len(w) /\ Len(w) \in Nat
    BY <1>6, <2>1, LenProperties
  <2> QED BY <1>1, <2>1, <2>2
<1>8. \A x \in S : \E k \in 1..c : w[k] = x
  <2> SUFFICES ASSUME NEW x \in S PROVE \E k \in 1..c : w[k] = x
    OBVIOUS
  <2>1. PICK k \in 1..c : GamePage!Nth(S, k) = x
    BY <1>3
  <2>2. PICK j : j = c + 1 - k
    OBVIOUS
  <2>3. j \in 1..c /\ c + 1 - j = k
    BY <1>2, <2>2
  <2>4. w[j] = GamePage!Nth(S, c + 1 - j)
    BY <1>5, <2>3
  <2> QED BY <2>1, <2>3, <2>4
<1>9. GamePage!ToSet(w) = S
  BY <1>5, <1>7, <1>8 DEF GamePage!ToSet
<1>10. \A j \in 1..c, k \in 1..c : j < k => w[j] > w[k]
  <2> SUFFICES ASSUME NEW j \in 1..c, NEW k \in 1..c, j < k PROVE w[j] > w[k]
    OBVIOUS
  <2>1. PICK p \in 1..c, q \in 1..c : p = c + 1 - j /\ q = c + 1 - k
    BY <1>2
  <2>2. q < p
    BY <1>1, <2>1
  <2>3. GamePage!Nth(S, q) < GamePage!Nth(S, p)
    BY <1>3, <2>2
  <2>4. w[j] = GamePage!Nth(S, p) /\ w[k] = GamePage!Nth(S, q) /\ w[j] \in Nat /\ w[k] \in Nat
    BY <1>1, <1>5, <2>1
  <2> QED BY <2>3, <2>4
<1>11. GamePage!IsInjective(w)
  <2> SUFFICES ASSUME NEW j \in 1..c, NEW k \in 1..c, w[j] = w[k], j # k PROVE FALSE
    BY <1>7 DEF GamePage!IsInjective
  <2>1. j < k \/ k < j
    BY <1>1
  <2>2. w[j] > w[k] \/ w[k] > w[j]
    BY <1>10, <2>1
  <2>3. w[j] \in Nat /\ w[k] \in Nat
    BY <1>1, <1>5
  <2> QED BY <2>2, <2>3
<1>12. c \in 0..n
  BY <1>1
<1> QED BY <1>7, <1>9, <1>10, <1>11, <1>12 DEF w, c

\* The games of a list but one.
LEMMA WithoutOf ==
    ASSUME NEW s \in Seq(GamePage!Game), NEW g
    PROVE  /\ GamePage!Without(s, g) \in Seq(GamePage!Game) /\ GamePage!ToSet(GamePage!Without(s, g)) = GamePage!ToSet(s) \ {g}
           /\ GamePage!IsInjective(s) => GamePage!IsInjective(GamePage!Without(s, g))
<1> DEFINE kept == {i \in DOMAIN s : s[i] # g}
           c == GamePage!Cardinality(kept)
           w == GamePage!Without(s, g)
<1>1. DOMAIN s = 1..Len(s) /\ Len(s) \in Nat /\ \A i \in DOMAIN s : s[i] \in GamePage!Game
  <2>1. DOMAIN s = 1..Len(s) /\ Len(s) \in Nat
    BY LenProperties
  <2> QED BY <2>1, ElementOfSeq
<1>2. kept \in SUBSET (1..Len(s))
  BY <1>1
<1>3. w = [k \in 1..c |-> s[GamePage!Nth(kept, k)]]
  BY DEF GamePage!Without
<1>4. \A i \in kept : i \in DOMAIN s /\ s[i] # g
  OBVIOUS
<1>5. \A i \in DOMAIN s : s[i] # g => i \in kept
  OBVIOUS
<1> HIDE DEF kept, w
<1>6. /\ \A k \in 1..c : GamePage!Nth(kept, k) \in kept
      /\ \A x \in kept : \E k \in 1..c : GamePage!Nth(kept, k) = x
      /\ \A j \in 1..c, k \in 1..c : j < k <=> GamePage!Nth(kept, j) < GamePage!Nth(kept, k)
  BY <1>1, <1>2, NthOfAll
<1>7. c \in Nat
  BY <1>1, <1>2, Finite
<1> HIDE DEF c
<1>8. \A k \in 1..c : w[k] = s[GamePage!Nth(kept, k)] /\ w[k] \in GamePage!Game /\ w[k] # g /\ w[k] \in GamePage!ToSet(s)
  BY <1>1, <1>3, <1>4, <1>6 DEF GamePage!ToSet
<1>9. w \in [1..c -> GamePage!Game]
  BY <1>3, <1>8
<1>10. w \in Seq(GamePage!Game) /\ DOMAIN w = 1..c
  BY <1>7, <1>9, SeqDef
<1>11. ASSUME NEW x \in GamePage!ToSet(s), x # g PROVE \E k \in 1..c : w[k] = x
  <2>1. PICK i \in DOMAIN s : s[i] = x
    BY DEF GamePage!ToSet
  <2>2. PICK k \in 1..c : GamePage!Nth(kept, k) = i
    BY <1>5, <1>6, <1>11, <2>1
  <2> QED BY <1>8, <2>1, <2>2
<1>12. GamePage!ToSet(w) = GamePage!ToSet(s) \ {g}
  <2>1. \A x \in GamePage!ToSet(w) : x \in GamePage!ToSet(s) \ {g}
    BY <1>8, <1>10 DEF GamePage!ToSet
  <2>2. \A x \in GamePage!ToSet(s) \ {g} : x \in GamePage!ToSet(w)
    BY <1>10, <1>11 DEF GamePage!ToSet
  <2> QED BY <2>1, <2>2
<1>13. ASSUME GamePage!IsInjective(s) PROVE GamePage!IsInjective(w)
  <2> SUFFICES ASSUME NEW j \in 1..c, NEW k \in 1..c, w[j] = w[k], j # k PROVE FALSE
    BY <1>10 DEF GamePage!IsInjective
  <2>1. GamePage!Nth(kept, j) = GamePage!Nth(kept, k)
    BY <1>4, <1>6, <1>8, <1>13 DEF GamePage!IsInjective
  <2>2. j < k \/ k < j
    BY <1>7
  <2>3. GamePage!Nth(kept, j) < GamePage!Nth(kept, k) \/ GamePage!Nth(kept, k) < GamePage!Nth(kept, j)
    BY <1>6, <2>2
  <2>4. \A i \in kept : i \in Nat
    BY <1>1, <1>2
  <2>5. GamePage!Nth(kept, j) \in Nat
    BY <1>6, <2>4
  <2> QED BY <2>1, <2>3, <2>5
<1> QED BY <1>10, <1>12, <1>13 DEF w

\* Two lists, one after the other.
LEMMA ListsJoined ==
    ASSUME NEW s \in Seq(GamePage!Game), NEW t \in Seq(GamePage!Game)
    PROVE  /\ s \o t \in Seq(GamePage!Game) /\ GamePage!ToSet(s \o t) = GamePage!ToSet(s) \cup GamePage!ToSet(t)
           /\ GamePage!IsInjective(s) /\ GamePage!IsInjective(t) /\ GamePage!ToSet(s) \cap GamePage!ToSet(t) = {} => GamePage!IsInjective(s \o t)
<1>1. /\ DOMAIN s = 1..Len(s) /\ Len(s) \in Nat
      /\ DOMAIN t = 1..Len(t) /\ Len(t) \in Nat
  BY LenProperties
<1>2. /\ s \o t \in Seq(GamePage!Game) /\ Len(s \o t) = Len(s) + Len(t)
      /\ \A i \in 1..(Len(s) + Len(t)) : (s \o t)[i] = IF i <= Len(s) THEN s[i] ELSE t[i - Len(s)]
  BY ConcatProperties
<1>3. DOMAIN (s \o t) = 1..(Len(s) + Len(t))
  BY <1>2, LenProperties
<1> DEFINE w == s \o t
<1> HIDE DEF w
<1>4. \A i \in DOMAIN s : i \in DOMAIN w /\ w[i] = s[i]
  BY <1>1, <1>2, <1>3 DEF w
<1>5. \A i \in DOMAIN t : i + Len(s) \in DOMAIN w /\ w[i + Len(s)] = t[i]
  <2> SUFFICES ASSUME NEW i \in 1..Len(t)
               PROVE  i + Len(s) \in DOMAIN w /\ w[i + Len(s)] = t[i]
    BY <1>1
  <2>1. PICK j : j = i + Len(s)
    OBVIOUS
  <2>2. j \in 1..(Len(s) + Len(t)) /\ ~ (j <= Len(s)) /\ j - Len(s) = i
    BY <1>1, <2>1
  <2>3. w[j] = t[i]
    BY <1>2, <2>2 DEF w
  <2> QED BY <1>3, <2>1, <2>2, <2>3 DEF w
<1>6. \A i \in DOMAIN w : \/ i \in DOMAIN s /\ w[i] = s[i]
                          \/ i - Len(s) \in DOMAIN t /\ w[i] = t[i - Len(s)]
  BY <1>1, <1>2, <1>3 DEF w
<1>7. GamePage!ToSet(w) = GamePage!ToSet(s) \cup GamePage!ToSet(t)
  <2>1. \A x \in GamePage!ToSet(w) : x \in GamePage!ToSet(s) \cup GamePage!ToSet(t)
    BY <1>6 DEF GamePage!ToSet
  <2>2. \A x \in GamePage!ToSet(s) : x \in GamePage!ToSet(w)
    BY <1>4 DEF GamePage!ToSet
  <2>3. \A x \in GamePage!ToSet(t) : x \in GamePage!ToSet(w)
    BY <1>5 DEF GamePage!ToSet
  <2> QED BY <2>1, <2>2, <2>3
<1>8. ASSUME GamePage!IsInjective(s), GamePage!IsInjective(t), GamePage!ToSet(s) \cap GamePage!ToSet(t) = {} PROVE GamePage!IsInjective(w)
  <2> SUFFICES ASSUME NEW j \in DOMAIN w, NEW k \in DOMAIN w, w[j] = w[k] PROVE j = k
    BY DEF GamePage!IsInjective
  <2>1. \A p \in DOMAIN s, q \in DOMAIN t : s[p] # t[q]
    BY <1>8 DEF GamePage!ToSet
  <2>2. CASE j \in DOMAIN s /\ w[j] = s[j] /\ k \in DOMAIN s /\ w[k] = s[k]
    BY <1>8, <2>2 DEF GamePage!IsInjective
  <2>3. CASE /\ j - Len(s) \in DOMAIN t /\ w[j] = t[j - Len(s)]
             /\ k - Len(s) \in DOMAIN t /\ w[k] = t[k - Len(s)]
    <3>1. j - Len(s) = k - Len(s)
      BY <1>8, <2>3 DEF GamePage!IsInjective
    <3>2. j \in Int /\ k \in Int
      BY <1>3 DEF w
    <3> QED BY <1>1, <3>1, <3>2
  <2> QED BY <1>6, <2>1, <2>2, <2>3
<1> QED BY <1>2, <1>7, <1>8 DEF w

-----------------------------------------------------------------------------
(* Pages of the finished games                                             *)

\* The newest games of a list, up to a length.
LEMMA FirstOf ==
    ASSUME NEW s \in Seq(GamePage!Game), GamePage!IsInjective(s), NEW m \in 0..Len(s)
    PROVE  /\ SubSeq(s, 1, m) \in Seq(GamePage!Game) /\ GamePage!IsInjective(SubSeq(s, 1, m))
           /\ GamePage!ToSet(SubSeq(s, 1, m)) = {s[i] : i \in 1..m}
<1> DEFINE w == SubSeq(s, 1, m)
<1>1. DOMAIN s = 1..Len(s) /\ Len(s) \in Nat /\ m \in Nat /\ \A i \in 1..m : i \in DOMAIN s /\ s[i] \in GamePage!Game
  <2>1. DOMAIN s = 1..Len(s) /\ Len(s) \in Nat
    BY LenProperties
  <2>2. m \in Nat /\ \A i \in 1..m : i \in 1..Len(s)
    BY <2>1
  <2> QED BY <2>1, <2>2, ElementOfSeq
<1>2. w \in Seq(GamePage!Game) /\ Len(w) = m /\ \A i \in 1..m : w[i] = s[i]
  <2>1. /\ w \in Seq(GamePage!Game) /\ Len(w) = (IF 1 <= m THEN m - 1 + 1 ELSE 0)
        /\ \A i \in 1..(m - 1 + 1) : w[i] = s[1 + i - 1]
    <3>1. 1 \in Int /\ m \in Int
      BY <1>1
    <3> QED BY <1>1, <3>1, SubSeqProperties
  <2>2. m - 1 + 1 = m /\ \A i \in 1..m : 1 + i - 1 = i
    BY <1>1
  <2>3. Len(w) = m
    BY <1>1, <2>1
  <2> QED BY <2>1, <2>2, <2>3
<1> HIDE DEF w
<1>3. DOMAIN w = 1..m
  BY <1>2, LenProperties
<1>4. GamePage!IsInjective(w)
  BY <1>1, <1>2, <1>3 DEF GamePage!IsInjective
<1>5. GamePage!ToSet(w) = {s[i] : i \in 1..m}
  BY <1>2, <1>3 DEF GamePage!ToSet
<1> QED BY <1>2, <1>4, <1>5 DEF w

\* The first pages of a set of games: its newest games, each once.
LEMMA UptoOf ==
    ASSUME GamesBounds, NEW S \in SUBSET GamePage!Game, NEW k \in Nat
    PROVE  /\ Upto(S, k) \in Seq(GamePage!Game) /\ GamePage!IsInjective(Upto(S, k)) /\ GamePage!ToSet(Upto(S, k)) \subseteq S
           /\ GamePage!Cardinality(S) <= k * FINISHED_PAGE_SIZE => GamePage!ToSet(Upto(S, k)) = S
           /\ \A g \in GamePage!ToSet(Upto(S, k)), h \in S \ GamePage!ToSet(Upto(S, k)) : g > h
           /\ k = 0 => Upto(S, k) = <<>>
<1> DEFINE w == GamePage!Newest(S)
           c == GamePage!Cardinality(S)
<1>1. MaxGames \in Nat /\ S \in SUBSET (1..MaxGames) /\ FINISHED_PAGE_SIZE \in Nat
  BY DEF GamesBounds, GamePage!Game
<1>2. /\ w \in Seq(S) /\ Len(w) = c /\ c \in Nat
      /\ GamePage!ToSet(w) = S /\ GamePage!IsInjective(w)
      /\ \A i \in 1..c, j \in 1..c : i < j => w[i] > w[j]
  <2>1. /\ w \in Seq(S) /\ Len(w) = c /\ c \in 0..MaxGames
        /\ GamePage!ToSet(w) = S /\ GamePage!IsInjective(w)
        /\ \A i \in 1..c, j \in 1..c : i < j => w[i] > w[j]
    BY <1>1, NewestOf
  <2> QED BY <1>1, <2>1
<1>3. w \in Seq(GamePage!Game)
  BY <1>2, SeqMonotonic
<1> HIDE DEF c, w
<1>4. PICK p \in Nat : p = k * FINISHED_PAGE_SIZE
  BY <1>1
<1>5. PICK m \in 0..c : m = IF c <= p THEN c ELSE p
  BY <1>2
<1>6. GamePage!Min({c, p}) = m
  BY <1>2, <1>5, LesserOfTwo
<1>7. Upto(S, k) = SubSeq(w, 1, m)
  BY <1>4, <1>6 DEF Upto, w, c
<1>8. /\ SubSeq(w, 1, m) \in Seq(GamePage!Game) /\ GamePage!IsInjective(SubSeq(w, 1, m))
      /\ GamePage!ToSet(SubSeq(w, 1, m)) = {w[i] : i \in 1..m}
  BY <1>2, <1>3, <1>5, FirstOf
<1>9. DOMAIN w = 1..c
  BY <1>2, LenProperties
<1>10. \A i \in 1..m : i \in 1..c
  BY <1>2, <1>5
<1>11. {w[i] : i \in 1..m} \subseteq S
  BY <1>2, <1>9, <1>10 DEF GamePage!ToSet
<1>12. c <= p => {w[i] : i \in 1..m} = S
  BY <1>2, <1>5, <1>9 DEF GamePage!ToSet
<1>13. ASSUME NEW g \in {w[i] : i \in 1..m}, NEW h \in S, h \notin {w[i] : i \in 1..m} PROVE g > h
  <2>1. PICK i \in 1..m : g = w[i]
    OBVIOUS
  <2>2. PICK j \in 1..c : h = w[j]
    BY <1>2, <1>9 DEF GamePage!ToSet
  <2>3. j \notin 1..m
    BY <1>13, <2>2
  <2>4. i < j /\ i \in 1..c
    BY <1>2, <1>5, <2>3
  <2> QED BY <1>2, <2>1, <2>2, <2>4
<1>14. ASSUME k = 0 PROVE SubSeq(w, 1, m) = <<>>
  <2>1. m = 0
    BY <1>2, <1>4, <1>5, <1>14, <1>1
  <2>2. 1 \in Int /\ m \in Int /\ m < 1
    BY <2>1
  <2> QED BY <2>2, SubSeqEmpty
<1>15. GamePage!Cardinality(S) <= k * FINISHED_PAGE_SIZE => c <= p
  BY <1>4 DEF c
<1> QED BY <1>7, <1>8, <1>11, <1>12, <1>13, <1>14, <1>15

\* A page of the finished games, and whether there are more.
LEMMA PageOf ==
    ASSUME GamesBounds, ServerTypes, NEW k \in Nat \ {0}
    PROVE  LET F == GamePage!OfStatus("FINISHED")
               p == GamePage!GamesOfPage(k, FINISHED_PAGE_SIZE) IN
           /\ p.games \in Seq(GamePage!Game) /\ GamePage!ToSet(p.games) \subseteq F
           /\ p.more = (GamePage!Cardinality(F) > k * FINISHED_PAGE_SIZE)
           /\ p.more \in BOOLEAN /\ (p.more => k < MaxGames)
           /\ k = 1 => p.games = Upto(F, 1)
           /\ Upto(F, k - 1) \o p.games = Upto(F, k)
<1> DEFINE F == GamePage!OfStatus("FINISHED")
           w == GamePage!Newest(F)
           c == GamePage!Cardinality(F)
           p == GamePage!GamesOfPage(k, FINISHED_PAGE_SIZE)
<1>1. MaxGames \in Nat /\ F \in SUBSET (1..MaxGames) /\ F \subseteq GamePage!Game /\ FINISHED_PAGE_SIZE \in Nat \ {0}
  BY DEF GamesBounds, GamePage!OfStatus, GamePage!Game
<1>2. w \in Seq(F) /\ Len(w) = c /\ c \in 0..MaxGames /\ GamePage!ToSet(w) = F
  BY <1>1, NewestOf
<1>3. w \in Seq(GamePage!Game) /\ w \in Seq(F)
  BY <1>1, <1>2, SeqMonotonic
<1>4. PICK a : a = (k - 1) * FINISHED_PAGE_SIZE
  OBVIOUS
<1>5. PICK b : b = k * FINISHED_PAGE_SIZE
  OBVIOUS
<1>6. k \in Nat /\ k >= 1 /\ k - 1 \in Nat
  OBVIOUS
<1>7. a \in Nat /\ b \in Nat /\ b = a + FINISHED_PAGE_SIZE
  BY <1>1, <1>4, <1>5, <1>6
<1>8. b >= k
  BY <1>1, <1>5, <1>6
<1>9. /\ p.games = SubSeq(w, a + 1, GamePage!Min({Len(w), b}))
      /\ p.more = (Len(w) > b)
  BY <1>4, <1>5 DEF GamePage!GamesOfPage
<1>10. Upto(F, k - 1) = SubSeq(w, 1, GamePage!Min({c, a})) /\ Upto(F, k) = SubSeq(w, 1, GamePage!Min({c, b}))
  BY <1>4, <1>5 DEF Upto
<1> HIDE DEF w, c, p, F
<1>11. c \in Nat /\ c <= MaxGames
  BY <1>1, <1>2
<1>12. PICK m \in 0..c : m = IF c <= a THEN c ELSE a
  BY <1>7, <1>11
<1>13. PICK n \in 0..c : n = IF c <= b THEN c ELSE b
  BY <1>7, <1>11
<1>14. GamePage!Min({c, a}) = m /\ GamePage!Min({c, b}) = n /\ m <= n
  <2>1. m <= n
    BY <1>1, <1>7, <1>11, <1>12, <1>13
  <2>2. GamePage!Min({c, a}) = m
    BY <1>7, <1>11, <1>12, LesserOfTwo
  <2>3. GamePage!Min({c, b}) = n
    BY <1>7, <1>11, <1>13, LesserOfTwo
  <2> QED BY <2>1, <2>2, <2>3
<1>15. p.games = SubSeq(w, a + 1, n)
  BY <1>2, <1>9, <1>14
<1>16. p.games = SubSeq(w, m + 1, n)
  <2>1. CASE m = a
    BY <1>15, <2>1
  <2>2. CASE m # a
    <3>1. a + 1 \in Int /\ m + 1 \in Int /\ n \in Int /\ n < a + 1 /\ n < m + 1
      BY <1>7, <1>11, <1>12, <1>13, <2>2
    <3>2. SubSeq(w, a + 1, n) = <<>> /\ SubSeq(w, m + 1, n) = <<>>
      BY <3>1, SubSeqEmpty
    <3> QED BY <1>15, <3>2
  <2> QED BY <2>1, <2>2
<1>17. SubSeq(w, 1, m) \o SubSeq(w, m + 1, n) = SubSeq(w, 1, n)
  <2>0. Len(w) = c /\ m <= n
    BY <1>2, <1>14
  <2>1. Len(w) \in Nat /\ m \in Nat /\ n \in Nat /\ m <= n /\ n <= Len(w)
    <3>1. m \in Nat /\ n \in Nat /\ n <= c
      BY <1>11
    <3> QED BY <1>11, <2>0, <3>1
  <2>2. 1 \in 1..(Len(w) + 1) /\ m \in (1 - 1)..Len(w) /\ n \in m..Len(w)
    BY <2>1
  <2> QED BY <1>3, <2>2, ConcatAdjacentSubSeq
<1>18. Upto(F, k - 1) \o p.games = Upto(F, k)
  BY <1>10, <1>14, <1>16, <1>17
<1>19. ASSUME k = 1 PROVE p.games = Upto(F, 1)
  <2>1. a = 0
    BY <1>1, <1>4, <1>19
  <2>2. p.games = SubSeq(w, 1, n)
    BY <1>15, <2>1
  <2> QED BY <1>10, <1>14, <1>19, <2>2
<1>20. p.games \in Seq(GamePage!Game) /\ p.games \in Seq(F)
  <2>1. m + 1 \in Int /\ n \in Int
    BY <1>12, <1>13, <1>11
  <2>2. \A i \in (m + 1)..n : i \in 1..Len(w)
    BY <1>2, <1>11, <1>12, <1>13
  <2>3. \A i \in (m + 1)..n : w[i] \in F /\ w[i] \in GamePage!Game
    BY <1>3, <2>2, ElementOfSeq
  <2> QED BY <1>16, <2>1, <2>3, SubSeqProperties
<1>21. GamePage!ToSet(p.games) \subseteq F
  <2>1. \A i \in DOMAIN p.games : p.games[i] \in F
    BY <1>20, LenProperties, ElementOfSeq
  <2> QED BY <2>1 DEF GamePage!ToSet
<1>22. p.more = (c > b)
  BY <1>2, <1>9
<1>23. p.more \in BOOLEAN /\ (p.more => k < MaxGames)
  <2>1. (c > b) \in BOOLEAN
    OBVIOUS
  <2>2. c > b => k < MaxGames
    BY <1>6, <1>7, <1>8, <1>11, <1>1
  <2> QED BY <1>22, <2>1, <2>2
<1> QED BY <1>5, <1>18, <1>19, <1>20, <1>21, <1>22, <1>23 DEF F, p, c

-----------------------------------------------------------------------------
(* Requests                                                                *)

Made(kind, g, p, gen) ==
    [n : {gSent + 1}, kind : {kind}, pc : {"sent"}, game : {g},
     page : {p}, generation : {gen}, games : {<<>>}, more : {FALSE}]

\* A request that is made is as its page makes it.
LEMMA RequestIsMade ==
    ASSUME NEW kind, NEW x
    PROVE  /\ GamePage!Request(kind) \in Made(kind, 0, 1, generation)
           /\ [GamePage!Request(kind) EXCEPT !.generation = x] \in Made(kind, 0, 1, x)
           /\ [GamePage!Request(kind) EXCEPT !.page = x] \in Made(kind, 0, x, generation)
           /\ [GamePage!Request(kind) EXCEPT !.game = x] \in Made(kind, x, 1, generation)
<1>1. GamePage!Request(kind) \in Made(kind, 0, 1, generation)
  BY DEF GamePage!Request, Made
<1>2. [GamePage!Request(kind) EXCEPT !.generation = x] \in Made(kind, 0, 1, x)
  BY DEF GamePage!Request, Made
<1>3. [GamePage!Request(kind) EXCEPT !.page = x] \in Made(kind, 0, x, generation)
  BY DEF GamePage!Request, Made
<1>4. [GamePage!Request(kind) EXCEPT !.game = x] \in Made(kind, x, 1, generation)
  BY DEF GamePage!Request, Made
<1> QED BY <1>1, <1>2, <1>3, <1>4

\* What a request that is made asks for.
LEMMA MadeFields ==
    ASSUME NEW kind, NEW g, NEW p, NEW gen, NEW q \in Made(kind, g, p, gen)
    PROVE  /\ q.n = gSent + 1 /\ q.kind = kind /\ q.pc = "sent" /\ q.game = g /\ q.page = p
           /\ q.generation = gen /\ q.games = <<>> /\ q.more = FALSE /\ GamePage!ToSet(q.games) = {}
<1>1. <<>> \in Seq({}) /\ Len(<<>>) = 0
  OBVIOUS
<1>2. DOMAIN <<>> = 1..0
  BY <1>1, LenProperties
<1>3. GamePage!ToSet(<<>>) = {}
  BY <1>2 DEF GamePage!ToSet
<1>4. /\ q.n = gSent + 1 /\ q.kind = kind /\ q.pc = "sent" /\ q.game = g /\ q.page = p
      /\ q.generation = gen /\ q.games = <<>> /\ q.more = FALSE
  BY DEF Made
<1> QED BY <1>3, <1>4

\* A request that is made is of the domain.
LEMMA MadeIsAsked ==
    ASSUME GamesBounds, GamesPageTypes,
           NEW kind \in GameKinds, NEW g \in 0..MaxGames, NEW p \in 1..MaxGames, NEW gen \in Nat
    PROVE  Made(kind, g, p, gen) \subseteq GamesAsked
<1>1. gSent + 1 \in Nat
  BY DEF GamesBounds, GamesPageTypes, GamesCountTypes
<1>2. <<>> \in Seq(GamePage!Game)
  OBVIOUS
<1> QED BY <1>1, <1>2 DEF Made, GamesAsked

\* A request with its answer is of the domain.
LEMMA AnswerIsAsked ==
    ASSUME NEW r \in GamesAsked, NEW games \in Seq(GamePage!Game), NEW more \in BOOLEAN
    PROVE  LET q == [r EXCEPT !.pc = "ok", !.games = games, !.more = more] IN
           /\ q \in GamesAsked /\ q.pc = "ok" /\ q.games = games /\ q.more = more
           /\ q.n = r.n /\ q.kind = r.kind /\ q.game = r.game /\ q.page = r.page /\ q.generation = r.generation
  BY DEF GamesAsked

\* A move that was made is of the domain.
LEMMA MoveIsAsked ==
    ASSUME NEW r \in GamesAsked, NEW g \in 0..MaxGames
    PROVE  LET q == [r EXCEPT !.pc = "ok", !.game = g] IN
           /\ q \in GamesAsked /\ q.pc = "ok" /\ q.game = g /\ q.games = r.games /\ q.more = r.more
           /\ q.n = r.n /\ q.kind = r.kind /\ q.page = r.page /\ q.generation = r.generation
  BY DEF GamesAsked

\* The requests keep their types if those that are new have them.
LEMMA AskedKeeps ==
    ASSUME GamesBounds, GamesPageTypes, gSent' \in Nat, generation' \in Nat, gSent <= gSent', generation <= generation',
           \A q \in gAsked' \ gAsked :
              /\ q \in GamesAsked /\ q.n <= gSent' /\ q.generation <= generation'
              /\ q.kind = "initial" => q.page = 1
              /\ q.more => q.page < MaxGames
    PROVE  GamesAskedTypes'
<1>1. \A r \in gAsked : /\ r \in GamesAsked /\ r.n <= gSent /\ r.generation <= generation
                        /\ r.kind = "initial" => r.page = 1
                        /\ r.more => r.page < MaxGames
  BY DEF GamesPageTypes, GamesAskedTypes
<1>2. \A r \in GamesAsked : r.n \in Nat /\ r.generation \in Nat
  BY DEF GamesAsked
<1>3. gSent \in Nat /\ generation \in Nat
  BY DEF GamesBounds, GamesPageTypes, GamesCountTypes
<1>4. \A r \in gAsked : r.n <= gSent' /\ r.generation <= generation'
  BY <1>1, <1>2, <1>3
<1> QED BY <1>1, <1>4 DEF GamesAskedTypes

\* A game that is to be created finds the smallest number.
LEMMA NextGame ==
    ASSUME GamesBounds, GamePage!OfStatus("none") # {}
    PROVE  GamePage!Min(GamePage!OfStatus("none")) \in GamePage!OfStatus("none")
<1>1. GamePage!OfStatus("none") # {} /\ GamePage!OfStatus("none") \in SUBSET Nat
  BY DEF GamePage!OfStatus, GamePage!Game
<1>2. PICK m \in GamePage!OfStatus("none") : \A e \in GamePage!OfStatus("none") : m <= e
  BY <1>1, LeastOf
<1> QED BY <1>2 DEF GamePage!Min

\* The page begins with its first two requests.
LEMMA GamesBegin == GamesBounds /\ GamePage!Init => GamesInv
<1> SUFFICES ASSUME GamesBounds, GamePage!Init PROVE GamesInv
  OBVIOUS
<1>1. /\ gStatus = [g \in GamePage!Game |-> IF g \in DOMAIN FirstGames THEN FirstGames[g] ELSE "none"]
      /\ inProgress = <<>> /\ finished = <<>> /\ hasMore = FALSE
      /\ loaded = 0 /\ loading = TRUE /\ generation = 0
      /\ selectMode = FALSE /\ selected = {} /\ rangeApplied = FALSE /\ assigning = FALSE
      /\ gSent = 2 /\ shifted = FALSE /\ behind = {}
  BY DEF GamePage!Init
<1>2. PICK a, b : /\ gAsked = {a, b}
                  /\ a = [n |-> 1, kind |-> "inProgress", pc |-> "sent", game |-> 0,
                          page |-> 1, generation |-> 0, games |-> <<>>, more |-> FALSE]
                  /\ b = [n |-> 2, kind |-> "initial", pc |-> "sent", game |-> 0,
                          page |-> 1, generation |-> 0, games |-> <<>>, more |-> FALSE]
  <2> DEFINE f(k) == [n |-> k, kind |-> <<"inProgress", "initial">>[k], pc |-> "sent", game |-> 0,
                      page |-> 1, generation |-> 0, games |-> <<>>, more |-> FALSE]
  <2>1. gAsked = {f(k) : k \in 1..2}
    BY DEF GamePage!Init
  <2>2. /\ f(1) = [n |-> 1, kind |-> "inProgress", pc |-> "sent", game |-> 0,
                   page |-> 1, generation |-> 0, games |-> <<>>, more |-> FALSE]
        /\ f(2) = [n |-> 2, kind |-> "initial", pc |-> "sent", game |-> 0,
                   page |-> 1, generation |-> 0, games |-> <<>>, more |-> FALSE]
    OBVIOUS
  <2> HIDE DEF f
  <2>3. gAsked = {f(1), f(2)}
    <3>1. 1..2 = {1, 2}
      OBVIOUS
    <3> QED BY <2>1, <3>1
  <2> QED BY <2>2, <2>3
<1>3. <<>> \in Seq(GamePage!Game) /\ Len(<<>>) = 0 /\ DOMAIN <<>> = 1..0
  <2>1. <<>> \in Seq(GamePage!Game) /\ Len(<<>>) = 0
    OBVIOUS
  <2> QED BY <2>1, LenProperties
<1>4. GamePage!ToSet(<<>>) = {} /\ 1 \in 1..MaxGames
  BY <1>3 DEF GamePage!ToSet, GamesBounds
<1>5. a \in GamesAsked /\ b \in GamesAsked
  BY <1>2, <1>3, <1>4 DEF GamesAsked, GameKinds, GamePage!Loads, GamesBounds
<1>6. /\ a.n = 1 /\ a.kind = "inProgress" /\ a.pc = "sent" /\ a.page = 1 /\ a.generation = 0 /\ a.games = <<>> /\ a.more = FALSE
      /\ b.n = 2 /\ b.kind = "initial" /\ b.pc = "sent" /\ b.page = 1 /\ b.generation = 0 /\ b.games = <<>> /\ b.more = FALSE
  BY <1>2
<1>7. GamesPageTypes
  <2>1. ServerTypes
    BY <1>1 DEF ServerTypes, GameStatuses, GamesBounds
  <2>2. GamePageTypes
    BY <1>1, <1>3 DEF GamePageTypes
  <2>3. GamesCountTypes
    BY <1>1 DEF GamesCountTypes, GamesBounds
  <2>4. GamesAskedTypes
    <3> SUFFICES ASSUME NEW r \in {a, b}
                 PROVE  /\ r \in GamesAsked /\ r.n <= gSent /\ r.generation <= generation
                        /\ r.kind = "initial" => r.page = 1
                        /\ r.more => r.page < MaxGames
      BY <1>2 DEF GamesAskedTypes
    <3>1. r \in GamesAsked /\ r.page = 1 /\ r.more = FALSE
      BY <1>5, <1>6
    <3>2. r.n \in {1, 2} /\ r.generation = 0
      BY <1>6
    <3>3. r.n <= gSent /\ r.generation <= generation
      BY <1>1, <3>2
    <3> QED BY <3>1, <3>3
  <2> QED BY <2>1, <2>2, <2>3, <2>4 DEF GamesPageTypes
<1>8. ExistInv
  BY <1>1, <1>2, <1>4, <1>6 DEF ExistInv, GamePage!Moves
<1>9. GenerationInv /\ MoveInv
  BY <1>1, <1>2, <1>6 DEF GenerationInv, MoveInv, GamePage!Moves
<1>10. InProgressInv /\ FinishedInv /\ GamesAnswersInv
  BY <1>2, <1>6 DEF InProgressInv, FinishedInv, GamesAnswersInv
<1>11. GamePage!SelectionIsShown
  BY <1>1 DEF GamePage!SelectionIsShown
<1> QED BY <1>7, <1>8, <1>9, <1>10, <1>11 DEF GamesInv

\* The server's answers, and what is known of a request that is answered.
LEMMA ServerAnswers ==
    ASSUME GamesBounds, GamesPageTypes, NEW r \in gAsked, GamePage!ServeList(r)
    PROVE  \E q \in GamesAsked :
              /\ gAsked' = (gAsked \ {r}) \cup {q} /\ q.pc = "ok" /\ r.pc = "sent"
              /\ q.n = r.n /\ q.kind = r.kind /\ q.page = r.page /\ q.generation = r.generation
              /\ r.kind \in GamePage!Loads \cup {"inProgress"}
              /\ r.kind = "inProgress" => q.games = GamePage!Newest(GamePage!OfStatus("IN_PROGRESS"))
              /\ r.kind \in {"initial", "more"} =>
                    LET p == GamePage!GamesOfPage(r.page, FINISHED_PAGE_SIZE) IN q.games = p.games /\ q.more = p.more
              /\ r.kind = "range" => q.games = GamePage!Newest(GamePage!OfStatus("FINISHED") \cap InRange)
              /\ q.more => q.page < MaxGames
              /\ GamePage!ToSet(q.games) \subseteq Exist
<1>1. r \in GamesAsked /\ r.page \in Nat \ {0}
  BY DEF GamesPageTypes, GamesAskedTypes, GamesAsked
<1>2. \A S \in SUBSET GamePage!Game : GamePage!Newest(S) \in Seq(GamePage!Game) /\ GamePage!ToSet(GamePage!Newest(S)) = S
  <2> SUFFICES ASSUME NEW S \in SUBSET GamePage!Game PROVE GamePage!Newest(S) \in Seq(GamePage!Game) /\ GamePage!ToSet(GamePage!Newest(S)) = S
    OBVIOUS
  <2>1. MaxGames \in Nat /\ S \in SUBSET (1..MaxGames)
    BY DEF GamesBounds, GamePage!Game
  <2>2. GamePage!Newest(S) \in Seq(S) /\ GamePage!ToSet(GamePage!Newest(S)) = S
    BY <2>1, NewestOf
  <2> QED BY <2>2, SeqMonotonic
<1>3. /\ GamePage!OfStatus("IN_PROGRESS") \in SUBSET GamePage!Game /\ GamePage!OfStatus("FINISHED") \in SUBSET GamePage!Game
      /\ GamePage!OfStatus("FINISHED") \cap InRange \in SUBSET GamePage!Game
      /\ GamePage!OfStatus("IN_PROGRESS") \subseteq Exist /\ GamePage!OfStatus("FINISHED") \subseteq Exist
  BY DEF GamePage!OfStatus, Exist
<1>4. CASE r.kind = "inProgress" /\ GamePage!Answer(r, GamePage!Newest(GamePage!OfStatus("IN_PROGRESS")), FALSE)
  <2> DEFINE q == [r EXCEPT !.pc = "ok", !.games = GamePage!Newest(GamePage!OfStatus("IN_PROGRESS")), !.more = FALSE]
  <2>1. gAsked' = (gAsked \ {r}) \cup {q} /\ r.pc = "sent"
    BY <1>4 DEF GamePage!Answer, GamePage!ServeList
  <2>2. /\ q \in GamesAsked /\ q.pc = "ok" /\ q.games = GamePage!Newest(GamePage!OfStatus("IN_PROGRESS")) /\ q.more = FALSE
        /\ q.n = r.n /\ q.kind = r.kind /\ q.page = r.page /\ q.generation = r.generation
    BY <1>1, <1>2, <1>3, AnswerIsAsked
  <2> HIDE DEF q
  <2> QED BY <1>2, <1>3, <1>4, <2>1, <2>2
<1>5. CASE /\ r.kind \in {"initial", "more"}
           /\ LET p == GamePage!GamesOfPage(r.page, FINISHED_PAGE_SIZE) IN GamePage!Answer(r, p.games, p.more)
  <2> DEFINE p == GamePage!GamesOfPage(r.page, FINISHED_PAGE_SIZE)
             q == [r EXCEPT !.pc = "ok", !.games = p.games, !.more = p.more]
  <2>1. gAsked' = (gAsked \ {r}) \cup {q} /\ r.pc = "sent"
    BY <1>5 DEF GamePage!Answer, GamePage!ServeList
  <2>2. /\ p.games \in Seq(GamePage!Game) /\ GamePage!ToSet(p.games) \subseteq GamePage!OfStatus("FINISHED")
        /\ p.more \in BOOLEAN /\ (p.more => r.page < MaxGames)
    BY <1>1, PageOf DEF GamesPageTypes
  <2>3. /\ q \in GamesAsked /\ q.pc = "ok" /\ q.games = p.games /\ q.more = p.more
        /\ q.n = r.n /\ q.kind = r.kind /\ q.page = r.page /\ q.generation = r.generation
    <3>1. PICK games \in Seq(GamePage!Game), more \in BOOLEAN : games = p.games /\ more = p.more
      BY <2>2
    <3> DEFINE w == [r EXCEPT !.pc = "ok", !.games = games, !.more = more]
    <3>2. /\ w \in GamesAsked /\ w.pc = "ok" /\ w.games = games /\ w.more = more
          /\ w.n = r.n /\ w.kind = r.kind /\ w.page = r.page /\ w.generation = r.generation
      BY <1>1, <3>1 DEF GamesAsked
    <3>3. q = w
      BY <3>1
    <3> HIDE DEF p, q, w
    <3> QED BY <3>1, <3>2, <3>3
  <2> HIDE DEF q
  <2> QED BY <1>3, <1>5, <2>1, <2>2, <2>3 DEF GamePage!Loads
<1>6. CASE r.kind = "range" /\ GamePage!Answer(r, GamePage!Newest(GamePage!OfStatus("FINISHED") \cap InRange), FALSE)
  <2> DEFINE q == [r EXCEPT !.pc = "ok", !.games = GamePage!Newest(GamePage!OfStatus("FINISHED") \cap InRange), !.more = FALSE]
  <2>1. gAsked' = (gAsked \ {r}) \cup {q} /\ r.pc = "sent"
    BY <1>6 DEF GamePage!Answer, GamePage!ServeList
  <2>2. /\ q \in GamesAsked /\ q.pc = "ok" /\ q.games = GamePage!Newest(GamePage!OfStatus("FINISHED") \cap InRange) /\ q.more = FALSE
        /\ q.n = r.n /\ q.kind = r.kind /\ q.page = r.page /\ q.generation = r.generation
    BY <1>1, <1>2, <1>3, AnswerIsAsked
  <2> HIDE DEF q
  <2> QED BY <1>2, <1>3, <1>6, <2>1, <2>2 DEF GamePage!Loads
<1> QED BY <1>4, <1>5, <1>6 DEF GamePage!ServeList

\* A change that the server makes.
LEMMA ServerMoves ==
    ASSUME GamesBounds, GamesPageTypes, ExistInv, NEW r \in gAsked, GamePage!ServeMove(r)
    PROVE  \E q \in GamesAsked :
              /\ gAsked' = (gAsked \ {r}) \cup {q} /\ q.pc = "ok" /\ r.pc = "sent" /\ r.kind \in GamePage!Moves
              /\ q.n = r.n /\ q.kind = r.kind /\ q.page = r.page /\ q.generation = r.generation
              /\ q.games = r.games /\ q.more = r.more /\ q.game \in GamePage!Game
              /\ r.kind = "create" => gStatus[q.game] = "none"
              /\ r.kind # "create" => q.game = r.game
              /\ gStatus' = [gStatus EXCEPT ![q.game] = GamePage!Outcome(r.kind)]
<1> DEFINE g == IF r.kind = "create" THEN GamePage!Min(GamePage!OfStatus("none")) ELSE r.game
           q == [r EXCEPT !.pc = "ok", !.game = g]
<1>1. /\ gAsked' = (gAsked \ {r}) \cup {q} /\ r.pc = "sent" /\ r.kind \in GamePage!Moves
      /\ gStatus' = [gStatus EXCEPT ![g] = GamePage!Outcome(r.kind)]
      /\ r.kind = "create" => GamePage!OfStatus("none") # {}
  BY DEF GamePage!ServeMove
<1>2. g \in GamePage!Game /\ (r.kind = "create" => g \in GamePage!OfStatus("none"))
  <2>1. CASE r.kind = "create"
    BY <1>1, <2>1, NextGame DEF GamePage!OfStatus
  <2>2. CASE r.kind # "create"
    BY <1>1, <2>2 DEF ExistInv, Exist
  <2> QED BY <2>1, <2>2
<1>3. r.kind # "create" => g = r.game
  OBVIOUS
<1>4. r \in GamesAsked /\ GamePage!Game \subseteq 0..MaxGames
  BY DEF GamesPageTypes, GamesAskedTypes, GamePage!Game, GamesBounds
<1> HIDE DEF g
<1>5. /\ q \in GamesAsked /\ q.pc = "ok" /\ q.game = g /\ q.games = r.games /\ q.more = r.more
      /\ q.n = r.n /\ q.kind = r.kind /\ q.page = r.page /\ q.generation = r.generation
  BY <1>2, <1>4, MoveIsAsked
<1> HIDE DEF q
<1>6. r.kind = "create" => gStatus[g] = "none"
  BY <1>2 DEF GamePage!OfStatus
<1> QED BY <1>1, <1>2, <1>3, <1>5, <1>6

-----------------------------------------------------------------------------
(* Steps                                                                   *)

Arrival(r) ==
    \/ GamePage!InProgressAnswer(r) \/ GamePage!InitialAnswer(r) \/ GamePage!MoreAnswer(r) \/ GamePage!LoadFails(r)
    \/ GamePage!RangeAnswer(r) \/ GamePage!RangeFails(r) \/ GamePage!AssignFails(r)
    \/ GamePage!CreateAnswer(r) \/ GamePage!FinishAnswer(r) \/ GamePage!DeleteAnswer(r) \/ GamePage!RestartAnswer(r) \/ GamePage!MoveFails(r)
Choice   == GamePage!EnterSelectMode \/ GamePage!ToggleSelectAll \/ \E g \in GamePage!Game : GamePage!ToggleGame(g)
Restart  == GamePage!ExitSelectMode \/ GamePage!ClearRange \/ \E r \in gAsked : GamePage!AssignAnswer(r)

\* A step is one of the server, of an answer, of the user or of another device.
LEMMA StepsOfPage ==
    ASSUME GamePage!Next
    PROVE  \/ \E r \in gAsked : GamePage!ServeList(r) \/ GamePage!ServeMove(r) \/ Arrival(r)
           \/ Choice \/ Restart \/ GamePage!LoadMore \/ GamePage!ApplyRange \/ GamePage!Assign
           \/ \E g \in GamePage!Game, k \in GamePage!Moves \ {"create"} : GamePage!Tap(k, g)
           \/ GamePage!Tap("create", 0)
           \/ \E g \in GamePage!Game, s \in {"IN_PROGRESS", "FINISHED", "DELETED"} : GamePage!ChangeByOther(g, s)
  BY Zenon DEF GamePage!Next, GamePage!AnswerStep, GamePage!Toolbar, GamePage!Cards,
      GamePage!ActionBar, Arrival, Choice, Restart

\* An answer that comes changes nothing on the server.
LEMMA ArrivalFrame ==
    ASSUME NEW r \in gAsked, Arrival(r)
    PROVE  gAsked' = gAsked \ {r} /\ gStatus' = gStatus /\ gSent' = gSent /\ generation' = generation /\ shifted' = shifted
<1>1. CASE GamePage!InProgressAnswer(r) \/ GamePage!InitialAnswer(r) \/ GamePage!MoreAnswer(r) \/ GamePage!LoadFails(r)
  BY <1>1 DEF GamePage!InProgressAnswer, GamePage!InitialAnswer, GamePage!MoreAnswer,
      GamePage!LoadFails, GamePage!Arrive, GamePage!refs
<1>2. CASE GamePage!RangeAnswer(r) \/ GamePage!RangeFails(r) \/ GamePage!AssignFails(r) \/ GamePage!MoveFails(r)
  BY <1>2 DEF GamePage!RangeAnswer, GamePage!RangeFails, GamePage!AssignFails, GamePage!MoveFails,
      GamePage!Arrive, GamePage!refs
<1>3. CASE GamePage!CreateAnswer(r) \/ GamePage!FinishAnswer(r) \/ GamePage!DeleteAnswer(r) \/ GamePage!RestartAnswer(r)
  BY <1>3 DEF GamePage!CreateAnswer, GamePage!FinishAnswer, GamePage!DeleteAnswer,
      GamePage!RestartAnswer, GamePage!MoveAnswer, GamePage!Arrive, GamePage!refs
<1> QED BY <1>1, <1>2, <1>3 DEF Arrival

\* Selecting games changes no list.
LEMMA ChoiceFrame ==
    ASSUME Choice
    PROVE  /\ gAsked' = gAsked /\ gStatus' = gStatus /\ gSent' = gSent /\ shifted' = shifted
           /\ inProgress' = inProgress /\ finished' = finished /\ hasMore' = hasMore
           /\ loaded' = loaded /\ loading' = loading /\ generation' = generation
           /\ rangeApplied' = rangeApplied /\ assigning' = assigning
           /\ behind' \cap Lists = behind \cap Lists
<1>1. CASE GamePage!EnterSelectMode
  BY <1>1 DEF GamePage!EnterSelectMode, GamePage!lists, GamePage!refs, Lists
<1>2. CASE GamePage!ToggleSelectAll
  BY <1>2 DEF GamePage!ToggleSelectAll, GamePage!lists, GamePage!refs, Lists
<1>3. CASE \E g \in GamePage!Game : GamePage!ToggleGame(g)
  BY <1>3 DEF GamePage!ToggleGame, GamePage!lists, GamePage!refs, Lists
<1> QED BY <1>1, <1>2, <1>3 DEF Choice

\* The finished games are loaded again, next to the requests in rest.
LEMMA RestartFrame ==
    ASSUME Restart
    PROVE  \E rest \in SUBSET gAsked, q \in Made("initial", 0, 1, generation') :
              /\ gAsked' = rest \cup {q} /\ \A r \in gAsked : r \in rest \/ r.kind = "assign"
              /\ gSent < MaxSent + 2 /\ gSent' = gSent + 1 /\ loaded' = 0 /\ finished' = <<>> /\ hasMore' = FALSE
              /\ loading' = TRUE /\ rangeApplied' = FALSE /\ selected' = {}
              /\ generation' \in {generation, generation + 1}
              /\ gStatus' = gStatus /\ inProgress' = inProgress /\ shifted' = shifted
              /\ behind' \cap Lists = GamePage!Begun(rest) \cap Lists
              /\ behind' \in {GamePage!Begun(rest) \ GamePage!ModeSettled, GamePage!Begun(rest) \ {"selection"}}
              /\ selectMode' \in {FALSE, selectMode} /\ assigning' \in {FALSE, assigning}
<1>1. [GamePage!Request("initial") EXCEPT !.generation = generation'] \in Made("initial", 0, 1, generation')
  BY RequestIsMade
<1> DEFINE q == [GamePage!Request("initial") EXCEPT !.generation = generation']
<1>2. CASE GamePage!ExitSelectMode
  <2>1. /\ gAsked' = gAsked \cup {q}
        /\ gSent < MaxSent + 2 /\ gSent' = gSent + 1 /\ loaded' = 0 /\ finished' = <<>> /\ hasMore' = FALSE
        /\ loading' = TRUE /\ rangeApplied' = FALSE /\ selected' = {} /\ generation' = generation
        /\ gStatus' = gStatus /\ inProgress' = inProgress /\ shifted' = shifted
        /\ behind' = GamePage!Begun(gAsked) \ GamePage!ModeSettled
        /\ selectMode' = FALSE /\ assigning' = assigning
    BY <1>2 DEF GamePage!ExitSelectMode, GamePage!LoadInitial, GamePage!ResetSelectModeState
  <2>2. behind' \cap Lists = GamePage!Begun(gAsked) \cap Lists
    BY <2>1 DEF GamePage!ModeSettled, Lists
  <2> HIDE DEF q
  <2> QED BY <1>1, <2>1, <2>2 DEF q
<1>3. CASE GamePage!ClearRange
  <2>1. /\ gAsked' = gAsked \cup {q}
        /\ gSent < MaxSent + 2 /\ gSent' = gSent + 1 /\ loaded' = 0 /\ finished' = <<>> /\ hasMore' = FALSE
        /\ loading' = TRUE /\ rangeApplied' = FALSE /\ selected' = {} /\ generation' = generation + 1
        /\ gStatus' = gStatus /\ inProgress' = inProgress /\ shifted' = shifted
        /\ behind' = GamePage!Begun(gAsked) \ {"selection"}
        /\ selectMode' = selectMode /\ assigning' = assigning
    BY <1>3 DEF GamePage!ClearRange, GamePage!LoadInitial
  <2>2. behind' \cap Lists = GamePage!Begun(gAsked) \cap Lists
    BY <2>1 DEF Lists
  <2> HIDE DEF q
  <2> QED BY <1>1, <2>1, <2>2 DEF q
<1>4. ASSUME NEW r \in gAsked, GamePage!AssignAnswer(r)
      PROVE  \E rest \in SUBSET gAsked, p \in Made("initial", 0, 1, generation') :
              /\ gAsked' = rest \cup {p} /\ \A o \in gAsked : o \in rest \/ o.kind = "assign"
              /\ gSent < MaxSent + 2 /\ gSent' = gSent + 1 /\ loaded' = 0 /\ finished' = <<>> /\ hasMore' = FALSE
              /\ loading' = TRUE /\ rangeApplied' = FALSE /\ selected' = {}
              /\ generation' \in {generation, generation + 1}
              /\ gStatus' = gStatus /\ inProgress' = inProgress /\ shifted' = shifted
              /\ behind' \cap Lists = GamePage!Begun(rest) \cap Lists
              /\ behind' \in {GamePage!Begun(rest) \ GamePage!ModeSettled, GamePage!Begun(rest) \ {"selection"}}
              /\ selectMode' \in {FALSE, selectMode} /\ assigning' \in {FALSE, assigning}
  <2> DEFINE rest == gAsked \ {r}
  <2>1. /\ gAsked' = rest \cup {q} /\ r.kind = "assign"
        /\ gSent < MaxSent + 2 /\ gSent' = gSent + 1 /\ loaded' = 0 /\ finished' = <<>> /\ hasMore' = FALSE
        /\ loading' = TRUE /\ rangeApplied' = FALSE /\ selected' = {} /\ generation' = generation
        /\ gStatus' = gStatus /\ inProgress' = inProgress /\ shifted' = shifted
        /\ behind' = GamePage!Begun(rest) \ GamePage!ModeSettled
        /\ selectMode' = FALSE /\ assigning' = FALSE
    BY <1>4 DEF GamePage!AssignAnswer, GamePage!LoadInitial, GamePage!ResetSelectModeState
  <2>2. behind' \cap Lists = GamePage!Begun(rest) \cap Lists
    BY <2>1 DEF GamePage!ModeSettled, Lists
  <2>3. rest \in SUBSET gAsked /\ \A o \in gAsked : o \in rest \/ o.kind = "assign"
    BY <2>1
  <2> HIDE DEF q, rest
  <2> QED BY <1>1, <2>1, <2>2, <2>3 DEF q
<1> QED BY <1>2, <1>3, <1>4 DEF Restart

\* The requests that a step adds: an answer to one that it takes away, or a new one.
Served1(q) == \E r \in gAsked \ gAsked' : /\ q.n = r.n /\ q.kind = r.kind /\ q.generation = r.generation
                                          /\ r.pc = "sent" /\ q.pc = "ok"
Sent1(q) == /\ gSent' = gSent + 1 /\ q.n = gSent + 1 /\ q.pc = "sent"
            /\ q.kind = "range" => q.generation = generation + 1
Added ==
    /\ gSent' \in {gSent, gSent + 1} /\ gSent' <= MaxSent + 2
    /\ generation' = generation \/ (generation' = generation + 1 /\ gSent' = gSent + 1)
    /\ Exist' = Exist \/ \E r \in gAsked \ gAsked' : r.kind = "create" /\ r.pc = "sent" /\ Exist \subseteq Exist'
    /\ \A p \in gAsked' \ gAsked, q \in gAsked' \ gAsked : p = q
    /\ \A q \in gAsked' \ gAsked :
         /\ q \in GamesAsked /\ q.n <= gSent' /\ q.generation <= generation'
         /\ q.kind = "initial" => q.page = 1
         /\ q.more => q.page < MaxGames
         /\ GamePage!ToSet(q.games) \subseteq Exist
         /\ q.kind \in GamePage!Moves /\ (q.kind # "create" \/ q.pc = "ok") => q.game \in Exist'
         /\ Served1(q) \/ Sent1(q)

\* Without a change of status the games are as they were.
LEMMA SameExist ==
    ASSUME gStatus' = gStatus
    PROVE  Exist' = Exist /\ \A s : GamePage!OfStatus(s)' = GamePage!OfStatus(s)
  BY DEF Exist, GamePage!OfStatus

\* A step adds requests of the domain, or takes some away.
LEMMA StepAdds ==
    ASSUME GamesBounds, GamesPageTypes, ExistInv, GamePage!Next
    PROVE  Added
<1>1. /\ gSent \in 2..(MaxSent + 2) /\ MaxSent \in Nat /\ generation \in Nat /\ loaded \in 0..MaxGames
      /\ MaxGames \in Nat \ {0} /\ (hasMore => loaded < MaxGames)
      /\ 1 \in 1..MaxGames /\ 0 \in 0..MaxGames
  BY DEF GamesBounds, GamesPageTypes, GamesCountTypes
<1>2. \A r \in gAsked : r \in GamesAsked /\ r.n <= gSent /\ r.generation <= generation
                       /\ (r.kind = "initial" => r.page = 1) /\ (r.more => r.page < MaxGames)
  BY DEF GamesPageTypes, GamesAskedTypes
<1>3. \A r \in gAsked : /\ GamePage!ToSet(r.games) \subseteq Exist
                        /\ r.kind \in GamePage!Moves /\ (r.kind # "create" \/ r.pc = "ok") => r.game \in Exist
  BY DEF ExistInv
<1>4. /\ Exist \subseteq GamePage!Game /\ GamePage!Game \subseteq 0..MaxGames
      /\ GamePage!ToSet(inProgress) \cup GamePage!ToSet(finished) \subseteq Exist
  BY <1>1 DEF ExistInv, Exist, GamePage!Game
<1>5. ASSUME gAsked' \subseteq gAsked, gStatus' = gStatus, gSent' \in {gSent, gSent + 1}, gSent' <= MaxSent + 2, generation' = generation
      PROVE  Added
  BY <1>5, SameExist DEF Added
<1>6. gSent <= MaxSent + 2 /\ (gSent < MaxSent + 2 => gSent + 1 <= MaxSent + 2)
  BY <1>1
\* A request is sent.
<1>7. ASSUME NEW kind \in GameKinds, NEW g \in 0..MaxGames, NEW p \in 1..MaxGames, NEW gen \in Nat,
             NEW q \in Made(kind, g, p, gen),
             gAsked' \ gAsked \subseteq {q}, gStatus' = gStatus, gSent < MaxSent + 2, gSent' = gSent + 1, gen <= generation',
             generation' \in {generation, generation + 1},
             kind = "initial" => p = 1, kind \in GamePage!Moves /\ kind # "create" => g \in Exist,
             kind = "range" => gen = generation + 1
      PROVE  Added
  <2>1. /\ q.n = gSent + 1 /\ q.kind = kind /\ q.pc = "sent" /\ q.game = g /\ q.page = p
        /\ q.generation = gen /\ q.games = <<>> /\ q.more = FALSE /\ GamePage!ToSet(q.games) = {}
    BY <1>7, MadeFields
  <2>2. q \in GamesAsked
    BY <1>7, MadeIsAsked
  <2>3. Exist' = Exist
    BY <1>7, SameExist
  <2>4. q.n <= gSent' /\ q.generation <= generation'
    BY <1>1, <1>7, <2>1
  <2>5. Sent1(q)
    BY <1>7, <2>1 DEF Sent1
  <2>6. /\ q.kind = "initial" => q.page = 1
        /\ q.more => q.page < MaxGames
        /\ GamePage!ToSet(q.games) \subseteq Exist
        /\ q.kind \in GamePage!Moves /\ (q.kind # "create" \/ q.pc = "ok") => q.game \in Exist'
    BY <1>7, <2>1, <2>3
  <2>7. gSent' \in {gSent, gSent + 1} /\ gSent' <= MaxSent + 2
    BY <1>6, <1>7
  <2>8. generation' = generation \/ (generation' = generation + 1 /\ gSent' = gSent + 1)
    BY <1>7
  <2> QED BY <1>7, <2>2, <2>3, <2>4, <2>5, <2>6, <2>7, <2>8 DEF Added
<1>8. ASSUME NEW r \in gAsked, GamePage!ServeList(r) PROVE Added
  <2>1. PICK q \in GamesAsked :
              /\ gAsked' = (gAsked \ {r}) \cup {q} /\ q.pc = "ok" /\ r.pc = "sent"
              /\ q.n = r.n /\ q.kind = r.kind /\ q.page = r.page /\ q.generation = r.generation
              /\ r.kind \in GamePage!Loads \cup {"inProgress"}
              /\ q.more => q.page < MaxGames
              /\ GamePage!ToSet(q.games) \subseteq Exist
    BY <1>8, ServerAnswers
  <2>2. gStatus' = gStatus /\ gSent' = gSent /\ generation' = generation
    BY <1>8 DEF GamePage!ServeList, GamePage!refs
  <2>3. q \notin Served /\ r # q /\ q.kind \notin GamePage!Moves
    BY <2>1 DEF GamePage!Loads, GamePage!Moves, Served
  <2>4. Served1(q)
    BY <2>1, <2>3 DEF Served1
  <2>5. q.n <= gSent' /\ q.generation <= generation' /\ (q.kind = "initial" => q.page = 1)
    BY <1>2, <2>1, <2>2
  <2>6. Exist' = Exist
    BY <2>2, SameExist
  <2> QED BY <1>6, <2>1, <2>2, <2>3, <2>4, <2>5, <2>6 DEF Added
<1>9. ASSUME NEW r \in gAsked, GamePage!ServeMove(r) PROVE Added
  <2>1. PICK q \in GamesAsked :
              /\ gAsked' = (gAsked \ {r}) \cup {q} /\ q.pc = "ok" /\ r.pc = "sent" /\ r.kind \in GamePage!Moves
              /\ q.n = r.n /\ q.kind = r.kind /\ q.page = r.page /\ q.generation = r.generation
              /\ q.games = r.games /\ q.more = r.more /\ q.game \in GamePage!Game
              /\ r.kind = "create" => gStatus[q.game] = "none"
              /\ r.kind # "create" => q.game = r.game
              /\ gStatus' = [gStatus EXCEPT ![q.game] = GamePage!Outcome(r.kind)]
    BY <1>9, ServerMoves
  <2>2. gSent' = gSent /\ generation' = generation
    BY <1>9 DEF GamePage!ServeMove, GamePage!refs
  <2>3. r # q
    BY <2>1
  <2>4. Served1(q)
    BY <2>1, <2>3 DEF Served1
  <2>5. q.n <= gSent' /\ q.generation <= generation' /\ (q.kind = "initial" => q.page = 1) /\ (q.more => q.page < MaxGames)
    BY <1>2, <2>1, <2>2
  <2>6. GamePage!Outcome(r.kind) \in GameStatuses \ {"none"}
    BY <2>1 DEF GamePage!Outcome, GamePage!Moves, GameStatuses
  <2>7. gStatus \in [GamePage!Game -> GameStatuses]
    BY DEF GamesPageTypes, ServerTypes
  <2>8. Exist' = Exist \cup {q.game}
    BY <2>1, <2>6, <2>7 DEF Exist, GamePage!OfStatus
  <2>9. Exist' = Exist \/ \E o \in gAsked \ gAsked' : o.kind = "create" /\ o.pc = "sent" /\ Exist \subseteq Exist'
    <3>1. CASE r.kind = "create"
      BY <2>1, <2>3, <2>8, <3>1
    <3>2. CASE r.kind # "create"
      BY <1>3, <2>1, <2>8, <3>2
    <3> QED BY <3>1, <3>2
  <2> QED BY <1>3, <1>6, <2>1, <2>2, <2>4, <2>5, <2>8, <2>9 DEF Added
<1>10. ASSUME NEW r \in gAsked, Arrival(r) PROVE Added
  BY <1>5, <1>6, <1>10, ArrivalFrame
<1>11. CASE Choice
  BY <1>5, <1>6, <1>11, ChoiceFrame
<1>12. CASE Restart
  <2>1. PICK rest \in SUBSET gAsked, q \in Made("initial", 0, 1, generation') :
              /\ gAsked' = rest \cup {q} /\ gSent < MaxSent + 2 /\ gSent' = gSent + 1 /\ gStatus' = gStatus
              /\ generation' \in {generation, generation + 1}
    BY <1>12, RestartFrame
  <2>2. "initial" \in GameKinds /\ generation' \in Nat /\ generation' <= generation'
    BY <1>1, <2>1 DEF GameKinds, GamePage!Loads
  <2> QED BY <1>1, <1>7, <2>1, <2>2 DEF GamePage!Moves
<1>13. CASE GamePage!LoadMore
  <2> DEFINE q == [GamePage!Request("more") EXCEPT !.page = loaded + 1]
  <2>1. q \in Made("more", 0, loaded + 1, generation)
    BY RequestIsMade
  <2>2. gAsked' = gAsked \cup {q} /\ gSent < MaxSent + 2 /\ gSent' = gSent + 1 /\ gStatus' = gStatus /\ generation' = generation
        /\ hasMore
    BY <1>13 DEF GamePage!LoadMore, GamePage!Send
  <2> HIDE DEF q
  <2>3. loaded + 1 \in 1..MaxGames /\ "more" \in GameKinds /\ generation <= generation'
    <3>1. "more" \in GameKinds
      BY DEF GameKinds, GamePage!Loads
    <3>2. generation' = generation /\ hasMore
      BY <2>2
    <3>3. loaded < MaxGames
      BY <1>1, <3>2
    <3>4. loaded \in 0..MaxGames /\ MaxGames \in Nat /\ generation \in Nat
      BY <1>1
    <3>5. loaded + 1 \in 1..MaxGames
      BY <3>3, <3>4
    <3>6. generation <= generation'
      BY <3>2, <3>4
    <3> QED BY <3>1, <3>5, <3>6
  <2> QED BY <1>1, <1>7, <2>1, <2>2, <2>3 DEF GamePage!Moves
<1>14. CASE GamePage!ApplyRange
  <2> DEFINE q == [GamePage!Request("range") EXCEPT !.generation = generation + 1]
  <2>1. q \in Made("range", 0, 1, generation + 1)
    BY RequestIsMade
  <2>2. gAsked' = gAsked \cup {q} /\ gSent < MaxSent + 2 /\ gSent' = gSent + 1 /\ gStatus' = gStatus /\ generation' = generation + 1
    BY <1>14 DEF GamePage!ApplyRange, GamePage!Send
  <2> HIDE DEF q
  <2>3. generation + 1 \in Nat /\ "range" \in GameKinds /\ generation + 1 <= generation'
    BY <1>1, <2>2 DEF GameKinds, GamePage!Loads
  <2> QED BY <1>1, <1>7, <2>1, <2>2, <2>3 DEF GamePage!Moves
<1>15. CASE GamePage!Assign
  <2> DEFINE q == GamePage!Request("assign")
  <2>1. q \in Made("assign", 0, 1, generation)
    BY RequestIsMade
  <2>2. gAsked' = gAsked \cup {q} /\ gSent < MaxSent + 2 /\ gSent' = gSent + 1 /\ gStatus' = gStatus /\ generation' = generation
    BY <1>15 DEF GamePage!Assign, GamePage!Send, GamePage!refs
  <2> HIDE DEF q
  <2>3. "assign" \in GameKinds /\ generation <= generation'
    BY <1>1, <2>2 DEF GameKinds
  <2> QED BY <1>1, <1>7, <2>1, <2>2, <2>3 DEF GamePage!Moves
<1>16. ASSUME NEW kind \in GamePage!Moves, NEW g, kind = "create" => g = 0, GamePage!Tap(kind, g) PROVE Added
  <2> DEFINE q == [GamePage!Request(kind) EXCEPT !.game = g]
  <2>1. q \in Made(kind, g, 1, generation)
    BY RequestIsMade
  <2>2. gAsked' = gAsked \cup {q} /\ gSent < MaxSent + 2 /\ gSent' = gSent + 1 /\ gStatus' = gStatus /\ generation' = generation
    BY <1>16 DEF GamePage!Tap, GamePage!Send, GamePage!refs
  <2>3. kind # "create" => g \in Exist
    BY <1>4, <1>16 DEF GamePage!Tap, GamePage!Moves
  <2> HIDE DEF q
  <2>4. kind \in GameKinds /\ generation <= generation' /\ g \in 0..MaxGames
    <3>1. kind \in GameKinds
      BY DEF GameKinds
    <3>2. g \in 0..MaxGames
      BY <1>1, <1>4, <1>16, <2>3
    <3>3. generation' = generation /\ generation \in Nat
      BY <1>1, <2>2
    <3> QED BY <3>1, <3>2, <3>3
  <2>5. kind # "initial" /\ kind # "range"
    BY DEF GamePage!Moves
  <2> QED BY <1>1, <1>7, <2>1, <2>2, <2>3, <2>4, <2>5
<1>17. ASSUME NEW g \in GamePage!Game, NEW s \in {"IN_PROGRESS", "FINISHED", "DELETED"}, GamePage!ChangeByOther(g, s) PROVE Added
  <2>1. /\ gAsked' = gAsked /\ gSent < MaxSent + 2 /\ gSent' = gSent + 1 /\ generation' = generation
        /\ gStatus[g] # "none" /\ gStatus' = [gStatus EXCEPT ![g] = s]
    BY <1>17 DEF GamePage!ChangeByOther, GamePage!refs
  <2>2. Exist' = Exist
    BY <2>1 DEF Exist, GamePage!OfStatus, GamesPageTypes, ServerTypes
  <2> QED BY <1>6, <2>1, <2>2 DEF Added
<1>18. GamePage!Tap("create", 0) => Added
  BY <1>16 DEF GamePage!Moves
<1> QED BY <1>8, <1>9, <1>10, <1>11, <1>12, <1>13, <1>14, <1>15, <1>16, <1>17, <1>18, StepsOfPage

\* Requests stay in their domain, and name games there are.
LEMMA RequestsKeep ==
    ASSUME GamesBounds, GamesPageTypes, ExistInv, Added
    PROVE  /\ GamesAskedTypes' /\ gSent' \in 2..(MaxSent + 2) /\ generation' \in 0..(gSent' - 2)
           /\ Exist \subseteq Exist'
           /\ \A r \in gAsked' : /\ GamePage!ToSet(r.games) \subseteq Exist'
                                 /\ r.kind \in GamePage!Moves /\ (r.kind # "create" \/ r.pc = "ok") => r.game \in Exist'
<1>1. /\ gSent \in 2..(MaxSent + 2) /\ MaxSent \in Nat /\ generation \in 0..(gSent - 2)
  BY DEF GamesBounds, GamesPageTypes, GamesCountTypes
<1>2. /\ gSent' \in {gSent, gSent + 1} /\ gSent' <= MaxSent + 2
      /\ generation' = generation \/ (generation' = generation + 1 /\ gSent' = gSent + 1)
      /\ Exist' = Exist \/ \E r \in gAsked \ gAsked' : r.kind = "create" /\ r.pc = "sent" /\ Exist \subseteq Exist'
      /\ \A p \in gAsked' \ gAsked, q \in gAsked' \ gAsked : p = q
      /\ \A q \in gAsked' \ gAsked :
         /\ q \in GamesAsked /\ q.n <= gSent' /\ q.generation <= generation'
         /\ q.kind = "initial" => q.page = 1
         /\ q.more => q.page < MaxGames
         /\ GamePage!ToSet(q.games) \subseteq Exist
         /\ q.kind \in GamePage!Moves /\ (q.kind # "create" \/ q.pc = "ok") => q.game \in Exist'
         /\ Served1(q) \/ Sent1(q)
  BY DEF Added
<1>3. /\ gSent' \in 2..(MaxSent + 2) /\ generation' \in 0..(gSent' - 2)
      /\ gSent' \in Nat /\ generation' \in Nat /\ gSent <= gSent' /\ generation <= generation'
  BY <1>1, <1>2
<1>4. GamesAskedTypes'
  BY <1>2, <1>3, AskedKeeps
<1>5. Exist \subseteq Exist'
  BY <1>2
<1>6. \A r \in gAsked' : /\ GamePage!ToSet(r.games) \subseteq Exist'
                         /\ r.kind \in GamePage!Moves /\ (r.kind # "create" \/ r.pc = "ok") => r.game \in Exist'
  BY <1>2, <1>5 DEF ExistInv
<1> QED BY <1>3, <1>4, <1>5, <1>6

\* More pages of the list as it was before a range.
LEMMA GenerationsKeep ==
    ASSUME GamesBounds, GamesPageTypes, GenerationInv, Added, GamesAskedTypes'
    PROVE  \A r \in gAsked', q \in gAsked' : r.kind = "more" /\ q.kind = "range" /\ r.n <= q.n => r.generation < q.generation
<1> SUFFICES ASSUME NEW r \in gAsked', NEW q \in gAsked', r.kind = "more", q.kind = "range", r.n <= q.n
             PROVE  r.generation < q.generation
  OBVIOUS
<1>1. gSent \in Nat /\ generation \in Nat
  BY DEF GamesBounds, GamesPageTypes, GamesCountTypes
<1>2. \A x \in gAsked : x.n \in Nat /\ x.generation \in Nat /\ x.n <= gSent /\ x.generation <= generation
  BY DEF GamesPageTypes, GamesAskedTypes, GamesAsked
<1>3. r.n \in Nat /\ q.n \in Nat /\ r.generation \in Nat /\ q.generation \in Nat
  BY DEF GamesAskedTypes, GamesAsked
<1>4. \A x \in gAsked' \ gAsked : Served1(x) \/ Sent1(x)
  BY DEF Added
<1>5. \A x \in gAsked' \ gAsked, y \in gAsked' \ gAsked : x = y
  BY DEF Added
\* Each is there before, or sent now.
<1>6. \A x \in gAsked' :
        \/ \E y \in gAsked : y.n = x.n /\ y.kind = x.kind /\ y.generation = x.generation
        \/ x \notin gAsked /\ Sent1(x)
  BY <1>4 DEF Served1
<1>7. CASE \E y \in gAsked : y.n = r.n /\ y.kind = r.kind /\ y.generation = r.generation
  <2>1. PICK y \in gAsked : y.n = r.n /\ y.kind = r.kind /\ y.generation = r.generation
    BY <1>7
  <2>2. CASE \E z \in gAsked : z.n = q.n /\ z.kind = q.kind /\ z.generation = q.generation
    BY <2>1, <2>2 DEF GenerationInv
  <2>3. CASE Sent1(q)
    <3>1. q.generation = generation + 1
      BY <2>3 DEF Sent1
    <3> QED BY <1>1, <1>2, <2>1, <3>1
  <2> QED BY <1>6, <2>2, <2>3
<1>8. CASE r \notin gAsked /\ Sent1(r)
  <2>1. r.n = gSent + 1
    BY <1>8 DEF Sent1
  <2>2. CASE \E z \in gAsked : z.n = q.n /\ z.kind = q.kind /\ z.generation = q.generation
    BY <1>1, <1>2, <1>3, <2>1, <2>2
  <2>3. CASE q \notin gAsked
    BY <1>5, <1>8, <2>3
  <2> QED BY <1>6, <2>2, <2>3
<1> QED BY <1>6, <1>7, <1>8

\* What a step may add to what differs from the server.
LEMMA BehindTypes ==
    ASSUME NEW r
    PROVE  /\ GamePage!Crossing(r) \in {{}, Lists} /\ GamePage!Doubtful \in {{}, Lists} /\ GamePage!Late(r) \in {{}, {"finished"}}
           /\ GamePage!Overtaken(r) \in {{}, {"finished"}}
           /\ \A g : GamePage!Moved(g) \subseteq {"selection", "finished"}
           /\ \A rest : GamePage!Begun(rest) \subseteq behind \cup Lists
           /\ Lists = {"inProgress", "finished"} /\ Lists \subseteq Lists \cup GamePage!ModeSettled
           /\ GamePage!ModeSettled = {"mode", "selection"}
<1>1. \A q : GamePage!Crossing(q) \in {{}, Lists}
  BY DEF GamePage!Crossing, Lists
<1>2. GamePage!Doubtful \in {{}, Lists} /\ GamePage!Late(r) \in {{}, {"finished"}} /\ GamePage!Overtaken(r) \in {{}, {"finished"}}
  BY DEF GamePage!Doubtful, GamePage!Late, GamePage!Overtaken, Lists
<1>3. \A g : GamePage!Moved(g) \subseteq {"selection", "finished"}
  BY DEF GamePage!Moved
<1>4. \A rest : GamePage!Begun(rest) \subseteq behind \cup Lists
  BY <1>1 DEF GamePage!Begun
<1> QED BY <1>1, <1>2, <1>3, <1>4 DEF Lists, GamePage!ModeSettled

\* The lists name games there are.
LEMMA ListsKeep ==
    ASSUME GamesBounds, GamesPageTypes, ExistInv, GamePage!Next, Exist \subseteq Exist'
    PROVE  /\ inProgress' \in Seq(GamePage!Game) /\ finished' \in Seq(GamePage!Game)
           /\ GamePage!ToSet(inProgress') \cup GamePage!ToSet(finished') \subseteq Exist'
<1>1. /\ inProgress \in Seq(GamePage!Game) /\ finished \in Seq(GamePage!Game)
      /\ GamePage!ToSet(inProgress) \subseteq Exist' /\ GamePage!ToSet(finished) \subseteq Exist'
  BY DEF GamesPageTypes, GamePageTypes, ExistInv
<1>2. \A r \in gAsked : r.games \in Seq(GamePage!Game) /\ GamePage!ToSet(r.games) \subseteq Exist'
  BY DEF GamesPageTypes, GamesAskedTypes, GamesAsked, ExistInv
<1>3. \A r \in gAsked : r.kind \in GamePage!Moves /\ r.pc = "ok" => r.game \in Exist' /\ r.game \in GamePage!Game
  BY DEF ExistInv, Exist
<1>4. CASE inProgress' = inProgress /\ finished' = finished
  BY <1>1, <1>4
<1>5. <<>> \in Seq(GamePage!Game) /\ GamePage!ToSet(<<>>) = {}
  <2>1. <<>> \in Seq(GamePage!Game) /\ Len(<<>>) = 0
    OBVIOUS
  <2>2. DOMAIN <<>> = 1..0
    BY <2>1, LenProperties
  <2> QED BY <2>1, <2>2 DEF GamePage!ToSet
<1>6. \A g \in Exist' \cap GamePage!Game : <<g>> \in Seq(GamePage!Game) /\ GamePage!ToSet(<<g>>) = {g}
  <2> SUFFICES ASSUME NEW g \in GamePage!Game PROVE <<g>> \in Seq(GamePage!Game) /\ GamePage!ToSet(<<g>>) = {g}
    OBVIOUS
  <2>1. <<g>> \in Seq(GamePage!Game) /\ Len(<<g>>) = 1 /\ <<g>>[1] = g
    OBVIOUS
  <2>2. DOMAIN <<g>> = 1..1
    BY <2>1, LenProperties
  <2>3. 1..1 = {1}
    OBVIOUS
  <2> QED BY <2>1, <2>2, <2>3 DEF GamePage!ToSet
<1>7. ASSUME NEW r \in gAsked, GamePage!ServeList(r) \/ GamePage!ServeMove(r) PROVE inProgress' = inProgress /\ finished' = finished
  BY <1>7 DEF GamePage!ServeList, GamePage!ServeMove, GamePage!lists
<1>8. ASSUME NEW r \in gAsked, Arrival(r)
      PROVE  inProgress' \in Seq(GamePage!Game) /\ finished' \in Seq(GamePage!Game)
             /\ GamePage!ToSet(inProgress') \subseteq Exist' /\ GamePage!ToSet(finished') \subseteq Exist'
  <2>1. CASE GamePage!InProgressAnswer(r)
    BY <1>1, <1>2, <2>1 DEF GamePage!InProgressAnswer
  <2>2. CASE GamePage!InitialAnswer(r)
    BY <1>1, <1>2, <2>2 DEF GamePage!InitialAnswer
  <2>3. CASE GamePage!MoreAnswer(r)
    <3>1. inProgress' = inProgress /\ finished' \in {finished, finished \o r.games}
      BY <2>3 DEF GamePage!MoreAnswer
    <3>2. finished \o r.games \in Seq(GamePage!Game) /\ GamePage!ToSet(finished \o r.games) \subseteq Exist'
      BY <1>1, <1>2, ListsJoined
    <3> QED BY <1>1, <3>1, <3>2
  <2>4. CASE GamePage!LoadFails(r) \/ GamePage!RangeFails(r) \/ GamePage!AssignFails(r) \/ GamePage!MoveFails(r)
    <3>1. inProgress' = inProgress /\ finished' = finished
      BY <2>4 DEF GamePage!LoadFails, GamePage!RangeFails, GamePage!AssignFails, GamePage!MoveFails,
          GamePage!lists
    <3> QED BY <1>1, <3>1
  <2>5. CASE GamePage!RangeAnswer(r)
    BY <1>1, <1>2, <2>5 DEF GamePage!RangeAnswer
  <2>6. CASE GamePage!CreateAnswer(r) \/ GamePage!FinishAnswer(r) \/ GamePage!DeleteAnswer(r) \/ GamePage!RestartAnswer(r)
    <3>1. r.kind \in GamePage!Moves /\ r.pc = "ok"
      BY <2>6 DEF GamePage!CreateAnswer, GamePage!FinishAnswer, GamePage!DeleteAnswer,
          GamePage!RestartAnswer, GamePage!MoveAnswer, GamePage!Moves
    <3>2. r.game \in Exist' /\ r.game \in GamePage!Game
      BY <1>3, <3>1
    <3>3. /\ inProgress' \in {inProgress, <<r.game>> \o inProgress, GamePage!Without(inProgress, r.game)}
          /\ finished' \in {finished, <<r.game>> \o finished, GamePage!Without(finished, r.game)}
      BY <2>6 DEF GamePage!CreateAnswer, GamePage!FinishAnswer, GamePage!DeleteAnswer,
          GamePage!RestartAnswer
    <3>4. <<r.game>> \in Seq(GamePage!Game) /\ GamePage!ToSet(<<r.game>>) \subseteq Exist'
      BY <1>6, <3>2
    <3>5. \A s \in Seq(GamePage!Game) : GamePage!ToSet(s) \subseteq Exist' =>
             /\ <<r.game>> \o s \in Seq(GamePage!Game) /\ GamePage!ToSet(<<r.game>> \o s) \subseteq Exist'
             /\ GamePage!Without(s, r.game) \in Seq(GamePage!Game) /\ GamePage!ToSet(GamePage!Without(s, r.game)) \subseteq Exist'
      <4> SUFFICES ASSUME NEW s \in Seq(GamePage!Game), GamePage!ToSet(s) \subseteq Exist'
                   PROVE  /\ <<r.game>> \o s \in Seq(GamePage!Game) /\ GamePage!ToSet(<<r.game>> \o s) \subseteq Exist'
                          /\ GamePage!Without(s, r.game) \in Seq(GamePage!Game) /\ GamePage!ToSet(GamePage!Without(s, r.game)) \subseteq Exist'
        OBVIOUS
      <4>1. <<r.game>> \o s \in Seq(GamePage!Game) /\ GamePage!ToSet(<<r.game>> \o s) \subseteq Exist'
        BY <3>4, ListsJoined
      <4>2. GamePage!Without(s, r.game) \in Seq(GamePage!Game) /\ GamePage!ToSet(GamePage!Without(s, r.game)) \subseteq Exist'
        BY WithoutOf
      <4> QED BY <4>1, <4>2
    <3> QED BY <1>1, <3>3, <3>5
  <2> QED BY <1>8, <2>1, <2>2, <2>3, <2>4, <2>5, <2>6 DEF Arrival
<1>9. Choice => inProgress' = inProgress /\ finished' = finished
  BY ChoiceFrame
<1>10. Restart => inProgress' = inProgress /\ finished' = <<>>
  BY RestartFrame
<1>11. GamePage!LoadMore \/ GamePage!ApplyRange \/ GamePage!Assign => inProgress' = inProgress /\ finished' = finished
  BY DEF GamePage!LoadMore, GamePage!ApplyRange, GamePage!Assign, GamePage!lists
<1>12. \A k, g : GamePage!Tap(k, g) => inProgress' = inProgress /\ finished' = finished
  BY DEF GamePage!Tap, GamePage!lists
<1>13. \A g, s : GamePage!ChangeByOther(g, s) => inProgress' = inProgress /\ finished' = finished
  BY DEF GamePage!ChangeByOther, GamePage!lists
<1> QED BY <1>1, <1>4, <1>5, <1>7, <1>8, <1>9, <1>10, <1>11, <1>12, <1>13, StepsOfPage

\* Every step stays in the domain.
LEMMA TypesKeep ==
    ASSUME GamesBounds, GamesPageTypes, ExistInv, GamePage!Next
    PROVE  GamesPageTypes'
<1>1. GamesAskedTypes' /\ gSent' \in 2..(MaxSent + 2) /\ generation' \in 0..(gSent' - 2) /\ Exist \subseteq Exist'
  BY StepAdds, RequestsKeep
<1>2. inProgress' \in Seq(GamePage!Game) /\ finished' \in Seq(GamePage!Game)
  BY <1>1, ListsKeep
<1>3. /\ selected \subseteq GamePage!Game /\ hasMore \in BOOLEAN /\ loading \in BOOLEAN /\ selectMode \in BOOLEAN
      /\ rangeApplied \in BOOLEAN /\ assigning \in BOOLEAN /\ shifted \in BOOLEAN /\ behind \subseteq Lists \cup GamePage!ModeSettled
  BY DEF GamesPageTypes, GamePageTypes
<1>4. loaded \in 0..MaxGames /\ (hasMore => loaded < MaxGames) /\ MaxGames \in Nat \ {0}
  BY DEF GamesPageTypes, GamesCountTypes, GamesBounds
<1>5. gStatus \in [GamePage!Game -> GameStatuses]
  BY DEF GamesPageTypes, ServerTypes
<1>6. \A s \in Seq(GamePage!Game) : GamePage!ToSet(s) \subseteq GamePage!Game
  <2> SUFFICES ASSUME NEW s \in Seq(GamePage!Game) PROVE GamePage!ToSet(s) \subseteq GamePage!Game
    OBVIOUS
  <2>1. \A i \in DOMAIN s : s[i] \in GamePage!Game
    BY LenProperties, ElementOfSeq
  <2> QED BY <2>1 DEF GamePage!ToSet
<1>7. GamePage!ToSet(finished) \subseteq GamePage!Game
  BY <1>6 DEF GamesPageTypes, GamePageTypes
<1> DEFINE Flags == /\ hasMore \in BOOLEAN /\ loading \in BOOLEAN /\ selectMode \in BOOLEAN
                    /\ rangeApplied \in BOOLEAN /\ assigning \in BOOLEAN /\ shifted \in BOOLEAN
                    /\ selected \subseteq GamePage!Game /\ behind \subseteq Lists \cup GamePage!ModeSettled
           Counts == loaded \in 0..MaxGames /\ (hasMore => loaded < MaxGames)
           Rest == Flags /\ Counts /\ gStatus \in [GamePage!Game -> GameStatuses]
<1>8. \A r \in gAsked : r.more \in BOOLEAN /\ (r.more => r.page < MaxGames) /\ r.page \in 1..MaxGames
                       /\ (r.kind = "initial" => r.page = 1) /\ 1 \in 0..MaxGames /\ r.page \in 0..MaxGames
  BY <1>4 DEF GamesPageTypes, GamesAskedTypes, GamesAsked
<1>9. Rest'
  <2>1. ASSUME NEW r \in gAsked, GamePage!ServeList(r) PROVE Rest'
    BY <1>3, <1>4, <1>5, <2>1 DEF GamePage!ServeList, GamePage!lists, GamePage!refs, GamePage!mode,
        Lists
  <2>2. ASSUME NEW r \in gAsked, GamePage!ServeMove(r) PROVE Rest'
    <3>1. PICK g \in GamePage!Game : gStatus' = [gStatus EXCEPT ![g] = GamePage!Outcome(r.kind)] /\ r.kind \in GamePage!Moves
      BY <2>2, ServerMoves
    <3>2. GamePage!Outcome(r.kind) \in GameStatuses
      BY <3>1 DEF GamePage!Outcome, GamePage!Moves, GameStatuses
    <3>3. gStatus' \in [GamePage!Game -> GameStatuses]
      BY <1>5, <3>1, <3>2
    <3>4. Flags' /\ Counts'
      BY <1>3, <1>4, <2>2 DEF GamePage!ServeMove, GamePage!lists, GamePage!refs, GamePage!mode
    <3> QED BY <3>3, <3>4
  <2>3. ASSUME NEW r \in gAsked, GamePage!InProgressAnswer(r) PROVE Rest'
    BY <1>3, <1>4, <1>5, <2>3 DEF GamePage!InProgressAnswer, GamePage!refs, GamePage!mode
  <2>4. ASSUME NEW r \in gAsked, GamePage!InitialAnswer(r) PROVE Rest'
    <3>1. Flags'
      BY <1>3, <1>8, <2>4, BehindTypes DEF GamePage!InitialAnswer, GamePage!mode
    <3>2. Counts'
      BY <1>8, <2>4 DEF GamePage!InitialAnswer
    <3>3. gStatus' = gStatus
      BY <2>4 DEF GamePage!InitialAnswer
    <3> QED BY <1>5, <3>1, <3>2, <3>3
  <2>5. ASSUME NEW r \in gAsked, GamePage!MoreAnswer(r) PROVE Rest'
    <3>1. Flags'
      <4>1. behind' \in {behind, behind \cup GamePage!Overtaken(r)} /\ hasMore' \in {hasMore, r.more}
        BY <2>5 DEF GamePage!MoreAnswer
      <4>2. GamePage!Overtaken(r) \subseteq Lists \cup GamePage!ModeSettled
        BY BehindTypes
      <4>3. /\ loading' = FALSE /\ selectMode' = selectMode /\ selected' = selected /\ rangeApplied' = rangeApplied
            /\ assigning' = assigning /\ shifted' = shifted
        BY <2>5 DEF GamePage!MoreAnswer, GamePage!mode
      <4>4. behind' \subseteq Lists \cup GamePage!ModeSettled /\ hasMore' \in BOOLEAN
        BY <1>3, <1>8, <4>1, <4>2
      <4> QED BY <1>3, <4>3, <4>4
    <3>2. Counts'
      BY <1>4, <1>8, <2>5 DEF GamePage!MoreAnswer
    <3>3. gStatus' = gStatus
      BY <2>5 DEF GamePage!MoreAnswer
    <3> QED BY <1>5, <3>1, <3>2, <3>3
  <2>6. ASSUME NEW r \in gAsked, GamePage!LoadFails(r) PROVE Rest'
    BY <1>3, <1>4, <1>5, <2>6 DEF GamePage!LoadFails, GamePage!lists, GamePage!mode, Lists
  <2>7. ASSUME NEW r \in gAsked, GamePage!RangeAnswer(r) PROVE Rest'
    <3>1. Flags'
      BY <1>3, <2>7, BehindTypes DEF GamePage!RangeAnswer, GamePage!refs
    <3>2. Counts' /\ gStatus' = gStatus
      BY <1>4, <2>7 DEF GamePage!RangeAnswer, GamePage!refs
    <3> QED BY <1>5, <3>1, <3>2
  <2>8. ASSUME NEW r \in gAsked, GamePage!RangeFails(r) \/ GamePage!AssignFails(r) \/ GamePage!MoveFails(r) PROVE Rest'
    <3>1. CASE GamePage!RangeFails(r)
      BY <1>3, <1>4, <1>5, <3>1 DEF GamePage!RangeFails, GamePage!lists, GamePage!refs,
          GamePage!mode, Lists
    <3>2. CASE GamePage!AssignFails(r)
      BY <1>3, <1>4, <1>5, <3>2 DEF GamePage!AssignFails, GamePage!lists, GamePage!refs,
          GamePage!mode
    <3>3. CASE GamePage!MoveFails(r)
      <4>1. behind' \in {behind, behind \cup {"inProgress", "finished"}}
        BY <3>3 DEF GamePage!MoveFails
      <4>2. behind' \subseteq Lists \cup GamePage!ModeSettled
        BY <1>3, <4>1 DEF Lists
      <4> QED BY <1>3, <1>4, <1>5, <3>3, <4>2 DEF GamePage!MoveFails, GamePage!lists, GamePage!refs,
          GamePage!mode
    <3> QED BY <2>8, <3>1, <3>2, <3>3
  <2>9. ASSUME NEW r \in gAsked, NEW kinds, GamePage!MoveAnswer(r, kinds) PROVE Rest'
    <3>1. GamePage!Moved(r.game) \subseteq Lists \cup GamePage!ModeSettled
      BY BehindTypes
    <3> QED BY <1>3, <1>4, <1>5, <2>9, <3>1 DEF GamePage!MoveAnswer, GamePage!refs, GamePage!mode
  <2>10. ASSUME NEW r \in gAsked, GamePage!CreateAnswer(r) \/ GamePage!FinishAnswer(r) \/ GamePage!DeleteAnswer(r) \/ GamePage!RestartAnswer(r) PROVE Rest'
    BY <2>9, <2>10 DEF GamePage!CreateAnswer, GamePage!FinishAnswer, GamePage!DeleteAnswer,
        GamePage!RestartAnswer
  <2>11. CASE Choice
    <3>1. selectMode' \in BOOLEAN /\ selected' \subseteq GamePage!Game /\ behind' \subseteq behind
      <4>1. CASE GamePage!EnterSelectMode
        BY <4>1 DEF GamePage!EnterSelectMode
      <4>2. CASE GamePage!ToggleSelectAll
        BY <1>3, <1>7, <4>2 DEF GamePage!ToggleSelectAll
      <4>3. CASE \E g \in GamePage!Game : GamePage!ToggleGame(g)
        BY <1>3, <4>3 DEF GamePage!ToggleGame
      <4> QED BY <2>11, <4>1, <4>2, <4>3 DEF Choice
    <3>2. Flags'
      BY <1>3, <2>11, <3>1, ChoiceFrame
    <3>3. Counts' /\ gStatus' \in [GamePage!Game -> GameStatuses]
      BY <1>4, <1>5, <2>11, ChoiceFrame
    <3> QED BY <3>2, <3>3
  <2>12. CASE Restart
    <3>1. PICK rest \in SUBSET gAsked : /\ loaded' = 0 /\ finished' = <<>> /\ hasMore' = FALSE
              /\ loading' = TRUE /\ rangeApplied' = FALSE /\ selected' = {}
              /\ gStatus' = gStatus /\ shifted' = shifted
              /\ behind' \in {GamePage!Begun(rest) \ GamePage!ModeSettled, GamePage!Begun(rest) \ {"selection"}}
              /\ selectMode' \in {FALSE, selectMode} /\ assigning' \in {FALSE, assigning}
      BY <2>12, RestartFrame
    <3>2. GamePage!Begun(rest) \subseteq Lists \cup GamePage!ModeSettled
      BY <1>3, BehindTypes
    <3>3. Flags'
      BY <1>3, <3>1, <3>2
    <3>4. Counts' /\ gStatus' \in [GamePage!Game -> GameStatuses]
      BY <1>4, <1>5, <3>1
    <3> QED BY <3>3, <3>4
  <2>13. CASE GamePage!LoadMore \/ GamePage!ApplyRange \/ GamePage!Assign
    <3>1. behind' \subseteq behind \cup Lists
      <4>1. \A r : GamePage!Crossing(r) \subseteq Lists
        BY BehindTypes
      <4> QED BY <2>13, <4>1 DEF GamePage!LoadMore, GamePage!ApplyRange, GamePage!Assign
    <3>2. /\ loaded' = loaded /\ hasMore' = hasMore /\ loading' \in {TRUE, loading} /\ rangeApplied' = rangeApplied
          /\ selected' = selected /\ gStatus' = gStatus /\ shifted' = shifted /\ selectMode' = selectMode
          /\ assigning' \in {TRUE, assigning}
      BY <2>13 DEF GamePage!LoadMore, GamePage!ApplyRange, GamePage!Assign, GamePage!lists,
          GamePage!refs, GamePage!mode
    <3> QED BY <1>3, <1>4, <1>5, <3>1, <3>2
  <2>14. ASSUME NEW k, NEW g, GamePage!Tap(k, g) PROVE Rest'
    <3>1. behind' \subseteq behind \cup Lists
      <4>1. GamePage!Crossing(GamePage!Request(k)) \subseteq Lists /\ GamePage!Doubtful \subseteq Lists
        BY BehindTypes
      <4> QED BY <2>14, <4>1 DEF GamePage!Tap
    <3> QED BY <1>3, <1>4, <1>5, <2>14, <3>1 DEF GamePage!Tap, GamePage!lists, GamePage!refs,
        GamePage!mode
  <2>15. ASSUME NEW g \in GamePage!Game, NEW s \in {"IN_PROGRESS", "FINISHED", "DELETED"}, GamePage!ChangeByOther(g, s) PROVE Rest'
    <3>1. gStatus' \in [GamePage!Game -> GameStatuses]
      BY <1>5, <2>15 DEF GamePage!ChangeByOther, GameStatuses
    <3> QED BY <1>3, <1>4, <2>15, <3>1 DEF GamePage!ChangeByOther, GamePage!lists, GamePage!refs,
        GamePage!mode, Lists
  <2> HIDE DEF Rest
  <2>16. ASSUME NEW r \in gAsked, Arrival(r) PROVE Rest'
    BY <2>3, <2>4, <2>5, <2>6, <2>7, <2>8, <2>10, <2>16 DEF Arrival
  <2> QED BY <2>1, <2>2, <2>11, <2>12, <2>13, <2>14, <2>15, <2>16, StepsOfPage
<1>10. ServerTypes'
  BY <1>9 DEF ServerTypes
<1>11. GamePageTypes'
  BY <1>2, <1>9 DEF GamePageTypes
<1>12. GamesCountTypes'
  BY <1>1, <1>9 DEF GamesCountTypes
<1> QED BY <1>1, <1>10, <1>11, <1>12 DEF GamesPageTypes

\* Every step leaves only games selected that are shown.
LEMMA SelectionKeeps ==
    ASSUME GamesBounds, GamesInv, GamePage!Next
    PROVE  GamePage!SelectionIsShown'
<1>1. /\ "selection" \notin behind => selected \subseteq GamePage!ToSet(finished)
      /\ "mode" \notin behind /\ ~selectMode => selected = {} /\ ~rangeApplied
  BY DEF GamesInv, GamePage!SelectionIsShown
<1>2. finished \in Seq(GamePage!Game) /\ \A r \in gAsked : r.games \in Seq(GamePage!Game)
  BY DEF GamesInv, GamesPageTypes, GamePageTypes, GamesAskedTypes, GamesAsked
\* Neither the selection nor the mode change, and no game leaves the list.
<1>3. ASSUME selected' = selected, selectMode' = selectMode, rangeApplied' = rangeApplied,
             GamePage!ToSet(finished) \subseteq GamePage!ToSet(finished'), behind \cap GamePage!ModeSettled \subseteq behind'
      PROVE  GamePage!SelectionIsShown'
  BY <1>1, <1>3 DEF GamePage!SelectionIsShown, GamePage!ModeSettled
<1>4. ASSUME NEW r \in gAsked, GamePage!ServeList(r) PROVE GamePage!SelectionIsShown'
  BY <1>3, <1>4 DEF GamePage!ServeList, GamePage!lists, GamePage!mode
<1>5. ASSUME NEW r \in gAsked, GamePage!ServeMove(r) PROVE GamePage!SelectionIsShown'
  BY <1>3, <1>5 DEF GamePage!ServeMove, GamePage!lists, GamePage!mode
<1>6. ASSUME NEW r \in gAsked, Arrival(r) PROVE GamePage!SelectionIsShown'
  <2>1. CASE GamePage!InProgressAnswer(r)
    BY <1>3, <2>1 DEF GamePage!InProgressAnswer, GamePage!mode
  <2>2. CASE GamePage!InitialAnswer(r)
    <3>1. /\ selected' = selected /\ selectMode' = selectMode /\ rangeApplied' = rangeApplied
          /\ behind \subseteq behind' /\ (selected # {} => "selection" \in behind')
      BY <2>2 DEF GamePage!InitialAnswer, GamePage!mode
    <3> QED BY <1>1, <3>1 DEF GamePage!SelectionIsShown
  <2>3. CASE GamePage!MoreAnswer(r)
    <3>1. /\ selected' = selected /\ selectMode' = selectMode /\ rangeApplied' = rangeApplied
          /\ behind \subseteq behind' /\ finished' \in {finished, finished \o r.games}
      BY <2>3 DEF GamePage!MoreAnswer, GamePage!mode
    <3>2. GamePage!ToSet(finished) \subseteq GamePage!ToSet(finished \o r.games)
      BY <1>2, ListsJoined
    <3> QED BY <1>3, <3>1, <3>2
  <2>4. CASE GamePage!LoadFails(r)
    BY <1>3, <2>4 DEF GamePage!LoadFails, GamePage!mode, GamePage!lists
  <2>5. CASE GamePage!RangeAnswer(r)
    <3>1. selected' = {} /\ selectMode' = selectMode /\ (~selectMode => "mode" \in behind')
      BY <2>5 DEF GamePage!RangeAnswer
    <3> QED BY <3>1 DEF GamePage!SelectionIsShown
  <2>6. CASE GamePage!RangeFails(r)
    BY <1>3, <2>6 DEF GamePage!RangeFails, GamePage!mode, GamePage!lists
  <2>7. CASE GamePage!AssignFails(r)
    BY <1>3, <2>7 DEF GamePage!AssignFails, GamePage!mode, GamePage!lists
  <2>8. CASE GamePage!MoveFails(r)
    <3>1. /\ selected' = selected /\ selectMode' = selectMode /\ rangeApplied' = rangeApplied
          /\ behind \subseteq behind' /\ finished' = finished
      BY <2>8 DEF GamePage!MoveFails, GamePage!mode, GamePage!lists
    <3> QED BY <1>3, <3>1
  <2>9. CASE GamePage!CreateAnswer(r) \/ GamePage!FinishAnswer(r) \/ GamePage!DeleteAnswer(r) \/ GamePage!RestartAnswer(r)
    <3>1. /\ selected' = selected /\ selectMode' = selectMode /\ rangeApplied' = rangeApplied
          /\ behind' = behind \cup GamePage!Moved(r.game) /\ r.kind \in GamePage!Moves /\ r.pc = "ok"
          /\ finished' \in {finished, <<r.game>> \o finished, GamePage!Without(finished, r.game)}
      BY <2>9 DEF GamePage!CreateAnswer, GamePage!FinishAnswer, GamePage!DeleteAnswer,
          GamePage!RestartAnswer, GamePage!MoveAnswer, GamePage!mode, GamePage!Moves
    <3>2. r.game \in GamePage!Game
      BY <3>1 DEF GamesInv, ExistInv, Exist
    <3>3. <<r.game>> \in Seq(GamePage!Game)
      BY <3>2
    <3>4. GamePage!ToSet(finished) \subseteq GamePage!ToSet(<<r.game>> \o finished)
      BY <1>2, <3>3, ListsJoined
    <3>5. GamePage!ToSet(GamePage!Without(finished, r.game)) = GamePage!ToSet(finished) \ {r.game}
      BY <1>2, WithoutOf
    <3>6. r.game \in selected => "selection" \in behind'
      BY <3>1 DEF GamePage!Moved
    <3>7. "selection" \notin behind' => selected' \subseteq GamePage!ToSet(finished')
      BY <1>1, <3>1, <3>4, <3>5, <3>6
    <3>8. "mode" \notin behind' /\ ~selectMode' => selected' = {} /\ ~rangeApplied'
      BY <1>1, <3>1
    <3> QED BY <3>7, <3>8 DEF GamePage!SelectionIsShown
  <2> QED BY <1>6, <2>1, <2>2, <2>3, <2>4, <2>5, <2>6, <2>7, <2>8, <2>9 DEF Arrival
<1>7. CASE Choice
  <2>1. CASE GamePage!EnterSelectMode
    BY <2>1 DEF GamePage!EnterSelectMode, GamePage!SelectionIsShown
  <2>2. CASE GamePage!ToggleSelectAll
    <3>1. selectMode' = TRUE /\ finished' = finished /\ selected' \subseteq GamePage!ToSet(finished)
      <4>1. selectMode /\ selectMode' = selectMode /\ finished' = finished /\ selected' \subseteq GamePage!ToSet(finished)
        BY <2>2 DEF GamePage!ToggleSelectAll, GamePage!lists
      <4>2. selectMode \in BOOLEAN
        BY DEF GamesInv, GamesPageTypes, GamePageTypes
      <4> QED BY <4>1, <4>2
    <3> QED BY <3>1 DEF GamePage!SelectionIsShown
  <2>3. ASSUME NEW g \in GamePage!Game, GamePage!ToggleGame(g) PROVE GamePage!SelectionIsShown'
    <3>1. /\ selectMode /\ selectMode' = selectMode /\ finished' = finished /\ behind' = behind
          /\ selected' \subseteq selected \cup {g} /\ g \in GamePage!ToSet(finished)
      BY <2>3 DEF GamePage!ToggleGame, GamePage!lists
    <3> QED BY <1>1, <3>1 DEF GamePage!SelectionIsShown
  <2> QED BY <1>7, <2>1, <2>2, <2>3 DEF Choice
<1>8. CASE Restart
  BY <1>8, RestartFrame DEF GamePage!SelectionIsShown
<1>9. CASE GamePage!LoadMore \/ GamePage!ApplyRange \/ GamePage!Assign
  <2>1. /\ selected' = selected /\ selectMode' = selectMode /\ rangeApplied' = rangeApplied
        /\ finished' = finished /\ behind \subseteq behind'
    BY <1>9 DEF GamePage!LoadMore, GamePage!ApplyRange, GamePage!Assign, GamePage!mode,
        GamePage!lists
  <2> QED BY <1>3, <2>1
<1>10. ASSUME NEW k, NEW g, GamePage!Tap(k, g) PROVE GamePage!SelectionIsShown'
  <2>1. /\ selected' = selected /\ selectMode' = selectMode /\ rangeApplied' = rangeApplied
        /\ finished' = finished /\ behind \subseteq behind'
    BY <1>10 DEF GamePage!Tap, GamePage!mode, GamePage!lists
  <2> QED BY <1>3, <2>1
<1>11. ASSUME NEW g, NEW s, GamePage!ChangeByOther(g, s) PROVE GamePage!SelectionIsShown'
  BY <1>3, <1>11 DEF GamePage!ChangeByOther, GamePage!mode, GamePage!lists
<1> QED BY <1>4, <1>5, <1>6, <1>7, <1>8, <1>9, <1>10, <1>11, StepsOfPage

\* A range is shown whole, and what more pages were asked for before is thrown away.
LEMMA RangeKeeps ==
    ASSUME GamesBounds, GamesInv, GamePage!Next, GamesPageTypes', Added
    PROVE  "finished" \notin behind' /\ rangeApplied' =>
              ~hasMore' /\ \A r \in gAsked' : r.kind = "more" => r.generation < generation'
<1> SUFFICES ASSUME "finished" \notin behind', rangeApplied'
             PROVE  ~hasMore' /\ \A r \in gAsked' : r.kind = "more" => r.generation < generation'
  OBVIOUS
<1>1. "finished" \notin behind /\ rangeApplied =>
          ~hasMore /\ \A r \in gAsked : r.kind = "more" => r.generation < generation
  BY DEF GamesInv, GenerationInv
<1>2. generation \in Nat /\ generation' \in Nat /\ generation <= generation'
      /\ \A r \in gAsked : r.generation \in Nat /\ r.generation <= generation
  <2>1. generation \in 0..(gSent - 2) /\ gSent \in 2..(MaxSent + 2) /\ MaxSent \in Nat
    BY DEF GamesInv, GamesPageTypes, GamesCountTypes, GamesBounds
  <2>2. generation' = generation \/ generation' = generation + 1
    BY DEF Added
  <2>3. \A r \in gAsked : r.generation \in Nat /\ r.generation <= generation
    BY DEF GamesInv, GamesPageTypes, GamesAskedTypes, GamesAsked
  <2> QED BY <2>1, <2>2, <2>3
\* No more pages are asked for, and a list that was clean before stays.
<1>3. ASSUME "finished" \notin behind, rangeApplied, hasMore' = hasMore,
             \A q \in gAsked' \ gAsked : q.kind # "more" \/ Served1(q)
      PROVE  ~hasMore' /\ \A r \in gAsked' : r.kind = "more" => r.generation < generation'
  <2>1. ~hasMore /\ \A r \in gAsked : r.kind = "more" => r.generation < generation
    BY <1>1, <1>3
  <2>2. \A r \in gAsked : r.kind = "more" => r.generation < generation'
    BY <1>2, <2>1
  <2>3. \A q \in gAsked' \ gAsked : q.kind = "more" => \E r \in gAsked : r.kind = "more" /\ q.generation = r.generation
    BY <1>3 DEF Served1
  <2> QED BY <1>3, <2>1, <2>2, <2>3
<1>4. ASSUME NEW r \in gAsked, GamePage!ServeList(r)
      PROVE  ~hasMore' /\ \A x \in gAsked' : x.kind = "more" => x.generation < generation'
  <2>1. hasMore' = hasMore /\ rangeApplied' = rangeApplied /\ behind \subseteq behind' /\ generation' = generation /\ gSent' = gSent
    BY <1>4 DEF GamePage!ServeList, GamePage!lists, GamePage!mode, GamePage!refs
  <2>2. \A q \in gAsked' \ gAsked : Served1(q)
    <3>1. gSent \in Nat
      BY DEF GamesInv, GamesPageTypes, GamesCountTypes, GamesBounds
    <3> QED BY <2>1, <3>1 DEF Added, Sent1
  <2> QED BY <1>3, <2>1, <2>2
<1>5. ASSUME NEW r \in gAsked, GamePage!ServeMove(r)
      PROVE  ~hasMore' /\ \A x \in gAsked' : x.kind = "more" => x.generation < generation'
  <2>1. hasMore' = hasMore /\ rangeApplied' = rangeApplied /\ behind \subseteq behind' /\ generation' = generation /\ gSent' = gSent
    BY <1>5 DEF GamePage!ServeMove, GamePage!lists, GamePage!mode, GamePage!refs
  <2>2. \A q \in gAsked' \ gAsked : Served1(q)
    <3>1. gSent \in Nat
      BY DEF GamesInv, GamesPageTypes, GamesCountTypes, GamesBounds
    <3> QED BY <2>1, <3>1 DEF Added, Sent1
  <2> QED BY <1>3, <2>1, <2>2
<1>6. ASSUME NEW r \in gAsked, Arrival(r)
      PROVE  ~hasMore' /\ \A x \in gAsked' : x.kind = "more" => x.generation < generation'
  <2>1. gAsked' = gAsked \ {r} /\ generation' = generation
    BY <1>6, ArrivalFrame
  <2>2. CASE GamePage!InProgressAnswer(r) \/ GamePage!LoadFails(r) \/ GamePage!RangeFails(r) \/ GamePage!AssignFails(r) \/ GamePage!MoveFails(r)
             \/ GamePage!CreateAnswer(r) \/ GamePage!FinishAnswer(r) \/ GamePage!DeleteAnswer(r) \/ GamePage!RestartAnswer(r)
    <3>1. hasMore' = hasMore /\ rangeApplied' = rangeApplied /\ behind \subseteq behind'
      <4>1. CASE GamePage!InProgressAnswer(r) \/ GamePage!LoadFails(r)
        BY <4>1 DEF GamePage!InProgressAnswer, GamePage!LoadFails, GamePage!lists, GamePage!mode
      <4>2. CASE GamePage!RangeFails(r) \/ GamePage!AssignFails(r) \/ GamePage!MoveFails(r)
        BY <4>2 DEF GamePage!RangeFails, GamePage!AssignFails, GamePage!MoveFails, GamePage!lists,
            GamePage!mode
      <4>3. CASE GamePage!CreateAnswer(r) \/ GamePage!FinishAnswer(r) \/ GamePage!DeleteAnswer(r) \/ GamePage!RestartAnswer(r)
        BY <4>3 DEF GamePage!CreateAnswer, GamePage!FinishAnswer, GamePage!DeleteAnswer,
            GamePage!RestartAnswer, GamePage!MoveAnswer, GamePage!mode
      <4> QED BY <2>2, <4>1, <4>2, <4>3
    <3> QED BY <1>3, <2>1, <3>1
  <2>3. CASE GamePage!InitialAnswer(r)
    <3>1. rangeApplied' = rangeApplied /\ (rangeApplied => "finished" \in behind')
      BY <2>3 DEF GamePage!InitialAnswer, GamePage!mode
    <3> QED BY <3>1
  <2>4. CASE GamePage!MoreAnswer(r)
    <3>1. rangeApplied' = rangeApplied /\ behind \subseteq behind' /\ r.kind = "more"
      BY <2>4 DEF GamePage!MoreAnswer, GamePage!mode
    <3>2. ~hasMore /\ \A x \in gAsked : x.kind = "more" => x.generation < generation
      BY <1>1, <3>1
    <3>3. r.generation # generation
      BY <1>2, <3>1, <3>2
    <3>4. hasMore' = hasMore
      BY <2>4, <3>3 DEF GamePage!MoreAnswer, GamePage!Current
    <3> QED BY <2>1, <3>2, <3>4
  <2>5. CASE GamePage!RangeAnswer(r)
    <3>1. ~hasMore' /\ r.kind = "range" /\ ~ GamePage!Ahead(r)
      BY <2>5 DEF GamePage!RangeAnswer, GamePage!Late
    <3>2. ASSUME NEW x \in gAsked', x.kind = "more" PROVE x.generation < generation'
      <4>1. x \in gAsked /\ x.kind \in GamePage!Loads
        BY <2>1, <3>2 DEF GamePage!Loads
      <4>2. ~ (x.n > r.n)
        BY <3>1, <4>1 DEF GamePage!Ahead
      <4>3. x.n \in Nat /\ r.n \in Nat
        BY <4>1 DEF GamesInv, GamesPageTypes, GamesAskedTypes, GamesAsked
      <4>4. x.n <= r.n
        BY <4>2, <4>3
      <4>5. x.generation < r.generation
        BY <3>1, <3>2, <4>1, <4>4 DEF GamesInv, GenerationInv
      <4> QED BY <1>2, <2>1, <4>1, <4>5
    <3> QED BY <3>1, <3>2
  <2> QED BY <1>6, <2>2, <2>3, <2>4, <2>5 DEF Arrival
<1>7. CASE Choice
  <2>1. /\ hasMore' = hasMore /\ rangeApplied' = rangeApplied /\ gAsked' = gAsked
        /\ behind' \cap Lists = behind \cap Lists
    BY <1>7, ChoiceFrame
  <2>2. "finished" \notin behind
    BY <2>1 DEF Lists
  <2> QED BY <1>3, <2>1, <2>2
<1>8. CASE Restart
  BY <1>8, RestartFrame
<1>9. CASE GamePage!LoadMore
  <2>1. hasMore /\ rangeApplied' = rangeApplied /\ behind \subseteq behind'
    BY <1>9 DEF GamePage!LoadMore, GamePage!mode
  <2> QED BY <1>1, <2>1
<1>10. CASE GamePage!ApplyRange
  <2>1. /\ gAsked' = gAsked \cup {[GamePage!Request("range") EXCEPT !.generation = generation + 1]}
        /\ hasMore' = hasMore /\ rangeApplied' = rangeApplied /\ behind \subseteq behind'
    BY <1>10 DEF GamePage!ApplyRange, GamePage!Send, GamePage!lists, GamePage!mode
  <2>2. PICK p \in Made("range", 0, 1, generation + 1) : gAsked' = gAsked \cup {p}
    BY <2>1, RequestIsMade
  <2>3. p.kind = "range"
    BY <2>2 DEF Made
  <2>4. \A q \in gAsked' \ gAsked : q.kind # "more"
    BY <2>2, <2>3
  <2> QED BY <1>3, <2>1, <2>4
<1>11. CASE GamePage!Assign
  <2>1. /\ gAsked' = gAsked \cup {GamePage!Request("assign")}
        /\ hasMore' = hasMore /\ rangeApplied' = rangeApplied /\ behind \subseteq behind'
    BY <1>11 DEF GamePage!Assign, GamePage!Send, GamePage!lists, GamePage!mode
  <2>2. GamePage!Request("assign").kind = "assign"
    BY DEF GamePage!Request
  <2>3. \A q \in gAsked' \ gAsked : q.kind # "more"
    BY <2>1, <2>2
  <2> QED BY <1>3, <2>1, <2>3
<1>12. ASSUME NEW k \in GamePage!Moves, NEW g, GamePage!Tap(k, g)
       PROVE  ~hasMore' /\ \A x \in gAsked' : x.kind = "more" => x.generation < generation'
  <2>1. /\ gAsked' = gAsked \cup {[GamePage!Request(k) EXCEPT !.game = g]}
        /\ hasMore' = hasMore /\ rangeApplied' = rangeApplied /\ behind \subseteq behind'
    BY <1>12 DEF GamePage!Tap, GamePage!Send, GamePage!lists, GamePage!mode
  <2>2. PICK p \in Made(k, g, 1, generation) : gAsked' = gAsked \cup {p}
    BY <2>1, RequestIsMade
  <2>3. p.kind = k
    BY <2>2 DEF Made
  <2>4. \A q \in gAsked' \ gAsked : q.kind # "more"
    BY <2>2, <2>3 DEF GamePage!Moves
  <2> QED BY <1>3, <2>1, <2>4
<1>13. ASSUME NEW g, NEW s, GamePage!ChangeByOther(g, s) PROVE "finished" \in behind'
  BY <1>13 DEF GamePage!ChangeByOther
<1>14. "create" \in GamePage!Moves
  BY DEF GamePage!Moves
<1> QED BY <1>4, <1>5, <1>6, <1>7, <1>8, <1>9, <1>10, <1>11, <1>12, <1>13, <1>14, StepsOfPage

-----------------------------------------------------------------------------
(* What the page shows                                                     *)

Agreement == MoveInv /\ InProgressInv /\ FinishedInv /\ GamesAnswersInv

\* Lists that may differ from the server have nothing to agree with.
LEMMA AllBehind ==
    ASSUME Lists \subseteq behind'
    PROVE  Agreement'
<1>1. "inProgress" \in behind' /\ "finished" \in behind'
  BY DEF Lists
<1>2. MoveInv'
  BY DEF MoveInv
<1>3. InProgressInv' /\ FinishedInv' /\ GamesAnswersInv'
  BY <1>1 DEF InProgressInv, FinishedInv, GamesAnswersInv
<1> QED BY <1>2, <1>3 DEF Agreement

\* While a list may be trusted, a load of one is under way with no change of a game.
LEMMA NoMoves ==
    ASSUME MoveInv, ~ (Lists \subseteq behind), NEW r \in gAsked, r.kind \notin GamePage!Moves, r.kind # "assign"
    PROVE  \A q \in gAsked : q.kind \notin GamePage!Moves
  BY DEF MoveInv

\* What is known is what there is when no change of a game is under way.
LEMMA KnownIsStatus ==
    /\ (\A q \in gAsked : q.kind \notin GamePage!Moves) => \A s : Known(s) = GamePage!OfStatus(s)
    /\ (\A q \in gAsked' : q.kind \notin GamePage!Moves) => \A s : Known(s)' = GamePage!OfStatus(s)'
<1>1. ASSUME \A q \in gAsked : q.kind \notin GamePage!Moves PROVE \A s : Known(s) = GamePage!OfStatus(s)
  <2>1. \A g \in GamePage!Game : Before[g] = gStatus[g]
    BY <1>1 DEF Before, Served
  <2> QED BY <2>1 DEF Known, GamePage!OfStatus
<1>2. ASSUME \A q \in gAsked' : q.kind \notin GamePage!Moves PROVE \A s : Known(s)' = GamePage!OfStatus(s)'
  <2>1. \A g \in GamePage!Game : Before'[g] = gStatus'[g]
    BY <1>2 DEF Before, Served
  <2> QED BY <2>1 DEF Known, GamePage!OfStatus
<1> QED BY <1>1, <1>2

\* What is known stays as long as no change is made or heard of.
LEMMA KnownStays ==
    ASSUME gStatus' = gStatus, Served' = Served, inProgress' = inProgress
    PROVE  \A s : Known(s)' = Known(s)
<1>1. Before' = Before
  BY DEF Before
<1> QED BY <1>1 DEF Known

\* What does not change agrees as before.
LEMMA AgreesStay ==
    /\ inProgress' = inProgress /\ Known("IN_PROGRESS")' = Known("IN_PROGRESS") => InProgressAgrees' = InProgressAgrees
    /\ /\ finished' = finished /\ rangeApplied' = rangeApplied /\ hasMore' = hasMore /\ loaded' = loaded
       /\ shifted' = shifted /\ Known("FINISHED")' = Known("FINISHED")
       => FinishedAgrees' = FinishedAgrees
<1>1. ASSUME inProgress' = inProgress, Known("IN_PROGRESS")' = Known("IN_PROGRESS") PROVE InProgressAgrees' = InProgressAgrees
  BY <1>1 DEF InProgressAgrees
<1>2. ASSUME finished' = finished, rangeApplied' = rangeApplied, hasMore' = hasMore, loaded' = loaded,
             shifted' = shifted, Known("FINISHED")' = Known("FINISHED")
      PROVE  FinishedAgrees' = FinishedAgrees
  BY <1>2 DEF FinishedAgrees
<1> QED BY <1>1, <1>2

\* Without a change of status a page has the games it had.
LEMMA PagesStay ==
    ASSUME gStatus' = gStatus
    PROVE  /\ \A s : GamePage!OfStatus(s)' = GamePage!OfStatus(s)
           /\ \A k : GamePage!GamesOfPage(k, FINISHED_PAGE_SIZE)' = GamePage!GamesOfPage(k, FINISHED_PAGE_SIZE)
  BY DEF GamePage!OfStatus, GamePage!GamesOfPage

\* Without a change of status the answers on their way stay good.
LEMMA AnswersStay ==
    ASSUME GamesAnswersInv, gStatus' = gStatus, shifted' = shifted, behind \cap Lists \subseteq behind',
           \A q \in gAsked' : q \in gAsked \/ q.pc # "ok"
    PROVE  GamesAnswersInv'
<1> SUFFICES ASSUME NEW r \in gAsked', r.pc = "ok"
             PROVE  /\ r.kind = "inProgress" /\ "inProgress" \notin behind' => r.games = GamePage!Newest(GamePage!OfStatus("IN_PROGRESS")')
                    /\ "finished" \notin behind' =>
                         /\ r.kind \in {"initial", "more"} =>
                              /\ r.games = GamePage!GamesOfPage(r.page, FINISHED_PAGE_SIZE)'.games
                              /\ r.more = GamePage!GamesOfPage(r.page, FINISHED_PAGE_SIZE)'.more
                         /\ r.kind = "more" => ~shifted'
                         /\ r.kind = "range" => r.games = GamePage!Newest(GamePage!OfStatus("FINISHED")' \cap InRange)
  BY DEF GamesAnswersInv
<1>1. r \in gAsked
  OBVIOUS
<1>2. /\ "inProgress" \notin behind' => "inProgress" \notin behind
      /\ "finished" \notin behind' => "finished" \notin behind
  BY DEF Lists
<1>3. /\ r.kind = "inProgress" /\ "inProgress" \notin behind => r.games = GamePage!Newest(GamePage!OfStatus("IN_PROGRESS"))
      /\ "finished" \notin behind =>
           /\ r.kind \in {"initial", "more"} =>
                /\ r.games = GamePage!GamesOfPage(r.page, FINISHED_PAGE_SIZE).games
                /\ r.more = GamePage!GamesOfPage(r.page, FINISHED_PAGE_SIZE).more
           /\ r.kind = "more" => ~shifted
           /\ r.kind = "range" => r.games = GamePage!Newest(GamePage!OfStatus("FINISHED") \cap InRange)
  BY <1>1 DEF GamesAnswersInv
<1> QED BY <1>2, <1>3, PagesStay

\* A step in which no change of a game takes part.
LEMMA QuietKeeps ==
    ASSUME GamesInv, gStatus' = gStatus, shifted' = shifted, behind \cap Lists \subseteq behind',
           \A q \in gAsked : q.kind \notin GamePage!Moves, \A q \in gAsked' : q.kind \notin GamePage!Moves,
           \A q \in gAsked' : q \in gAsked \/ q.pc # "ok",
           "inProgress" \notin behind' =>
              \/ InProgressAgrees' \/ (\E q \in gAsked' : q.kind = "inProgress")
              \/ inProgress' = inProgress /\ ~ (\E q \in gAsked : q.kind = "inProgress"),
           "finished" \notin behind' =>
              \/ FinishedAgrees' \/ (\E q \in gAsked' : q.kind \in {"initial", "range"})
              \/ /\ finished' = finished /\ rangeApplied' = rangeApplied /\ hasMore' = hasMore /\ loaded' = loaded
                 /\ ~ (\E q \in gAsked : q.kind \in {"initial", "range"})
    PROVE  Agreement'
<1>1. MoveInv'
  BY DEF MoveInv
<1>2. GamesAnswersInv'
  BY AnswersStay DEF GamesInv
<1>3. \A s : Known(s)' = Known(s)
  BY KnownIsStatus, PagesStay
<1>4. "inProgress" \notin behind' => "inProgress" \notin behind
  BY DEF Lists
<1>5. "finished" \notin behind' => "finished" \notin behind
  BY DEF Lists
<1>6. InProgressInv'
  <2> SUFFICES ASSUME "inProgress" \notin behind' PROVE InProgressAgrees' \/ \E q \in gAsked' : q.kind = "inProgress"
    BY DEF InProgressInv
  <2>1. InProgressAgrees \/ \E q \in gAsked : q.kind = "inProgress"
    BY <1>4 DEF GamesInv, InProgressInv
  <2>2. inProgress' = inProgress => InProgressAgrees' = InProgressAgrees
    BY <1>3, AgreesStay
  <2> QED BY <2>1, <2>2
<1>7. FinishedInv'
  <2> SUFFICES ASSUME "finished" \notin behind' PROVE FinishedAgrees' \/ \E q \in gAsked' : q.kind \in {"initial", "range"}
    BY DEF FinishedInv
  <2>1. FinishedAgrees \/ \E q \in gAsked : q.kind \in {"initial", "range"}
    BY <1>5 DEF GamesInv, FinishedInv
  <2>2. finished' = finished /\ rangeApplied' = rangeApplied /\ hasMore' = hasMore /\ loaded' = loaded
        => FinishedAgrees' = FinishedAgrees
    BY <1>3, AgreesStay
  <2> QED BY <2>1, <2>2
<1> QED BY <1>1, <1>2, <1>6, <1>7 DEF Agreement

\* The same for the lists of the answers.
LEMMA AnswersAreAll ==
    ASSUME GamesBounds, GamesInv, NEW r \in gAsked, r.pc = "ok"
    PROVE  /\ r.kind = "inProgress" /\ "inProgress" \notin behind =>
                GamePage!IsInjective(r.games) /\ GamePage!ToSet(r.games) = GamePage!OfStatus("IN_PROGRESS")
           /\ r.kind = "range" /\ "finished" \notin behind =>
                GamePage!IsInjective(r.games) /\ GamePage!ToSet(r.games) = GamePage!OfStatus("FINISHED") \cap InRange
           /\ r.kind = "initial" /\ "finished" \notin behind =>
                /\ r.games = Upto(GamePage!OfStatus("FINISHED"), 1)
                /\ r.more = (GamePage!Cardinality(GamePage!OfStatus("FINISHED")) > FINISHED_PAGE_SIZE)
           /\ r.kind = "more" /\ "finished" \notin behind =>
                /\ Upto(GamePage!OfStatus("FINISHED"), r.page - 1) \o r.games = Upto(GamePage!OfStatus("FINISHED"), r.page)
                /\ r.more = (GamePage!Cardinality(GamePage!OfStatus("FINISHED")) > r.page * FINISHED_PAGE_SIZE)
                /\ ~shifted
<1>1. MaxGames \in Nat /\ FINISHED_PAGE_SIZE \in Nat
  BY DEF GamesBounds
<1>2. \A S \in SUBSET GamePage!Game : GamePage!IsInjective(GamePage!Newest(S)) /\ GamePage!ToSet(GamePage!Newest(S)) = S
  BY <1>1, NewestOf DEF GamePage!Game
<1>3. /\ GamePage!OfStatus("IN_PROGRESS") \in SUBSET GamePage!Game
      /\ GamePage!OfStatus("FINISHED") \cap InRange \in SUBSET GamePage!Game
  BY DEF GamePage!OfStatus
<1>4. r.page \in Nat \ {0} /\ (r.kind = "initial" => r.page = 1)
  BY DEF GamesInv, GamesPageTypes, GamesAskedTypes, GamesAsked
<1> DEFINE p == GamePage!GamesOfPage(r.page, FINISHED_PAGE_SIZE)
           F == GamePage!OfStatus("FINISHED")
<1>5. /\ p.more = (GamePage!Cardinality(F) > r.page * FINISHED_PAGE_SIZE)
      /\ r.page = 1 => p.games = Upto(F, 1)
      /\ Upto(F, r.page - 1) \o p.games = Upto(F, r.page)
  BY <1>4, PageOf DEF GamesInv, GamesPageTypes
<1>6. /\ r.kind = "inProgress" /\ "inProgress" \notin behind => r.games = GamePage!Newest(GamePage!OfStatus("IN_PROGRESS"))
      /\ "finished" \notin behind =>
           /\ r.kind \in {"initial", "more"} => r.games = p.games /\ r.more = p.more
           /\ r.kind = "more" => ~shifted
           /\ r.kind = "range" => r.games = GamePage!Newest(F \cap InRange)
  BY DEF GamesInv, GamesAnswersInv
<1>7. 1 * FINISHED_PAGE_SIZE = FINISHED_PAGE_SIZE
  BY <1>1
<1> HIDE DEF p
<1>8. /\ r.kind = "inProgress" /\ "inProgress" \notin behind =>
                GamePage!IsInjective(r.games) /\ GamePage!ToSet(r.games) = GamePage!OfStatus("IN_PROGRESS")
      /\ r.kind = "range" /\ "finished" \notin behind =>
                GamePage!IsInjective(r.games) /\ GamePage!ToSet(r.games) = GamePage!OfStatus("FINISHED") \cap InRange
  BY <1>2, <1>3, <1>6
<1> HIDE DEF F
<1>9. r.kind = "initial" /\ "finished" \notin behind =>
         /\ r.games = Upto(F, 1)
         /\ r.more = (GamePage!Cardinality(F) > FINISHED_PAGE_SIZE)
  BY <1>4, <1>5, <1>6, <1>7
<1>10. r.kind = "more" /\ "finished" \notin behind =>
         /\ Upto(F, r.page - 1) \o r.games = Upto(F, r.page)
         /\ r.more = (GamePage!Cardinality(F) > r.page * FINISHED_PAGE_SIZE)
         /\ ~shifted
  BY <1>5, <1>6
<1> QED BY <1>8, <1>9, <1>10 DEF F

\* The newest games of those there are, and whether there are more.
LEMMA FirstPagesAgree ==
    ASSUME GamesBounds, NEW F \in SUBSET GamePage!Game, NEW k \in Nat, NEW s, NEW more,
           s = Upto(F, k), more = (GamePage!Cardinality(F) > k * FINISHED_PAGE_SIZE)
    PROVE  GamePage!IsInjective(s) /\ GamePage!ToSet(s) \subseteq F /\ (~more => GamePage!ToSet(s) = F)
<1>1. /\ GamePage!IsInjective(Upto(F, k)) /\ GamePage!ToSet(Upto(F, k)) \subseteq F
      /\ GamePage!Cardinality(F) <= k * FINISHED_PAGE_SIZE => GamePage!ToSet(Upto(F, k)) = F
  BY UptoOf
<1>2. GamePage!Cardinality(F) \in Nat /\ k * FINISHED_PAGE_SIZE \in Nat
  <2>1. MaxGames \in Nat /\ F \in SUBSET (1..MaxGames) /\ FINISHED_PAGE_SIZE \in Nat
    BY DEF GamesBounds, GamePage!Game
  <2>2. k * FINISHED_PAGE_SIZE \in Nat
    BY <2>1
  <2> QED BY <2>1, <2>2, Finite
<1>3. ~ (GamePage!Cardinality(F) > k * FINISHED_PAGE_SIZE) => GamePage!Cardinality(F) <= k * FINISHED_PAGE_SIZE
  BY <1>2
<1> QED BY <1>1, <1>3

\* The server answers with the games there are.
LEMMA ServeListAgrees ==
    ASSUME GamesBounds, GamesInv, NEW r \in gAsked, GamePage!ServeList(r), ~ (Lists \subseteq behind')
    PROVE  Agreement'
<1>1. PICK q \in GamesAsked :
              /\ gAsked' = (gAsked \ {r}) \cup {q} /\ q.pc = "ok" /\ r.pc = "sent"
              /\ q.kind = r.kind /\ q.page = r.page
              /\ r.kind \in GamePage!Loads \cup {"inProgress"}
              /\ r.kind = "inProgress" => q.games = GamePage!Newest(GamePage!OfStatus("IN_PROGRESS"))
              /\ r.kind \in {"initial", "more"} =>
                    LET p == GamePage!GamesOfPage(r.page, FINISHED_PAGE_SIZE) IN q.games = p.games /\ q.more = p.more
              /\ r.kind = "range" => q.games = GamePage!Newest(GamePage!OfStatus("FINISHED") \cap InRange)
  BY ServerAnswers DEF GamesInv
<1>2. /\ gStatus' = gStatus /\ inProgress' = inProgress /\ finished' = finished /\ hasMore' = hasMore
      /\ loaded' = loaded /\ rangeApplied' = rangeApplied
      /\ shifted' = (shifted /\ r.kind \notin {"initial", "range"})
      /\ behind' = IF r.kind = "more" /\ shifted THEN behind \cup {"finished"} ELSE behind
  BY DEF GamePage!ServeList, GamePage!lists, GamePage!refs, GamePage!mode
<1>3. behind \subseteq behind'
  BY <1>2
<1>4. \A x \in gAsked : x.kind \notin GamePage!Moves
  <2>1. r.kind \notin GamePage!Moves /\ r.kind # "assign" /\ MoveInv /\ ~ (Lists \subseteq behind)
    BY <1>1, <1>3 DEF GamePage!Loads, GamePage!Moves, GamesInv
  <2> QED BY <2>1, NoMoves
<1>5. \A x \in gAsked' : x.kind \notin GamePage!Moves
  BY <1>1, <1>4
<1>6. \A s : Known(s)' = Known(s)
  BY <1>2, <1>4, <1>5, KnownIsStatus, PagesStay
<1>7. \A k : (\E x \in gAsked : x.kind = k) => (\E x \in gAsked' : x.kind = k)
  BY <1>1
<1>8. MoveInv'
  BY <1>5 DEF MoveInv
<1>9. InProgressInv'
  BY <1>2, <1>3, <1>6, <1>7, AgreesStay DEF GamesInv, InProgressInv
<1>10. FinishedInv'
  <2> SUFFICES ASSUME "finished" \notin behind', ~ \E x \in gAsked' : x.kind \in {"initial", "range"}
               PROVE  FinishedAgrees'
    BY DEF FinishedInv
  <2>1. ~ \E x \in gAsked : x.kind \in {"initial", "range"}
    BY <1>7
  <2>2. FinishedAgrees
    BY <1>3, <2>1 DEF GamesInv, FinishedInv
  <2>3. shifted' = shifted
    <3>1. r.kind \notin {"initial", "range"}
      BY <2>1
    <3>2. shifted \in BOOLEAN
      BY DEF GamesInv, GamesPageTypes, GamePageTypes
    <3> QED BY <1>2, <3>1, <3>2
  <2> QED BY <1>2, <1>6, <2>2, <2>3, AgreesStay
<1>11. GamesAnswersInv'
  <2> SUFFICES ASSUME NEW x \in gAsked', x.pc = "ok"
               PROVE  /\ x.kind = "inProgress" /\ "inProgress" \notin behind' => x.games = GamePage!Newest(GamePage!OfStatus("IN_PROGRESS")')
                      /\ "finished" \notin behind' =>
                           /\ x.kind \in {"initial", "more"} =>
                                /\ x.games = GamePage!GamesOfPage(x.page, FINISHED_PAGE_SIZE)'.games
                                /\ x.more = GamePage!GamesOfPage(x.page, FINISHED_PAGE_SIZE)'.more
                           /\ x.kind = "more" => ~shifted'
                           /\ x.kind = "range" => x.games = GamePage!Newest(GamePage!OfStatus("FINISHED")' \cap InRange)
    BY DEF GamesAnswersInv
  <2>1. CASE x = q
    <3>1. x.kind = "more" /\ "finished" \notin behind' => ~shifted'
      BY <1>1, <1>2, <2>1
    <3> QED BY <1>1, <1>2, <2>1, <3>1, PagesStay
  <2>2. CASE x \in gAsked
    <3>1. /\ x.kind = "inProgress" /\ "inProgress" \notin behind => x.games = GamePage!Newest(GamePage!OfStatus("IN_PROGRESS"))
          /\ "finished" \notin behind =>
               /\ x.kind \in {"initial", "more"} =>
                    /\ x.games = GamePage!GamesOfPage(x.page, FINISHED_PAGE_SIZE).games
                    /\ x.more = GamePage!GamesOfPage(x.page, FINISHED_PAGE_SIZE).more
               /\ x.kind = "more" => ~shifted
               /\ x.kind = "range" => x.games = GamePage!Newest(GamePage!OfStatus("FINISHED") \cap InRange)
      BY <2>2 DEF GamesInv, GamesAnswersInv
    <3>2. ~shifted => ~shifted'
      BY <1>2
    <3> QED BY <1>2, <1>3, <3>1, <3>2, PagesStay
  <2> QED BY <1>1, <2>1, <2>2
<1> QED BY <1>8, <1>9, <1>10, <1>11 DEF Agreement

\* A change that is made: the page does not know of it yet.
LEMMA ServeMoveAgrees ==
    ASSUME GamesBounds, GamesInv, NEW r \in gAsked, GamePage!ServeMove(r), ~ (Lists \subseteq behind')
    PROVE  Agreement'
<1>1. PICK q \in GamesAsked :
              /\ gAsked' = (gAsked \ {r}) \cup {q} /\ q.pc = "ok" /\ r.pc = "sent" /\ r.kind \in GamePage!Moves
              /\ q.kind = r.kind /\ q.game \in GamePage!Game
              /\ r.kind = "create" => gStatus[q.game] = "none"
              /\ r.kind # "create" => q.game = r.game
              /\ gStatus' = [gStatus EXCEPT ![q.game] = GamePage!Outcome(r.kind)]
  BY ServerMoves DEF GamesInv
<1>2. /\ inProgress' = inProgress /\ finished' = finished /\ hasMore' = hasMore
      /\ loaded' = loaded /\ rangeApplied' = rangeApplied /\ shifted' = TRUE /\ behind' = behind
  BY DEF GamePage!ServeMove, GamePage!lists, GamePage!refs, GamePage!mode
<1>3. /\ behind \cap Lists = {}
      /\ \A x \in gAsked : x = r \/ x.kind = "assign"
      /\ r.kind = "finish"  => r.game \in GamePage!ToSet(inProgress)
      /\ r.kind = "restart" => r.game \in GamePage!ToSet(finished)
      /\ r.kind = "delete"  => r.game \in GamePage!ToSet(inProgress) \cup GamePage!ToSet(finished)
  BY <1>1, <1>2 DEF GamesInv, MoveInv
<1>4. Served = {} /\ Before = gStatus
  <2>1. Served = {}
    BY <1>1, <1>3 DEF Served, GamePage!Moves
  <2>2. gStatus \in [GamePage!Game -> GameStatuses]
    BY DEF GamesInv, GamesPageTypes, ServerTypes
  <2>3. Before = [g \in GamePage!Game |-> gStatus[g]]
    BY <2>1 DEF Before
  <2> QED BY <2>1, <2>2, <2>3
<1>5. InProgressAgrees /\ FinishedAgrees
  <2>1. ~ (\E x \in gAsked : x.kind = "inProgress") /\ ~ (\E x \in gAsked : x.kind \in {"initial", "range"})
    BY <1>1, <1>3 DEF GamePage!Moves
  <2> QED BY <1>3, <2>1 DEF GamesInv, InProgressInv, FinishedInv, Lists
<1>6. /\ \A g \in GamePage!ToSet(inProgress) : g \in GamePage!Game /\ gStatus[g] = "IN_PROGRESS"
      /\ \A g \in GamePage!ToSet(finished) : g \in GamePage!Game /\ gStatus[g] = "FINISHED"
  BY <1>4, <1>5 DEF InProgressAgrees, FinishedAgrees, Known
<1>7. Served' = {q}
  BY <1>1, <1>3 DEF Served, GamePage!Moves
<1>8. /\ r.kind = "create" => gStatus[q.game] = "none"
      /\ r.kind # "create" => gStatus[q.game] = IF q.game \in GamePage!ToSet(inProgress) THEN "IN_PROGRESS" ELSE "FINISHED"
  BY <1>1, <1>3, <1>6 DEF GamePage!Moves
<1>9. gStatus \in [GamePage!Game -> GameStatuses]
  BY DEF GamesInv, GamesPageTypes, ServerTypes
<1>10. \A g \in GamePage!Game : Before'[g] = gStatus[g]
  <2> SUFFICES ASSUME NEW g \in GamePage!Game PROVE Before'[g] = gStatus[g]
    OBVIOUS
  <2>1. Before'[g] = IF \A x \in Served' : x.game # g THEN gStatus'[g]
                     ELSE IF \E x \in Served' : x.kind = "create" THEN "none"
                     ELSE IF g \in GamePage!ToSet(inProgress') THEN "IN_PROGRESS" ELSE "FINISHED"
    BY DEF Before
  <2>2. CASE g # q.game
    BY <1>1, <1>7, <1>9, <2>1, <2>2
  <2>3. CASE g = q.game
    <3>1. Before'[g] = IF q.kind = "create" THEN "none"
                       ELSE IF g \in GamePage!ToSet(inProgress) THEN "IN_PROGRESS" ELSE "FINISHED"
      BY <1>2, <1>7, <2>1, <2>3
    <3> QED BY <1>1, <1>8, <2>3, <3>1
  <2> QED BY <2>2, <2>3
<1>11. \A s : Known(s)' = Known(s)
  BY <1>4, <1>10 DEF Known
<1>12. InProgressAgrees'
  BY <1>2, <1>5, <1>11 DEF InProgressAgrees
<1>13. FinishedAgrees'
  BY <1>2, <1>5, <1>11 DEF FinishedAgrees
<1>14. MoveInv'
  <2> SUFFICES ASSUME NEW x \in gAsked', x.kind \in GamePage!Moves
               PROVE  /\ behind' \cap Lists = {}
                      /\ \A y \in gAsked' : y = x \/ y.kind = "assign"
                      /\ x.kind = "finish"  => x.game \in GamePage!ToSet(inProgress')
                      /\ x.kind = "restart" => x.game \in GamePage!ToSet(finished')
                      /\ x.kind = "delete"  => x.game \in GamePage!ToSet(inProgress') \cup GamePage!ToSet(finished')
                      /\ x.pc = "ok" => shifted' /\ gStatus'[x.game] = GamePage!Outcome(x.kind)
    BY DEF MoveInv
  <2>1. x = q /\ \A y \in gAsked' : y = q \/ y.kind = "assign"
    BY <1>1, <1>3 DEF GamePage!Moves
  <2>2. gStatus'[q.game] = GamePage!Outcome(q.kind)
    BY <1>1, <1>9
  <2> QED BY <1>1, <1>2, <1>3, <2>1, <2>2
<1>15. InProgressInv' /\ FinishedInv'
  BY <1>12, <1>13 DEF InProgressInv, FinishedInv
<1>16. GamesAnswersInv'
  <2>1. \A x \in gAsked' : x.kind \notin {"inProgress", "initial", "more", "range"}
    BY <1>1, <1>3 DEF GamePage!Moves
  <2> QED BY <2>1 DEF GamesAnswersInv
<1> QED BY <1>14, <1>15, <1>16 DEF Agreement

\* A list that comes is shown if it is of the last load that was begun.
LEMMA LoadAnswerAgrees ==
    ASSUME GamesBounds, GamesInv, NEW r \in gAsked, ~ (Lists \subseteq behind'),
           GamePage!InProgressAnswer(r) \/ GamePage!InitialAnswer(r) \/ GamePage!MoreAnswer(r) \/ GamePage!LoadFails(r) \/ GamePage!RangeAnswer(r) \/ GamePage!RangeFails(r)
    PROVE  Agreement'
<1>1. gAsked' = gAsked \ {r} /\ gStatus' = gStatus /\ shifted' = shifted
  BY ArrivalFrame DEF Arrival
<1>2. behind \cap Lists \subseteq behind'
  <2>1. CASE GamePage!InProgressAnswer(r) \/ GamePage!InitialAnswer(r) \/ GamePage!MoreAnswer(r)
    BY <2>1 DEF GamePage!InProgressAnswer, GamePage!InitialAnswer, GamePage!MoreAnswer
  <2>2. CASE GamePage!LoadFails(r) \/ GamePage!RangeAnswer(r) \/ GamePage!RangeFails(r)
    BY <2>2 DEF GamePage!LoadFails, GamePage!RangeAnswer, GamePage!RangeFails, Lists
  <2> QED BY <2>1, <2>2
<1>3. \A q \in gAsked : q.kind \notin GamePage!Moves
  <2>1. r.kind \notin GamePage!Moves /\ r.kind # "assign"
    <3>1. r.kind \in {"inProgress", "initial", "more", "range"}
      BY DEF GamePage!InProgressAnswer, GamePage!InitialAnswer, GamePage!MoreAnswer,
          GamePage!LoadFails, GamePage!RangeAnswer, GamePage!RangeFails
    <3> QED BY <3>1 DEF GamePage!Moves
  <2>2. MoveInv /\ ~ (Lists \subseteq behind)
    BY <1>2 DEF GamesInv
  <2> QED BY <2>1, <2>2, NoMoves
<1>4. \A q \in gAsked' : q.kind \notin GamePage!Moves /\ q \in gAsked
  BY <1>1, <1>3
<1>5. Known("IN_PROGRESS")' = GamePage!OfStatus("IN_PROGRESS") /\ Known("FINISHED")' = GamePage!OfStatus("FINISHED")
  BY <1>1, <1>4, KnownIsStatus, PagesStay
<1>6. Known("IN_PROGRESS") = GamePage!OfStatus("IN_PROGRESS") /\ Known("FINISHED") = GamePage!OfStatus("FINISHED")
  BY <1>3, KnownIsStatus
<1>7. /\ "inProgress" \notin behind' => "inProgress" \notin behind
      /\ "finished" \notin behind' => "finished" \notin behind
  BY <1>2 DEF Lists
<1> DEFINE KeepsInProgress ==
             "inProgress" \notin behind' =>
              \/ InProgressAgrees' \/ (\E q \in gAsked' : q.kind = "inProgress")
              \/ inProgress' = inProgress /\ ~ (\E q \in gAsked : q.kind = "inProgress")
           KeepsFinished ==
             "finished" \notin behind' =>
              \/ FinishedAgrees' \/ (\E q \in gAsked' : q.kind \in {"initial", "range"})
              \/ /\ finished' = finished /\ rangeApplied' = rangeApplied /\ hasMore' = hasMore /\ loaded' = loaded
                 /\ ~ (\E q \in gAsked : q.kind \in {"initial", "range"})
<1>8. SUFFICES KeepsInProgress /\ KeepsFinished
  BY <1>1, <1>2, <1>3, <1>4, QuietKeeps
<1>9. /\ inProgress' = inProgress /\ r.kind # "inProgress" => KeepsInProgress
      /\ finished' = finished /\ rangeApplied' = rangeApplied /\ hasMore' = hasMore /\ loaded' = loaded
         /\ r.kind \notin {"initial", "range"} => KeepsFinished
  BY <1>1
<1>10. CASE GamePage!InProgressAnswer(r)
  <2>1. /\ r.kind = "inProgress" /\ r.pc = "ok" /\ inProgress' = r.games
        /\ finished' = finished /\ rangeApplied' = rangeApplied /\ hasMore' = hasMore /\ loaded' = loaded
    BY <1>10 DEF GamePage!InProgressAnswer, GamePage!refs, GamePage!mode
  <2>2. "inProgress" \notin behind => GamePage!IsInjective(r.games) /\ GamePage!ToSet(r.games) = GamePage!OfStatus("IN_PROGRESS")
    BY <2>1, AnswersAreAll
  <2>3. KeepsInProgress
    BY <1>5, <1>7, <2>1, <2>2 DEF InProgressAgrees
  <2> QED BY <1>9, <2>1, <2>3
<1>11. CASE GamePage!InitialAnswer(r)
  <2>1. /\ r.kind = "initial" /\ r.pc = "ok" /\ finished' = r.games /\ hasMore' = r.more /\ loaded' = 1
        /\ inProgress' = inProgress /\ rangeApplied' = rangeApplied /\ (rangeApplied => "finished" \in behind')
    BY <1>11 DEF GamePage!InitialAnswer, GamePage!mode
  <2>2. ASSUME "finished" \notin behind' PROVE FinishedAgrees'
    <3> DEFINE F == GamePage!OfStatus("FINISHED")
    <3>1. r.games = Upto(F, 1) /\ r.more = (GamePage!Cardinality(F) > FINISHED_PAGE_SIZE)
      BY <1>7, <2>1, <2>2, AnswersAreAll
    <3>2. 1 * FINISHED_PAGE_SIZE = FINISHED_PAGE_SIZE /\ 1 \in Nat
      BY DEF GamesBounds
    <3>3. F \in SUBSET GamePage!Game
      BY DEF GamePage!OfStatus
    <3> HIDE DEF F
    <3>4. r.more = (GamePage!Cardinality(F) > 1 * FINISHED_PAGE_SIZE)
      BY <3>1, <3>2
    <3>5. GamePage!IsInjective(r.games) /\ GamePage!ToSet(r.games) \subseteq F /\ (~r.more => GamePage!ToSet(r.games) = F)
      BY <3>1, <3>2, <3>3, <3>4, FirstPagesAgree
    <3>6. Known("FINISHED")' = F
      BY <1>5 DEF F
    <3>7. ~rangeApplied'
      BY <2>1, <2>2
    <3>8. finished' = Upto(F, loaded') /\ hasMore' = (GamePage!Cardinality(F) > loaded' * FINISHED_PAGE_SIZE)
      BY <2>1, <3>1, <3>4
    <3> QED BY <2>1, <3>5, <3>6, <3>7, <3>8 DEF FinishedAgrees
  <2> QED BY <1>9, <2>1, <2>2
<1>12. CASE GamePage!MoreAnswer(r)
  <2>1. r.kind = "more" /\ r.pc = "ok" /\ inProgress' = inProgress /\ rangeApplied' = rangeApplied
    BY <1>12 DEF GamePage!MoreAnswer, GamePage!mode
  <2>2. CASE ~ GamePage!Current(r)
    <3>1. finished' = finished /\ hasMore' = hasMore /\ loaded' = loaded
      BY <1>12, <2>2 DEF GamePage!MoreAnswer
    <3> QED BY <1>9, <2>1, <3>1
  <2>3. CASE GamePage!Current(r)
    <3>1. finished' = finished \o r.games /\ hasMore' = r.more /\ loaded' = r.page /\ behind' = behind \cup GamePage!Overtaken(r)
      BY <1>12, <2>3 DEF GamePage!MoreAnswer
    <3>2. ASSUME "finished" \notin behind', ~ \E q \in gAsked' : q.kind \in {"initial", "range"} PROVE FinishedAgrees'
      <4>1. "finished" \notin behind /\ loaded + 1 = r.page
        BY <1>7, <2>3, <3>1, <3>2 DEF GamePage!Overtaken, GamePage!Current
      <4>2. r.generation \in Nat /\ r.generation = generation
        BY <2>3 DEF GamePage!Current, GamesInv, GamesPageTypes, GamesAskedTypes, GamesAsked
      <4>3. rangeApplied => r.generation < generation
        BY <2>1, <4>1 DEF GamesInv, GenerationInv
      <4>4. ~rangeApplied
        BY <4>2, <4>3
      <4>5. ~ \E q \in gAsked : q.kind \in {"initial", "range"}
        BY <1>1, <2>1, <3>2
      <4>6. FinishedAgrees
        BY <4>1, <4>5 DEF GamesInv, FinishedInv
      <4> DEFINE F == GamePage!OfStatus("FINISHED")
      <4>7. /\ Upto(F, r.page - 1) \o r.games = Upto(F, r.page)
            /\ r.more = (GamePage!Cardinality(F) > r.page * FINISHED_PAGE_SIZE)
            /\ ~shifted
        BY <2>1, <4>1, AnswersAreAll
      <4>8. F \in SUBSET GamePage!Game
        BY DEF GamePage!OfStatus
      <4>9. Known("FINISHED") = F /\ Known("FINISHED")' = F
        BY <1>5, <1>6
      <4> HIDE DEF F
      <4>10. finished = Upto(F, loaded)
        BY <4>4, <4>6, <4>7, <4>9 DEF FinishedAgrees
      <4>11. r.page \in Nat /\ r.page - 1 = loaded
        <5>1. loaded \in Nat
          BY DEF GamesInv, GamesPageTypes, GamesCountTypes, GamesBounds
        <5> QED BY <4>1, <5>1
      <4>12. finished' = Upto(F, r.page)
        BY <3>1, <4>7, <4>10, <4>11
      <4>13. GamePage!IsInjective(finished') /\ GamePage!ToSet(finished') \subseteq F /\ (~hasMore' => GamePage!ToSet(finished') = F)
        BY <3>1, <4>7, <4>8, <4>11, <4>12, FirstPagesAgree
      <4>14. finished' = Upto(F, loaded') /\ hasMore' = (GamePage!Cardinality(F) > loaded' * FINISHED_PAGE_SIZE)
        BY <3>1, <4>7, <4>12
      <4>15. ~rangeApplied'
        BY <2>1, <4>4
      <4> QED BY <4>9, <4>13, <4>14, <4>15 DEF FinishedAgrees
    <3> QED BY <1>9, <2>1, <3>2
  <2> QED BY <2>2, <2>3
<1>13. CASE GamePage!LoadFails(r)
  <2>1. /\ r.kind \in {"inProgress", "initial", "more"}
        /\ inProgress' = inProgress /\ finished' = finished /\ rangeApplied' = rangeApplied /\ hasMore' = hasMore /\ loaded' = loaded
        /\ r.kind = "inProgress" => "inProgress" \in behind'
        /\ r.kind = "initial" => "finished" \in behind'
    BY <1>13 DEF GamePage!LoadFails, GamePage!lists, GamePage!mode
  <2> QED BY <1>9, <2>1
<1>14. CASE GamePage!RangeAnswer(r)
  <2>1. /\ r.kind = "range" /\ r.pc = "ok" /\ finished' = r.games /\ hasMore' = FALSE /\ rangeApplied' = TRUE
        /\ inProgress' = inProgress
    BY <1>14 DEF GamePage!RangeAnswer
  <2>2. ASSUME "finished" \notin behind' PROVE FinishedAgrees'
    <3>1. GamePage!IsInjective(r.games) /\ GamePage!ToSet(r.games) = GamePage!OfStatus("FINISHED") \cap InRange
      BY <1>7, <2>1, <2>2, AnswersAreAll
    <3> QED BY <1>5, <2>1, <3>1 DEF FinishedAgrees
  <2> QED BY <1>9, <2>1, <2>2
<1>15. CASE GamePage!RangeFails(r)
  <2>1. /\ r.kind = "range" /\ "finished" \in behind'
        /\ inProgress' = inProgress
    BY <1>15 DEF GamePage!RangeFails, GamePage!lists
  <2> QED BY <1>9, <2>1
<1> QED BY <1>10, <1>11, <1>12, <1>13, <1>14, <1>15

\* The page hears of the change that was made.
LEMMA MoveAnswerAgrees ==
    ASSUME GamesBounds, GamesInv, NEW r \in gAsked, ~ (Lists \subseteq behind'),
           GamePage!CreateAnswer(r) \/ GamePage!FinishAnswer(r) \/ GamePage!DeleteAnswer(r) \/ GamePage!RestartAnswer(r)
    PROVE  Agreement'
<1>1. /\ gAsked' = gAsked \ {r} /\ gStatus' = gStatus /\ shifted' = shifted /\ hasMore' = hasMore
      /\ loaded' = loaded /\ rangeApplied' = rangeApplied /\ behind' = behind \cup GamePage!Moved(r.game)
      /\ r.kind \in GamePage!Moves /\ r.pc = "ok"
  BY DEF GamePage!CreateAnswer, GamePage!FinishAnswer, GamePage!DeleteAnswer,
      GamePage!RestartAnswer, GamePage!MoveAnswer, GamePage!Arrive, GamePage!refs, GamePage!mode,
      GamePage!Moves
<1> DEFINE g == r.game
<1>2. /\ behind \cap Lists = {}
      /\ \A x \in gAsked : x = r \/ x.kind = "assign"
      /\ r.kind = "finish"  => g \in GamePage!ToSet(inProgress)
      /\ r.kind = "restart" => g \in GamePage!ToSet(finished)
      /\ r.kind = "delete"  => g \in GamePage!ToSet(inProgress) \cup GamePage!ToSet(finished)
      /\ shifted /\ gStatus[g] = GamePage!Outcome(r.kind)
  BY <1>1 DEF GamesInv, MoveInv
<1>3. g \in GamePage!Game /\ <<g>> \in Seq(GamePage!Game)
  BY <1>1 DEF GamesInv, ExistInv, Exist
<1>4. inProgress \in Seq(GamePage!Game) /\ finished \in Seq(GamePage!Game)
  BY DEF GamesInv, GamesPageTypes, GamePageTypes
<1>5. InProgressAgrees /\ FinishedAgrees
  <2>1. ~ (\E x \in gAsked : x.kind = "inProgress") /\ ~ (\E x \in gAsked : x.kind \in {"initial", "range"})
    BY <1>1, <1>2 DEF GamePage!Moves
  <2> QED BY <1>2, <2>1 DEF GamesInv, InProgressInv, FinishedInv, Lists
<1>6. Served = {r} /\ \A x \in gAsked' : x.kind = "assign"
  BY <1>1, <1>2 DEF Served, GamePage!Moves
<1>7. /\ \A h \in GamePage!Game : h # g => Before[h] = gStatus[h]
      /\ Before[g] = IF r.kind = "create" THEN "none"
                     ELSE IF g \in GamePage!ToSet(inProgress) THEN "IN_PROGRESS" ELSE "FINISHED"
  BY <1>3, <1>6 DEF Before
<1>8. \A s : Known(s)' = GamePage!OfStatus(s)
  <2>1. \A q \in gAsked' : q.kind \notin GamePage!Moves
    BY <1>6 DEF GamePage!Moves
  <2> QED BY <1>1, <2>1, KnownIsStatus, PagesStay
<1>9. \A s : Known(s)' = IF s = GamePage!Outcome(r.kind) THEN Known(s) \cup {g} ELSE Known(s) \ {g}
  <2> SUFFICES ASSUME NEW s
               PROVE  GamePage!OfStatus(s) = IF s = GamePage!Outcome(r.kind) THEN Known(s) \cup {g} ELSE Known(s) \ {g}
    BY <1>8
  <2> QED BY <1>2, <1>3, <1>7 DEF GamePage!OfStatus, Known
<1>10. /\ GamePage!IsInjective(inProgress) /\ GamePage!ToSet(inProgress) = Known("IN_PROGRESS")
       /\ GamePage!IsInjective(finished) /\ GamePage!ToSet(finished) \subseteq Known("FINISHED")
       /\ rangeApplied => GamePage!ToSet(finished) = Known("FINISHED") \cap InRange
       /\ ~rangeApplied /\ ~hasMore => GamePage!ToSet(finished) = Known("FINISHED")
  BY <1>5 DEF InProgressAgrees, FinishedAgrees
<1>11. GamePage!ToSet(<<g>>) = {g} /\ GamePage!IsInjective(<<g>>)
  <2>1. <<g>> \in Seq(GamePage!Game) /\ Len(<<g>>) = 1 /\ <<g>>[1] = g
    BY <1>3
  <2>2. DOMAIN <<g>> = 1..1
    BY <2>1, LenProperties
  <2>3. 1..1 = {1}
    OBVIOUS
  <2> QED BY <2>1, <2>2, <2>3 DEF GamePage!ToSet, GamePage!IsInjective
<1>12. \A s \in Seq(GamePage!Game) : GamePage!IsInjective(s) =>
          /\ GamePage!ToSet(<<g>> \o s) = GamePage!ToSet(s) \cup {g} /\ (g \notin GamePage!ToSet(s) => GamePage!IsInjective(<<g>> \o s))
          /\ GamePage!ToSet(GamePage!Without(s, g)) = GamePage!ToSet(s) \ {g} /\ GamePage!IsInjective(GamePage!Without(s, g))
  <2> SUFFICES ASSUME NEW s \in Seq(GamePage!Game), GamePage!IsInjective(s)
               PROVE  /\ GamePage!ToSet(<<g>> \o s) = GamePage!ToSet(s) \cup {g} /\ (g \notin GamePage!ToSet(s) => GamePage!IsInjective(<<g>> \o s))
                      /\ GamePage!ToSet(GamePage!Without(s, g)) = GamePage!ToSet(s) \ {g} /\ GamePage!IsInjective(GamePage!Without(s, g))
    OBVIOUS
  <2>1. GamePage!ToSet(<<g>> \o s) = GamePage!ToSet(<<g>>) \cup GamePage!ToSet(s) /\
        (GamePage!IsInjective(<<g>>) /\ GamePage!IsInjective(s) /\ GamePage!ToSet(<<g>>) \cap GamePage!ToSet(s) = {} => GamePage!IsInjective(<<g>> \o s))
    BY <1>3, ListsJoined
  <2>2. GamePage!ToSet(GamePage!Without(s, g)) = GamePage!ToSet(s) \ {g} /\ GamePage!IsInjective(GamePage!Without(s, g))
    BY WithoutOf
  <2> QED BY <1>11, <2>1, <2>2
<1>13. g \notin Known("IN_PROGRESS") \/ g \notin Known("FINISHED")
  BY DEF Known
<1>14. \A s : g \in Known(s) => Before[g] = s
  BY DEF Known
<1>15. "finished" \notin behind' /\ rangeApplied => g \in InRange
  BY <1>1 DEF GamePage!Moved
<1> HIDE DEF g
\* Each list holds the games of its status again.
<1>16. /\ GamePage!IsInjective(inProgress') /\ GamePage!ToSet(inProgress') = Known("IN_PROGRESS")'
       /\ GamePage!IsInjective(finished')
       /\ r.kind = "finish"  => finished' = <<g>> \o finished /\ g \notin Known("FINISHED")
       /\ r.kind = "create" => finished' = finished /\ g \notin Known("FINISHED")
       /\ r.kind \in {"delete", "restart"} => finished' = GamePage!Without(finished, g)
  <2>1. CASE GamePage!CreateAnswer(r)
    <3>1. r.kind = "create" /\ inProgress' = <<g>> \o inProgress /\ finished' = finished
      BY <2>1 DEF GamePage!CreateAnswer, GamePage!MoveAnswer, g
    <3>2. GamePage!Outcome(r.kind) = "IN_PROGRESS" /\ g \notin Known("IN_PROGRESS") /\ g \notin Known("FINISHED")
      BY <1>7, <1>14, <3>1 DEF GamePage!Outcome
    <3> QED BY <1>4, <1>9, <1>10, <1>12, <3>1, <3>2
  <2>2. CASE GamePage!FinishAnswer(r)
    <3>1. r.kind = "finish" /\ inProgress' = GamePage!Without(inProgress, g) /\ finished' = <<g>> \o finished
      BY <2>2 DEF GamePage!FinishAnswer, GamePage!MoveAnswer, g
    <3>2. GamePage!Outcome(r.kind) = "FINISHED" /\ g \notin Known("FINISHED")
      BY <1>2, <1>10, <1>13, <3>1 DEF GamePage!Outcome
    <3> QED BY <1>4, <1>9, <1>10, <1>12, <3>1, <3>2
  <2>3. CASE GamePage!DeleteAnswer(r)
    <3>1. r.kind = "delete" /\ inProgress' = GamePage!Without(inProgress, g) /\ finished' = GamePage!Without(finished, g)
      BY <2>3 DEF GamePage!DeleteAnswer, GamePage!MoveAnswer, g
    <3>2. GamePage!Outcome(r.kind) = "DELETED"
      BY <3>1 DEF GamePage!Outcome
    <3> QED BY <1>4, <1>9, <1>10, <1>12, <3>1, <3>2
  <2>4. CASE GamePage!RestartAnswer(r)
    <3>1. r.kind = "restart" /\ inProgress' = <<g>> \o inProgress /\ finished' = GamePage!Without(finished, g)
      BY <2>4 DEF GamePage!RestartAnswer, GamePage!MoveAnswer, g
    <3>2. GamePage!Outcome(r.kind) = "IN_PROGRESS" /\ g \notin Known("IN_PROGRESS")
      BY <1>2, <1>10, <1>13, <3>1 DEF GamePage!Outcome
    <3> QED BY <1>4, <1>9, <1>10, <1>12, <3>1, <3>2
  <2> QED BY <2>1, <2>2, <2>3, <2>4
<1>17. ASSUME "finished" \notin behind' PROVE FinishedAgrees'
  <2>1. CASE r.kind = "create"
    <3>1. Known("FINISHED")' = Known("FINISHED") /\ finished' = finished
      <4>1. GamePage!Outcome(r.kind) # "FINISHED"
        BY <2>1 DEF GamePage!Outcome
      <4> QED BY <1>9, <1>16, <2>1, <4>1
    <3> QED BY <1>1, <1>2, <1>10, <3>1 DEF FinishedAgrees
  <2>2. CASE r.kind = "finish"
    <3>1. GamePage!Outcome(r.kind) = "FINISHED"
      BY <2>2 DEF GamePage!Outcome
    <3>2. Known("FINISHED")' = Known("FINISHED") \cup {g} /\ finished' = <<g>> \o finished
      BY <1>9, <1>16, <2>2, <3>1
    <3>3. GamePage!ToSet(finished') = GamePage!ToSet(finished) \cup {g}
      BY <1>4, <1>10, <1>12, <3>2
    <3>4. /\ GamePage!ToSet(finished') \subseteq Known("FINISHED")'
          /\ rangeApplied' => GamePage!ToSet(finished') = Known("FINISHED")' \cap InRange
          /\ ~rangeApplied' /\ ~hasMore' => GamePage!ToSet(finished') = Known("FINISHED")'
      BY <1>1, <1>10, <1>15, <1>17, <3>2, <3>3
    <3> QED BY <1>1, <1>2, <1>16, <3>4 DEF FinishedAgrees
  <2>3. CASE r.kind \in {"delete", "restart"}
    <3>1. GamePage!Outcome(r.kind) # "FINISHED"
      BY <2>3 DEF GamePage!Outcome
    <3>2. Known("FINISHED")' = Known("FINISHED") \ {g} /\ finished' = GamePage!Without(finished, g)
      BY <1>9, <1>16, <2>3, <3>1
    <3>3. GamePage!ToSet(finished') = GamePage!ToSet(finished) \ {g}
      BY <1>4, <1>10, <1>12, <3>2
    <3>4. /\ GamePage!ToSet(finished') \subseteq Known("FINISHED")'
          /\ rangeApplied' => GamePage!ToSet(finished') = Known("FINISHED")' \cap InRange
          /\ ~rangeApplied' /\ ~hasMore' => GamePage!ToSet(finished') = Known("FINISHED")'
      BY <1>1, <1>10, <3>2, <3>3
    <3> QED BY <1>1, <1>2, <1>16, <3>4 DEF FinishedAgrees
  <2> QED BY <1>1, <2>1, <2>2, <2>3 DEF GamePage!Moves
<1>18. InProgressInv' /\ FinishedInv'
  BY <1>16, <1>17 DEF InProgressInv, InProgressAgrees, FinishedInv
<1>19. MoveInv' /\ GamesAnswersInv'
  BY <1>6 DEF MoveInv, GamesAnswersInv, GamePage!Moves
<1> QED BY <1>18, <1>19 DEF Agreement

\* A step after which the page knows what it knew, and shows what it showed.
LEMMA SameListsAgree ==
    ASSUME GamesInv, gStatus' = gStatus, inProgress' = inProgress, finished' = finished, hasMore' = hasMore, loaded' = loaded,
           rangeApplied' = rangeApplied, shifted' = shifted, behind \cap Lists \subseteq behind', ~ (Lists \subseteq behind'),
           \A q \in gAsked' : q \in gAsked \/ (q.pc # "ok" /\ q.kind = "assign"),
           \A q \in gAsked : q \in gAsked' \/ (q.kind = "assign") \/ (q.kind \in GamePage!Moves /\ q.pc # "ok"),
           \A q \in gAsked' : q.kind \in GamePage!Moves => behind' \cap Lists \subseteq behind
    PROVE  Agreement'
<1>1. /\ "inProgress" \notin behind' => "inProgress" \notin behind
      /\ "finished" \notin behind' => "finished" \notin behind
      /\ ~ (Lists \subseteq behind)
  BY DEF Lists
<1>2. Served' = Served
  BY DEF Served, GamePage!Moves
<1>3. \A s : Known(s)' = Known(s)
  BY <1>2, KnownStays
<1>4. GamesAnswersInv'
  BY AnswersStay DEF GamesInv
<1>5. \A k \in {"inProgress", "initial", "range"} : (\E q \in gAsked : q.kind = k) => (\E q \in gAsked' : q.kind = k)
  BY DEF GamePage!Moves
<1>6. InProgressInv'
  BY <1>1, <1>3, <1>5, AgreesStay DEF GamesInv, InProgressInv
<1>7. FinishedInv'
  BY <1>1, <1>3, <1>5, AgreesStay DEF GamesInv, FinishedInv
<1>8. MoveInv'
  <2> SUFFICES ASSUME NEW r \in gAsked', r.kind \in GamePage!Moves
               PROVE  /\ behind' \cap Lists = {}
                      /\ \A q \in gAsked' : q = r \/ q.kind = "assign"
                      /\ r.kind = "finish"  => r.game \in GamePage!ToSet(inProgress')
                      /\ r.kind = "restart" => r.game \in GamePage!ToSet(finished')
                      /\ r.kind = "delete"  => r.game \in GamePage!ToSet(inProgress') \cup GamePage!ToSet(finished')
                      /\ r.pc = "ok" => shifted' /\ gStatus'[r.game] = GamePage!Outcome(r.kind)
    BY DEF MoveInv
  <2>1. r \in gAsked
    BY DEF GamePage!Moves
  <2>2. /\ behind \cap Lists = {}
        /\ \A q \in gAsked : q = r \/ q.kind = "assign"
        /\ r.kind = "finish"  => r.game \in GamePage!ToSet(inProgress)
        /\ r.kind = "restart" => r.game \in GamePage!ToSet(finished)
        /\ r.kind = "delete"  => r.game \in GamePage!ToSet(inProgress) \cup GamePage!ToSet(finished)
        /\ r.pc = "ok" => shifted /\ gStatus[r.game] = GamePage!Outcome(r.kind)
    BY <1>1, <2>1 DEF GamesInv, MoveInv
  <2>3. behind' \cap Lists = {}
    BY <2>2
  <2> QED BY <2>2, <2>3
<1> QED BY <1>4, <1>6, <1>7, <1>8 DEF Agreement

\* What fails, and what the user selects, leaves the lists as good as they were.
LEMMA RestAgrees ==
    ASSUME GamesBounds, GamesInv, GamePage!Next, ~ (Lists \subseteq behind')
    PROVE  /\ \A r \in gAsked : GamePage!AssignFails(r) \/ GamePage!MoveFails(r) => Agreement'
           /\ Choice \/ Restart \/ GamePage!LoadMore \/ GamePage!ApplyRange \/ GamePage!Assign => Agreement'
           /\ \A g : \A k \in GamePage!Moves : GamePage!Tap(k, g) => Agreement'
           /\ \A g, s : ~ GamePage!ChangeByOther(g, s)
<1>1. ASSUME NEW r \in gAsked, GamePage!AssignFails(r) PROVE Agreement'
  <2>1. gAsked' = gAsked \ {r} /\ r.kind = "assign" /\ behind' = behind
    BY <1>1 DEF GamePage!AssignFails, GamePage!Arrive
  <2> QED BY <1>1, <2>1, SameListsAgree DEF GamePage!AssignFails, GamePage!lists, GamePage!refs,
      GamePage!mode
<1>2. ASSUME NEW r \in gAsked, GamePage!MoveFails(r) PROVE Agreement'
  <2>1. gAsked' = gAsked \ {r} /\ r.kind \in GamePage!Moves
    BY <1>2 DEF GamePage!MoveFails, GamePage!Arrive
  <2>2. r.pc # "ok" /\ behind' = behind
    BY <1>2 DEF GamePage!MoveFails, Lists
  <2> QED BY <1>2, <2>1, <2>2, SameListsAgree DEF GamePage!MoveFails, GamePage!lists, GamePage!refs,
      GamePage!mode
<1>3. ASSUME Choice PROVE Agreement'
  <2>1. /\ gAsked' = gAsked /\ gStatus' = gStatus /\ shifted' = shifted
        /\ inProgress' = inProgress /\ finished' = finished /\ hasMore' = hasMore
        /\ loaded' = loaded /\ rangeApplied' = rangeApplied
        /\ behind' \cap Lists = behind \cap Lists
    BY <1>3, ChoiceFrame
  <2>2. behind \cap Lists \subseteq behind' /\ behind' \cap Lists \subseteq behind
    BY <2>1
  <2> QED BY <2>1, <2>2, SameListsAgree
<1>4. ASSUME Restart PROVE Agreement'
  <2>1. PICK rest \in SUBSET gAsked, q \in Made("initial", 0, 1, generation') :
              /\ gAsked' = rest \cup {q} /\ \A r \in gAsked : r \in rest \/ r.kind = "assign"
              /\ rangeApplied' = FALSE /\ gStatus' = gStatus /\ inProgress' = inProgress /\ shifted' = shifted
              /\ behind' \cap Lists = GamePage!Begun(rest) \cap Lists
    BY <1>4, RestartFrame
  <2>2. q.kind = "initial" /\ q.pc = "sent"
    BY DEF Made
  <2>3. ~ (Lists \subseteq GamePage!Begun(rest))
    BY <2>1
  <2>4. \A x \in gAsked : x.kind \notin GamePage!Moves
    <3>1. CASE rest = {}
      BY <2>1, <3>1 DEF GamePage!Moves
    <3>2. CASE rest # {}
      <4>1. GamePage!Begun(rest) = behind \cup GamePage!Crossing(GamePage!Request("initial"))
        BY <3>2 DEF GamePage!Begun
      <4>2. GamePage!Crossing(GamePage!Request("initial")) = {}
        BY <2>3, <4>1, BehindTypes
      <4>3. GamePage!Request("initial").kind = "initial"
        BY DEF GamePage!Request
      <4> QED BY <4>2, <4>3 DEF GamePage!Crossing
    <3> QED BY <3>1, <3>2
  <2>5. \A x \in gAsked' : x.kind \notin GamePage!Moves
    BY <2>1, <2>2, <2>4 DEF GamePage!Moves
  <2>6. "inProgress" \notin behind' => "inProgress" \notin behind
    BY <2>1 DEF GamePage!Begun, Lists
  <2>7. \A s : Known(s)' = Known(s)
    BY <2>1, <2>4, <2>5, KnownIsStatus, PagesStay
  <2>8. MoveInv'
    BY <2>5 DEF MoveInv
  <2>9. InProgressInv'
    <3>1. (\E x \in gAsked : x.kind = "inProgress") => (\E x \in gAsked' : x.kind = "inProgress")
      BY <2>1
    <3> QED BY <2>1, <2>6, <2>7, <3>1, AgreesStay DEF GamesInv, InProgressInv
  <2>10. FinishedInv'
    BY <2>1, <2>2 DEF FinishedInv
  <2>11. GamesAnswersInv'
    <3>1. CASE rest = {}
      BY <2>1, <2>2, <3>1 DEF GamesAnswersInv
    <3>2. CASE rest # {}
      <4>1. behind \cap Lists \subseteq behind'
        BY <2>1, <3>2 DEF GamePage!Begun
      <4> QED BY <2>1, <2>2, <4>1, AnswersStay DEF GamesInv
    <3> QED BY <3>1, <3>2
  <2> QED BY <2>8, <2>9, <2>10, <2>11 DEF Agreement
<1>5. ASSUME NEW q, NEW k, gAsked' = gAsked \cup {q}, q.kind = k, q.pc = "sent", k \in {"more", "range"},
             behind' = behind \cup GamePage!Crossing(GamePage!Request(k)), inProgress' = inProgress, finished' = finished,
             hasMore' = hasMore, loaded' = loaded, rangeApplied' = rangeApplied, gStatus' = gStatus, shifted' = shifted
      PROVE  Agreement'
  <2>1. GamePage!Crossing(GamePage!Request(k)) = {}
    BY <1>5, BehindTypes
  <2>2. \A x \in gAsked : x.kind \notin GamePage!Moves
    BY <2>1 DEF GamePage!Crossing
  <2>3. \A x \in gAsked' : x.kind \notin GamePage!Moves /\ (x \in gAsked \/ x.pc # "ok")
    BY <1>5, <2>2 DEF GamePage!Moves
  <2>4. behind \cap Lists \subseteq behind'
    BY <1>5
  <2>5. "finished" \notin behind' =>
              \/ FinishedAgrees' \/ (\E x \in gAsked' : x.kind \in {"initial", "range"})
              \/ /\ finished' = finished /\ rangeApplied' = rangeApplied /\ hasMore' = hasMore /\ loaded' = loaded
                 /\ ~ (\E x \in gAsked : x.kind \in {"initial", "range"})
    BY <1>5
  <2>6. "inProgress" \notin behind' =>
              \/ InProgressAgrees' \/ (\E x \in gAsked' : x.kind = "inProgress")
              \/ inProgress' = inProgress /\ ~ (\E x \in gAsked : x.kind = "inProgress")
    BY <1>5
  <2> QED BY <1>5, <2>2, <2>3, <2>4, <2>5, <2>6, QuietKeeps
<1>6. ASSUME GamePage!LoadMore PROVE Agreement'
  <2>1. PICK q \in Made("more", 0, loaded + 1, generation) : gAsked' = gAsked \cup {q}
    BY <1>6, RequestIsMade DEF GamePage!LoadMore, GamePage!Send
  <2>2. q.kind = "more" /\ q.pc = "sent"
    BY DEF Made
  <2> QED BY <1>5, <1>6, <2>1, <2>2 DEF GamePage!LoadMore, GamePage!lists, GamePage!mode
<1>7. ASSUME GamePage!ApplyRange PROVE Agreement'
  <2>1. PICK q \in Made("range", 0, 1, generation + 1) : gAsked' = gAsked \cup {q}
    BY <1>7, RequestIsMade DEF GamePage!ApplyRange, GamePage!Send
  <2>2. q.kind = "range" /\ q.pc = "sent"
    BY DEF Made
  <2> QED BY <1>5, <1>7, <2>1, <2>2 DEF GamePage!ApplyRange, GamePage!lists, GamePage!mode
<1>8. ASSUME GamePage!Assign PROVE Agreement'
  <2>1. PICK q \in Made("assign", 0, 1, generation) : gAsked' = gAsked \cup {q}
    BY <1>8, RequestIsMade DEF GamePage!Assign, GamePage!Send
  <2>2. q.kind = "assign" /\ q.pc = "sent"
    BY DEF Made
  <2> QED BY <1>8, <2>1, <2>2, SameListsAgree DEF GamePage!Assign, GamePage!lists, GamePage!refs,
      GamePage!mode
<1>9. ASSUME NEW k \in GamePage!Moves, NEW g, GamePage!Tap(k, g) PROVE Agreement'
  <2>1. PICK q \in Made(k, g, 1, generation) : gAsked' = gAsked \cup {q}
    BY <1>9, RequestIsMade DEF GamePage!Tap, GamePage!Send
  <2>2. q.kind = k /\ q.pc = "sent" /\ q.game = g
    BY DEF Made
  <2>3. /\ behind' = behind \cup GamePage!Crossing(GamePage!Request(k)) \cup GamePage!Doubtful
        /\ gStatus' = gStatus /\ inProgress' = inProgress /\ finished' = finished /\ hasMore' = hasMore
        /\ loaded' = loaded /\ rangeApplied' = rangeApplied /\ shifted' = shifted
        /\ k = "finish"  => g \in GamePage!ToSet(inProgress)
        /\ k = "restart" => g \in GamePage!ToSet(finished)
        /\ k = "delete"  => g \in GamePage!ToSet(inProgress) \/ g \in GamePage!ToSet(finished)
    BY <1>9 DEF GamePage!Tap, GamePage!lists, GamePage!refs, GamePage!mode
  <2>4. GamePage!Crossing(GamePage!Request(k)) = {} /\ GamePage!Doubtful = {}
    BY <2>3, BehindTypes
  <2>5. gAsked = {}
    <3>1. GamePage!Request(k).kind = k
      BY DEF GamePage!Request
    <3> QED BY <2>4, <3>1 DEF GamePage!Crossing
  <2>6. behind \cap Lists = {} /\ behind' = behind
    BY <2>3, <2>4 DEF GamePage!Doubtful, Lists
  <2>7. MoveInv'
    BY <2>1, <2>2, <2>3, <2>5, <2>6 DEF MoveInv
  <2>8. Served' = Served
    BY <2>1, <2>2 DEF Served
  <2>9. InProgressAgrees /\ FinishedAgrees
    BY <2>5, <2>6 DEF GamesInv, InProgressInv, FinishedInv, Lists
  <2>10. \A s : Known(s)' = Known(s)
    BY <2>3, <2>8, KnownStays
  <2>11. InProgressAgrees' /\ FinishedAgrees'
    BY <2>3, <2>9, <2>10, AgreesStay
  <2>12. GamesAnswersInv'
    BY <2>1, <2>2, <2>5 DEF GamesAnswersInv
  <2> QED BY <2>7, <2>11, <2>12 DEF Agreement, InProgressInv, FinishedInv
<1>10. ASSUME NEW g, NEW s, GamePage!ChangeByOther(g, s) PROVE FALSE
  BY <1>10 DEF GamePage!ChangeByOther, Lists
<1> QED BY <1>1, <1>2, <1>3, <1>4, <1>6, <1>7, <1>8, <1>9, <1>10

\* Every step keeps the lists in agreement with the server.
LEMMA AgreementKeeps ==
    ASSUME GamesBounds, GamesInv, GamePage!Next
    PROVE  Agreement'
<1>1. CASE Lists \subseteq behind'
  BY <1>1, AllBehind
<1>2. CASE ~ (Lists \subseteq behind')
  <2>1. \A r \in gAsked : Arrival(r) => Agreement'
    BY <1>2, LoadAnswerAgrees, MoveAnswerAgrees, RestAgrees DEF Arrival
  <2>2. \A r \in gAsked : GamePage!ServeList(r) \/ GamePage!ServeMove(r) => Agreement'
    BY <1>2, ServeListAgrees, ServeMoveAgrees
  <2>3. "create" \in GamePage!Moves
    BY DEF GamePage!Moves
  <2> QED BY <1>2, <2>1, <2>2, <2>3, RestAgrees, StepsOfPage
<1> QED BY <1>1, <1>2

\* Every step keeps the invariant.
LEMMA GamesNextKeep ==
    GamesBounds /\ GamesInv /\ [GamePage!Next]_GamePage!vars => GamesInv'
<1> SUFFICES ASSUME GamesBounds, GamesInv, [GamePage!Next]_GamePage!vars PROVE GamesInv'
  OBVIOUS
<1>1. CASE GamePage!Next
  <2>1. GamesPageTypes /\ ExistInv /\ GenerationInv
    BY DEF GamesInv
  <2>2. Added /\ GamesPageTypes'
    BY <1>1, <2>1, StepAdds, TypesKeep
  <2>3. /\ GamesAskedTypes' /\ Exist \subseteq Exist'
        /\ \A r \in gAsked' : /\ GamePage!ToSet(r.games) \subseteq Exist'
                              /\ r.kind \in GamePage!Moves /\ (r.kind # "create" \/ r.pc = "ok") => r.game \in Exist'
    BY <2>1, <2>2, RequestsKeep
  <2>4. GamePage!ToSet(inProgress') \cup GamePage!ToSet(finished') \subseteq Exist'
    BY <1>1, <2>1, <2>3, ListsKeep
  <2>5. ExistInv'
    BY <2>3, <2>4 DEF ExistInv
  <2>6. GenerationInv'
    <3>1. \A r \in gAsked', q \in gAsked' : r.kind = "more" /\ q.kind = "range" /\ r.n <= q.n => r.generation < q.generation
      BY <2>1, <2>2, <2>3, GenerationsKeep
    <3>2. "finished" \notin behind' /\ rangeApplied' =>
              ~hasMore' /\ \A r \in gAsked' : r.kind = "more" => r.generation < generation'
      BY <1>1, <2>2, RangeKeeps
    <3> QED BY <3>1, <3>2 DEF GenerationInv
  <2>7. Agreement' /\ GamePage!SelectionIsShown'
    BY <1>1, AgreementKeeps, SelectionKeeps
  <2> QED BY <2>2, <2>3, <2>5, <2>6, <2>7 DEF GamesInv, Agreement
<1>2. CASE UNCHANGED GamePage!vars
  <2>1. /\ gStatus' = gStatus /\ inProgress' = inProgress /\ finished' = finished /\ hasMore' = hasMore
        /\ loaded' = loaded /\ loading' = loading /\ generation' = generation
        /\ selectMode' = selectMode /\ selected' = selected /\ rangeApplied' = rangeApplied
        /\ assigning' = assigning /\ gAsked' = gAsked /\ gSent' = gSent /\ shifted' = shifted /\ behind' = behind
    BY <1>2 DEF GamePage!vars, GamePage!lists, GamePage!refs, GamePage!mode
  <2>2. GamesPageTypes' /\ ExistInv' /\ GenerationInv' /\ GamePage!SelectionIsShown'
    BY <2>1 DEF GamesInv, GamesPageTypes, ServerTypes, GamePageTypes, GamesCountTypes,
        GamesAskedTypes, ExistInv, Exist, GamePage!OfStatus,
                GenerationInv, GamePage!SelectionIsShown
  <2>3. \A s : Known(s)' = Known(s)
    BY <2>1, KnownStays DEF Served
  <2>4. MoveInv' /\ InProgressInv' /\ FinishedInv' /\ GamesAnswersInv'
    <3>1. MoveInv'
      BY <2>1 DEF GamesInv, MoveInv
    <3>2. InProgressInv' /\ FinishedInv'
      BY <2>1, <2>3, AgreesStay DEF GamesInv, InProgressInv, FinishedInv
    <3>3. GamesAnswersInv'
      BY <2>1, AnswersStay DEF GamesInv
    <3> QED BY <3>1, <3>2, <3>3
  <2> QED BY <2>2, <2>4 DEF GamesInv
<1> QED BY <1>1, <1>2

\* What is to be shown follows from the invariant.
LEMMA GamesShow ==
    GamesBounds /\ GamesInv => GamePage!TypeOK /\ GamePage!ListsAgree /\ GamePage!SelectionIsShown
<1> SUFFICES ASSUME GamesBounds, GamesInv PROVE GamePage!TypeOK /\ GamePage!ListsAgree /\ GamePage!SelectionIsShown
  OBVIOUS
<1>1. GamePage!TypeOK
  <2>1. gStatus \in [GamePage!Game -> {"none", "IN_PROGRESS", "FINISHED", "DELETED"}]
    BY DEF GamesInv, GamesPageTypes, ServerTypes, GameStatuses
  <2>2. GamePage!ToSet(inProgress) \cup GamePage!ToSet(finished) \cup selected \subseteq GamePage!Game
    BY DEF GamesInv, ExistInv, Exist, GamesPageTypes, GamePageTypes
  <2>3. {hasMore, loading, selectMode, rangeApplied, assigning, shifted} \subseteq BOOLEAN
    BY DEF GamesInv, GamesPageTypes, GamePageTypes
  <2>4. behind \subseteq {"inProgress", "finished", "selection", "mode"}
    BY DEF GamesInv, GamesPageTypes, GamePageTypes, Lists, GamePage!ModeSettled
  <2>5. loaded \in 0..MaxGames /\ generation \in 0..MaxSent /\ gSent \in 0..(MaxSent + 2)
    BY DEF GamesInv, GamesPageTypes, GamesCountTypes, GamesBounds
  <2> QED BY <2>1, <2>2, <2>3, <2>4, <2>5 DEF GamePage!TypeOK
<1>2. GamePage!ListsAgree
  <2> SUFFICES ASSUME gAsked = {}
               PROVE  /\ "inProgress" \notin behind =>
                           GamePage!IsInjective(inProgress) /\ GamePage!ToSet(inProgress) = GamePage!OfStatus("IN_PROGRESS")
                      /\ "finished" \notin behind =>
                           LET all == GamePage!OfStatus("FINISHED") IN
                           /\ GamePage!IsInjective(finished) /\ GamePage!ToSet(finished) \subseteq all
                           /\ rangeApplied => ~hasMore /\ GamePage!ToSet(finished) = all \cap InRange
                           /\ ~rangeApplied /\ ~hasMore => GamePage!ToSet(finished) = all
                           /\ ~rangeApplied /\ ~shifted => \A g \in GamePage!ToSet(finished), h \in all \ GamePage!ToSet(finished) : g > h
    BY DEF GamePage!ListsAgree
  <2>1. \A s : Known(s) = GamePage!OfStatus(s)
    BY KnownIsStatus
  <2>2. "inProgress" \notin behind => GamePage!IsInjective(inProgress) /\ GamePage!ToSet(inProgress) = GamePage!OfStatus("IN_PROGRESS")
    BY <2>1 DEF GamesInv, InProgressInv, InProgressAgrees
  <2> DEFINE all == GamePage!OfStatus("FINISHED")
  <2>3. ASSUME "finished" \notin behind
        PROVE  /\ GamePage!IsInjective(finished) /\ GamePage!ToSet(finished) \subseteq all
               /\ rangeApplied => ~hasMore /\ GamePage!ToSet(finished) = all \cap InRange
               /\ ~rangeApplied /\ ~hasMore => GamePage!ToSet(finished) = all
               /\ ~rangeApplied /\ ~shifted => \A g \in GamePage!ToSet(finished), h \in all \ GamePage!ToSet(finished) : g > h
    <3>1. FinishedAgrees
      BY <2>3 DEF GamesInv, FinishedInv
    <3>2. /\ GamePage!IsInjective(finished) /\ GamePage!ToSet(finished) \subseteq all
          /\ rangeApplied => GamePage!ToSet(finished) = all \cap InRange
          /\ ~rangeApplied /\ ~hasMore => GamePage!ToSet(finished) = all
          /\ ~rangeApplied /\ ~shifted => finished = Upto(all, loaded)
      BY <2>1, <3>1 DEF FinishedAgrees
    <3>3. rangeApplied => ~hasMore
      BY <2>3 DEF GamesInv, GenerationInv
    <3>4. all \in SUBSET GamePage!Game /\ loaded \in Nat
      BY DEF GamePage!OfStatus, GamesInv, GamesPageTypes, GamesCountTypes, GamesBounds
    <3> HIDE DEF all
    <3>5. \A g \in GamePage!ToSet(Upto(all, loaded)), h \in all \ GamePage!ToSet(Upto(all, loaded)) : g > h
      BY <3>4, UptoOf
    <3> QED BY <3>2, <3>3, <3>5
  <2> QED BY <2>2, <2>3
<1> QED BY <1>1, <1>2 DEF GamesInv

\* Whatever the page loads, moves and selects, it shows the games there are, and only games
\* that are shown are selected (ListsAgree and SelectionIsShown say from when on).
THEOREM GamesAreShown ==
    GamesBounds => (GamePage!Spec => [](GamePage!TypeOK /\ GamePage!ListsAgree /\ GamePage!SelectionIsShown))
<1> SUFFICES ASSUME GamesBounds PROVE GamePage!Spec => [](GamePage!TypeOK /\ GamePage!ListsAgree /\ GamePage!SelectionIsShown)
  OBVIOUS
<1>1. GamePage!Init => GamesInv
  BY GamesBegin
<1>2. GamesInv /\ [GamePage!Next]_GamePage!vars => GamesInv'
  BY GamesNextKeep
<1>3. GamesInv => GamePage!TypeOK /\ GamePage!ListsAgree /\ GamePage!SelectionIsShown
  BY GamesShow
<1> QED BY <1>1, <1>2, <1>3, PTL DEF GamePage!Spec
=============================================================================
