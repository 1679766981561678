---------------------------- MODULE MembersProofs ----------------------------
(***************************************************************************)
(* Proofs about the parts of Members, in any number of teams, calls, tabs, *)
(* inquiries, forms and addresses: each part is proved about on its own,   *)
(* as the instance that Members makes of it, and what is proved holds of   *)
(* Members because a step of Members is a step of one part.                *)
(***************************************************************************)
EXTENDS Members, TeamProofs, SequenceTheorems, FiniteSetTheorems, WellFoundedInduction, TLAPS

-----------------------------------------------------------------------------
(* Accounts and groups                                                     *)

\* Finite sets of an instance are those of the library.
LEMMA AccountsFiniteSets ==
    \A S : /\ Accounts!IsFiniteSet(S) <=> IsFiniteSet(S)
           /\ Accounts!Cardinality(S) = Cardinality(S)
  BY DEF Accounts!IsFiniteSet, IsFiniteSet, Accounts!Cardinality, Cardinality

\* A fact of the library about finite sets, for those of the instance.
LEMMA AccountsCardinalityType ==
    ASSUME NEW S, Accounts!IsFiniteSet(S)
    PROVE  Accounts!Cardinality(S) \in Nat
  BY FS_CardinalityType, AccountsFiniteSets

\* A fact of the library about finite sets, for those of the instance.
LEMMA AccountsSubset ==
    ASSUME NEW S, Accounts!IsFiniteSet(S), NEW T \in SUBSET S
    PROVE  /\ Accounts!IsFiniteSet(T)
           /\ Accounts!Cardinality(T) <= Accounts!Cardinality(S)
           /\ Accounts!Cardinality(S) = Accounts!Cardinality(T) => S = T
  BY FS_Subset, AccountsFiniteSets

\* A fact of the library about finite sets, for those of the instance.
LEMMA AccountsInterval ==
    ASSUME NEW a \in Int, NEW b \in Int
    PROVE  /\ Accounts!IsFiniteSet(a..b)
           /\ Accounts!Cardinality(a..b) = IF a > b THEN 0 ELSE b - a + 1
  BY FS_Interval, AccountsFiniteSets

\* A fact of the library about finite sets, for those of the instance.
LEMMA AccountsInjection ==
    ASSUME NEW S, NEW T, NEW f \in Injection(S, T), Accounts!IsFiniteSet(T)
    PROVE  /\ Accounts!IsFiniteSet(S)
           /\ Accounts!Cardinality(S) <= Accounts!Cardinality(T)
           /\ Accounts!Cardinality(S) = Accounts!Cardinality(T) <=> f \in Surjection(S, T)
  BY FS_Injection, AccountsFiniteSets

RowFields   == {"id", "purpose", "at", "seen", "attempts", "verified", "consumed", "tries", "uses", "overlapped"}
CallFields  == {"pc", "purpose", "since", "seen", "row", "read", "name"}
SignupPcs   == {"group", "user", "commit"}
PasswordPcs == {"find", "password"}

-----------------------------------------------------------------------------
(* The inductive invariants.                                               *)

RowOK(r) == /\ RowFields \subseteq DOMAIN r
            /\ r.purpose \in Accounts!Purpose /\ r.id \in Nat \ {0}
            /\ r.uses \in Nat /\ r.attempts \in Nat /\ r.tries \in Nat
            /\ r.consumed \in BOOLEAN /\ r.overlapped \in BOOLEAN

CallOK(c) == /\ CallFields \subseteq DOMAIN c
             /\ c.purpose \in Accounts!Purpose /\ c.row \in Nat /\ c.read \in Nat

\* A row has an id of its own, and a call and a token know only ids that were given.
IdsInv ==
    /\ lastId \in Nat /\ DOMAIN aCall = Slot
    /\ \A s \in Slot : CallOK(aCall[s]) /\ aCall[s].row <= lastId
    /\ \A t \in tokens : t.row \in 0..lastId
    /\ \A r \in codes : RowOK(r) /\ r.id <= lastId
    /\ \A r, x \in codes : r.id = x.id => r = x

\* What a call knows of the row it is about: it is of the call's purpose, and unless
\* two of its calls overlap, it has served none and its wrong codes are those read.
Knows(s, r) ==
    /\ aCall[s].pc \in SignupPcs => r.purpose = "signup"
    /\ aCall[s].pc \in PasswordPcs => r.purpose = "password_reset"
    /\ ~r.overlapped =>
         /\ aCall[s].pc \in SignupPcs \cup PasswordPcs => r.uses = 0
         /\ aCall[s].pc = "bump" =>
              /\ aCall[s].read = r.attempts
              /\ \A o \in Slot \ {s} : ~(aCall[o].pc = "bump" /\ aCall[o].row = r.id)

ServeInv ==
    /\ \A s \in Slot : \A r \in codes : aCall[s].row = r.id => Knows(s, r)
    /\ \A s, o \in Slot : aCall[s].pc = "commit" /\ aCall[o].pc = "commit" => s = o
    /\ Accounts!VerificationsServeOnce

\* A signup that has inserted its group has the name to itself; one server stores the
\* template, which it has found empty.
GroupsInv ==
    /\ Accounts!GroupsStartWhole
    /\ template \in {0, 1}
    /\ \A g \in groups : {"name", "signup", "items"} \subseteq DOMAIN g
    /\ \A s \in Slot : aCall[s].pc \in {"user", "commit"} => ~Accounts!Named(aCall[s].name)
    /\ \A s, o \in Slot :
         s # o /\ aCall[s].pc \in {"user", "commit"} /\ aCall[o].pc \in {"user", "commit"}
           => aCall[s].name # aCall[o].name
    /\ \A s, o \in Slot :
         aCall[s].pc \in {"template", "empty"} /\ aCall[o].pc \in {"template", "empty"} => s = o
    /\ \A s \in Slot : aCall[s].pc = "empty" => template = 0

-----------------------------------------------------------------------------
(* What one call does to the table of calls.                               *)

\* A call moves; the others stand still.
Moves(s, c) == /\ DOMAIN aCall' = Slot /\ aCall'[s] = c
               /\ \A o \in Slot \ {s} : aCall'[o] = aCall[o]

\* What starting, going on and ending do to the table of calls.
LEMMA CallMoves ==
    ASSUME IdsInv, NEW s \in Slot
    PROVE  /\ \A c : Accounts!Start(s, c) => Moves(s, c)
           /\ \A pc : Accounts!To(s, pc) => Moves(s, [aCall[s] EXCEPT !.pc = pc])
           /\ Accounts!End(s) => Moves(s, Accounts!Idle)
  BY DEF IdsInv, Accounts!Start, Accounts!To, Accounts!End, Moves

\* A call that goes on keeps what it knows.
LEMMA CallGoesOn ==
    ASSUME IdsInv, NEW s \in Slot, NEW pc
    PROVE  LET c == [aCall[s] EXCEPT !.pc = pc] IN
           /\ CallOK(c) /\ c.pc = pc
           /\ c.row = aCall[s].row /\ c.read = aCall[s].read /\ c.name = aCall[s].name
  BY DEF IdsInv, CallOK, CallFields

\* The row that a token names is the one with that id.
LEMMA RowIsTheOne ==
    ASSUME IdsInv, NEW id, Accounts!Exists(id)
    PROVE  Accounts!Row(id) \in codes /\ Accounts!Row(id).id = id /\ \A r \in codes : r.id = id => r = Accounts!Row(id)
  BY DEF IdsInv, Accounts!Exists, Accounts!Row

-----------------------------------------------------------------------------
(* Ids.                                                                    *)

\* Ids stay good when one call moves and no new one is given.
LEMMA IdsKept ==
    ASSUME IdsInv, NEW s \in Slot, NEW c, Moves(s, c), CallOK(c), c.row <= lastId, lastId' = lastId, tokens' = tokens,
           \A x \in codes' : RowOK(x) /\ x.id <= lastId,
           \A x, y \in codes' : x.id = y.id => x = y
    PROVE  IdsInv'
  BY DEF IdsInv, Moves

\* The row with an id becomes what g makes of it, which is a good row with that id.
Rewrites(id, g) == \A x \in codes' : \E r \in codes : x = IF r.id = id THEN g[r] ELSE r
KeepsIds(g)     == \A r \in codes : RowOK(g[r]) /\ g[r].id = r.id /\ g[r].purpose = r.purpose

\* One row gets other fields: the rest of the table is as it was.
LEMMA RowWritten ==
    ASSUME IdsInv, NEW id, NEW g, Rewrites(id, g), KeepsIds(g)
    PROVE  /\ \A x \in codes' : RowOK(x) /\ x.id <= lastId
           /\ \A x, y \in codes' : x.id = y.id => x = y
           /\ \A x \in codes' : \E r \in codes :
                /\ x.id = r.id /\ x.purpose = r.purpose
                /\ r.id = id => x = g[r]
                /\ r.id # id => x = r
<1>1. \A x \in codes' : \E r \in codes : /\ x.id = r.id /\ x.purpose = r.purpose
                                         /\ r.id = id => x = g[r]
                                         /\ r.id # id => x = r
  BY DEF Rewrites, KeepsIds
<1>2. \A x \in codes' : RowOK(x) /\ x.id <= lastId
  BY <1>1 DEF IdsInv, KeepsIds
<1>3. \A x, y \in codes' : x.id = y.id => x = y
  BY <1>1 DEF IdsInv
<1> QED  BY <1>1, <1>2, <1>3

-----------------------------------------------------------------------------
(* The steps that leave the rows alone.                                    *)

\* A call that knows nothing of a row leaves what the others know.
LEMMA ServeQuiet ==
    ASSUME IdsInv, ServeInv, NEW s \in Slot, NEW c, Moves(s, c), codes' \subseteq codes,
           c.pc \notin SignupPcs \cup PasswordPcs \cup {"bump"}
    PROVE  ServeInv'
<1>1. Accounts!VerificationsServeOnce'
  BY DEF ServeInv, Accounts!VerificationsServeOnce
<1>2. \A o \in Slot : \A r \in codes' : aCall'[o].row = r.id => Knows(o, r)'
  BY DEF Moves, ServeInv, Knows, SignupPcs, PasswordPcs
<1>3. \A x, o \in Slot : aCall'[x].pc = "commit" /\ aCall'[o].pc = "commit" => x = o
  BY DEF Moves, ServeInv, SignupPcs
<1> QED  BY <1>1, <1>2, <1>3 DEF ServeInv

\* A call that starts to serve has seen that its row served none.
LEMMA ServeStarts ==
    ASSUME IdsInv, ServeInv, NEW s \in Slot, NEW c, Moves(s, c), UNCHANGED codes,
           c.pc \in {"group", "find"}, NEW r \in codes, c.row = r.id, ~r.consumed,
           r.purpose = IF c.pc = "group" THEN "signup" ELSE "password_reset"
    PROVE  ServeInv'
<1>1. Accounts!VerificationsServeOnce'
  BY DEF ServeInv, Accounts!VerificationsServeOnce
<1>2. r.uses = 0 /\ \A x \in codes : x.id = r.id => x = r
  BY DEF ServeInv, Accounts!VerificationsServeOnce, IdsInv, RowOK
<1>3. \A o \in Slot : \A x \in codes' : aCall'[o].row = x.id => Knows(o, x)'
  BY <1>2 DEF Moves, ServeInv, Knows, SignupPcs, PasswordPcs
<1>4. \A x, o \in Slot : aCall'[x].pc = "commit" /\ aCall'[o].pc = "commit" => x = o
  BY DEF Moves, ServeInv
<1> QED  BY <1>1, <1>3, <1>4 DEF ServeInv

\* A call goes on to serve.
LEMMA ServeGoesOn ==
    ASSUME IdsInv, ServeInv, NEW s \in Slot, NEW pc, UNCHANGED codes,
           Moves(s, [aCall[s] EXCEPT !.pc = pc]),
           \/ aCall[s].pc \in {"group", "user"} /\ pc \in {"user", "commit"}
           \/ aCall[s].pc = "find" /\ pc = "password",
           pc = "commit" => Accounts!Others(s, {"commit"}) = {}
    PROVE  ServeInv'
<1> DEFINE c == [aCall[s] EXCEPT !.pc = pc]
<1>1. c.pc = pc /\ c.row = aCall[s].row /\ Moves(s, c)
  BY CallGoesOn
<1> HIDE DEF c
<1>2. Accounts!VerificationsServeOnce'
  BY DEF ServeInv, Accounts!VerificationsServeOnce
<1>3. \A o \in Slot : \A x \in codes' : aCall'[o].row = x.id => Knows(o, x)'
  BY <1>1 DEF Moves, ServeInv, Knows, SignupPcs, PasswordPcs
<1>4. \A x, o \in Slot : aCall'[x].pc = "commit" /\ aCall'[o].pc = "commit" => x = o
  BY <1>1 DEF Moves, ServeInv, Accounts!Others
<1> QED  BY <1>2, <1>3, <1>4 DEF ServeInv

-----------------------------------------------------------------------------
(* The steps that write a row.                                             *)

\* A new row is known to nobody.
LEMMA SaveCodeKeeps ==
    ASSUME IdsInv, ServeInv, NEW s \in Slot, Accounts!SaveCode(s)
    PROVE  IdsInv' /\ ServeInv'
<1> DEFINE c == [aCall[s] EXCEPT !.pc = "mail", !.row = lastId + 1]
           new == [id |-> lastId + 1, purpose |-> aCall[s].purpose, at |-> now,
                   expires |-> aCall[s].since + CODE_TTL, attempts |-> 0,
                   verified |-> FALSE, consumed |-> FALSE, seen |-> aCall[s].seen,
                   tries |-> 0, uses |-> 0, overlapped |-> FALSE]
<1>1. Moves(s, c) /\ CallOK(c) /\ c.row = lastId + 1 /\ c.pc = "mail"
  BY DEF Accounts!SaveCode, Moves, IdsInv, CallOK, CallFields
<1>2. codes' = codes \cup {new} /\ lastId' = lastId + 1 /\ UNCHANGED tokens
  BY DEF Accounts!SaveCode
<1>3. /\ new.id = lastId + 1 /\ new.uses = 0 /\ new.attempts = 0 /\ new.tries = 0
      /\ ~new.consumed
      /\ RowOK(new)
  BY DEF IdsInv, RowOK, CallOK, RowFields
<1> HIDE DEF c, new
<1>4. IdsInv'
  <2>1. \A o \in Slot : CallOK(aCall'[o]) /\ aCall'[o].row <= lastId'
    BY <1>1, <1>2 DEF IdsInv, Moves, CallOK
  <2>2. \A t \in tokens' : t.row \in 0..lastId'
    BY <1>2 DEF IdsInv
  <2>3. \A r \in codes' : RowOK(r) /\ r.id <= lastId'
    BY <1>2, <1>3 DEF IdsInv, RowOK
  <2>4. \A r, x \in codes' : r.id = x.id => r = x
    BY <1>2, <1>3 DEF IdsInv
  <2> QED  BY <1>1, <1>2, <2>1, <2>2, <2>3, <2>4 DEF IdsInv, Moves
<1>5. Accounts!VerificationsServeOnce'
  BY <1>2, <1>3 DEF ServeInv, Accounts!VerificationsServeOnce
<1>6. \A o \in Slot : \A x \in codes' : aCall'[o].row = x.id => Knows(o, x)'
  <2>1. \A o \in Slot : o # s => aCall[o].row # new.id
    BY <1>3 DEF IdsInv, CallOK
  <2> QED  BY <1>1, <1>2, <1>3, <2>1 DEF Moves, ServeInv, Knows, SignupPcs, PasswordPcs
<1>7. \A x, o \in Slot : aCall'[x].pc = "commit" /\ aCall'[o].pc = "commit" => x = o
  BY <1>1 DEF Moves, ServeInv
<1> QED  BY <1>4, <1>5, <1>6, <1>7 DEF ServeInv

\* A row is deleted by the call that stored it.
LEMMA UndoCodeKeeps ==
    ASSUME IdsInv, ServeInv, NEW s \in Slot, Accounts!UndoCode(s)
    PROVE  IdsInv' /\ ServeInv'
<1>1. Moves(s, Accounts!Idle) /\ codes' \subseteq codes /\ UNCHANGED <<lastId, tokens>>
  BY CallMoves DEF Accounts!UndoCode
<1>2. CallOK(Accounts!Idle) /\ Accounts!Idle.row = 0 /\ Accounts!Idle.pc = "idle"
  BY DEF Accounts!Idle, CallOK, CallFields, Accounts!Purpose
<1>3. IdsInv'
  BY <1>1, <1>2, IdsKept DEF IdsInv
<1> QED  BY <1>1, <1>2, <1>3, ServeQuiet DEF SignupPcs, PasswordPcs

\* confirmCode reads the count of a row; the row remembers whether another call is
\* between reading it and writing it.
LEMMA ConfirmCodeKeeps ==
    ASSUME IdsInv, ServeInv, NEW s \in Slot, NEW p \in Accounts!Purpose, NEW right \in BOOLEAN,
           Accounts!ConfirmCode(s, p, right)
    PROVE  IdsInv' /\ ServeInv'
<1>1. PICK r0 \in codes :
        /\ aCall[s].pc = "idle"
        /\ Accounts!Start(s, [Accounts!Idle EXCEPT !.pc = IF right THEN "verify" ELSE "bump", !.row = r0.id,
                                 !.read = r0.attempts])
        /\ Accounts!SetRow(r0.id, LAMBDA x : [x EXCEPT !.overlapped =
                           @ \/ \E o \in Accounts!Others(s, {"bump"}) : aCall[o].row = x.id])
        /\ UNCHANGED <<lastId, tokens>>
  BY DEF Accounts!ConfirmCode, Accounts!Latest, Accounts!Start
<1> DEFINE c == [Accounts!Idle EXCEPT !.pc = IF right THEN "verify" ELSE "bump", !.row = r0.id,
                             !.read = r0.attempts]
           g == [x \in codes |-> [x EXCEPT !.overlapped =
                   @ \/ \E o \in Accounts!Others(s, {"bump"}) : aCall[o].row = x.id]]
<1>2. /\ Moves(s, c) /\ CallOK(c) /\ c.row = r0.id /\ c.read = r0.attempts
      /\ c.pc \in {"verify", "bump"}
  <2>1. c.row = r0.id /\ c.read = r0.attempts /\ c.pc \in {"verify", "bump"}
        /\ CallFields \subseteq DOMAIN c /\ c.purpose = "signup"
    BY DEF Accounts!Idle, CallFields
  <2>2. Moves(s, c)
    BY <1>1, CallMoves
  <2> QED  BY <2>1, <2>2 DEF CallOK, IdsInv, RowOK, Accounts!Purpose
<1>3. Rewrites(r0.id, g)
  BY <1>1 DEF Accounts!SetRow, Rewrites
<1>4. \A r \in codes :
        /\ RowOK(g[r]) /\ g[r].id = r.id /\ g[r].purpose = r.purpose
        /\ g[r].uses = r.uses /\ g[r].consumed = r.consumed
        /\ g[r].attempts = r.attempts /\ g[r].tries = r.tries
        /\ ~g[r].overlapped => /\ ~r.overlapped
                               /\ ~\E o \in Accounts!Others(s, {"bump"}) : aCall[o].row = r.id
  BY DEF IdsInv, RowOK, RowFields
<1> HIDE DEF c, g
<1>5. /\ \A x \in codes' : RowOK(x) /\ x.id <= lastId
      /\ \A x, y \in codes' : x.id = y.id => x = y
      /\ \A x \in codes' : \E r \in codes : /\ x.id = r.id /\ x.purpose = r.purpose
                                            /\ r.id = r0.id => x = g[r]
                                            /\ r.id # r0.id => x = r
  <2>1. KeepsIds(g)
    BY <1>4 DEF KeepsIds
  <2> QED  BY <1>3, <2>1, RowWritten
<1>6. IdsInv'
  BY <1>1, <1>2, <1>5, IdsKept DEF IdsInv
<1>7. \A x \in codes' : \E r \in codes :
        /\ x.id = r.id /\ x.purpose = r.purpose /\ x.uses = r.uses /\ x.consumed = r.consumed
        /\ x.attempts = r.attempts /\ x.tries = r.tries
        /\ ~x.overlapped => ~r.overlapped
        /\ ~x.overlapped /\ x.id = r0.id =>
             ~\E o \in Accounts!Others(s, {"bump"}) : aCall[o].row = x.id
  BY <1>4, <1>5
<1>8. Accounts!VerificationsServeOnce'
  BY <1>7 DEF ServeInv, Accounts!VerificationsServeOnce
<1>9. ASSUME NEW o \in Slot, NEW x \in codes', aCall'[o].row = x.id
      PROVE  Knows(o, x)'
  <2>1. PICK r \in codes :
          /\ x.id = r.id /\ x.purpose = r.purpose /\ x.uses = r.uses
          /\ x.attempts = r.attempts
          /\ ~x.overlapped => ~r.overlapped
          /\ ~x.overlapped /\ x.id = r0.id =>
               ~\E q \in Accounts!Others(s, {"bump"}) : aCall[q].row = x.id
    BY <1>7
  <2>2. CASE o = s
    <3>1. r = r0
      BY <1>2, <1>9, <2>1, <2>2 DEF IdsInv, Moves
    <3> QED  BY <1>2, <2>1, <2>2, <3>1 DEF Knows, Moves, Accounts!Others, SignupPcs, PasswordPcs
  <2>3. CASE o # s
    <3>1. Knows(o, r) /\ aCall'[o] = aCall[o] /\ aCall[o].row = r.id
      BY <1>2, <1>9, <2>1, <2>3 DEF ServeInv, Moves
    <3> QED  BY <1>2, <2>1, <2>3, <3>1 DEF Knows, Moves, Accounts!Others, SignupPcs, PasswordPcs
  <2> QED  BY <2>2, <2>3
<1>10. \A x, o \in Slot : aCall'[x].pc = "commit" /\ aCall'[o].pc = "commit" => x = o
  BY <1>2 DEF Moves, ServeInv
<1> QED  BY <1>6, <1>8, <1>9, <1>10 DEF ServeInv

\* What counting a wrong code does to a row.
LEMMA RowBumped ==
    ASSUME NEW r, RowOK(r), NEW n \in Nat
    PROVE  LET b == [r EXCEPT !.attempts = n + 1, !.tries = @ + 1] IN
           /\ RowOK(b) /\ b.id = r.id /\ b.purpose = r.purpose
           /\ b.uses = r.uses /\ b.consumed = r.consumed
           /\ b.attempts = n + 1 /\ b.tries = r.tries + 1
           /\ b.overlapped = r.overlapped
<1> DEFINE b == [r EXCEPT !.attempts = n + 1, !.tries = @ + 1]
<1>1. /\ DOMAIN b = DOMAIN r /\ b.id = r.id /\ b.purpose = r.purpose
      /\ b.uses = r.uses /\ b.consumed = r.consumed
      /\ b.attempts = n + 1 /\ b.tries = r.tries + 1
      /\ b.overlapped = r.overlapped
  BY DEF RowOK, RowFields
<1> HIDE DEF b
<1>2. RowOK(b)
  BY <1>1 DEF RowOK
<1> QED  BY <1>1, <1>2 DEF b

\* A wrong code is counted from what was read.
LEMMA BumpAttemptsKeeps ==
    ASSUME IdsInv, ServeInv, NEW s \in Slot, Accounts!BumpAttempts(s)
    PROVE  IdsInv' /\ ServeInv'
<1> DEFINE g == [x \in codes |-> [x EXCEPT !.attempts = aCall[s].read + 1, !.tries = @ + 1]]
           id == aCall[s].row
<1>1. Moves(s, Accounts!Idle) /\ UNCHANGED <<lastId, tokens>> /\ aCall[s].pc = "bump"
      /\ Rewrites(id, g)
  BY CallMoves DEF Accounts!BumpAttempts, Accounts!SetRow, Rewrites
<1>2. CallOK(Accounts!Idle) /\ Accounts!Idle.row = 0 /\ Accounts!Idle.pc = "idle"
  BY DEF Accounts!Idle, CallOK, CallFields, Accounts!Purpose
<1>3. \A r \in codes :
        /\ RowOK(g[r]) /\ g[r].id = r.id /\ g[r].purpose = r.purpose
        /\ g[r].uses = r.uses /\ g[r].consumed = r.consumed
        /\ g[r].attempts = aCall[s].read + 1 /\ g[r].tries = r.tries + 1
        /\ g[r].overlapped = r.overlapped
  <2>1. aCall[s].read \in Nat
    BY DEF IdsInv, CallOK
  <2> QED  BY <2>1, RowBumped DEF IdsInv
<1> HIDE DEF g
<1>4. /\ \A x \in codes' : RowOK(x) /\ x.id <= lastId
      /\ \A x, y \in codes' : x.id = y.id => x = y
      /\ \A x \in codes' : \E r \in codes : /\ x.id = r.id /\ x.purpose = r.purpose
                                            /\ r.id = id => x = g[r]
                                            /\ r.id # id => x = r
  <2>1. KeepsIds(g)
    BY <1>3 DEF KeepsIds
  <2> QED  BY <1>1, <2>1, RowWritten
<1>5. IdsInv'
  BY <1>1, <1>2, <1>4, IdsKept DEF IdsInv
<1>6. \A x \in codes' : \E r \in codes :
        /\ x.id = r.id /\ x.purpose = r.purpose /\ x.uses = r.uses /\ x.consumed = r.consumed
        /\ x.overlapped = r.overlapped
        /\ r.id = id => x.attempts = aCall[s].read + 1 /\ x.tries = r.tries + 1
        /\ r.id # id => x.attempts = r.attempts /\ x.tries = r.tries
  BY <1>3, <1>4
<1>7. Accounts!VerificationsServeOnce'
  <2>1. \A r \in codes : r.id = id /\ ~r.overlapped => aCall[s].read = r.attempts
    BY <1>1 DEF ServeInv, Knows
  <2> QED  BY <1>6, <2>1 DEF ServeInv, Accounts!VerificationsServeOnce
<1>8. ASSUME NEW o \in Slot, NEW x \in codes', aCall'[o].row = x.id
      PROVE  Knows(o, x)'
  <2>1. PICK r \in codes :
          /\ x.id = r.id /\ x.purpose = r.purpose /\ x.uses = r.uses
          /\ x.overlapped = r.overlapped
          /\ r.id # id => x.attempts = r.attempts
    BY <1>6
  <2>2. CASE o = s
    BY <1>1, <1>2, <2>2 DEF Knows, Moves, SignupPcs, PasswordPcs
  <2>3. CASE o # s
    <3>1. Knows(o, r) /\ aCall'[o] = aCall[o] /\ aCall[o].row = r.id
      BY <1>1, <1>8, <2>1, <2>3 DEF ServeInv, Moves
    <3> QED  BY <1>1, <1>2, <2>1, <2>3, <3>1 DEF Knows, Moves, SignupPcs, PasswordPcs
  <2> QED  BY <2>2, <2>3
<1>9. \A x, o \in Slot : aCall'[x].pc = "commit" /\ aCall'[o].pc = "commit" => x = o
  BY <1>1, <1>2 DEF Moves, ServeInv
<1> QED  BY <1>5, <1>7, <1>8, <1>9 DEF ServeInv

\* A row that is verified is otherwise the same.
LEMMA VerifyCodeKeeps ==
    ASSUME IdsInv, ServeInv, NEW s \in Slot, Accounts!VerifyCode(s)
    PROVE  IdsInv' /\ ServeInv'
<1> DEFINE g == [x \in codes |-> [x EXCEPT !.verified = TRUE]]
           id == aCall[s].row
<1>1. Moves(s, Accounts!Idle) /\ UNCHANGED lastId
      /\ Rewrites(id, g)
      /\ tokens' = tokens \cup {[row |-> id, until |-> now + TOKEN_TTL]}
  <2>1. codes' = {IF r.id = id THEN [r EXCEPT !.verified = TRUE] ELSE r : r \in codes}
    BY DEF Accounts!VerifyCode, Accounts!SetRow
  <2>2. Rewrites(id, g)
    BY <2>1 DEF Rewrites
  <2> QED  BY <2>2, CallMoves DEF Accounts!VerifyCode
<1>2. CallOK(Accounts!Idle) /\ Accounts!Idle.row = 0 /\ Accounts!Idle.pc = "idle"
  BY DEF Accounts!Idle, CallOK, CallFields, Accounts!Purpose
<1>3. \A r \in codes :
        /\ RowOK(g[r]) /\ g[r].id = r.id /\ g[r].purpose = r.purpose
        /\ g[r].uses = r.uses /\ g[r].consumed = r.consumed
        /\ g[r].attempts = r.attempts /\ g[r].tries = r.tries
        /\ g[r].overlapped = r.overlapped
  BY DEF IdsInv, RowOK, RowFields
<1> HIDE DEF g
<1>4. /\ \A x \in codes' : RowOK(x) /\ x.id <= lastId
      /\ \A x, y \in codes' : x.id = y.id => x = y
      /\ \A x \in codes' : \E r \in codes : /\ x.id = r.id /\ x.purpose = r.purpose
                                            /\ r.id = id => x = g[r]
                                            /\ r.id # id => x = r
  <2>1. KeepsIds(g)
    BY <1>3 DEF KeepsIds
  <2> QED  BY <1>1, <2>1, RowWritten
<1>5. IdsInv'
  <2>1. \A t \in tokens' : t.row \in 0..lastId
    <3>1. id \in 0..lastId
      BY DEF IdsInv, CallOK
    <3> HIDE DEF id
    <3> QED  BY <1>1, <3>1 DEF IdsInv
  <2> QED  BY <1>1, <1>2, <1>4, <2>1 DEF IdsInv, Moves
<1>6. \A x \in codes' : \E r \in codes :
        /\ x.id = r.id /\ x.purpose = r.purpose /\ x.uses = r.uses /\ x.consumed = r.consumed
        /\ x.overlapped = r.overlapped /\ x.attempts = r.attempts /\ x.tries = r.tries
  BY <1>3, <1>4
<1>7. Accounts!VerificationsServeOnce'
  BY <1>6 DEF ServeInv, Accounts!VerificationsServeOnce
<1>8. ASSUME NEW o \in Slot, NEW x \in codes', aCall'[o].row = x.id
      PROVE  Knows(o, x)'
  <2>1. PICK r \in codes :
          /\ x.id = r.id /\ x.purpose = r.purpose /\ x.uses = r.uses
          /\ x.overlapped = r.overlapped /\ x.attempts = r.attempts
    BY <1>6
  <2>2. CASE o = s
    BY <1>1, <1>2, <2>2 DEF Knows, Moves, SignupPcs, PasswordPcs
  <2>3. CASE o # s
    <3>1. Knows(o, r) /\ aCall'[o] = aCall[o] /\ aCall[o].row = r.id
      BY <1>1, <1>8, <2>1, <2>3 DEF ServeInv, Moves
    <3> QED  BY <1>1, <1>2, <2>1, <2>3, <3>1 DEF Knows, Moves, SignupPcs, PasswordPcs
  <2> QED  BY <2>2, <2>3
<1>9. \A x, o \in Slot : aCall'[x].pc = "commit" /\ aCall'[o].pc = "commit" => x = o
  BY <1>1, <1>2 DEF Moves, ServeInv
<1> QED  BY <1>5, <1>7, <1>8, <1>9 DEF ServeInv

\* A commit serves the row its call was let in with.  Every other call that was let in
\* with it is seen by the row: another signup waits before its own commit, and a reset is
\* about a row of the other purpose.
LEMMA ServeKeeps ==
    ASSUME IdsInv, ServeInv, NEW s \in Slot, NEW pcs, Accounts!Serve(s, pcs), Moves(s, Accounts!Idle),
           UNCHANGED <<lastId, tokens>>,
           \/ aCall[s].pc = "commit" /\ pcs = {"group", "user"}
           \/ aCall[s].pc = "password" /\ pcs = {"find", "password"}
    PROVE  IdsInv' /\ ServeInv'
<1> DEFINE Crossed(x) == \E o \in Accounts!Others(s, pcs) : aCall[o].row = x.id
           g == [x \in codes |-> [x EXCEPT !.consumed = TRUE, !.uses = @ + 1,
                                           !.overlapped = @ \/ Crossed(x)]]
           id == aCall[s].row
<1>1. Rewrites(id, g)
  BY DEF Accounts!Serve, Accounts!SetRow, Rewrites
<1>2. CallOK(Accounts!Idle) /\ Accounts!Idle.row = 0 /\ Accounts!Idle.pc = "idle"
  BY DEF Accounts!Idle, CallOK, CallFields, Accounts!Purpose
<1>3. \A r \in codes :
        /\ RowOK(g[r]) /\ g[r].id = r.id /\ g[r].purpose = r.purpose
        /\ g[r].uses = r.uses + 1 /\ g[r].consumed = TRUE
        /\ g[r].attempts = r.attempts /\ g[r].tries = r.tries
        /\ g[r].overlapped = (r.overlapped \/ Crossed(r))
  <2> SUFFICES ASSUME NEW r \in codes
               PROVE  LET b == [r EXCEPT !.consumed = TRUE, !.uses = @ + 1,
                                         !.overlapped = @ \/ Crossed(r)] IN
                      /\ RowOK(b) /\ b.id = r.id /\ b.purpose = r.purpose
                      /\ b.uses = r.uses + 1 /\ b.consumed = TRUE
                      /\ b.attempts = r.attempts /\ b.tries = r.tries
                      /\ b.overlapped = (r.overlapped \/ Crossed(r))
    BY DEF g
  <2> DEFINE b == [r EXCEPT !.consumed = TRUE, !.uses = @ + 1, !.overlapped = @ \/ Crossed(r)]
  <2> HIDE DEF Crossed
  <2>1. RowOK(r)
    BY DEF IdsInv
  <2>2. /\ DOMAIN b = DOMAIN r /\ b.id = r.id /\ b.purpose = r.purpose
        /\ b.uses = r.uses + 1
        /\ b.attempts = r.attempts /\ b.tries = r.tries
    BY <2>1 DEF RowOK, RowFields
  <2>3. b.consumed = TRUE /\ b.overlapped = (r.overlapped \/ Crossed(r))
    BY <2>1 DEF RowOK, RowFields
  <2> HIDE DEF b
  <2>4. b.consumed \in BOOLEAN /\ b.overlapped \in BOOLEAN
    BY <2>3, Zenon
  <2>5. RowOK(b)
    BY <2>1, <2>2, <2>4 DEF RowOK
  <2> QED  BY <2>2, <2>3, <2>5 DEF b
<1> HIDE DEF g, Crossed
<1>4. /\ \A x \in codes' : RowOK(x) /\ x.id <= lastId
      /\ \A x, y \in codes' : x.id = y.id => x = y
      /\ \A x \in codes' : \E r \in codes : /\ x.id = r.id /\ x.purpose = r.purpose
                                            /\ r.id = id => x = g[r]
                                            /\ r.id # id => x = r
  <2>1. KeepsIds(g)
    BY <1>3 DEF KeepsIds
  <2> QED  BY <1>1, <2>1, RowWritten
<1>5. IdsInv'
  BY <1>2, <1>4, IdsKept DEF IdsInv
<1>6. \A x \in codes' : \E r \in codes :
        /\ x.id = r.id /\ x.purpose = r.purpose
        /\ x.attempts = r.attempts /\ x.tries = r.tries
        /\ r.id = id => /\ x.uses = r.uses + 1 /\ x.consumed = TRUE
                        /\ x.overlapped = (r.overlapped \/ Crossed(r))
        /\ r.id # id => x.uses = r.uses /\ x.consumed = r.consumed /\ x.overlapped = r.overlapped
  BY <1>3, <1>4
<1>7. Accounts!VerificationsServeOnce'
  <2>1. \A r \in codes : r.id = id /\ ~r.overlapped => r.uses = 0
    BY DEF ServeInv, Knows, SignupPcs, PasswordPcs
  <2>2. \A r \in codes : r.uses \in Nat /\ r.overlapped \in BOOLEAN
    BY DEF IdsInv, RowOK
  <2> QED  BY <1>6, <2>1, <2>2 DEF ServeInv, Accounts!VerificationsServeOnce
<1>8. ASSUME NEW o \in Slot, NEW x \in codes', aCall'[o].row = x.id
      PROVE  Knows(o, x)'
  <2>1. PICK r \in codes :
          /\ x.id = r.id /\ x.purpose = r.purpose /\ x.attempts = r.attempts
          /\ r.id = id => x.overlapped = (r.overlapped \/ Crossed(r))
          /\ r.id # id => x.uses = r.uses /\ x.overlapped = r.overlapped
    BY <1>6
  <2>2. CASE o = s
    BY <1>2, <2>2 DEF Knows, Moves, SignupPcs, PasswordPcs
  <2>3. CASE o # s
    <3>1. Knows(o, r) /\ aCall'[o] = aCall[o] /\ aCall[o].row = r.id /\ r.overlapped \in BOOLEAN
      BY <1>8, <2>1, <2>3 DEF ServeInv, Moves, IdsInv, RowOK
    <3>2. r.id = id /\ aCall[o].pc \in SignupPcs \cup PasswordPcs => Crossed(r)
      <4>1. r.id = id => Knows(s, r)
        BY DEF ServeInv
      <4>2. aCall[s].pc = "commit" => aCall[o].pc # "commit"
        BY <2>3 DEF ServeInv
      <4>3. r.id = id /\ aCall[o].pc \in SignupPcs \cup PasswordPcs => aCall[o].pc \in pcs
        BY <3>1, <4>1, <4>2 DEF Knows, SignupPcs, PasswordPcs
      <4> QED  BY <2>3, <3>1, <4>3 DEF Crossed, Accounts!Others
    <3>3. x.overlapped = FALSE => r.overlapped = FALSE
      BY <2>1, <3>1
    <3> QED  BY <1>2, <2>1, <2>3, <3>1, <3>2, <3>3 DEF Knows, Moves, SignupPcs, PasswordPcs
  <2> QED  BY <2>2, <2>3
<1>9. \A x, o \in Slot : aCall'[x].pc = "commit" /\ aCall'[o].pc = "commit" => x = o
  BY <1>2 DEF Moves, ServeInv
<1> QED  BY <1>5, <1>7, <1>8, <1>9 DEF ServeInv

-----------------------------------------------------------------------------
(* Every step keeps what the calls know.                                   *)

\* A call ends, and the rows stay or are deleted.
LEMMA CallEnds ==
    ASSUME IdsInv, ServeInv, NEW s \in Slot, Moves(s, Accounts!Idle), codes' \subseteq codes,
           UNCHANGED <<lastId, tokens>>
    PROVE  IdsInv' /\ ServeInv'
<1>1. CallOK(Accounts!Idle) /\ Accounts!Idle.row = 0 /\ Accounts!Idle.pc = "idle"
  BY DEF Accounts!Idle, CallOK, CallFields, Accounts!Purpose
<1>2. IdsInv'
  BY <1>1, IdsKept DEF IdsInv
<1> QED  BY <1>1, <1>2, ServeQuiet DEF SignupPcs, PasswordPcs

\* A call goes on, in a place where it serves nothing.
LEMMA CallGoesQuietly ==
    ASSUME IdsInv, ServeInv, NEW s \in Slot, NEW pc, Accounts!To(s, pc),
           pc \notin SignupPcs \cup PasswordPcs \cup {"bump"},
           UNCHANGED <<codes, lastId, tokens>>
    PROVE  IdsInv' /\ ServeInv'
<1> DEFINE c == [aCall[s] EXCEPT !.pc = pc]
<1>1. Moves(s, c) /\ CallOK(c) /\ c.pc = pc /\ c.row = aCall[s].row
  BY CallMoves, CallGoesOn
<1> HIDE DEF c
<1>2. IdsInv'
  BY <1>1, IdsKept DEF IdsInv
<1> QED  BY <1>1, <1>2, ServeQuiet

\* A call starts, in a place where it serves nothing.
LEMMA CallStarts ==
    ASSUME IdsInv, ServeInv, NEW s \in Slot, NEW c, Accounts!Start(s, c), CallOK(c), c.row = 0,
           c.pc \notin SignupPcs \cup PasswordPcs \cup {"bump"},
           UNCHANGED <<codes, lastId, tokens>>
    PROVE  IdsInv' /\ ServeInv'
<1>1. Moves(s, c)
  BY CallMoves
<1>2. IdsInv'
  BY <1>1, IdsKept DEF IdsInv
<1> QED  BY <1>1, <1>2, ServeQuiet

\* createUser and resetPassword look at the row that their token names.
LEMMA CallStartsToServe ==
    ASSUME IdsInv, ServeInv, NEW s \in Slot, NEW c, Accounts!Start(s, c), CallOK(c),
           NEW t \in tokens, c.row = t.row, c.pc \in {"group", "find"},
           Accounts!Verified(t, IF c.pc = "group" THEN "signup" ELSE "password_reset"),
           UNCHANGED <<codes, lastId, tokens>>
    PROVE  IdsInv' /\ ServeInv'
<1>1. Moves(s, c)
  BY CallMoves
<1>2. IdsInv'
  <2>1. c.row <= lastId
    BY DEF IdsInv
  <2> QED  BY <1>1, <2>1, IdsKept DEF IdsInv
<1>3. PICK r \in codes : c.row = r.id /\ ~r.consumed
                         /\ r.purpose = IF c.pc = "group" THEN "signup" ELSE "password_reset"
  BY RowIsTheOne DEF Accounts!Verified
<1> QED  BY <1>1, <1>2, <1>3, ServeStarts

\* A call goes on to serve.
LEMMA CallServesOn ==
    ASSUME IdsInv, ServeInv, NEW s \in Slot, NEW pc, Accounts!To(s, pc),
           UNCHANGED <<codes, lastId, tokens>>,
           \/ aCall[s].pc \in {"group", "user"} /\ pc \in {"user", "commit"}
           \/ aCall[s].pc = "find" /\ pc = "password",
           pc = "commit" => Accounts!Others(s, {"commit"}) = {}
    PROVE  IdsInv' /\ ServeInv'
<1> DEFINE c == [aCall[s] EXCEPT !.pc = pc]
<1>1. Moves(s, c) /\ CallOK(c) /\ c.row = aCall[s].row
  BY CallMoves, CallGoesOn
<1>2. ServeInv'
  BY <1>1, ServeGoesOn
<1> HIDE DEF c
<1> QED  BY <1>1, <1>2, IdsKept DEF IdsInv

\* The requests for a code.
LEMMA CodeStepsKeep ==
    ASSUME IdsInv, ServeInv, NEW s \in Slot,
           \/ \E p \in Accounts!Purpose : Accounts!RequestCode(s, p)
           \/ Accounts!ReadLatest(s) \/ Accounts!CountDay(s)
           \/ \E ok \in BOOLEAN : Accounts!SendMail(s, ok)
    PROVE  IdsInv' /\ ServeInv'
<1>1. ASSUME NEW p \in Accounts!Purpose, Accounts!RequestCode(s, p)
      PROVE  IdsInv' /\ ServeInv'
  <2> DEFINE c == [Accounts!Idle EXCEPT !.pc = "latest", !.purpose = p, !.since = now]
  <2>1. CallOK(c) /\ c.pc = "latest" /\ c.row = 0
    BY DEF Accounts!Idle, CallOK, CallFields
  <2>2. Accounts!Start(s, c) /\ UNCHANGED <<codes, lastId, tokens>>
    BY <1>1 DEF Accounts!RequestCode, Accounts!data
  <2> HIDE DEF c
  <2> QED  BY <2>1, <2>2, CallStarts DEF SignupPcs, PasswordPcs
<1>2. ASSUME Accounts!End(s), UNCHANGED <<codes, lastId, tokens>>
      PROVE  IdsInv' /\ ServeInv'
  BY <1>2, CallMoves, CallEnds
<1>3. ASSUME aCall' = [aCall EXCEPT ![s].pc = "count", ![s].seen = lastId],
             UNCHANGED <<codes, lastId, tokens>>
      PROVE  IdsInv' /\ ServeInv'
  <2> DEFINE c == [aCall[s] EXCEPT !.pc = "count", !.seen = lastId]
  <2>1. Moves(s, c) /\ CallOK(c) /\ c.pc = "count" /\ c.row = aCall[s].row
    BY <1>3 DEF IdsInv, Moves, CallOK, CallFields
  <2> HIDE DEF c
  <2>2. IdsInv'
    BY <1>3, <2>1, IdsKept DEF IdsInv
  <2> QED  BY <1>3, <2>1, <2>2, ServeQuiet DEF SignupPcs, PasswordPcs
<1>4. ASSUME NEW pc \in {"save", "undo"}, Accounts!To(s, pc), UNCHANGED <<codes, lastId, tokens>>
      PROVE  IdsInv' /\ ServeInv'
  BY <1>4, CallGoesQuietly DEF SignupPcs, PasswordPcs
<1>5. CASE Accounts!ReadLatest(s)
  BY <1>2, <1>3, <1>5 DEF Accounts!ReadLatest, Accounts!data
<1>6. CASE Accounts!CountDay(s)
  BY <1>2, <1>4, <1>6 DEF Accounts!CountDay, Accounts!data
<1>7. CASE \E ok \in BOOLEAN : Accounts!SendMail(s, ok)
  BY <1>2, <1>4, <1>7 DEF Accounts!SendMail
<1> QED  BY <1>1, <1>5, <1>6, <1>7

\* The signup, the reset and what has nothing to do with a code.
LEMMA UserStepsKeep ==
    ASSUME IdsInv, ServeInv, NEW s \in Slot,
           \/ \E t \in tokens : Accounts!ResetPassword(s, t) \/ \E n \in GroupName : Accounts!CreateUser(s, t, n)
           \/ Accounts!InsertGroup(s) \/ Accounts!InsertUser(s) \/ Accounts!CommitUser(s) \/ Accounts!FindUser(s)
           \/ Accounts!CommitPassword(s)
           \/ \E n \in GroupName : Accounts!CreateGroup(s, n)
           \/ Accounts!SeedGroup(s) \/ Accounts!Boot(s) \/ Accounts!CountTemplate(s) \/ Accounts!SeedTemplate(s) \/ Accounts!Fail(s)
    PROVE  IdsInv' /\ ServeInv'
<1>1. ASSUME NEW t \in tokens, NEW n \in GroupName, Accounts!CreateUser(s, t, n)
      PROVE  IdsInv' /\ ServeInv'
  <2> DEFINE c == [Accounts!Idle EXCEPT !.pc = "group", !.row = t.row, !.name = n]
  <2>1. CallOK(c) /\ c.pc = "group" /\ c.row = t.row
    <3>1. t.row \in Nat
      BY DEF IdsInv
    <3> QED  BY <3>1 DEF Accounts!Idle, CallOK, CallFields, Accounts!Purpose
  <2>2. Accounts!Start(s, c) /\ Accounts!Verified(t, "signup") /\ UNCHANGED <<codes, lastId, tokens>>
    BY <1>1 DEF Accounts!CreateUser, Accounts!data
  <2> HIDE DEF c
  <2> QED  BY <2>1, <2>2, CallStartsToServe
<1>2. ASSUME NEW t \in tokens, Accounts!ResetPassword(s, t)
      PROVE  IdsInv' /\ ServeInv'
  <2> DEFINE c == [Accounts!Idle EXCEPT !.pc = "find", !.row = t.row]
  <2>1. CallOK(c) /\ c.pc = "find" /\ c.row = t.row
    <3>1. t.row \in Nat
      BY DEF IdsInv
    <3> QED  BY <3>1 DEF Accounts!Idle, CallOK, CallFields, Accounts!Purpose
  <2>2. Accounts!Start(s, c) /\ Accounts!Verified(t, "password_reset") /\ UNCHANGED <<codes, lastId, tokens>>
    BY <1>2 DEF Accounts!ResetPassword, Accounts!data
  <2> HIDE DEF c
  <2> QED  BY <2>1, <2>2, CallStartsToServe
<1>3. ASSUME Accounts!End(s), UNCHANGED <<codes, lastId, tokens>>
      PROVE  IdsInv' /\ ServeInv'
  BY <1>3, CallMoves, CallEnds
<1>4. CASE Accounts!InsertGroup(s)
  BY <1>3, <1>4, CallServesOn DEF Accounts!InsertGroup, Accounts!data
<1>5. CASE Accounts!InsertUser(s)
  BY <1>3, <1>5, CallServesOn DEF Accounts!InsertUser, Accounts!data
<1>6. CASE Accounts!FindUser(s)
  BY <1>3, <1>6, CallServesOn DEF Accounts!FindUser, Accounts!data
<1>7. CASE Accounts!CommitUser(s)
  BY <1>7, CallMoves, ServeKeeps DEF Accounts!CommitUser
<1>8. CASE Accounts!CommitPassword(s)
  BY <1>8, CallMoves, ServeKeeps DEF Accounts!CommitPassword
<1>9. ASSUME NEW n \in GroupName, Accounts!CreateGroup(s, n)
      PROVE  IdsInv' /\ ServeInv'
  <2> DEFINE c == [Accounts!Idle EXCEPT !.pc = "seed", !.name = n]
  <2>1. CallOK(c) /\ c.pc = "seed" /\ c.row = 0
    BY DEF Accounts!Idle, CallOK, CallFields, Accounts!Purpose
  <2>2. Accounts!Start(s, c) /\ UNCHANGED <<codes, lastId, tokens>>
    BY <1>9 DEF Accounts!CreateGroup
  <2> HIDE DEF c
  <2> QED  BY <2>1, <2>2, CallStarts DEF SignupPcs, PasswordPcs
<1>10. CASE Accounts!Boot(s)
  <2> DEFINE c == [Accounts!Idle EXCEPT !.pc = "template"]
  <2>1. CallOK(c) /\ c.pc = "template" /\ c.row = 0
    BY DEF Accounts!Idle, CallOK, CallFields, Accounts!Purpose
  <2>2. Accounts!Start(s, c) /\ UNCHANGED <<codes, lastId, tokens>>
    BY <1>10 DEF Accounts!Boot, Accounts!data
  <2> HIDE DEF c
  <2> QED  BY <2>1, <2>2, CallStarts DEF SignupPcs, PasswordPcs
<1>11. CASE Accounts!CountTemplate(s)
  BY <1>3, <1>11, CallGoesQuietly DEF Accounts!CountTemplate, Accounts!data, SignupPcs, PasswordPcs
<1>12. CASE Accounts!SeedGroup(s) \/ Accounts!SeedTemplate(s) \/ Accounts!Fail(s)
  BY <1>3, <1>12 DEF Accounts!SeedGroup, Accounts!SeedTemplate, Accounts!Fail
<1> QED  BY <1>1, <1>2, <1>4, <1>5, <1>6, <1>7, <1>8, <1>9, <1>10, <1>11, <1>12

\* Every step keeps the ids good and what the calls know true.
LEMMA NextKeepsServe ==
    ASSUME IdsInv, ServeInv, [Accounts!Next]_Accounts!vars
    PROVE  IdsInv' /\ ServeInv'
<1>1. ASSUME UNCHANGED <<codes, lastId, tokens, aCall>>
      PROVE  IdsInv' /\ ServeInv'
  BY <1>1 DEF IdsInv, ServeInv, Accounts!VerificationsServeOnce, Knows
<1>2. CASE Accounts!Tick \/ Accounts!DeleteUser \/ UNCHANGED Accounts!vars
  BY <1>1, <1>2 DEF Accounts!Tick, Accounts!DeleteUser, Accounts!vars, Accounts!data
<1>3. ASSUME NEW s \in Slot, Accounts!Step(s)
      PROVE  IdsInv' /\ ServeInv'
  BY <1>3, CodeStepsKeep, UserStepsKeep, SaveCodeKeeps, UndoCodeKeeps, ConfirmCodeKeeps,
     BumpAttemptsKeeps, VerifyCodeKeeps DEF Accounts!Step
<1> QED  BY <1>2, <1>3 DEF Accounts!Next

\* Nothing is known of a row at the beginning.
LEMMA InitServe ==
    ASSUME Accounts!Init
    PROVE  IdsInv /\ ServeInv
<1>1. CallOK(Accounts!Idle) /\ Accounts!Idle.row = 0 /\ Accounts!Idle.pc = "idle"
  BY DEF Accounts!Idle, CallOK, CallFields, Accounts!Purpose
<1>2. DOMAIN aCall = Slot /\ \A s \in Slot : aCall[s] = Accounts!Idle
  BY DEF Accounts!Init
<1> QED  BY <1>1, <1>2 DEF Accounts!Init, IdsInv, ServeInv, Accounts!VerificationsServeOnce

\* Unless two of its calls overlap, a code that was confirmed serves one signup or one
\* reset, and every wrong code counts (verifyCode, assertVerified and markConsumed of
\* EmailVerificationService, which lock nothing).
THEOREM VerificationServesOnce ==
    Accounts!Spec => []Accounts!VerificationsServeOnce
<1>1. Accounts!Init => IdsInv /\ ServeInv
  BY InitServe
<1>2. IdsInv /\ ServeInv /\ [Accounts!Next]_Accounts!vars => (IdsInv /\ ServeInv)'
  BY NextKeepsServe
<1>3. ServeInv => Accounts!VerificationsServeOnce
  BY DEF ServeInv
<1> QED  BY <1>1, <1>2, <1>3, PTL DEF Accounts!Spec

-----------------------------------------------------------------------------
(* Groups.                                                                 *)

NamePcs     == {"user", "commit"}
TemplatePcs == {"template", "empty"}

\* A call that holds no name and no lock changes nothing about groups.
LEMMA GroupsQuiet ==
    ASSUME IdsInv, GroupsInv, NEW s \in Slot, NEW c, Moves(s, c),
           c.pc \notin NamePcs \cup TemplatePcs, UNCHANGED <<groups, template>>,
           account' \in {account, "none"}
    PROVE  GroupsInv'
  BY DEF GroupsInv, Accounts!GroupsStartWhole, Accounts!Named, Moves, NamePcs, TemplatePcs

\* A transaction that inserts the name of a group has it to itself.
LEMMA InsertGroupKeeps ==
    ASSUME IdsInv, GroupsInv, NEW s \in Slot, Accounts!InsertGroup(s)
    PROVE  GroupsInv'
<1>1. CASE Accounts!End(s)
  <2>1. Moves(s, Accounts!Idle) /\ Accounts!Idle.pc = "idle"
    BY <1>1, CallMoves DEF Accounts!Idle
  <2> QED  BY <2>1, GroupsQuiet DEF Accounts!InsertGroup, Accounts!data, NamePcs, TemplatePcs
<1>2. CASE Accounts!To(s, "user") /\ ~Accounts!Named(aCall[s].name)
  <2> DEFINE c == [aCall[s] EXCEPT !.pc = "user"]
  <2>1. Moves(s, c) /\ c.pc = "user" /\ c.name = aCall[s].name
    BY <1>2, CallMoves, CallGoesOn
  <2> HIDE DEF c
  <2>2. \A o \in Slot \ {s} : aCall[o].pc \in {"user", "commit"} => aCall[o].name # aCall[s].name
    BY DEF Accounts!InsertGroup, Accounts!Others
  <2>3. UNCHANGED <<groups, template, account>>
    BY DEF Accounts!InsertGroup, Accounts!data
  <2> QED  BY <1>2, <2>1, <2>2, <2>3 DEF GroupsInv, Accounts!GroupsStartWhole, Accounts!Named, Moves
<1> QED  BY <1>1, <1>2 DEF Accounts!InsertGroup

\* It goes on with the name.
LEMMA InsertUserKeeps ==
    ASSUME IdsInv, GroupsInv, NEW s \in Slot, Accounts!InsertUser(s)
    PROVE  GroupsInv'
<1>1. CASE Accounts!End(s)
  <2>1. Moves(s, Accounts!Idle) /\ Accounts!Idle.pc = "idle"
    BY <1>1, CallMoves DEF Accounts!Idle
  <2> QED  BY <2>1, GroupsQuiet DEF Accounts!InsertUser, Accounts!data, NamePcs, TemplatePcs
<1>2. CASE Accounts!To(s, "commit")
  <2> DEFINE c == [aCall[s] EXCEPT !.pc = "commit"]
  <2>1. Moves(s, c) /\ c.pc = "commit" /\ c.name = aCall[s].name
    BY <1>2, CallMoves, CallGoesOn
  <2> HIDE DEF c
  <2>2. UNCHANGED <<groups, template, account>> /\ aCall[s].pc = "user"
    BY DEF Accounts!InsertUser, Accounts!data
  <2> QED  BY <2>1, <2>2 DEF GroupsInv, Accounts!GroupsStartWhole, Accounts!Named, Moves
<1> QED  BY <1>1, <1>2 DEF Accounts!InsertUser

\* The group of a signup is stored with its items.
LEMMA CommitUserKeepsGroups ==
    ASSUME IdsInv, GroupsInv, NEW s \in Slot, Accounts!CommitUser(s)
    PROVE  GroupsInv'
<1> DEFINE new == [name |-> aCall[s].name, signup |-> TRUE, items |-> Accounts!Seeded]
<1>1. Moves(s, Accounts!Idle) /\ Accounts!Idle.pc = "idle" /\ aCall[s].pc = "commit"
  BY CallMoves DEF Accounts!CommitUser, Accounts!Idle
<1>2. /\ {"name", "signup", "items"} \subseteq DOMAIN new
      /\ new.name = aCall[s].name /\ new.signup = TRUE /\ new.items = 1
  BY DEF Accounts!Seeded, GroupsInv
<1>3. groups' = groups \cup {new} /\ account' = new.name /\ template' = template
  BY DEF Accounts!CommitUser
<1> HIDE DEF new
<1>4. /\ \A g \in groups : g.name # new.name
      /\ \A o \in Slot \ {s} : aCall[o].pc \in {"user", "commit"} => aCall[o].name # new.name
  BY <1>1, <1>2 DEF GroupsInv, Accounts!Named
<1>5. Accounts!GroupsStartWhole'
  BY <1>2, <1>3, <1>4 DEF GroupsInv, Accounts!GroupsStartWhole
<1>6. (\A o \in Slot : aCall[o].pc \in {"user", "commit"} => ~Accounts!Named(aCall[o].name))'
  BY <1>1, <1>3, <1>4 DEF GroupsInv, Accounts!Named, Moves
<1> QED  BY <1>1, <1>2, <1>3, <1>5, <1>6 DEF GroupsInv, Moves

\* A group of its own is stored without its items, under a name nobody has.
LEMMA CreateGroupKeeps ==
    ASSUME IdsInv, GroupsInv, NEW s \in Slot, NEW n \in GroupName, Accounts!CreateGroup(s, n)
    PROVE  GroupsInv'
<1> DEFINE new == [name |-> n, signup |-> FALSE, items |-> 0]
           c   == [Accounts!Idle EXCEPT !.pc = "seed", !.name = n]
<1>1. Moves(s, c) /\ c.pc = "seed"
  BY CallMoves DEF Accounts!CreateGroup, Accounts!Idle
<1>2. /\ {"name", "signup", "items"} \subseteq DOMAIN new
      /\ new.name = n /\ new.signup = FALSE
  OBVIOUS
<1>3. groups' = groups \cup {new} /\ account' = account /\ template' = template
  BY DEF Accounts!CreateGroup
<1>4. /\ \A g \in groups : g.name # n
      /\ \A o \in Slot \ {s} : aCall[o].pc \in {"user", "commit"} => aCall[o].name # n
  BY DEF Accounts!CreateGroup, Accounts!Named, Accounts!Others
<1> HIDE DEF new, c
<1>5. Accounts!GroupsStartWhole'
  BY <1>2, <1>3, <1>4 DEF GroupsInv, Accounts!GroupsStartWhole
<1>6. (\A o \in Slot : aCall[o].pc \in {"user", "commit"} => ~Accounts!Named(aCall[o].name))'
  BY <1>1, <1>2, <1>3, <1>4 DEF GroupsInv, Accounts!Named, Moves
<1> QED  BY <1>1, <1>2, <1>3, <1>5, <1>6 DEF GroupsInv, Moves

\* Its items are stored by a second transaction.
LEMMA SeedGroupKeeps ==
    ASSUME IdsInv, GroupsInv, NEW s \in Slot, Accounts!SeedGroup(s)
    PROVE  GroupsInv'
<1>1. Moves(s, Accounts!Idle) /\ Accounts!Idle.pc = "idle"
  BY CallMoves DEF Accounts!SeedGroup, Accounts!Idle
<1>2. /\ groups' = {IF g.name = aCall[s].name THEN [g EXCEPT !.items = 1] ELSE g : g \in groups}
      /\ account' = account /\ template' = template
  BY DEF Accounts!SeedGroup, Accounts!Seeded, GroupsInv
<1>3. /\ \A h \in groups' : \E g \in groups :
           /\ {"name", "signup", "items"} \subseteq DOMAIN h
           /\ h = IF g.name = aCall[s].name THEN [g EXCEPT !.items = 1] ELSE g
           /\ h.name = g.name /\ h.signup = g.signup
           /\ h.items = g.items \/ h.items = 1
      /\ \A g \in groups : \E h \in groups' : h.name = g.name /\ h.signup = g.signup
  <2>1. \A g \in groups : LET h == [g EXCEPT !.items = 1] IN
          /\ {"name", "signup", "items"} \subseteq DOMAIN h
          /\ h.name = g.name /\ h.signup = g.signup /\ h.items = 1
    BY DEF GroupsInv
  <2>2. \A g \in groups : {"name", "signup", "items"} \subseteq DOMAIN g
    BY DEF GroupsInv
  <2>3. ASSUME NEW h \in groups'
        PROVE  \E g \in groups :
                 /\ {"name", "signup", "items"} \subseteq DOMAIN h
                 /\ h = IF g.name = aCall[s].name THEN [g EXCEPT !.items = 1] ELSE g
                 /\ h.name = g.name /\ h.signup = g.signup
                 /\ h.items = g.items \/ h.items = 1
    <3>1. PICK g \in groups : h = IF g.name = aCall[s].name THEN [g EXCEPT !.items = 1] ELSE g
      BY <1>2, <2>3
    <3> QED  BY <2>1, <2>2, <3>1
  <2>4. ASSUME NEW g \in groups
        PROVE  \E h \in groups' : h.name = g.name /\ h.signup = g.signup
    <3> DEFINE h == IF g.name = aCall[s].name THEN [g EXCEPT !.items = 1] ELSE g
    <3>1. h \in groups'
      BY <1>2
    <3>2. h.name = g.name /\ h.signup = g.signup
      BY <2>1
    <3> QED  BY <3>1, <3>2
  <2> QED  BY <2>3, <2>4
<1>4. \A g, h \in groups' : g.name = h.name => g = h
  BY <1>3 DEF GroupsInv, Accounts!GroupsStartWhole
<1>5. Accounts!GroupsStartWhole'
  <2>1. \A h \in groups' : h.signup => h.items = 1
    BY <1>3 DEF GroupsInv, Accounts!GroupsStartWhole
  <2>2. account' # "none" => \E h \in groups' : h.name = account' /\ h.signup
    BY <1>2, <1>3 DEF GroupsInv, Accounts!GroupsStartWhole
  <2> QED  BY <1>2, <1>4, <2>1, <2>2 DEF GroupsInv, Accounts!GroupsStartWhole
<1>6. \A n : Accounts!Named(n)' => Accounts!Named(n)
  BY <1>3 DEF Accounts!Named
<1> QED  BY <1>1, <1>2, <1>3, <1>5, <1>6 DEF GroupsInv, Moves

\* A server that starts takes the lock, counts and stores.
LEMMA TemplateStepsKeep ==
    ASSUME IdsInv, GroupsInv, NEW s \in Slot, Accounts!Boot(s) \/ Accounts!CountTemplate(s) \/ Accounts!SeedTemplate(s)
    PROVE  GroupsInv'
<1>1. CASE Accounts!Boot(s)
  <2> DEFINE c == [Accounts!Idle EXCEPT !.pc = "template"]
  <2>1. Moves(s, c) /\ c.pc = "template"
    BY <1>1, CallMoves DEF Accounts!Boot, Accounts!Idle
  <2> HIDE DEF c
  <2>2. UNCHANGED <<groups, template, account>>
    BY <1>1 DEF Accounts!Boot, Accounts!data
  <2>3. \A o \in Slot \ {s} : aCall[o].pc \notin {"template", "empty"}
    BY <1>1 DEF Accounts!Boot, Accounts!Locked, Accounts!Others
  <2> QED  BY <2>1, <2>2, <2>3 DEF GroupsInv, Accounts!GroupsStartWhole, Accounts!Named, Moves
<1>2. CASE Accounts!CountTemplate(s)
  <2>1. CASE Accounts!End(s)
    <3>1. Moves(s, Accounts!Idle) /\ Accounts!Idle.pc = "idle"
      BY <2>1, CallMoves DEF Accounts!Idle
    <3> QED  BY <1>2, <3>1, GroupsQuiet DEF Accounts!CountTemplate, Accounts!data, NamePcs,
        TemplatePcs
  <2>2. CASE Accounts!To(s, "empty") /\ ~(template > 0)
    <3> DEFINE c == [aCall[s] EXCEPT !.pc = "empty"]
    <3>1. Moves(s, c) /\ c.pc = "empty"
      BY <2>2, CallMoves, CallGoesOn
    <3> HIDE DEF c
    <3>2. UNCHANGED <<groups, template, account>> /\ aCall[s].pc = "template" /\ template = 0
      BY <1>2, <2>2 DEF Accounts!CountTemplate, Accounts!data, GroupsInv
    <3> QED  BY <3>1, <3>2 DEF GroupsInv, Accounts!GroupsStartWhole, Accounts!Named, Moves
  <2> QED  BY <1>2, <2>1, <2>2 DEF Accounts!CountTemplate
<1>3. CASE Accounts!SeedTemplate(s)
  <2>1. Moves(s, Accounts!Idle) /\ Accounts!Idle.pc = "idle"
    BY <1>3, CallMoves DEF Accounts!SeedTemplate, Accounts!Idle
  <2>2. aCall[s].pc = "empty" /\ template = 0 /\ template' = 1 /\ UNCHANGED <<groups, account>>
    BY <1>3 DEF Accounts!SeedTemplate, GroupsInv
  <2> QED  BY <2>1, <2>2 DEF GroupsInv, Accounts!GroupsStartWhole, Accounts!Named, Moves
<1> QED  BY <1>1, <1>2, <1>3

\* The steps that have nothing to do with groups.
LEMMA OtherStepsKeepGroups ==
    ASSUME IdsInv, GroupsInv, NEW s \in Slot,
           \/ \E p \in Accounts!Purpose : Accounts!RequestCode(s, p) \/ \E right \in BOOLEAN : Accounts!ConfirmCode(s, p, right)
           \/ Accounts!ReadLatest(s) \/ Accounts!CountDay(s) \/ Accounts!SaveCode(s)
           \/ \E ok \in BOOLEAN : Accounts!SendMail(s, ok)
           \/ Accounts!UndoCode(s) \/ Accounts!BumpAttempts(s) \/ Accounts!VerifyCode(s)
           \/ \E t \in tokens : Accounts!ResetPassword(s, t) \/ \E n \in GroupName : Accounts!CreateUser(s, t, n)
           \/ Accounts!FindUser(s) \/ Accounts!CommitPassword(s) \/ Accounts!Fail(s)
    PROVE  GroupsInv'
<1> DEFINE c == aCall'[s]
<1>1. UNCHANGED <<groups, template, account>>
  BY DEF Accounts!RequestCode, Accounts!ConfirmCode, Accounts!ReadLatest, Accounts!CountDay,
      Accounts!SaveCode, Accounts!SendMail, Accounts!UndoCode,
         Accounts!BumpAttempts, Accounts!VerifyCode, Accounts!ResetPassword, Accounts!CreateUser,
         Accounts!FindUser, Accounts!CommitPassword, Accounts!Fail, Accounts!data
<1>2. Moves(s, c)
  BY CallMoves
  DEF Accounts!RequestCode, Accounts!ConfirmCode, Accounts!ReadLatest, Accounts!CountDay,
      Accounts!SaveCode, Accounts!SendMail, Accounts!UndoCode,
      Accounts!BumpAttempts, Accounts!VerifyCode, Accounts!ResetPassword, Accounts!CreateUser,
      Accounts!FindUser, Accounts!CommitPassword, Accounts!Fail,
      Accounts!Start, Accounts!To, Accounts!End, Moves, IdsInv
<1>3. c.pc \in {"latest", "count", "save", "mail", "undo", "verify", "bump", "group", "find",
                "password", "idle"}
  <2>1. CASE \E p \in Accounts!Purpose : Accounts!RequestCode(s, p) \/ \E right \in BOOLEAN : Accounts!ConfirmCode(s, p, right)
    BY <2>1 DEF Accounts!RequestCode, Accounts!ConfirmCode, Accounts!Start, Accounts!Idle, IdsInv
  <2>2. CASE Accounts!ReadLatest(s) \/ Accounts!CountDay(s) \/ Accounts!SaveCode(s) \/ \E ok \in BOOLEAN : Accounts!SendMail(s, ok)
    BY <2>2 DEF Accounts!ReadLatest, Accounts!CountDay, Accounts!SaveCode, Accounts!SendMail,
        Accounts!To, Accounts!End, Accounts!Idle, IdsInv, CallOK, CallFields
  <2>3. CASE Accounts!UndoCode(s) \/ Accounts!BumpAttempts(s) \/ Accounts!VerifyCode(s) \/ Accounts!FindUser(s)
             \/ Accounts!CommitPassword(s) \/ Accounts!Fail(s)
    BY <2>3 DEF Accounts!UndoCode, Accounts!BumpAttempts, Accounts!VerifyCode, Accounts!FindUser,
        Accounts!CommitPassword, Accounts!Fail, Accounts!To, Accounts!End,
                Accounts!Idle, IdsInv, CallOK, CallFields
  <2>4. CASE \E t \in tokens : Accounts!ResetPassword(s, t) \/ \E n \in GroupName : Accounts!CreateUser(s, t, n)
    BY <2>4 DEF Accounts!ResetPassword, Accounts!CreateUser, Accounts!Start, Accounts!Idle, IdsInv
  <2> QED  BY <2>1, <2>2, <2>3, <2>4
<1> HIDE DEF c
<1>4. c.pc \notin NamePcs \cup TemplatePcs
  BY <1>3 DEF NamePcs, TemplatePcs
<1> QED  BY <1>1, <1>2, <1>4, GroupsQuiet

\* Every step keeps what is known about groups.
LEMMA NextKeepsGroups ==
    ASSUME IdsInv, GroupsInv, [Accounts!Next]_Accounts!vars
    PROVE  GroupsInv'
<1>1. CASE Accounts!Tick \/ Accounts!DeleteUser \/ UNCHANGED Accounts!vars
  <2>1. UNCHANGED <<aCall, groups, template>> /\ account' \in {account, "none"}
    BY <1>1 DEF Accounts!Tick, Accounts!DeleteUser, Accounts!vars, Accounts!data
  <2> QED  BY <2>1 DEF GroupsInv, Accounts!GroupsStartWhole, Accounts!Named
<1>2. ASSUME NEW s \in Slot, Accounts!Step(s)
      PROVE  GroupsInv'
  BY <1>2, InsertGroupKeeps, InsertUserKeeps, CommitUserKeepsGroups, CreateGroupKeeps,
     SeedGroupKeeps, TemplateStepsKeep, OtherStepsKeepGroups DEF Accounts!Step
<1> QED  BY <1>1, <1>2 DEF Accounts!Next

\* Groups are whole at first.
LEMMA InitGroups ==
    ASSUME Accounts!Init
    PROVE  GroupsInv
<1>1. \A s \in Slot : aCall[s].pc = "idle"
  BY DEF Accounts!Init, Accounts!Idle
<1>2. CASE account = "none"
  BY <1>1, <1>2 DEF Accounts!Init, GroupsInv, Accounts!GroupsStartWhole
<1>3. CASE account # "none"
  <2> DEFINE first == [name |-> account, signup |-> TRUE, items |-> 1]
  <2>1. groups = {first} /\ template = 0
    BY <1>3 DEF Accounts!Init
  <2>2. /\ {"name", "signup", "items"} \subseteq DOMAIN first
        /\ first.name = account /\ first.signup = TRUE /\ first.items = 1
    OBVIOUS
  <2> HIDE DEF first
  <2> QED  BY <1>1, <2>1, <2>2 DEF GroupsInv, Accounts!GroupsStartWhole
<1> QED  BY <1>2, <1>3

\* The user has a group, the group of a signup begins with its items and has them once,
\* names are unique, and the template is stored once, however many transactions and
\* servers there are (createUser, createGroup, seedLogitemsForGroup, onModuleInit).
THEOREM GroupsBeginWhole ==
    Accounts!Spec => []Accounts!GroupsStartWhole
<1>1. Accounts!Init => GroupsInv
  BY InitGroups
<1>2. Accounts!Init => IdsInv /\ ServeInv
  BY InitServe
<1>3. IdsInv /\ ServeInv /\ [Accounts!Next]_Accounts!vars => (IdsInv /\ ServeInv)'
  BY NextKeepsServe
<1>4. IdsInv /\ GroupsInv /\ [Accounts!Next]_Accounts!vars => GroupsInv'
  BY NextKeepsGroups
<1>5. GroupsInv => Accounts!GroupsStartWhole
  BY DEF GroupsInv
<1> QED  BY <1>1, <1>2, <1>3, <1>4, <1>5, PTL DEF Accounts!Spec

-----------------------------------------------------------------------------
(* Codes are spaced.                                                       *)


\* Codes and calls are of the past, and what they have looked at was there.
TimesInv ==
    /\ now \in Nat
    /\ \A r \in codes : r.at \in Nat /\ r.at <= now /\ r.seen \in Nat /\ r.seen <= lastId
    /\ \A s \in Slot : aCall[s].since \in Nat /\ aCall[s].since <= now
                       /\ aCall[s].seen \in Nat /\ aCall[s].seen <= lastId

\* At a time t the codes up to an id are older than the wait.
Waited(p, n, t) == \A r \in codes : r.purpose = p /\ r.id <= n => t - r.at >= RESEND_COOLDOWN

\* The ids up to n of the codes that were asked for after t.
IdsSince(p, n, t) == {k \in 1..n : \E r \in codes : r.id = k /\ r.purpose = p /\ r.at > t}
Few(p, n, t)      == Accounts!Cardinality(IdsSince(p, n, t)) < DAILY_SEND_LIMIT

\* A request that has passed a check passes it as long as it runs, and so does its code.
SpacedWaitInv ==
    /\ \A x \in codes : Waited(x.purpose, x.seen, x.at)
    /\ \A s \in Slot : aCall[s].pc \in {"count", "save"} => Waited(aCall[s].purpose, aCall[s].seen, aCall[s].since)
LimitInv ==
    /\ \A x \in codes : Few(x.purpose, x.seen, x.at - DAY)
    /\ \A s \in Slot : aCall[s].pc = "save" => Few(aCall[s].purpose, aCall[s].seen, aCall[s].since - DAY)

\* A code that was neither mailed nor kept has a call that mails or deletes it.
MailPcs == {"mail", "undo"}
MailedInv == \A r \in codes : \/ r.id \in mailed \cup kept
                              \/ \E s \in Slot : aCall[s].pc \in MailPcs /\ aCall[s].row = r.id

SpacedInv == TimesInv /\ SpacedWaitInv /\ LimitInv /\ MailedInv

-----------------------------------------------------------------------------
\* Rows may be deleted, and get other marks.
RowsKept == \A x \in codes' : \E r \in codes : /\ x.id = r.id /\ x.purpose = r.purpose
                                               /\ x.at = r.at /\ x.seen = r.seen

\* What is asked of a call that runs on.
Spaced(c) ==
    /\ c.since \in Nat /\ c.since <= now /\ c.seen \in Nat /\ c.seen <= lastId
    /\ c.pc \in {"count", "save"} => Waited(c.purpose, c.seen, c.since)
    /\ c.pc = "save" => Few(c.purpose, c.seen, c.since - DAY)

\* Fewer codes were asked for after a later time, and none is new.
LEMMA FewerIds ==
    ASSUME NEW p, NEW n \in Nat, NEW t \in Int, NEW u \in Int, t <= u, CodeBounds,
           TimesInv, Few(p, n, t),
           \A x \in codes' : x.id \in 1..n => \E r \in codes : x.id = r.id /\ x.purpose = r.purpose /\ x.at = r.at
    PROVE  Accounts!Cardinality(IdsSince(p, n, u)') < DAILY_SEND_LIMIT
<1>1. IdsSince(p, n, u)' \subseteq IdsSince(p, n, t)
  BY DEF IdsSince, TimesInv
<1>2. Accounts!IsFiniteSet(IdsSince(p, n, t)) /\ Accounts!Cardinality(IdsSince(p, n, t)) \in Nat
  <2>1. Accounts!IsFiniteSet(1..n)
    BY AccountsInterval
  <2>2. Accounts!IsFiniteSet(IdsSince(p, n, t))
    BY <2>1, AccountsSubset DEF IdsSince
  <2> QED  BY <2>2, AccountsCardinalityType
<1>3. Accounts!IsFiniteSet(IdsSince(p, n, u)') /\ Accounts!Cardinality(IdsSince(p, n, u)') <= Accounts!Cardinality(IdsSince(p, n, t))
  BY <1>1, <1>2, AccountsSubset
<1>4. Accounts!Cardinality(IdsSince(p, n, u)') \in Nat
  BY <1>3, AccountsCardinalityType
<1> QED  BY <1>2, <1>3, <1>4 DEF Few, CodeBounds

\* Without a new code what was waited for, and what is few, stays so.
LEMMA ChecksStay ==
    ASSUME RowsKept, TimesInv, CodeBounds, NEW p, NEW n \in Nat, NEW t \in Int
    PROVE  /\ Waited(p, n, t) => Waited(p, n, t)'
           /\ Few(p, n, t) => Few(p, n, t)'
<1>1. Waited(p, n, t) => Waited(p, n, t)'
  BY DEF Waited, RowsKept
<1>2. ASSUME Few(p, n, t) PROVE Few(p, n, t)'
  <2>1. \A x \in codes' : x.id \in 1..n => \E r \in codes : x.id = r.id /\ x.purpose = r.purpose /\ x.at = r.at
    BY DEF RowsKept
  <2>2. Accounts!Cardinality(IdsSince(p, n, t)') < DAILY_SEND_LIMIT
    BY <1>2, <2>1, FewerIds
  <2> QED  BY <2>2 DEF Few
<1> QED  BY <1>1, <1>2

\* A call runs on, and no code is new.
LEMMA SpacingStays ==
    ASSUME CodeBounds, IdsInv, TimesInv, SpacedWaitInv, LimitInv, RowsKept, lastId' = lastId,
           now' \in Nat, now <= now', NEW s \in Slot, NEW c, Moves(s, c), Spaced(c)
    PROVE  TimesInv' /\ SpacedWaitInv' /\ LimitInv'
<1>1. \A o \in Slot : aCall'[o] = c \/ aCall'[o] = aCall[o]
  BY DEF Moves
<1>2. \A o \in Slot : Spaced(aCall[o])
  BY DEF TimesInv, SpacedWaitInv, LimitInv, Spaced
<1>3. \A o \in Slot : Spaced(aCall'[o])
  BY <1>1, <1>2
<1>4. TimesInv'
  <2>1. \A x \in codes' : x.at \in Nat /\ x.at <= now' /\ x.seen \in Nat /\ x.seen <= lastId
    BY DEF TimesInv, RowsKept
  <2>2. \A o \in Slot : aCall'[o].since \in Nat /\ aCall'[o].since <= now'
                        /\ aCall'[o].seen \in Nat /\ aCall'[o].seen <= lastId
    BY <1>3 DEF Spaced, TimesInv
  <2> QED  BY <2>1, <2>2 DEF TimesInv
<1>5. ASSUME NEW x \in codes'
      PROVE  Waited(x.purpose, x.seen, x.at)' /\ Few(x.purpose, x.seen, x.at - DAY)'
  <2>1. PICK r \in codes : x.id = r.id /\ x.purpose = r.purpose /\ x.at = r.at /\ x.seen = r.seen
    BY <1>5 DEF RowsKept
  <2>2. r.seen \in Nat /\ r.at \in Int /\ r.at - DAY \in Int
    BY DEF TimesInv, CodeBounds
  <2>3. Waited(r.purpose, r.seen, r.at) /\ Few(r.purpose, r.seen, r.at - DAY)
    BY DEF SpacedWaitInv, LimitInv
  <2>p. PICK p : p = r.purpose
    OBVIOUS
  <2>n. PICK n \in Nat : n = r.seen
    BY <2>2
  <2>t. PICK t \in Int : t = r.at
    BY <2>2
  <2>u. PICK u \in Int : u = r.at - DAY
    BY <2>2
  <2>4. Waited(p, n, t) /\ Few(p, n, u)
    BY <2>3, <2>p, <2>n, <2>t, <2>u
  <2>5. Waited(p, n, t)' /\ Few(p, n, u)'
    BY <2>4, ChecksStay
  <2>6. x.purpose = p /\ x.seen = n /\ x.at = t /\ x.at - DAY = u
    BY <2>1, <2>p, <2>n, <2>t, <2>u
  <2> QED  BY <2>5, <2>6 DEF Waited, Few, IdsSince
<1>6. ASSUME NEW o \in Slot
      PROVE  /\ (aCall[o].pc \in {"count", "save"} => Waited(aCall[o].purpose, aCall[o].seen, aCall[o].since))'
             /\ (aCall[o].pc = "save" => Few(aCall[o].purpose, aCall[o].seen, aCall[o].since - DAY))'
  <2>p. PICK p : p = aCall'[o].purpose
    OBVIOUS
  <2>n. PICK n \in Nat : n = aCall'[o].seen
    BY <1>3 DEF Spaced
  <2>t. PICK t \in Int : t = aCall'[o].since
    BY <1>3 DEF Spaced
  <2>u. PICK u \in Int : u = aCall'[o].since - DAY
    BY <2>t DEF CodeBounds
  <2>1. /\ aCall'[o].pc \in {"count", "save"} => Waited(p, n, t)
        /\ aCall'[o].pc = "save" => Few(p, n, u)
    BY <1>3, <2>p, <2>n, <2>t, <2>u DEF Spaced
  <2>2. /\ aCall'[o].pc \in {"count", "save"} => Waited(p, n, t)'
        /\ aCall'[o].pc = "save" => Few(p, n, u)'
    BY <2>1, ChecksStay
  <2> QED  BY <2>2, <2>p, <2>n, <2>t, <2>u DEF Waited, Few, IdsSince
<1> QED  BY <1>4, <1>5, <1>6 DEF SpacedWaitInv, LimitInv

-----------------------------------------------------------------------------
\* A step that marks or deletes rows, or none.
LEMMA MarksKeepRows ==
    ASSUME IdsInv, NEW s \in Slot,
           \/ UNCHANGED codes
           \/ Accounts!UndoCode(s) \/ Accounts!BumpAttempts(s) \/ Accounts!VerifyCode(s) \/ Accounts!CommitUser(s) \/ Accounts!CommitPassword(s)
           \/ \E p \in Accounts!Purpose, right \in BOOLEAN : Accounts!ConfirmCode(s, p, right)
    PROVE  RowsKept
<1>0. \A r \in codes : RowOK(r)
  BY DEF IdsInv
<1>1. CASE UNCHANGED codes \/ Accounts!UndoCode(s)
  BY <1>1 DEF Accounts!UndoCode, RowsKept
<1>2. CASE Accounts!BumpAttempts(s)
  <2> DEFINE b(r) == [r EXCEPT !.attempts = aCall[s].read + 1, !.tries = @ + 1]
  <2>1. \A x \in codes' : \E r \in codes : x = r \/ x = b(r)
    BY <1>2 DEF Accounts!BumpAttempts, Accounts!SetRow
  <2>2. \A r \in codes : b(r).id = r.id /\ b(r).purpose = r.purpose /\ b(r).at = r.at /\ b(r).seen = r.seen
    BY <1>0 DEF RowOK, RowFields
  <2> HIDE DEF b
  <2> QED  BY <2>1, <2>2 DEF RowsKept
<1>3. CASE Accounts!VerifyCode(s)
  <2> DEFINE b(r) == [r EXCEPT !.verified = TRUE]
  <2>1. \A x \in codes' : \E r \in codes : x = r \/ x = b(r)
    BY <1>3 DEF Accounts!VerifyCode, Accounts!SetRow
  <2>2. \A r \in codes : b(r).id = r.id /\ b(r).purpose = r.purpose /\ b(r).at = r.at /\ b(r).seen = r.seen
    BY <1>0 DEF RowOK, RowFields
  <2> HIDE DEF b
  <2> QED  BY <2>1, <2>2 DEF RowsKept
<1>4. ASSUME NEW pcs, Accounts!Serve(s, pcs)
      PROVE  RowsKept
  <2> DEFINE Crossed(x) == \E o \in Accounts!Others(s, pcs) : aCall[o].row = x.id
             b(r) == [r EXCEPT !.consumed = TRUE, !.uses = @ + 1, !.overlapped = @ \/ Crossed(r)]
  <2>1. \A x \in codes' : \E r \in codes : x = r \/ x = b(r)
    BY <1>4 DEF Accounts!Serve, Accounts!SetRow
  <2> HIDE DEF Crossed
  <2>2. \A r \in codes : b(r).id = r.id /\ b(r).purpose = r.purpose /\ b(r).at = r.at /\ b(r).seen = r.seen
    BY <1>0 DEF RowOK, RowFields
  <2> HIDE DEF b
  <2> QED  BY <2>1, <2>2 DEF RowsKept
<1>5. CASE Accounts!CommitUser(s) \/ Accounts!CommitPassword(s)
  BY <1>4, <1>5 DEF Accounts!CommitUser, Accounts!CommitPassword
<1>6. CASE \E p \in Accounts!Purpose, right \in BOOLEAN : Accounts!ConfirmCode(s, p, right)
  <2> DEFINE Crossed(x) == \E o \in Accounts!Others(s, {"bump"}) : aCall[o].row = x.id
             b(r) == [r EXCEPT !.overlapped = @ \/ Crossed(r)]
  <2>1. \A x \in codes' : \E r \in codes : x = r \/ x = b(r)
    BY <1>6 DEF Accounts!ConfirmCode, Accounts!SetRow
  <2> HIDE DEF Crossed
  <2>2. \A r \in codes : b(r).id = r.id /\ b(r).purpose = r.purpose /\ b(r).at = r.at /\ b(r).seen = r.seen
    BY <1>0 DEF RowOK, RowFields
  <2> HIDE DEF b
  <2> QED  BY <2>1, <2>2 DEF RowsKept
<1> QED  BY <1>1, <1>2, <1>3, <1>5, <1>6

\* A call that is over, or that begins now.
LEMMA IdleIsSpaced ==
    ASSUME TimesInv, lastId \in Nat
    PROVE  /\ Spaced(Accounts!Idle)
           /\ \A c : c.pc \notin {"count", "save"} /\ c.since \in {0, now} /\ c.seen = 0 => Spaced(c)
  BY DEF TimesInv, Spaced, Accounts!Idle

\* A call that goes on has looked at what it had looked at.
LEMMA GoingOnIsSpaced ==
    ASSUME IdsInv, TimesInv, SpacedWaitInv, NEW s \in Slot, NEW pc,
           pc \notin {"count", "save"} \/ (aCall[s].pc = "count" /\ Few(aCall[s].purpose, aCall[s].seen, aCall[s].since - DAY))
    PROVE  Spaced([aCall[s] EXCEPT !.pc = pc])
<1> DEFINE c == [aCall[s] EXCEPT !.pc = pc]
<1>1. /\ c.pc = pc /\ c.since = aCall[s].since /\ c.seen = aCall[s].seen /\ c.purpose = aCall[s].purpose
  BY DEF IdsInv, CallOK, CallFields
<1> HIDE DEF c
<1>2. aCall[s].since \in Nat /\ aCall[s].since <= now /\ aCall[s].seen \in Nat /\ aCall[s].seen <= lastId
  BY DEF TimesInv
<1>3. aCall[s].pc = "count" => Waited(aCall[s].purpose, aCall[s].seen, aCall[s].since)
  BY DEF SpacedWaitInv
<1>4. c.pc \in {"count", "save"} => Waited(c.purpose, c.seen, c.since)
  BY <1>1, <1>3
<1>5. c.pc = "save" => Few(c.purpose, c.seen, c.since - DAY)
  BY <1>1
<1> QED  BY <1>1, <1>2, <1>4, <1>5 DEF Spaced

\* The newest codes of a purpose are as new as any.
LEMMA LatestIsLatest ==
    ASSUME TimesInv, NEW p, NEW r \in codes, r.purpose = p
    PROVE  \E q \in Accounts!Latest(p) : r.at <= q.at
<1> DEFINE S == {x \in codes : x.purpose = p}
           T == {now - x.at : x \in S}
<1>0. \A x \in S : x.at \in Nat /\ x.at <= now /\ now \in Nat
  BY DEF TimesInv
<1>1. T \subseteq Nat /\ T # {}
  <2>1. \A x \in S : now - x.at \in Nat
    BY <1>0
  <2>2. r \in S
    OBVIOUS
  <2> QED  BY <2>1, <2>2
<1>2. PICK m \in T : \A y \in T : ~ (<<y, m>> \in OpToRel(<, Nat))
  <2> HIDE DEF T
  <2> QED  BY <1>1, NatLessThanWellFounded, WFMin
<1>3. \A y \in T : ~ (y < m)
  BY <1>1, <1>2 DEF OpToRel
<1>4. PICK q \in S : m = now - q.at
  BY <1>2
<1>5. \A x \in S : x.at <= q.at
  <2>1. \A x \in S : ~ (now - x.at < now - q.at)
    BY <1>3, <1>4
  <2> QED  BY <1>0, <2>1
<1>6. q \in Accounts!Latest(p)
  BY <1>5 DEF Accounts!Latest
<1> QED  BY <1>5, <1>6

\* As many rows as ids.
LEMMA AsManyIds ==
    ASSUME IdsInv, NEW T \in SUBSET codes
    PROVE  Accounts!IsFiniteSet({r.id : r \in T}) /\ Accounts!Cardinality({r.id : r \in T}) = Accounts!Cardinality(T)
<1> DEFINE I == {r.id : r \in T}
           f == [r \in T |-> r.id]
<1>0. \A r \in T : r.id \in 1..lastId
  BY DEF IdsInv, RowOK
<1>1. Accounts!IsFiniteSet(I)
  <2>1. Accounts!IsFiniteSet(1..lastId)
    BY AccountsInterval DEF IdsInv
  <2>2. I \subseteq 1..lastId
    BY <1>0
  <2> QED  BY <2>1, <2>2, AccountsSubset
<1>2. f \in [T -> I]
  OBVIOUS
<1>3. \A r, x \in T : f[r] = f[x] => r = x
  BY DEF IdsInv
<1>4. \A i \in I : \E r \in T : f[r] = i
  OBVIOUS
<1> HIDE DEF f, I
<1>5. f \in Injection(T, I) /\ f \in Surjection(T, I)
  BY <1>2, <1>3, <1>4 DEF Injection, Surjection, IsInjective
<1>6. Accounts!Cardinality(T) = Accounts!Cardinality(I)
  BY <1>1, <1>5, AccountsInjection
<1> QED  BY <1>1, <1>6 DEF I

-----------------------------------------------------------------------------
(* The steps of a request.                                                 *)

\* The newest row was looked at, and with it every row there is.
LEMMA ReadLatestKeeps ==
    ASSUME CodeBounds, IdsInv, TimesInv, SpacedWaitInv, LimitInv, NEW s \in Slot, Accounts!ReadLatest(s)
    PROVE  TimesInv' /\ SpacedWaitInv' /\ LimitInv'
<1>1. UNCHANGED <<now, codes, lastId>>
  BY DEF Accounts!ReadLatest, Accounts!data
<1>2. RowsKept /\ now' \in Nat /\ now <= now' /\ lastId \in Nat
  BY <1>1 DEF RowsKept, TimesInv, IdsInv
<1>3. CASE Accounts!End(s)
  <2>1. Moves(s, Accounts!Idle) /\ Spaced(Accounts!Idle)
    BY <1>2, <1>3, CallMoves, IdleIsSpaced
  <2> QED  BY <1>1, <1>2, <2>1, SpacingStays
<1>4. CASE /\ ~\E r \in Accounts!Latest(aCall[s].purpose) : aCall[s].since - r.at < RESEND_COOLDOWN
           /\ aCall' = [aCall EXCEPT ![s].pc = "count", ![s].seen = lastId]
  <2> DEFINE c == [aCall[s] EXCEPT !.pc = "count", !.seen = lastId]
  <2>1. Moves(s, c) /\ c.pc = "count" /\ c.seen = lastId /\ c.since = aCall[s].since
        /\ c.purpose = aCall[s].purpose
    BY <1>4 DEF IdsInv, Moves, CallOK, CallFields
  <2> HIDE DEF c
  <2>2. ASSUME NEW r \in codes, r.purpose = aCall[s].purpose
        PROVE  aCall[s].since - r.at >= RESEND_COOLDOWN
    <3>1. PICK q \in Accounts!Latest(aCall[s].purpose) : r.at <= q.at
      BY <2>2, LatestIsLatest
    <3>2. q \in codes /\ ~(aCall[s].since - q.at < RESEND_COOLDOWN)
      BY <1>4, <3>1 DEF Accounts!Latest
    <3> QED  BY <3>1, <3>2 DEF TimesInv, CodeBounds
  <2>3. Spaced(c)
    BY <1>2, <2>1, <2>2 DEF Spaced, Waited, TimesInv
  <2> QED  BY <1>1, <1>2, <2>1, <2>3, SpacingStays
<1> QED  BY <1>3, <1>4 DEF Accounts!ReadLatest

\* Of the codes it counts, those it had looked at are fewer than the limit.
LEMMA CountDayKeeps ==
    ASSUME CodeBounds, IdsInv, TimesInv, SpacedWaitInv, LimitInv, NEW s \in Slot, Accounts!CountDay(s)
    PROVE  TimesInv' /\ SpacedWaitInv' /\ LimitInv'
<1>1. UNCHANGED <<now, codes, lastId>> /\ aCall[s].pc = "count"
  BY DEF Accounts!CountDay, Accounts!data
<1>2. RowsKept /\ now' \in Nat /\ now <= now' /\ lastId \in Nat
  BY <1>1 DEF RowsKept, TimesInv, IdsInv
<1>3. CASE Accounts!End(s)
  <2>1. Moves(s, Accounts!Idle) /\ Spaced(Accounts!Idle)
    BY <1>2, <1>3, CallMoves, IdleIsSpaced
  <2> QED  BY <1>1, <1>2, <2>1, SpacingStays
<1>4. CASE ~(Accounts!Cardinality(Accounts!SentInLastDay(s)) >= DAILY_SEND_LIMIT) /\ Accounts!To(s, "save")
  <2> DEFINE T == Accounts!SentInLastDay(s)
             I == {r.id : r \in T}
             J == IdsSince(aCall[s].purpose, aCall[s].seen, aCall[s].since - DAY)
  <2>1. Accounts!IsFiniteSet(I) /\ Accounts!Cardinality(I) = Accounts!Cardinality(T)
    <3>1. T \in SUBSET codes
      BY DEF Accounts!SentInLastDay
    <3> HIDE DEF T
    <3> QED  BY <3>1, AsManyIds
  <2>2. J \subseteq I
    BY DEF IdsSince, Accounts!SentInLastDay
  <2>3. Accounts!IsFiniteSet(J) /\ Accounts!Cardinality(J) <= Accounts!Cardinality(I)
    BY <2>1, <2>2, AccountsSubset
  <2>4. Accounts!Cardinality(J) \in Nat /\ Accounts!Cardinality(I) \in Nat
    BY <2>1, <2>3, AccountsCardinalityType
  <2>5. Accounts!Cardinality(J) < DAILY_SEND_LIMIT
    <3> HIDE DEF T, I, J
    <3>1. ~(Accounts!Cardinality(T) >= DAILY_SEND_LIMIT)
      BY <1>4 DEF T
    <3> QED  BY <2>1, <2>3, <2>4, <3>1 DEF CodeBounds
  <2>6. Few(aCall[s].purpose, aCall[s].seen, aCall[s].since - DAY)
    BY <2>5 DEF Few
  <2>7. Moves(s, [aCall[s] EXCEPT !.pc = "save"]) /\ Spaced([aCall[s] EXCEPT !.pc = "save"])
    BY <1>1, <1>4, <2>6, CallMoves, GoingOnIsSpaced
  <2> QED  BY <1>1, <1>2, <2>7, SpacingStays
<1> QED  BY <1>3, <1>4 DEF Accounts!CountDay

\* A code that is stored has the checks of its request behind it, which were made at a
\* time that is not later.
LEMMA SaveCodeKeepsSpacing ==
    ASSUME CodeBounds, IdsInv, TimesInv, SpacedWaitInv, LimitInv, NEW s \in Slot, Accounts!SaveCode(s)
    PROVE  TimesInv' /\ SpacedWaitInv' /\ LimitInv'
<1> DEFINE c == [aCall[s] EXCEPT !.pc = "mail", !.row = lastId + 1]
           new == [id |-> lastId + 1, purpose |-> aCall[s].purpose, at |-> now,
                   expires |-> aCall[s].since + CODE_TTL, attempts |-> 0,
                   verified |-> FALSE, consumed |-> FALSE, seen |-> aCall[s].seen,
                   tries |-> 0, uses |-> 0, overlapped |-> FALSE]
<1>1. /\ Moves(s, c) /\ c.pc = "mail" /\ c.since = aCall[s].since /\ c.seen = aCall[s].seen
      /\ codes' = codes \cup {new} /\ lastId' = lastId + 1 /\ now' = now
      /\ new.id = lastId + 1 /\ new.purpose = aCall[s].purpose /\ new.at = now
      /\ new.seen = aCall[s].seen /\ aCall[s].pc = "save"
  BY DEF Accounts!SaveCode, Moves, IdsInv, CallOK, CallFields
<1> HIDE DEF c, new
<1>2. lastId \in Nat /\ now \in Nat /\ \A r \in codes : r.id \in Nat /\ r.id <= lastId
  BY DEF IdsInv, RowOK, TimesInv
<1>3. TimesInv'
  <2>1. \A x \in codes' : x.at \in Nat /\ x.at <= now' /\ x.seen \in Nat /\ x.seen <= lastId'
    BY <1>1, <1>2 DEF TimesInv
  <2>2. \A o \in Slot : /\ aCall'[o].since \in Nat /\ aCall'[o].since <= now'
                        /\ aCall'[o].seen \in Nat /\ aCall'[o].seen <= lastId'
    BY <1>1, <1>2 DEF TimesInv, Moves
  <2> QED  BY <1>1, <2>1, <2>2 DEF TimesInv
\* The new row was looked at by nobody.
<1>4. ASSUME NEW p, NEW n \in Nat, NEW t \in Int, n <= lastId
      PROVE  /\ Waited(p, n, t) => Waited(p, n, t)'
             /\ Few(p, n, t) => Few(p, n, t)'
  <2>1. Waited(p, n, t) => Waited(p, n, t)'
    BY <1>1, <1>2, <1>4 DEF Waited
  <2>2. \A x \in codes' : x.id \in 1..n => \E r \in codes : x.id = r.id /\ x.purpose = r.purpose /\ x.at = r.at
    BY <1>1, <1>2, <1>4
  <2>3. Few(p, n, t) => Few(p, n, t)'
    BY <2>2, FewerIds DEF Few
  <2> QED  BY <2>1, <2>3
<1>5. ASSUME NEW x \in codes'
      PROVE  Waited(x.purpose, x.seen, x.at)' /\ Few(x.purpose, x.seen, x.at - DAY)'
  <2>p. PICK p : p = x.purpose
    OBVIOUS
  <2>n. PICK n \in Nat : n = x.seen /\ n <= lastId
    BY <1>1 DEF TimesInv
  <2>t. PICK t \in Int : t = x.at
    BY <1>3 DEF TimesInv
  <2>u. PICK u \in Int : u = x.at - DAY
    BY <2>t DEF CodeBounds
  <2>1. CASE x \in codes
    <3>1. Waited(p, n, t) /\ Few(p, n, u)
      BY <2>1, <2>p, <2>n, <2>t, <2>u DEF SpacedWaitInv, LimitInv
    <3>2. Waited(p, n, t)' /\ Few(p, n, u)'
      BY <1>4, <2>n, <3>1
    <3> QED  BY <2>p, <2>n, <2>t, <2>u, <3>2 DEF Waited, Few, IdsSince
  <2>2. CASE x = new
    <3>1. PICK v \in Int : v = aCall[s].since - DAY
      BY DEF TimesInv, CodeBounds
    <3>2. aCall[s].since \in Nat /\ aCall[s].since <= t /\ v <= u
      BY <1>1, <2>2, <2>t, <2>u, <3>1 DEF TimesInv, CodeBounds
    <3>3. Waited(p, n, aCall[s].since) /\ Few(p, n, v)
      BY <1>1, <2>2, <2>p, <2>n, <3>1 DEF SpacedWaitInv, LimitInv
    <3>4. Waited(p, n, t)
      BY <2>t, <3>2, <3>3 DEF Waited, TimesInv, CodeBounds
    <3>5. \A y \in codes' : y.id \in 1..n => \E r \in codes : y.id = r.id /\ y.purpose = r.purpose /\ y.at = r.at
      BY <1>1, <1>2, <2>n
    <3>6. Accounts!Cardinality(IdsSince(p, n, u)') < DAILY_SEND_LIMIT
      BY <3>2, <3>3, <3>5, FewerIds
    <3>7. Waited(p, n, t)' /\ Few(p, n, u)'
      BY <1>4, <2>n, <3>4, <3>6 DEF Few
    <3> QED  BY <2>p, <2>n, <2>t, <2>u, <3>7 DEF Waited, Few, IdsSince
  <2> QED  BY <1>1, <2>1, <2>2
<1>6. ASSUME NEW o \in Slot
      PROVE  /\ (aCall[o].pc \in {"count", "save"} => Waited(aCall[o].purpose, aCall[o].seen, aCall[o].since))'
             /\ (aCall[o].pc = "save" => Few(aCall[o].purpose, aCall[o].seen, aCall[o].since - DAY))'
  <2>1. CASE o = s
    BY <1>1, <2>1 DEF Moves
  <2>2. CASE o # s
    <3>0. aCall'[o] = aCall[o]
      BY <1>1, <2>2 DEF Moves
    <3>p. PICK p : p = aCall[o].purpose
      OBVIOUS
    <3>n. PICK n \in Nat : n = aCall[o].seen /\ n <= lastId
      BY DEF TimesInv
    <3>t. PICK t \in Int : t = aCall[o].since
      BY DEF TimesInv
    <3>u. PICK u \in Int : u = aCall[o].since - DAY
      BY <3>t DEF CodeBounds
    <3>1. /\ aCall[o].pc \in {"count", "save"} => Waited(p, n, t)
          /\ aCall[o].pc = "save" => Few(p, n, u)
      BY <3>p, <3>n, <3>t, <3>u DEF SpacedWaitInv, LimitInv
    <3>2. /\ aCall[o].pc \in {"count", "save"} => Waited(p, n, t)'
          /\ aCall[o].pc = "save" => Few(p, n, u)'
      BY <1>4, <3>n, <3>1
    <3> QED  BY <3>0, <3>2, <3>p, <3>n, <3>t, <3>u DEF Waited, Few, IdsSince
  <2> QED  BY <2>1, <2>2
<1> QED  BY <1>3, <1>5, <1>6 DEF SpacedWaitInv, LimitInv

-----------------------------------------------------------------------------
(* The other steps.                                                        *)

\* A call that begins has looked at nothing; one that ends has no check behind it that
\* counts; one that goes on elsewhere, none that counts any more.
LEMMA OtherStepsKeepSpacing ==
    ASSUME CodeBounds, IdsInv, TimesInv, SpacedWaitInv, LimitInv, NEW s \in Slot, Accounts!Step(s),
           ~Accounts!ReadLatest(s), ~Accounts!CountDay(s), ~Accounts!SaveCode(s)
    PROVE  TimesInv' /\ SpacedWaitInv' /\ LimitInv'
<1>1. UNCHANGED <<now, lastId>>
  BY DEF Accounts!Step, Accounts!RequestCode, Accounts!ConfirmCode, Accounts!SendMail,
      Accounts!UndoCode, Accounts!BumpAttempts, Accounts!VerifyCode,
         Accounts!ResetPassword, Accounts!CreateUser, Accounts!InsertGroup, Accounts!InsertUser,
         Accounts!CommitUser, Accounts!FindUser, Accounts!CommitPassword,
         Accounts!CreateGroup, Accounts!SeedGroup, Accounts!Boot, Accounts!CountTemplate,
         Accounts!SeedTemplate, Accounts!Fail, Accounts!data
<1>2. RowsKept
  <2>1. CASE \/ Accounts!UndoCode(s) \/ Accounts!BumpAttempts(s) \/ Accounts!VerifyCode(s) \/ Accounts!CommitUser(s) \/ Accounts!CommitPassword(s)
             \/ \E p \in Accounts!Purpose, right \in BOOLEAN : Accounts!ConfirmCode(s, p, right)
    BY <2>1, MarksKeepRows
  <2>2. CASE UNCHANGED codes
    BY <2>2, MarksKeepRows
  <2> QED  BY <2>1, <2>2 DEF Accounts!Step, Accounts!RequestCode, Accounts!SendMail,
         Accounts!ResetPassword, Accounts!CreateUser, Accounts!InsertGroup, Accounts!InsertUser,
         Accounts!FindUser,
         Accounts!CreateGroup, Accounts!SeedGroup, Accounts!Boot, Accounts!CountTemplate,
         Accounts!SeedTemplate, Accounts!Fail, Accounts!data
<1>3. now' \in Nat /\ now <= now' /\ lastId \in Nat
  BY <1>1 DEF TimesInv, IdsInv
<1>4. ASSUME NEW c, Accounts!Start(s, c), c.pc \notin {"count", "save"}, c.since \in {0, now}, c.seen = 0
      PROVE  TimesInv' /\ SpacedWaitInv' /\ LimitInv'
  <2>1. Moves(s, c) /\ Spaced(c)
    BY <1>3, <1>4, CallMoves, IdleIsSpaced
  <2> QED  BY <1>1, <1>2, <1>3, <2>1, SpacingStays
<1>5. ASSUME Accounts!End(s)
      PROVE  TimesInv' /\ SpacedWaitInv' /\ LimitInv'
  <2>1. Moves(s, Accounts!Idle) /\ Spaced(Accounts!Idle)
    BY <1>3, <1>5, CallMoves, IdleIsSpaced
  <2> QED  BY <1>1, <1>2, <1>3, <2>1, SpacingStays
<1>6. ASSUME NEW pc, Accounts!To(s, pc), pc \notin {"count", "save"}
      PROVE  TimesInv' /\ SpacedWaitInv' /\ LimitInv'
  <2>1. Moves(s, [aCall[s] EXCEPT !.pc = pc]) /\ Spaced([aCall[s] EXCEPT !.pc = pc])
    BY <1>6, CallMoves, GoingOnIsSpaced
  <2> QED  BY <1>1, <1>2, <1>3, <2>1, SpacingStays
<1>7. CASE \E p \in Accounts!Purpose : Accounts!RequestCode(s, p) \/ \E right \in BOOLEAN : Accounts!ConfirmCode(s, p, right)
  BY <1>4, <1>7 DEF Accounts!RequestCode, Accounts!ConfirmCode, Accounts!Idle
<1>8. CASE \E t \in tokens : Accounts!ResetPassword(s, t) \/ \E n \in GroupName : Accounts!CreateUser(s, t, n)
  BY <1>4, <1>8 DEF Accounts!ResetPassword, Accounts!CreateUser, Accounts!Idle
<1>9. CASE Accounts!Boot(s) \/ \E n \in GroupName : Accounts!CreateGroup(s, n)
  BY <1>4, <1>9 DEF Accounts!Boot, Accounts!CreateGroup, Accounts!Idle
<1>10. CASE \/ Accounts!UndoCode(s) \/ Accounts!BumpAttempts(s) \/ Accounts!VerifyCode(s) \/ Accounts!CommitUser(s) \/ Accounts!CommitPassword(s)
            \/ Accounts!SeedGroup(s) \/ Accounts!SeedTemplate(s) \/ Accounts!Fail(s)
  BY <1>5, <1>10 DEF Accounts!UndoCode, Accounts!BumpAttempts, Accounts!VerifyCode,
      Accounts!CommitUser, Accounts!CommitPassword, Accounts!SeedGroup,
                     Accounts!SeedTemplate, Accounts!Fail
<1>11. CASE \/ Accounts!InsertGroup(s) \/ Accounts!InsertUser(s) \/ Accounts!FindUser(s) \/ Accounts!CountTemplate(s)
            \/ \E ok \in BOOLEAN : Accounts!SendMail(s, ok)
  BY <1>5, <1>6, <1>11 DEF Accounts!InsertGroup, Accounts!InsertUser, Accounts!FindUser,
      Accounts!CountTemplate, Accounts!SendMail
<1> QED  BY <1>7, <1>8, <1>9, <1>10, <1>11 DEF Accounts!Step

\* The clock goes on, or the user is deleted.
LEMMA ClockKeepsSpacing ==
    ASSUME CodeBounds, TimesInv, SpacedWaitInv, LimitInv, Accounts!Tick \/ Accounts!DeleteUser \/ UNCHANGED Accounts!vars
    PROVE  TimesInv' /\ SpacedWaitInv' /\ LimitInv'
<1>1. UNCHANGED <<codes, lastId, aCall>> /\ now' \in Nat /\ now <= now'
  BY DEF Accounts!Tick, Accounts!DeleteUser, Accounts!vars, Accounts!data, TimesInv
<1>2. TimesInv'
  BY <1>1 DEF TimesInv
<1>3. SpacedWaitInv'
  BY <1>1 DEF SpacedWaitInv, Waited
<1>4. LimitInv'
  BY <1>1 DEF LimitInv, Few, IdsSince
<1> QED  BY <1>2, <1>3, <1>4

\* A code that was stored is mailed or deleted by its call, or kept on record.
LEMMA NextKeepsMailed ==
    ASSUME IdsInv, MailedInv, [Accounts!Next]_Accounts!vars
    PROVE  MailedInv'
<1>1. CASE Accounts!Tick \/ Accounts!DeleteUser \/ UNCHANGED Accounts!vars
  <2>1. UNCHANGED <<codes, mailed, kept, aCall>>
    BY <1>1 DEF Accounts!Tick, Accounts!DeleteUser, Accounts!vars, Accounts!data
  <2> QED  BY <2>1 DEF MailedInv
<1>2. ASSUME NEW s \in Slot, Accounts!Step(s)
      PROVE  MailedInv'
  <2>1. CASE Accounts!SaveCode(s)
    <3>1. /\ DOMAIN aCall' = Slot /\ aCall'[s].pc = "mail" /\ aCall'[s].row = lastId + 1
          /\ \A o \in Slot \ {s} : aCall'[o] = aCall[o]
      BY <2>1 DEF Accounts!SaveCode, IdsInv, CallOK, CallFields
    <3>2. \A x \in codes' : x \in codes \/ x.id = lastId + 1
      BY <2>1 DEF Accounts!SaveCode
    <3>3. aCall[s].pc = "save" /\ UNCHANGED <<mailed, kept>>
      BY <2>1 DEF Accounts!SaveCode
    <3> QED  BY <3>1, <3>2, <3>3 DEF MailedInv, MailPcs
  <2>2. CASE \E ok \in BOOLEAN : Accounts!SendMail(s, ok)
    <3>1. UNCHANGED <<codes, kept>> /\ mailed \subseteq mailed'
      BY <2>2 DEF Accounts!SendMail
    <3>2. CASE Accounts!End(s) /\ aCall[s].row \in mailed'
      <4>1. Moves(s, Accounts!Idle)
        BY <3>2, CallMoves
      <4> QED  BY <3>1, <3>2, <4>1 DEF MailedInv, Moves
    <3>3. CASE Accounts!To(s, "undo")
      <4> DEFINE c == [aCall[s] EXCEPT !.pc = "undo"]
      <4>1. Moves(s, c) /\ c.pc = "undo" /\ c.row = aCall[s].row
        BY <3>3, CallMoves, CallGoesOn
      <4> HIDE DEF c
      <4> QED  BY <3>1, <4>1 DEF MailedInv, Moves, MailPcs
    <3> QED  BY <2>2, <3>2, <3>3 DEF Accounts!SendMail
  <2>3. CASE Accounts!UndoCode(s)
    <3>1. Moves(s, Accounts!Idle) /\ UNCHANGED <<mailed, kept>> /\ codes' \subseteq codes
          /\ \A x \in codes' : x.id # aCall[s].row
      BY <2>3, CallMoves DEF Accounts!UndoCode
    <3> QED  BY <3>1 DEF MailedInv, Moves
  <2>4. CASE Accounts!Fail(s)
    <3>1. Moves(s, Accounts!Idle) /\ UNCHANGED <<mailed, codes>> /\ kept \subseteq kept'
          /\ (aCall[s].pc \in MailPcs => aCall[s].row \in kept')
      BY <2>4, CallMoves DEF Accounts!Fail, MailPcs
    <3> QED  BY <3>1 DEF MailedInv, Moves
  <2>5. CASE ~Accounts!SaveCode(s) /\ ~Accounts!UndoCode(s) /\ ~Accounts!Fail(s) /\ ~\E ok \in BOOLEAN : Accounts!SendMail(s, ok)
    <3>1. UNCHANGED <<mailed, kept>>
      BY <1>2, <2>5
      DEF Accounts!Step, Accounts!RequestCode, Accounts!ReadLatest, Accounts!CountDay,
          Accounts!ConfirmCode, Accounts!BumpAttempts, Accounts!VerifyCode,
          Accounts!ResetPassword, Accounts!CreateUser, Accounts!InsertGroup, Accounts!InsertUser,
          Accounts!CommitUser, Accounts!FindUser, Accounts!CommitPassword,
          Accounts!CreateGroup, Accounts!SeedGroup, Accounts!Boot, Accounts!CountTemplate,
          Accounts!SeedTemplate, Accounts!data
    <3>2. \A o \in Slot \ {s} : aCall'[o] = aCall[o]
      BY <1>2, <2>5
      DEF Accounts!Step, Accounts!RequestCode, Accounts!ReadLatest, Accounts!CountDay,
          Accounts!ConfirmCode, Accounts!BumpAttempts, Accounts!VerifyCode,
          Accounts!ResetPassword, Accounts!CreateUser, Accounts!InsertGroup, Accounts!InsertUser,
          Accounts!CommitUser, Accounts!FindUser, Accounts!CommitPassword,
          Accounts!CreateGroup, Accounts!SeedGroup, Accounts!Boot, Accounts!CountTemplate,
          Accounts!SeedTemplate, Accounts!Start, Accounts!To, Accounts!End, IdsInv
    <3>3. aCall[s].pc \notin MailPcs
      BY <1>2, <2>5
      DEF Accounts!Step, Accounts!RequestCode, Accounts!ReadLatest, Accounts!CountDay,
          Accounts!ConfirmCode, Accounts!BumpAttempts, Accounts!VerifyCode,
          Accounts!ResetPassword, Accounts!CreateUser, Accounts!InsertGroup, Accounts!InsertUser,
          Accounts!CommitUser, Accounts!FindUser, Accounts!CommitPassword,
          Accounts!CreateGroup, Accounts!SeedGroup, Accounts!Boot, Accounts!CountTemplate,
          Accounts!SeedTemplate, Accounts!Start, MailPcs
    <3>4. RowsKept
      <4>1. CASE \/ Accounts!BumpAttempts(s) \/ Accounts!VerifyCode(s) \/ Accounts!CommitUser(s) \/ Accounts!CommitPassword(s)
                 \/ \E p \in Accounts!Purpose, right \in BOOLEAN : Accounts!ConfirmCode(s, p, right)
        BY <4>1, MarksKeepRows
      <4>2. CASE UNCHANGED codes
        BY <4>2, MarksKeepRows
      <4> QED  BY <1>2, <2>5, <4>1, <4>2 DEF Accounts!Step, Accounts!RequestCode,
          Accounts!ReadLatest, Accounts!CountDay,
             Accounts!ResetPassword, Accounts!CreateUser, Accounts!InsertGroup,
             Accounts!InsertUser, Accounts!FindUser,
             Accounts!CreateGroup, Accounts!SeedGroup, Accounts!Boot, Accounts!CountTemplate,
             Accounts!SeedTemplate, Accounts!data
    <3> QED  BY <3>1, <3>2, <3>3, <3>4 DEF MailedInv, RowsKept
  <2> QED  BY <2>1, <2>2, <2>3, <2>4, <2>5
<1> QED  BY <1>1, <1>2 DEF Accounts!Next

\* Every step keeps codes spaced.
LEMMA NextKeepsSpaced ==
    ASSUME CodeBounds, IdsInv, SpacedInv, [Accounts!Next]_Accounts!vars
    PROVE  SpacedInv'
<1>1. MailedInv'
  BY NextKeepsMailed DEF SpacedInv
<1>2. TimesInv' /\ SpacedWaitInv' /\ LimitInv'
  <2>1. CASE Accounts!Tick \/ Accounts!DeleteUser \/ UNCHANGED Accounts!vars
    BY <2>1, ClockKeepsSpacing DEF SpacedInv
  <2>2. ASSUME NEW s \in Slot, Accounts!Step(s)
        PROVE  TimesInv' /\ SpacedWaitInv' /\ LimitInv'
    BY <2>2, ReadLatestKeeps, CountDayKeeps, SaveCodeKeepsSpacing, OtherStepsKeepSpacing
        DEF SpacedInv
  <2> QED  BY <2>1, <2>2 DEF Accounts!Next
<1> QED  BY <1>1, <1>2 DEF SpacedInv

\* What holds of the checks holds of the codes.
LEMMA SpacedCodes ==
    ASSUME CodeBounds, IdsInv, SpacedInv
    PROVE  Accounts!CodesAreSpaced
<1>1. \A r, x \in codes : r.purpose = x.purpose /\ r.id <= x.seen => x.at - r.at >= RESEND_COOLDOWN
  BY DEF SpacedInv, SpacedWaitInv, Waited
<1>2. ASSUME NEW x \in codes
      PROVE  Accounts!Cardinality({r \in codes : r.purpose = x.purpose /\ r.id <= x.seen
                                        /\ r.at > x.at - DAY}) < DAILY_SEND_LIMIT
  <2> DEFINE T == {r \in codes : r.purpose = x.purpose /\ r.id <= x.seen /\ r.at > x.at - DAY}
             I == {r.id : r \in T}
  <2>1. Accounts!IsFiniteSet(I) /\ Accounts!Cardinality(I) = Accounts!Cardinality(T)
    <3>1. T \in SUBSET codes
      OBVIOUS
    <3> HIDE DEF T
    <3> QED  BY <3>1, AsManyIds
  <2>2. I = IdsSince(x.purpose, x.seen, x.at - DAY)
    <3>1. \A r \in codes : r.id \in Nat /\ r.id # 0
      BY DEF IdsInv, RowOK
    <3>2. x.seen \in Nat
      BY DEF SpacedInv, TimesInv
    <3> QED  BY <3>1, <3>2 DEF IdsSince
  <2>3. Accounts!Cardinality(I) < DAILY_SEND_LIMIT
    BY <2>2 DEF SpacedInv, LimitInv, Few
  <2> HIDE DEF T, I
  <2>4. Accounts!Cardinality(T) < DAILY_SEND_LIMIT
    BY <2>1, <2>3
  <2> QED  BY <2>4 DEF T
<1>3. \A r \in codes : r.id \in mailed \cup kept \/ \E s \in Slot : aCall[s].row = r.id
  BY DEF SpacedInv, MailedInv
<1> QED  BY <1>1, <1>2, <1>3 DEF Accounts!CodesAreSpaced

\* A code is requested again only after the wait, and the day's limit holds, of the codes
\* its request could see; and every row that is left is of a mail that was sent, or its
\* call still runs, or its failure is on record (requestCode).
THEOREM CodesStaySpaced ==
    CodeBounds => (Accounts!Spec => []Accounts!CodesAreSpaced)
<1> SUFFICES ASSUME CodeBounds PROVE Accounts!Spec => []Accounts!CodesAreSpaced
  OBVIOUS
<1>1. Accounts!Init => IdsInv /\ ServeInv
  BY InitServe
<1>2. Accounts!Init => SpacedInv
  BY DEF Accounts!Init, SpacedInv, TimesInv, SpacedWaitInv, LimitInv, MailedInv, Accounts!Idle
<1>3. IdsInv /\ ServeInv /\ [Accounts!Next]_Accounts!vars => (IdsInv /\ ServeInv)'
  BY NextKeepsServe
<1>4. IdsInv /\ SpacedInv /\ [Accounts!Next]_Accounts!vars => SpacedInv'
  BY NextKeepsSpaced
<1>5. IdsInv /\ SpacedInv => Accounts!CodesAreSpaced
  BY SpacedCodes
<1> QED  BY <1>1, <1>2, <1>3, <1>4, <1>5, PTL DEF Accounts!Spec

-----------------------------------------------------------------------------
(* The session of a browser                                                *)

\* Finite sets of an instance are those of the library.
LEMMA BrowserFiniteSets ==
    \A S : /\ Browser!IsFiniteSet(S) <=> IsFiniteSet(S)
           /\ Browser!Cardinality(S) = Cardinality(S)
  BY DEF Browser!IsFiniteSet, IsFiniteSet, Browser!Cardinality, Cardinality

\* A fact of the library about finite sets, for those of the instance.
LEMMA BrowserInterval ==
    ASSUME NEW a \in Int, NEW b \in Int
    PROVE  /\ Browser!IsFiniteSet(a..b)
           /\ Browser!Cardinality(a..b) = IF a > b THEN 0 ELSE b - a + 1
  BY FS_Interval, BrowserFiniteSets

\* null is no user that logged in.
NullIsNobody == \A i, n, g : None # [id |-> i, token |-> n, group |-> g]

-----------------------------------------------------------------------------
(* The inductive invariant.                                                *)

\* A user that a store, the storage or a request holds came with a token of its group.
Signed(u) == u = None \/ (u.token \in DOMAIN signed /\ signed[u.token].group = u.group)

\* The token in the storage is that of a user.
Carries(u) == IF u = None THEN token = 0 ELSE token = u.token

SessionInv ==
    /\ \E n \in Nat : DOMAIN signed = 1..n
    /\ DOMAIN user = Tab /\ DOMAIN selected = Tab
    /\ Signed(storedUser) /\ \A t \in Tab : Signed(user[t])
    /\ \A r \in asked : r.tab \in Tab /\ Signed(r.user)
    /\ ~torn => /\ Carries(storedUser)
                /\ \A t \in Tab \ foreign : user[t] = storedUser /\ selected[t] = storedGroup

\* Tokens that were signed stay what they are.
TokensKept == /\ \E n \in Nat : DOMAIN signed' = 1..n
              /\ DOMAIN signed \subseteq DOMAIN signed'
              /\ \A n \in DOMAIN signed : signed'[n] = signed[n]

-----------------------------------------------------------------------------
(* The parts of a step.                                                    *)

\* An up-to-date tab may manage a group only with a token for it.
LEMMA WholeFromInv ==
    ASSUME SessionInv
    PROVE  Browser!SessionIsWhole
<1> SUFFICES ASSUME ~torn, NEW t \in Tab \ foreign
             PROVE  /\ user[t] = storedUser /\ selected[t] = storedGroup
                    /\ IF user[t] = None THEN token = 0 ELSE token = user[t].token
                    /\ Browser!CanManage(t) => signed[token].group = selected[t]
  BY DEF Browser!SessionIsWhole
<1>1. user[t] = storedUser /\ selected[t] = storedGroup /\ Carries(user[t]) /\ Signed(user[t])
  BY DEF SessionInv
<1> QED  BY <1>1 DEF Carries, Signed, Browser!CanManage

\* A token is signed under the next number.
LEMMA SignFacts ==
    ASSUME SessionInv, NEW u, NEW g, Browser!Sign(u, g)
    PROVE  /\ TokensKept
           /\ Browser!New(u, g).token \in DOMAIN signed'
           /\ signed'[Browser!New(u, g).token].group = g
           /\ Browser!New(u, g).group = g
<1>1. PICK n \in Nat : DOMAIN signed = 1..n
  BY DEF SessionInv
<1>2. Browser!Cardinality(DOMAIN signed) = n
  BY <1>1, BrowserInterval
<1>3. signed' = [m \in 1..(n + 1) |-> IF m \in 1..n THEN signed[m] ELSE [id |-> u, group |-> g]]
  BY <1>1, <1>2 DEF Browser!Sign
<1>4. Browser!New(u, g) = [id |-> u, token |-> n + 1, group |-> g]
  BY <1>2 DEF Browser!New
<1>5. DOMAIN signed' = 1..(n + 1) /\ n + 1 \in Nat /\ 1..n \subseteq 1..(n + 1)
  BY <1>3
<1>6. \A m \in 1..n : signed'[m] = signed[m]
  BY <1>3, <1>5
<1>7. n + 1 \in 1..(n + 1) /\ n + 1 \notin 1..n
  OBVIOUS
<1>8. signed'[n + 1].group = g
  BY <1>3, <1>7
<1> QED  BY <1>1, <1>4, <1>5, <1>6, <1>7, <1>8 DEF TokensKept

\* A user stays signed.
LEMMA SignedKept ==
    ASSUME TokensKept, NEW u, Signed(u)
    PROVE  Signed(u)'
  BY DEF Signed, TokensKept

\* Requests keep to the tabs and to users that were signed, while some are answered.
LEMMA AskedKept ==
    ASSUME SessionInv, TokensKept, asked' \subseteq asked
    PROVE  \A r \in asked' : r.tab \in Tab /\ Signed(r.user)'
  BY SignedKept DEF SessionInv

\* One tab becomes what is stored, and knows that it is one session; the others do not.
LEMMA TabIsWhole ==
    ASSUME SessionInv, TokensKept, NEW t \in Tab, NEW u, NEW g, asked' \subseteq asked,
           Browser!SetUser(t, u), Browser!SetSelectedGroup(t, g), Browser!Whole(t), Signed(u)', Carries(u)'
    PROVE  SessionInv'
<1>1. \A s \in Tab : Signed(user[s])'
  <2>1. \A s \in Tab : user'[s] = IF s = t THEN u ELSE user[s]
    BY DEF Browser!SetUser, SessionInv
  <2> QED  BY <2>1, SignedKept DEF SessionInv, Signed
<1>2. /\ DOMAIN user' = Tab /\ DOMAIN selected' = Tab
      /\ user'[t] = u /\ storedUser' = u /\ selected'[t] = g /\ storedGroup' = g
      /\ foreign' = Tab \ {t} /\ torn' = FALSE
  BY DEF Browser!SetUser, Browser!SetSelectedGroup, Browser!Whole, SessionInv
<1>3. Signed(storedUser)' /\ Carries(storedUser)'
  BY <1>2 DEF Signed, Carries
<1>4. \A s \in Tab \ foreign' : user'[s] = storedUser' /\ selected'[s] = storedGroup'
  BY <1>2
<1> QED  BY <1>1, <1>2, <1>3, <1>4, AskedKept DEF SessionInv, TokensKept

\* A login or a switch: the token, the user and the group are those of the answer.
LEMMA EnterKeeps ==
    ASSUME NullIsNobody, SessionInv, NEW t \in Tab, NEW i, NEW v, NEW g, Browser!Sign(i, g),
           Browser!Enter(t, [Browser!New(i, g) EXCEPT !.id = v], g), asked' \subseteq asked
    PROVE  SessionInv'
<1>1. PICK u : u = [Browser!New(i, g) EXCEPT !.id = v]
  OBVIOUS
<1>2. PICK n : n = Browser!New(i, g).token
  OBVIOUS
<1>3. /\ TokensKept
      /\ n \in DOMAIN signed' /\ signed'[n].group = g
  BY <1>2, SignFacts
<1>4. u = [id |-> v, token |-> n, group |-> g]
  BY <1>1, <1>2 DEF Browser!New
<1>5. u # None /\ u.token = n /\ u.group = g
  BY <1>4 DEF NullIsNobody
<1>6. token' = u.token /\ Browser!SetUser(t, u) /\ Browser!SetSelectedGroup(t, g) /\ Browser!Whole(t)
  BY <1>1 DEF Browser!Enter
<1>7. Signed(u)' /\ Carries(u)'
  BY <1>3, <1>5, <1>6 DEF Signed, Carries
<1> QED  BY <1>3, <1>6, <1>7, TabIsWhole

\* A logout empties the tab and the storage.
LEMMA LogoutKeeps ==
    ASSUME SessionInv, NEW t \in Tab, Browser!Logout(t), UNCHANGED signed, asked' \subseteq asked
    PROVE  SessionInv'
<1>1. TokensKept
  BY DEF TokensKept, SessionInv
<1>2. Signed(None)' /\ Carries(None)'
  BY DEF Signed, Carries, Browser!Logout
<1> QED  BY <1>1, <1>2, TabIsWhole DEF Browser!Logout

\* One tab selects a group, and the others fall behind.
LEMMA SelectKeeps ==
    ASSUME SessionInv, NEW t \in Tab, NEW g, Browser!SetSelectedGroup(t, g), foreign' = Browser!Behind(t),
           UNCHANGED <<signed, token, storedUser, user, torn>>, asked' \subseteq asked
    PROVE  SessionInv'
  BY DEF SessionInv, Browser!SetSelectedGroup, Browser!Behind, Signed, Carries

\* A tab asks, with the user it has.
LEMMA TabAskKeeps ==
    ASSUME SessionInv, NEW t \in Tab, NEW kind, NEW header, NEW x, Browser!Ask(t, kind, header, x),
           UNCHANGED <<Browser!server, Browser!storage, Browser!stores, foreign, torn>>
    PROVE  SessionInv'
<1>1. \A r \in asked' : r.tab \in Tab /\ Signed(r.user)
  BY DEF Browser!Ask, SessionInv
<1> QED  BY <1>1 DEF SessionInv, Signed, Carries, Browser!server, Browser!storage, Browser!stores

\* Nothing but requests, groups and tokens that expire.
LEMMA SessionStays ==
    ASSUME SessionInv, UNCHANGED <<signed, Browser!storage, Browser!stores, foreign, torn>>, asked' \subseteq asked
    PROVE  SessionInv'
  BY DEF SessionInv, Signed, Carries, Browser!storage, Browser!stores

-----------------------------------------------------------------------------
(* The steps.                                                              *)

\* The requests of the pages.
LEMMA AnswersKeep ==
    ASSUME NullIsNobody, SessionInv, NEW r \in asked,
           \/ Browser!LoginAnswer(r) \/ Browser!SwitchAnswer(r) \/ Browser!DeleteGroupAnswer(r) \/ Browser!SaveNameAnswer(r)
           \/ Browser!Refused(r) \/ \E reload \in BOOLEAN : Browser!Unauthorized(r, reload)
    PROVE  SessionInv'
<1>0. r.tab \in Tab /\ Signed(r.user)
  BY DEF SessionInv
<1>1. CASE Browser!LoginAnswer(r)
  <2> DEFINE g == Browser!Home[r.about]
             i == r.about
  <2>1. Browser!Sign(i, g) /\ Browser!Enter(r.tab, Browser!New(i, g), g) /\ asked' \subseteq asked
    BY <1>1 DEF Browser!LoginAnswer, Browser!Arrive
  <2> HIDE DEF g, i
  <2>2. Browser!New(i, g) = [Browser!New(i, g) EXCEPT !.id = i]
    BY DEF Browser!New
  <2> QED  BY <1>0, <2>1, <2>2, EnterKeeps
<1>2. CASE Browser!SwitchAnswer(r)
  BY <1>0, <1>2, EnterKeeps DEF Browser!SwitchAnswer, Browser!Arrive
<1>3. CASE Browser!DeleteGroupAnswer(r)
  <2>1. UNCHANGED <<signed, token, storedUser, user, torn>> /\ asked' \subseteq asked
    BY <1>3 DEF Browser!DeleteGroupAnswer, Browser!Arrive
  <2>2. CASE Browser!SetSelectedGroup(r.tab, None) /\ foreign' = Browser!Behind(r.tab)
    BY <1>0, <2>1, <2>2, SelectKeeps
  <2>3. CASE UNCHANGED <<selected, storedGroup, foreign>>
    BY <2>1, <2>3, SessionStays DEF Browser!storage, Browser!stores
  <2> QED  BY <1>3, <2>2, <2>3 DEF Browser!DeleteGroupAnswer
<1>4. CASE Browser!SaveNameAnswer(r)
  <2>1. /\ Browser!SetUser(r.tab, r.user) /\ asked' \subseteq asked /\ foreign' = Browser!Behind(r.tab)
        /\ torn' = (torn \/ user[r.tab] # r.user \/ r.tab \in foreign)
        /\ UNCHANGED <<signed, token, storedGroup, selected>>
    BY <1>4 DEF Browser!SaveNameAnswer, Browser!Arrive, Browser!server
  <2>2. /\ DOMAIN user' = Tab /\ storedUser' = r.user
        /\ \A s \in Tab : user'[s] = IF s = r.tab THEN r.user ELSE user[s]
    BY <1>0, <2>1 DEF Browser!SetUser, SessionInv
  <2>3. TokensKept
    BY <2>1 DEF TokensKept, SessionInv
  <2>4. Signed(storedUser)' /\ \A s \in Tab : Signed(user[s])'
    BY <1>0, <2>1, <2>2 DEF SessionInv, Signed
  <2>5. ASSUME ~torn'
        PROVE  /\ Carries(storedUser)'
               /\ \A s \in Tab \ foreign' : user'[s] = storedUser' /\ selected'[s] = storedGroup'
    <3>1. ~torn /\ user[r.tab] = r.user /\ r.tab \notin foreign
      BY <2>1, <2>5
    <3>2. storedUser = r.user /\ selected[r.tab] = storedGroup
      BY <1>0, <3>1 DEF SessionInv
    <3>3. Carries(storedUser)'
      BY <2>1, <2>2, <3>1, <3>2 DEF SessionInv, Carries
    <3>4. \A s \in Tab \ foreign' : s = r.tab
      BY <2>1 DEF Browser!Behind
    <3> QED  BY <2>1, <2>2, <3>2, <3>3, <3>4
  <2> QED  BY <2>1, <2>2, <2>3, <2>4, <2>5, AskedKept DEF SessionInv
<1>5. CASE Browser!Refused(r)
  BY <1>5, SessionStays DEF Browser!Refused, Browser!Arrive, Browser!server
<1>6. CASE \E reload \in BOOLEAN : Browser!Unauthorized(r, reload)
  <2>1. Browser!Logout(r.tab) /\ UNCHANGED signed /\ asked' \subseteq asked
    BY <1>6 DEF Browser!Unauthorized, Browser!server
  <2> QED  BY <1>0, <2>1, LogoutKeeps
<1> QED  BY <1>1, <1>2, <1>3, <1>4, <1>5, <1>6

\* A tab that loads takes what is stored.
LEMMA ReloadKeeps ==
    ASSUME SessionInv, NEW t \in Tab, Browser!Reload(t)
    PROVE  SessionInv'
<1>1. /\ user' = [user EXCEPT ![t] = storedUser] /\ selected' = [selected EXCEPT ![t] = storedGroup]
      /\ foreign' = foreign \ {t} /\ asked' \subseteq asked
      /\ UNCHANGED <<signed, Browser!storage, torn>>
  BY DEF Browser!Reload, Browser!server
<1> QED  BY <1>1 DEF SessionInv, Signed, Carries, Browser!storage

\* Every step keeps the invariant.
LEMMA NextKeepsSession ==
    ASSUME NullIsNobody, SessionInv, [Browser!Next]_Browser!vars
    PROVE  SessionInv'
<1>1. ASSUME NEW t \in Tab,
             \/ \E u \in Browser!User : Browser!LoginTap(t, u)
             \/ \E g \in Group : Browser!SwitchTap(t, g)
             \/ Browser!DeleteGroupTap(t) \/ Browser!SaveNameTap(t) \/ Browser!OtherTap(t)
      PROVE  SessionInv'
  BY <1>1, TabAskKeeps DEF Browser!LoginTap, Browser!SwitchTap, Browser!DeleteGroupTap,
      Browser!SaveNameTap, Browser!OtherTap
<1>2. ASSUME NEW t \in Tab, NEW g \in Group \cup {None}, Browser!ChangeGroup(t, g)
      PROVE  SessionInv'
  BY <1>2, SelectKeeps DEF Browser!ChangeGroup, Browser!server, Browser!net
<1>3. ASSUME NEW t \in Tab, Browser!LogoutTap(t)
      PROVE  SessionInv'
  BY <1>3, LogoutKeeps DEF Browser!LogoutTap, Browser!server, Browser!net
<1>4. CASE (\E n \in Browser!Token : Browser!Expire(n)) \/ UNCHANGED Browser!vars
  BY <1>4, SessionStays DEF Browser!Expire, Browser!vars, Browser!server, Browser!net
<1> QED  BY <1>1, <1>2, <1>3, <1>4, ReloadKeeps, AnswersKeep DEF Browser!Next

\* Unless another tab changed the session after a tab loaded, or the answer to a name was
\* overtaken, what a tab shows, what it finds when it loads again and what its requests
\* carry are one session, and it offers to manage a group only with a token for it
\* (authStore, groupStore, the interceptor of the client).
THEOREM SessionStaysWhole ==
    ASSUME NullIsNobody
    PROVE  Browser!Spec => []Browser!SessionIsWhole
<1>1. Browser!Init => SessionInv
  <2> SUFFICES ASSUME Browser!Init PROVE SessionInv
    OBVIOUS
  <2>1. DOMAIN signed = 1..0
    BY DEF Browser!Init
  <2> QED  BY <2>1 DEF Browser!Init, SessionInv, Signed, Carries
<1>2. SessionInv /\ [Browser!Next]_Browser!vars => SessionInv'
  BY NextKeepsSession
<1>3. SessionInv => Browser!SessionIsWhole
  BY WholeFromInv
<1> QED  BY <1>1, <1>2, <1>3, PTL DEF Browser!Spec

-----------------------------------------------------------------------------
(* Inquiries                                                               *)

\* Finite sets of an instance are those of the library.
LEMMA InquiriesFiniteSets ==
    \A S : /\ Inquiries!IsFiniteSet(S) <=> IsFiniteSet(S)
           /\ Inquiries!Cardinality(S) = Cardinality(S)
  BY DEF Inquiries!IsFiniteSet, IsFiniteSet, Inquiries!Cardinality, Cardinality

\* A fact of the library about finite sets, for those of the instance.
LEMMA InquiriesCardinalityType ==
    ASSUME NEW S, Inquiries!IsFiniteSet(S)
    PROVE  Inquiries!Cardinality(S) \in Nat
  BY FS_CardinalityType, InquiriesFiniteSets

\* A fact of the library about finite sets, for those of the instance.
LEMMA InquiriesSubset ==
    ASSUME NEW S, Inquiries!IsFiniteSet(S), NEW T \in SUBSET S
    PROVE  /\ Inquiries!IsFiniteSet(T)
           /\ Inquiries!Cardinality(T) <= Inquiries!Cardinality(S)
           /\ Inquiries!Cardinality(S) = Inquiries!Cardinality(T) => S = T
  BY FS_Subset, InquiriesFiniteSets

\* A fact of the library about finite sets, for those of the instance.
LEMMA InquiriesInterval ==
    ASSUME NEW a \in Int, NEW b \in Int
    PROVE  /\ Inquiries!IsFiniteSet(a..b)
           /\ Inquiries!Cardinality(a..b) = IF a > b THEN 0 ELSE b - a + 1
  BY FS_Interval, InquiriesFiniteSets

InquiryRow  == [id : Inquiries!Id, answer : Text \cup {"none"}]
Pcs  == {"idle", "sent", "update", "commit", "answered", "failed"}
Texts == Text \cup {"none"}

FetchType == [pc : {"idle", "all", "more"}, want : Nat, got : Seq(InquiryRow), next : Nat]
CallType  == [pc : Pcs, text : Texts]
Sending   == {"sent", "update", "commit"}

RowTypes  == inquiries \in Seq(Texts) /\ Len(inquiries) <= MaxInquiries
MailTypes == mails \in [Inquiries!Id -> Seq(Text)] /\ rolledBack \subseteq Inquiries!Id
CallTypes == /\ iCall \in [Inquiries!Id -> [Inquiries!Source -> CallType]]
             /\ \A i \in Inquiries!Id, s \in Inquiries!Source : iCall[i][s].pc \in Sending => iCall[i][s].text \in Text
ListTypes == list \in Seq(InquiryRow) /\ pages \in Nat /\ total \in Nat /\ count \in Int /\ failed \in BOOLEAN
LoadTypes == /\ fetch \in FetchType /\ (fetch.pc # "idle" => fetch.next >= 1)
             /\ counting \in BOOLEAN /\ stale \in BOOLEAN /\ inFlight \subseteq Inquiries!Id

InquiryTypes == RowTypes /\ MailTypes /\ CallTypes /\ ListTypes /\ LoadTypes

\* One transaction at a time has the row, and what it is about to commit was mailed last.
MailInv ==
    /\ \A i \in Inquiries!Id, s, o \in Inquiries!Source :
          iCall[i][s].pc \in {"update", "commit"} /\ iCall[i][o].pc \in {"update", "commit"} => s = o
    /\ \A i \in Inquiries!Id, s \in Inquiries!Source :
          iCall[i][s].pc = "commit" => Len(mails[i]) > 0 /\ Inquiries!Last(mails[i]) = iCall[i][s].text
    /\ Inquiries!AnsweredMeansMailed

SendInv == \A i \in Inquiries!Id : i \in inFlight <=> iCall[i]["page"] # Inquiries!Idle

\* The first k pages.
Upto(k) == Inquiries!Newest(IF Len(inquiries) <= k * PageSize THEN Len(inquiries) ELSE k * PageSize)

LoadInv ==
    /\ ~stale /\ fetch.pc # "idle" => fetch.got = Upto(fetch.next - 1)
    /\ ~stale /\ ~failed /\ fetch.pc # "all" => list = Upto(pages) /\ total = Len(inquiries)
    /\ ~stale /\ ~counting => count \in {-1, Inquiries!Cardinality(Inquiries!Pending)}

InquiryInv == InquiryTypes /\ MailInv /\ SendInv /\ LoadInv

-----------------------------------------------------------------------------
\* The lesser of two.
LEMMA MinOfTwo ==
    ASSUME NEW a \in Int, NEW b \in Int
    PROVE  Inquiries!Min({a, b}) = IF a <= b THEN a ELSE b
  BY DEF Inquiries!Min

\* The greater of two.
LEMMA MaxOfTwo ==
    ASSUME NEW a \in Int, NEW b \in Int
    PROVE  Inquiries!Max({a, b}) = IF a >= b THEN a ELSE b
  BY DEF Inquiries!Max

\* The newest rows, as a list: from the last one down.
LEMMA NewestIsSeq ==
    ASSUME InquiryBounds, InquiryTypes, NEW n \in Nat, n <= Len(inquiries)
    PROVE  /\ Inquiries!Newest(n) \in Seq(InquiryRow) /\ Len(Inquiries!Newest(n)) = n
           /\ \A k \in 1..n : Inquiries!Newest(n)[k] = [id |-> Len(inquiries) - k + 1, answer |-> inquiries[Len(inquiries) - k + 1]]
<1>1. \A k \in 1..n : [id |-> Len(inquiries) - k + 1, answer |-> inquiries[Len(inquiries) - k + 1]] \in InquiryRow
  BY DEF InquiryBounds, InquiryTypes, RowTypes, InquiryRow, Inquiries!Id, Texts
<1> QED  BY <1>1 DEF Inquiries!Newest

\* A page more is the pages up to it.
LEMMA NextPage ==
    ASSUME InquiryBounds, InquiryTypes, NEW k \in Nat, k >= 1
    PROVE  /\ Upto(k - 1) \in Seq(InquiryRow) /\ Inquiries!ListPage(k) \in Seq(InquiryRow)
           /\ Upto(k - 1) \o Inquiries!ListPage(k) = Upto(k)
<1> DEFINE L == Len(inquiries)
           a == (k - 1) * PageSize
           b == k * PageSize
           u == IF L <= a THEN L ELSE a
           v == IF L <= b THEN L ELSE b
<1>1. L \in Nat /\ a \in Nat /\ b \in Nat /\ b = a + PageSize /\ PageSize \in Nat \ {0}
  BY DEF InquiryBounds, InquiryTypes, RowTypes, Texts
<1>2. u \in 0..L /\ v \in 0..L /\ u <= v /\ (u < v => u = a)
  BY <1>1
<1>3. Upto(k - 1) = Inquiries!Newest(u) /\ Upto(k) = Inquiries!Newest(v)
  BY DEF Upto
<1>4. Inquiries!ListPage(k) = SubSeq(Inquiries!Newest(L), a + 1, v)
  <2>1. Inquiries!Min({L, b}) = v
    BY <1>1, MinOfTwo
  <2> QED  BY <2>1 DEF Inquiries!ListPage
<1> HIDE DEF L, a, b, u, v
<1>5. /\ Inquiries!Newest(L) \in Seq(InquiryRow) /\ Len(Inquiries!Newest(L)) = L
      /\ \A j \in 1..L : Inquiries!Newest(L)[j] = [id |-> L - j + 1, answer |-> inquiries[L - j + 1]]
  BY <1>1, NewestIsSeq DEF L
<1>6. /\ Inquiries!Newest(u) \in Seq(InquiryRow) /\ Len(Inquiries!Newest(u)) = u
      /\ \A j \in 1..u : Inquiries!Newest(u)[j] = [id |-> L - j + 1, answer |-> inquiries[L - j + 1]]
  BY <1>1, <1>2, NewestIsSeq DEF L
<1>7. /\ Inquiries!Newest(v) \in Seq(InquiryRow) /\ Len(Inquiries!Newest(v)) = v
      /\ \A j \in 1..v : Inquiries!Newest(v)[j] = [id |-> L - j + 1, answer |-> inquiries[L - j + 1]]
  BY <1>1, <1>2, NewestIsSeq DEF L
<1>8. CASE u = v
  <2>1. v < a + 1
    BY <1>1, <1>2, <1>8 DEF u, v, b
  <2>2. Inquiries!ListPage(k) = <<>>
    BY <2>1, <1>4, <1>1, <1>2, SubSeqEmpty
  <2> QED  BY <2>2, <1>3, <1>6, <1>8, ConcatEmptySeq, EmptySeq
<1>9. CASE u < v
  <2>1. u = a
    BY <1>9, <1>2
  <2>2. \A i \in (a + 1)..v : Inquiries!Newest(L)[i] \in InquiryRow
    BY <1>1, <1>2, <1>5
  <2>3. /\ Inquiries!ListPage(k) \in Seq(InquiryRow) /\ Len(Inquiries!ListPage(k)) = v - a
        /\ \A j \in 1..(v - a) : Inquiries!ListPage(k)[j] = Inquiries!Newest(L)[a + j]
    <3>1. a + 1 \in Int /\ v \in Int /\ a + 1 <= v
      BY <1>1, <1>2, <1>9, <2>1
    <3>2. /\ SubSeq(Inquiries!Newest(L), a + 1, v) \in Seq(InquiryRow)
          /\ Len(SubSeq(Inquiries!Newest(L), a + 1, v)) = v - (a + 1) + 1
          /\ \A j \in 1..(v - (a + 1) + 1) : SubSeq(Inquiries!Newest(L), a + 1, v)[j] = Inquiries!Newest(L)[a + 1 + j - 1]
      BY <3>1, <2>2, SubSeqProperties
    <3>3. v - (a + 1) + 1 = v - a /\ \A j \in 1..(v - a) : a + 1 + j - 1 = a + j
      BY <1>1, <1>2
    <3> QED  BY <3>2, <3>3, <1>4
  <2>4. /\ Inquiries!Newest(u) \o Inquiries!ListPage(k) \in Seq(InquiryRow)
        /\ Len(Inquiries!Newest(u) \o Inquiries!ListPage(k)) = v
        /\ \A i \in 1..v : (Inquiries!Newest(u) \o Inquiries!ListPage(k))[i] = IF i <= u THEN Inquiries!Newest(u)[i] ELSE Inquiries!ListPage(k)[i - u]
    <3>1. u + (v - a) = v
      BY <2>1, <1>1, <1>2
    <3>2. /\ Inquiries!Newest(u) \o Inquiries!ListPage(k) \in Seq(InquiryRow)
          /\ Len(Inquiries!Newest(u) \o Inquiries!ListPage(k)) = Len(Inquiries!Newest(u)) + Len(Inquiries!ListPage(k))
          /\ \A i \in 1..(Len(Inquiries!Newest(u)) + Len(Inquiries!ListPage(k))) :
               (Inquiries!Newest(u) \o Inquiries!ListPage(k))[i] = IF i <= Len(Inquiries!Newest(u)) THEN Inquiries!Newest(u)[i]
                                               ELSE Inquiries!ListPage(k)[i - Len(Inquiries!Newest(u))]
      BY <2>3, <1>6, ConcatProperties
    <3> QED  BY <3>1, <3>2, <2>3, <1>6
  <2>5. \A i \in 1..v : (Inquiries!Newest(u) \o Inquiries!ListPage(k))[i] = Inquiries!Newest(v)[i]
    <3> SUFFICES ASSUME NEW i \in 1..v
                 PROVE  (Inquiries!Newest(u) \o Inquiries!ListPage(k))[i] = Inquiries!Newest(v)[i]
      OBVIOUS
    <3>1. CASE i <= u
      <4>1. i \in 1..u
        BY <3>1, <1>2
      <4> QED  BY <4>1, <3>1, <2>4, <1>6, <1>7
    <3>2. CASE i > u
      <4>1. i - u \in 1..(v - a) /\ a + (i - u) = i /\ i \in 1..L
        BY <3>2, <2>1, <1>1, <1>2
      <4>2. (Inquiries!Newest(u) \o Inquiries!ListPage(k))[i] = Inquiries!ListPage(k)[i - u]
        BY <3>2, <2>4, <1>2, <1>1
      <4> QED  BY <4>1, <4>2, <2>3, <1>5, <1>7
    <3>3. i <= u \/ i > u
      BY <1>1, <1>2
    <3> QED  BY <3>1, <3>2, <3>3
  <2> QED  BY <2>3, <2>4, <2>5, <1>3, <1>6, <1>7, SeqEqual
<1> QED  BY <1>8, <1>9, <1>2

-----------------------------------------------------------------------------
\* Nothing was asked yet.
LEMMA InquiryBegins ==
    ASSUME InquiryBounds, Inquiries!Init
    PROVE  InquiryInv
<1>1. InquiryTypes
  <2>1. RowTypes
    BY DEF RowTypes, Inquiries!Init, InquiryBounds
  <2>2. MailTypes
    BY DEF MailTypes, Inquiries!Init, InquiryBounds
  <2>3. CallTypes
    BY DEF CallTypes, CallType, Inquiries!Init, Inquiries!Idle, Pcs, Texts, Sending
  <2>4. ListTypes
    <3>1. <<>> \in Seq(InquiryRow)
      OBVIOUS
    <3>2. failed \in BOOLEAN
      BY DEF Inquiries!Init
    <3>3. list \in Seq(InquiryRow) /\ pages \in Nat /\ total \in Nat /\ count \in Int
      BY <3>1 DEF Inquiries!Init
    <3> QED  BY <3>2, <3>3 DEF ListTypes
  <2>5. LoadTypes
    <3>1. <<>> \in Seq(InquiryRow)
      OBVIOUS
    <3>2. fetch \in FetchType /\ fetch.next = 1
      BY <3>1 DEF FetchType, Inquiries!Init
    <3>3. counting \in BOOLEAN /\ stale \in BOOLEAN /\ inFlight \subseteq Inquiries!Id
      BY DEF Inquiries!Init
    <3>4. fetch.next >= 1
      BY <3>2
    <3> QED  BY <3>2, <3>3, <3>4 DEF LoadTypes
  <2> QED  BY <2>1, <2>2, <2>3, <2>4, <2>5 DEF InquiryTypes
<1>2. MailInv
  BY DEF MailInv, Inquiries!AnsweredMeansMailed, Inquiries!Init, Inquiries!Idle, Inquiries!Ids,
      Inquiries!Id, Inquiries!Source
<1>3. SendInv
  BY DEF SendInv, Inquiries!Init, Inquiries!Source
<1>4. LoadInv
  <2>1. Upto(0) = <<>>
    BY DEF InquiryBounds, Inquiries!Init, Upto, Inquiries!Newest
  <2> QED  BY <2>1 DEF LoadInv, Inquiries!Init
<1> QED  BY <1>1, <1>2, <1>3, <1>4 DEF InquiryInv

\* A call moves to a place of its domain.
LEMMA CallTypesStay ==
    ASSUME CallTypes, NEW i \in Inquiries!Id, NEW s \in Inquiries!Source, NEW c \in CallType,
           c.pc \in Sending => c.text \in Text, Inquiries!Set(i, s, c)
    PROVE  CallTypes'
  BY DEF CallTypes, Inquiries!Set

\* A call that is over is one.
LEMMA IdleType == Inquiries!Idle \in CallType /\ Inquiries!Idle.pc = "idle"
  BY DEF Inquiries!Idle, CallType, Pcs, Texts

\* What does not change stays in its domain.
LEMMA TypesKept ==
    /\ RowTypes /\ UNCHANGED inquiries => RowTypes'
    /\ MailTypes /\ UNCHANGED <<mails, rolledBack>> => MailTypes'
    /\ CallTypes /\ UNCHANGED iCall => CallTypes'
    /\ ListTypes /\ UNCHANGED <<list, pages, total, count, failed>> => ListTypes'
    /\ LoadTypes /\ UNCHANGED <<fetch, counting, stale, inFlight>> => LoadTypes'
  BY DEF RowTypes, MailTypes, CallTypes, ListTypes, LoadTypes

\* Loading the list again stays in the domain.
LEMMA LoadTypesStay ==
    ASSUME LoadTypes, ListTypes, Inquiries!Load, inFlight' \subseteq Inquiries!Id
    PROVE  LoadTypes'
<1>1. Inquiries!Max({1, pages}) \in Nat
  BY MaxOfTwo DEF ListTypes
<1>2. <<>> \in Seq(InquiryRow)
  OBVIOUS
<1>3. fetch' \in FetchType
  BY <1>1, <1>2 DEF Inquiries!Load, FetchType
<1>4. fetch'.next = 1 /\ counting' = TRUE /\ stale' = FALSE
  BY DEF Inquiries!Load
<1>5. fetch'.next >= 1
  BY <1>4
<1>6. counting' \in BOOLEAN /\ stale' \in BOOLEAN
  BY <1>4
<1> QED  BY <1>3, <1>5, <1>6 DEF LoadTypes

\* Every step stays in the domain.
LEMMA TypesStay ==
    ASSUME InquiryBounds, InquiryTypes, [Inquiries!Next]_Inquiries!vars
    PROVE  InquiryTypes'
<1>0. RowTypes /\ MailTypes /\ CallTypes /\ ListTypes /\ LoadTypes
  BY DEF InquiryTypes
<1> SUFFICES RowTypes' /\ MailTypes' /\ CallTypes' /\ ListTypes' /\ LoadTypes'
  BY DEF InquiryTypes
<1>1. CASE Inquiries!Create
  <2>1. RowTypes'
    BY <1>0, <1>1 DEF RowTypes, Inquiries!Create, InquiryBounds, Texts
  <2>2. LoadTypes'
    BY <1>0, <1>1 DEF LoadTypes, Inquiries!Create, Inquiries!shown, Inquiries!form
  <2> QED  BY <1>0, <1>1, <2>1, <2>2, TypesKept DEF Inquiries!Create, Inquiries!shown,
      Inquiries!form
<1>2. CASE Inquiries!FetchPage
  <2> DEFINE got == fetch.got \o Inquiries!ListPage(fetch.next)
  <2>1. Inquiries!ListPage(fetch.next) \in Seq(InquiryRow)
    BY <1>0, <1>2, NextPage DEF Inquiries!FetchPage, LoadTypes, FetchType, InquiryTypes
  <2>2. got \in Seq(InquiryRow)
    BY <1>0, <2>1, ConcatProperties DEF LoadTypes, FetchType
  <2> HIDE DEF got
  <2>3. CASE /\ fetch' = [fetch EXCEPT !.got = got, !.next = @ + 1]
             /\ UNCHANGED <<list, pages, total, failed>>
    <3>1. fetch' \in FetchType /\ fetch'.next >= 1
      <4>1. fetch \in FetchType /\ fetch.next >= 1
        BY <1>0, <1>2 DEF Inquiries!FetchPage, LoadTypes
      <4>2. fetch.next + 1 \in Nat /\ fetch.next + 1 >= 1
        BY <4>1 DEF FetchType
      <4>3. fetch' = [pc |-> fetch.pc, want |-> fetch.want, got |-> got, next |-> fetch.next + 1]
        BY <2>3, <4>1 DEF FetchType
      <4> QED  BY <4>1, <4>2, <4>3, <2>2 DEF FetchType
    <3>2. LoadTypes'
      BY <1>0, <1>2, <3>1 DEF Inquiries!FetchPage, LoadTypes, Inquiries!form
    <3> QED  BY <1>0, <1>2, <2>3, <3>2, TypesKept DEF Inquiries!FetchPage, Inquiries!server
  <2>4. CASE /\ fetch' = Inquiries!NoFetch
             /\ list' = got /\ pages' = fetch.next /\ total' = Len(inquiries) /\ failed' = FALSE
    <3>1. LoadTypes'
      BY <1>0, <1>2, <2>4 DEF Inquiries!FetchPage, LoadTypes, FetchType, Inquiries!NoFetch,
          Inquiries!form
    <3>2. Len(inquiries) \in Nat
      BY <1>0 DEF RowTypes
    <3>3. ListTypes'
      BY <1>0, <1>2, <2>2, <2>4, <3>2 DEF Inquiries!FetchPage, LoadTypes, ListTypes, FetchType
    <3> QED  BY <1>0, <1>2, <3>1, <3>3, TypesKept DEF Inquiries!FetchPage, Inquiries!server
  <2> QED  BY <1>2, <2>3, <2>4 DEF Inquiries!FetchPage, got
<1>3. CASE Inquiries!FetchFails
  <2>1. ListTypes'
    BY <1>0, <1>3 DEF Inquiries!FetchFails, ListTypes
  <2>2. LoadTypes'
    BY <1>0, <1>3 DEF Inquiries!FetchFails, LoadTypes, FetchType, Inquiries!NoFetch, Inquiries!form
  <2> QED  BY <1>0, <1>3, <2>1, <2>2, TypesKept DEF Inquiries!FetchFails, Inquiries!server
<1>4. CASE Inquiries!Reload
  <2>1. LoadTypes'
    BY <1>0, <1>4, LoadTypesStay DEF Inquiries!Reload, Inquiries!form, LoadTypes
  <2> QED  BY <1>0, <1>4, <2>1, TypesKept DEF Inquiries!Reload, Inquiries!server
<1>5. CASE Inquiries!FetchMore
  <2>1. fetch' \in FetchType /\ fetch'.next >= 1 /\ stale' \in BOOLEAN
    BY <1>0, <1>5 DEF Inquiries!FetchMore, ListTypes, LoadTypes, FetchType
  <2>2. LoadTypes'
    BY <1>0, <1>5, <2>1 DEF Inquiries!FetchMore, LoadTypes, Inquiries!form
  <2> QED  BY <1>0, <1>5, <2>2, TypesKept DEF Inquiries!FetchMore, Inquiries!server
<1>6. ASSUME NEW ok \in BOOLEAN, Inquiries!CountAnswer(ok)
      PROVE  RowTypes' /\ MailTypes' /\ CallTypes' /\ ListTypes' /\ LoadTypes'
  <2>1. Inquiries!Cardinality(Inquiries!Pending) \in Nat
    <3>1. Inquiries!IsFiniteSet(Inquiries!Ids)
      BY <1>0, InquiriesInterval DEF Inquiries!Ids, RowTypes
    <3>2. Inquiries!IsFiniteSet(Inquiries!Pending)
      BY <3>1, InquiriesSubset DEF Inquiries!Pending
    <3> QED  BY <3>2, InquiriesCardinalityType
  <2>2. ListTypes'
    BY <1>0, <1>6, <2>1 DEF Inquiries!CountAnswer, ListTypes
  <2>3. LoadTypes'
    BY <1>0, <1>6 DEF Inquiries!CountAnswer, LoadTypes, Inquiries!form
  <2> QED  BY <1>0, <1>6, <2>2, <2>3, TypesKept DEF Inquiries!CountAnswer, Inquiries!server
<1>7. ASSUME NEW i \in Inquiries!Id, NEW s \in Inquiries!Source, Inquiries!Lock(i, s) \/ Inquiries!Mail(i, s) \/ Inquiries!Commit(i, s) \/ Inquiries!Fail(i, s)
      PROVE  RowTypes' /\ MailTypes' /\ CallTypes' /\ ListTypes' /\ LoadTypes'
  <2> DEFINE c == iCall[i][s]
  <2>0. c \in CallType /\ (c.pc \in Sending => c.text \in Text)
    BY <1>0 DEF CallTypes
  <2>1. CallTypes'
    <3>1. CASE Inquiries!Lock(i, s)
      BY <1>0, <2>0, <3>1, CallTypesStay DEF Inquiries!Lock, Inquiries!To, CallType, Pcs, Sending
    <3>2. CASE Inquiries!Mail(i, s)
      BY <1>0, <2>0, <3>2, CallTypesStay DEF Inquiries!Mail, Inquiries!To, CallType, Pcs, Sending
    <3>3. CASE Inquiries!Commit(i, s)
      <4>1. Inquiries!Reply(i, s) \in CallType /\ Inquiries!Reply(i, s).pc \notin Sending
        BY IdleType DEF Inquiries!Reply, CallType, Pcs, Sending
      <4> QED  BY <1>0, <3>3, <4>1, CallTypesStay DEF Inquiries!Commit
    <3>4. CASE Inquiries!Fail(i, s)
      <4>1. [Inquiries!Idle EXCEPT !.pc = "failed"] \in CallType /\ [Inquiries!Idle EXCEPT !.pc = "failed"].pc \notin Sending
        BY IdleType DEF CallType, Pcs, Sending
      <4>2. Inquiries!Idle.pc \notin Sending
        BY IdleType DEF Sending
      <4> QED  BY <1>0, <3>4, <4>1, <4>2, IdleType, CallTypesStay DEF Inquiries!Fail
    <3> QED  BY <1>7, <3>1, <3>2, <3>3, <3>4
  <2>2. RowTypes'
    <3>1. CASE Inquiries!Commit(i, s)
      <4>1. c.text \in Texts
        BY <2>0 DEF CallType
      <4>2. inquiries' \in Seq(Texts) /\ Len(inquiries') = Len(inquiries)
        <5>1. inquiries' = [inquiries EXCEPT ![i] = c.text]
          BY <3>1 DEF Inquiries!Commit
        <5>2. CASE i \in 1..Len(inquiries)
          BY <1>0, <4>1, <5>1, <5>2, ExceptSeq DEF RowTypes
        <5>3. CASE i \notin 1..Len(inquiries)
          <6>1. inquiries' = inquiries
            BY <1>0, <5>1, <5>3 DEF RowTypes
          <6> QED  BY <1>0, <6>1 DEF RowTypes
        <5> QED  BY <5>2, <5>3
      <4> QED  BY <1>0, <4>2 DEF RowTypes
    <3>2. CASE Inquiries!Lock(i, s) \/ Inquiries!Mail(i, s) \/ Inquiries!Fail(i, s)
      BY <1>0, <3>2, TypesKept DEF Inquiries!Lock, Inquiries!Mail, Inquiries!Fail
    <3> QED  BY <1>7, <3>1, <3>2
  <2>3. MailTypes'
    <3>1. CASE Inquiries!Mail(i, s)
      <4>1. c.text \in Text
        BY <2>0, <3>1 DEF Inquiries!Mail, Sending
      <4> QED  BY <1>0, <3>1, <4>1 DEF Inquiries!Mail, MailTypes
    <3> QED  BY <1>0, <1>7, <3>1, TypesKept DEF Inquiries!Lock, Inquiries!Commit, Inquiries!Fail,
        MailTypes
  <2>4. LoadTypes'
    BY <1>0, <1>7, TypesKept DEF Inquiries!Lock, Inquiries!Mail, Inquiries!Commit, Inquiries!Fail,
        Inquiries!shown, Inquiries!form, LoadTypes
  <2> QED  BY <1>0, <1>7, <2>1, <2>2, <2>3, <2>4, TypesKept DEF Inquiries!Lock, Inquiries!Mail,
      Inquiries!Commit, Inquiries!Fail, Inquiries!shown
<1>8. ASSUME NEW i \in Inquiries!Id, Inquiries!Toggle(i)
      PROVE  RowTypes' /\ MailTypes' /\ CallTypes' /\ ListTypes' /\ LoadTypes'
  BY <1>0, <1>8, TypesKept DEF Inquiries!Toggle, Inquiries!server, Inquiries!shown
<1>9. ASSUME NEW i \in Inquiries!Id, NEW x \in Text, Inquiries!AnswerOfOther(i, x) \/ Inquiries!Send(i, x)
      PROVE  RowTypes' /\ MailTypes' /\ CallTypes' /\ ListTypes' /\ LoadTypes'
  <2>1. [pc |-> "sent", text |-> x] \in CallType
    BY DEF CallType, Pcs, Texts
  <2>2. CallTypes'
    BY <1>0, <1>9, <2>1, CallTypesStay DEF Inquiries!AnswerOfOther, Inquiries!Send,
        Inquiries!Answer, Inquiries!Source
  <2>3. LoadTypes'
    BY <1>0, <1>9 DEF Inquiries!AnswerOfOther, Inquiries!Send, LoadTypes, Inquiries!shown,
        Inquiries!form
  <2> QED  BY <1>0, <1>9, <2>2, <2>3, TypesKept DEF Inquiries!AnswerOfOther, Inquiries!Send,
      Inquiries!shown
<1>10. ASSUME NEW i \in Inquiries!Id, NEW gone \in BOOLEAN, Inquiries!SendAnswer(i, gone)
       PROVE  RowTypes' /\ MailTypes' /\ CallTypes' /\ ListTypes' /\ LoadTypes'
  <2>1. CallTypes'
    <3>1. Inquiries!Idle.pc \notin Sending
      BY IdleType DEF Sending
    <3> QED  BY <1>0, <1>10, <3>1, IdleType, CallTypesStay DEF Inquiries!SendAnswer,
        Inquiries!Source
  <2>2. LoadTypes'
    BY <1>0, <1>10, LoadTypesStay DEF Inquiries!SendAnswer, Inquiries!Settle, LoadTypes
  <2> QED  BY <1>0, <1>10, <2>1, <2>2, TypesKept DEF Inquiries!SendAnswer
<1>11. CASE UNCHANGED Inquiries!vars
  BY <1>0, <1>11, TypesKept DEF Inquiries!vars, Inquiries!server, Inquiries!shown, Inquiries!form
<1> QED  BY <1>1, <1>2, <1>3, <1>4, <1>5, <1>6, <1>7, <1>8, <1>9, <1>10, <1>11 DEF Inquiries!Next

\* What a step does to the server: the row of one inquiry, its mails and its calls.
LEMMA MailStays ==
    ASSUME InquiryBounds, InquiryTypes, MailInv, SendInv, [Inquiries!Next]_Inquiries!vars
    PROVE  MailInv'
<1>0. RowTypes /\ MailTypes /\ CallTypes
  BY DEF InquiryTypes
<1> DEFINE Hold(pc) == pc \in {"update", "commit"}
<1>1. ASSUME UNCHANGED <<inquiries, mails, rolledBack, iCall>>
      PROVE  MailInv'
  BY <1>1 DEF MailInv, Inquiries!AnsweredMeansMailed, Inquiries!Ids
<1>2. CASE Inquiries!Create
  <2>1. Len(inquiries') = Len(inquiries) + 1 /\ inquiries'[Len(inquiries) + 1] = "none"
        /\ \A i \in 1..Len(inquiries) : inquiries'[i] = inquiries[i]
    BY <1>0, <1>2, AppendProperties DEF Inquiries!Create, RowTypes, Texts
  <2>2. \A i \in 1..Len(inquiries') : inquiries'[i] # "none" => i \in 1..Len(inquiries) /\ inquiries'[i] = inquiries[i]
    BY <1>0, <2>1 DEF RowTypes
  <2> QED  BY <1>2, <2>2 DEF Inquiries!Create, MailInv, Inquiries!AnsweredMeansMailed, Inquiries!Ids
<1>3. ASSUME NEW i \in Inquiries!Id, NEW s \in Inquiries!Source, Inquiries!Lock(i, s)
      PROVE  MailInv'
  <2>1. /\ iCall' = [iCall EXCEPT ![i][s] = [iCall[i][s] EXCEPT !.pc = "update"]]
        /\ UNCHANGED <<inquiries, mails, rolledBack>>
        /\ iCall[i][s].pc = "sent"
        /\ \A o \in Inquiries!Source : ~Hold(iCall[i][o].pc)
    BY <1>3 DEF Inquiries!Lock, Inquiries!To, Inquiries!Set, Inquiries!Held
  <2>2. \A j \in Inquiries!Id, o \in Inquiries!Source : j # i \/ o # s => iCall'[j][o] = iCall[j][o]
    BY <1>0, <2>1 DEF CallTypes
  <2>3. iCall'[i][s].pc = "update"
    BY <1>0, <2>1 DEF CallTypes, CallType
  <2>4. \A j \in Inquiries!Id, o \in Inquiries!Source : iCall'[j][o].pc = "commit" <=> iCall[j][o].pc = "commit"
    BY <2>1, <2>2, <2>3
  <2>5. \A j \in Inquiries!Id, o \in Inquiries!Source : iCall'[j][o].pc = "commit" => iCall'[j][o] = iCall[j][o]
    BY <2>2, <2>3
  <2> QED  BY <2>1, <2>2, <2>3, <2>4, <2>5 DEF MailInv, Inquiries!AnsweredMeansMailed, Inquiries!Ids
<1>4. ASSUME NEW i \in Inquiries!Id, NEW s \in Inquiries!Source, Inquiries!Mail(i, s)
      PROVE  MailInv'
  <2>1. /\ iCall' = [iCall EXCEPT ![i][s] = [iCall[i][s] EXCEPT !.pc = "commit"]]
        /\ mails' = [mails EXCEPT ![i] = Append(mails[i], iCall[i][s].text)]
        /\ UNCHANGED <<inquiries, rolledBack>>
        /\ iCall[i][s].pc = "update"
    BY <1>4 DEF Inquiries!Mail, Inquiries!To, Inquiries!Set
  <2>2. \A j \in Inquiries!Id, o \in Inquiries!Source : j # i \/ o # s => iCall'[j][o] = iCall[j][o]
    BY <1>0, <2>1 DEF CallTypes
  <2>3. iCall'[i][s].pc = "commit" /\ iCall'[i][s].text = iCall[i][s].text
    BY <1>0, <2>1 DEF CallTypes, CallType
  <2>4. \A j \in Inquiries!Id : j # i => mails'[j] = mails[j]
    BY <1>0, <2>1 DEF MailTypes
  <2>5. iCall[i][s].text \in Text
    BY <1>0, <2>1 DEF CallTypes, Sending
  <2>6. /\ mails[i] \in Seq(Text)
        /\ Len(mails'[i]) = Len(mails[i]) + 1
        /\ mails'[i][Len(mails[i]) + 1] = iCall[i][s].text
        /\ \A k \in 1..Len(mails[i]) : mails'[i][k] = mails[i][k]
    BY <1>0, <2>1, <2>5, AppendProperties DEF MailTypes
  <2>7. Len(mails'[i]) > 0 /\ Inquiries!Last(mails'[i]) = iCall'[i][s].text
    BY <2>3, <2>6 DEF Inquiries!Last
  <2>8. \A e : Inquiries!Contains(mails[i], e) => Inquiries!Contains(mails'[i], e)
    BY <2>6 DEF Inquiries!Contains
  <2>9. \A o \in Inquiries!Source : Hold(iCall'[i][o].pc) => o = s
    BY <2>1, <2>2 DEF MailInv
  <2>10. \A j \in Inquiries!Id, o \in Inquiries!Source : iCall'[j][o].pc = "commit" =>
            Len(mails'[j]) > 0 /\ Inquiries!Last(mails'[j]) = iCall'[j][o].text
    BY <2>2, <2>4, <2>7, <2>9 DEF MailInv
  <2>11. Inquiries!AnsweredMeansMailed'
    <3> SUFFICES ASSUME NEW j \in Inquiries!Ids, inquiries[j] # "none"
                 PROVE  /\ Inquiries!Contains(mails'[j], inquiries[j])
                        /\ \/ Inquiries!Last(mails'[j]) = inquiries[j]
                           \/ j \in rolledBack \/ \E o \in Inquiries!Source : iCall'[j][o].pc = "commit"
      BY <2>1 DEF Inquiries!AnsweredMeansMailed, Inquiries!Ids
    <3>1. j \in Inquiries!Id
      BY <1>0 DEF Inquiries!Ids, Inquiries!Id, RowTypes, InquiryBounds
    <3> QED  BY <3>1, <2>2, <2>3, <2>4, <2>8 DEF MailInv, Inquiries!AnsweredMeansMailed
  <2> QED  BY <2>2, <2>3, <2>9, <2>10, <2>11 DEF MailInv
<1>5. ASSUME NEW i \in Inquiries!Id, NEW s \in Inquiries!Source, Inquiries!Commit(i, s)
      PROVE  MailInv'
  <2>1. /\ iCall' = [iCall EXCEPT ![i][s] = Inquiries!Reply(i, s)] /\ Inquiries!Reply(i, s).pc \notin {"update", "commit"}
        /\ inquiries' = [inquiries EXCEPT ![i] = iCall[i][s].text] /\ rolledBack' = rolledBack \ {i}
        /\ UNCHANGED mails /\ iCall[i][s].pc = "commit"
    BY <1>5 DEF Inquiries!Commit, Inquiries!Set, Inquiries!Reply, Inquiries!Idle
  <2>2. \A j \in Inquiries!Id, o \in Inquiries!Source : j # i \/ o # s => iCall'[j][o] = iCall[j][o]
    BY <1>0, <2>1 DEF CallTypes
  <2>3. ~Hold(iCall'[i][s].pc)
    BY <1>0, <2>1 DEF CallTypes
  <2>4. DOMAIN inquiries' = DOMAIN inquiries /\ \A j \in DOMAIN inquiries : j # i => inquiries'[j] = inquiries[j]
    BY <1>0, <2>1 DEF RowTypes
  <2>5. i \in DOMAIN inquiries => inquiries'[i] = iCall[i][s].text
    BY <1>0, <2>1 DEF RowTypes
  <2>6. mails[i] \in Seq(Text) /\ Len(mails[i]) > 0 /\ Inquiries!Last(mails[i]) = iCall[i][s].text
    BY <1>0, <2>1 DEF MailInv, MailTypes
  <2>7. Inquiries!Contains(mails[i], iCall[i][s].text)
    <3>1. Len(mails[i]) \in 1..Len(mails[i])
      BY <2>6
    <3> QED  BY <2>6, <3>1 DEF Inquiries!Contains, Inquiries!Last
  <2>8. Inquiries!AnsweredMeansMailed'
    <3> SUFFICES ASSUME NEW j \in Inquiries!Ids', inquiries'[j] # "none"
                 PROVE  /\ Inquiries!Contains(mails[j], inquiries'[j])
                        /\ \/ Inquiries!Last(mails[j]) = inquiries'[j]
                           \/ j \in rolledBack' \/ \E o \in Inquiries!Source : iCall'[j][o].pc = "commit"
      BY <2>1 DEF Inquiries!AnsweredMeansMailed
    <3>1. j \in DOMAIN inquiries /\ j \in Inquiries!Ids /\ j \in Inquiries!Id
      <4>1. inquiries' \in Seq(Texts) /\ Len(inquiries') <= MaxInquiries
        BY TypesStay DEF InquiryTypes, RowTypes
      <4> QED  BY <1>0, <2>4, <4>1 DEF Inquiries!Ids, Inquiries!Id, RowTypes, InquiryBounds
    <3>2. CASE j = i
      BY <3>1, <3>2, <2>5, <2>6, <2>7
    <3>3. CASE j # i
      BY <3>1, <3>3, <2>1, <2>2, <2>4 DEF MailInv, Inquiries!AnsweredMeansMailed
    <3> QED  BY <3>2, <3>3
  <2> QED  BY <2>1, <2>2, <2>3, <2>8 DEF MailInv
<1>6. ASSUME NEW i \in Inquiries!Id, NEW s \in Inquiries!Source, NEW c \in CallType, c.pc \notin {"update", "commit"}, Inquiries!Set(i, s, c),
             UNCHANGED <<inquiries, mails>>,
             rolledBack' = IF iCall[i][s].pc = "commit" THEN rolledBack \cup {i} ELSE rolledBack
      PROVE  MailInv'
  <2>2. \A j \in Inquiries!Id, o \in Inquiries!Source : j # i \/ o # s => iCall'[j][o] = iCall[j][o]
    BY <1>0, <1>6 DEF CallTypes, Inquiries!Set
  <2>3. ~Hold(iCall'[i][s].pc)
    BY <1>0, <1>6 DEF CallTypes, Inquiries!Set
  <2>4. Inquiries!AnsweredMeansMailed'
    <3> SUFFICES ASSUME NEW j \in Inquiries!Ids, inquiries[j] # "none"
                 PROVE  /\ Inquiries!Contains(mails[j], inquiries[j])
                        /\ \/ Inquiries!Last(mails[j]) = inquiries[j]
                           \/ j \in rolledBack' \/ \E o \in Inquiries!Source : iCall'[j][o].pc = "commit"
      BY <1>6 DEF Inquiries!AnsweredMeansMailed, Inquiries!Ids
    <3>1. j \in Inquiries!Id
      BY <1>0 DEF Inquiries!Ids, Inquiries!Id, RowTypes, InquiryBounds
    <3> QED  BY <3>1, <1>6, <2>2 DEF MailInv, Inquiries!AnsweredMeansMailed
  <2> QED  BY <1>6, <2>2, <2>3, <2>4 DEF MailInv
<1>7. ASSUME NEW i \in Inquiries!Id, NEW s \in Inquiries!Source, Inquiries!Fail(i, s)
      PROVE  MailInv'
  <2>1. [Inquiries!Idle EXCEPT !.pc = "failed"] \in CallType /\ [Inquiries!Idle EXCEPT !.pc = "failed"].pc = "failed"
    BY IdleType DEF CallType, Pcs
  <2>2. Inquiries!Set(i, s, [Inquiries!Idle EXCEPT !.pc = "failed"]) \/ Inquiries!Set(i, s, Inquiries!Idle)
    BY <1>7 DEF Inquiries!Fail
  <2>3. UNCHANGED <<inquiries, mails>> /\ rolledBack' = IF iCall[i][s].pc = "commit" THEN rolledBack \cup {i} ELSE rolledBack
    BY <1>7 DEF Inquiries!Fail
  <2> QED  BY <1>6, <2>1, <2>2, <2>3, IdleType
<1>8. ASSUME NEW i \in Inquiries!Id, NEW x \in Text, Inquiries!AnswerOfOther(i, x)
      PROVE  MailInv'
  <2>1. iCall[i]["other"].pc # "commit"
    BY <1>8 DEF Inquiries!AnswerOfOther, Inquiries!Idle
  <2>2. [pc |-> "sent", text |-> x] \in CallType
    BY DEF CallType, Pcs, Texts
  <2>3. Inquiries!Set(i, "other", [pc |-> "sent", text |-> x]) /\ UNCHANGED <<inquiries, mails, rolledBack>>
    BY <1>8 DEF Inquiries!AnswerOfOther, Inquiries!Answer
  <2> QED  BY <1>6, <2>1, <2>2, <2>3 DEF Inquiries!Source
<1>9. ASSUME NEW i \in Inquiries!Id, NEW x \in Text, Inquiries!Send(i, x)
      PROVE  MailInv'
  <2>1. iCall[i]["page"].pc # "commit"
    BY <1>9 DEF Inquiries!Send, SendInv, Inquiries!Idle
  <2>2. [pc |-> "sent", text |-> x] \in CallType
    BY DEF CallType, Pcs, Texts
  <2>3. Inquiries!Set(i, "page", [pc |-> "sent", text |-> x]) /\ UNCHANGED <<inquiries, mails, rolledBack>>
    BY <1>9 DEF Inquiries!Send, Inquiries!Answer
  <2> QED  BY <1>6, <2>1, <2>2, <2>3 DEF Inquiries!Source
<1>10. ASSUME NEW i \in Inquiries!Id, NEW gone \in BOOLEAN, Inquiries!SendAnswer(i, gone)
       PROVE  MailInv'
  <2>1. iCall[i]["page"].pc # "commit"
    BY <1>10 DEF Inquiries!SendAnswer
  <2>2. Inquiries!Set(i, "page", Inquiries!Idle) /\ UNCHANGED <<inquiries, mails, rolledBack>>
    BY <1>10 DEF Inquiries!SendAnswer
  <2> QED  BY <1>6, <2>1, <2>2, IdleType DEF Inquiries!Source
<1> QED  BY <1>1, <1>2, <1>3, <1>4, <1>5, <1>7, <1>8, <1>9, <1>10
         DEF Inquiries!Next, Inquiries!vars, Inquiries!server, Inquiries!FetchPage,
             Inquiries!FetchFails, Inquiries!Reload, Inquiries!FetchMore, Inquiries!CountAnswer,
             Inquiries!Toggle

\* Every step leaves at most one answer to an inquiry on its way.
LEMMA SendStays ==
    ASSUME InquiryTypes, SendInv, [Inquiries!Next]_Inquiries!vars
    PROVE  SendInv'
<1>0. CallTypes /\ LoadTypes
  BY DEF InquiryTypes
<1>1. ASSUME NEW i \in Inquiries!Id, NEW s \in Inquiries!Source, NEW c \in CallType, Inquiries!Set(i, s, c), UNCHANGED inFlight,
             s = "page" => c # Inquiries!Idle /\ iCall[i][s] # Inquiries!Idle
      PROVE  SendInv'
  BY <1>0, <1>1 DEF SendInv, Inquiries!Set, CallTypes, Inquiries!Source
<1>2. ASSUME NEW i \in Inquiries!Id, NEW s \in Inquiries!Source, Inquiries!Lock(i, s) \/ Inquiries!Mail(i, s) \/ Inquiries!Commit(i, s) \/ Inquiries!Fail(i, s)
      PROVE  SendInv'
  <2>1. iCall[i][s] \in CallType /\ iCall[i][s] # Inquiries!Idle
    BY <1>0, <1>2 DEF CallTypes, Inquiries!Idle, Inquiries!Lock, Inquiries!Mail, Inquiries!Commit,
        Inquiries!Fail
  <2>2. PICK c \in CallType : Inquiries!Set(i, s, c) /\ (s = "page" => c # Inquiries!Idle)
    <3>1. CASE Inquiries!Lock(i, s) \/ Inquiries!Mail(i, s)
      <4>1. \A pc \in {"update", "commit"} : [iCall[i][s] EXCEPT !.pc = pc] \in CallType
                                             /\ [iCall[i][s] EXCEPT !.pc = pc].pc = pc
        BY <2>1 DEF CallType, Pcs
      <4> QED  BY <3>1, <4>1 DEF Inquiries!Lock, Inquiries!Mail, Inquiries!To, Inquiries!Idle
    <3>2. CASE Inquiries!Commit(i, s)
      <4>1. Inquiries!Reply(i, s) \in CallType /\ (s = "page" => Inquiries!Reply(i, s).pc = "answered")
        BY IdleType DEF Inquiries!Reply, CallType, Pcs
      <4> QED  BY <3>2, <4>1 DEF Inquiries!Commit, Inquiries!Idle
    <3>3. CASE Inquiries!Fail(i, s)
      <4>1. [Inquiries!Idle EXCEPT !.pc = "failed"] \in CallType /\ [Inquiries!Idle EXCEPT !.pc = "failed"].pc = "failed"
        BY IdleType DEF CallType, Pcs
      <4> QED  BY <3>3, <4>1, IdleType DEF Inquiries!Fail
    <3> QED  BY <1>2, <3>1, <3>2, <3>3
  <2>3. UNCHANGED inFlight
    BY <1>2 DEF Inquiries!Lock, Inquiries!Mail, Inquiries!Commit, Inquiries!Fail, Inquiries!form
  <2> QED  BY <1>1, <2>1, <2>2, <2>3
<1>3. ASSUME NEW i \in Inquiries!Id, NEW x \in Text, Inquiries!AnswerOfOther(i, x)
      PROVE  SendInv'
  <2>1. [pc |-> "sent", text |-> x] \in CallType
    BY DEF CallType, Pcs, Texts
  <2> QED  BY <1>1, <1>3, <2>1 DEF Inquiries!AnswerOfOther, Inquiries!Answer, Inquiries!Source,
      Inquiries!form
<1>4. ASSUME NEW i \in Inquiries!Id, NEW x \in Text, Inquiries!Send(i, x)
      PROVE  SendInv'
  <2>1. [pc |-> "sent", text |-> x] # Inquiries!Idle
    BY DEF Inquiries!Idle
  <2>2. iCall' = [iCall EXCEPT ![i]["page"] = [pc |-> "sent", text |-> x]] /\ inFlight' = inFlight \cup {i}
    BY <1>4 DEF Inquiries!Send, Inquiries!Answer, Inquiries!Set
  <2> QED  BY <1>0, <2>1, <2>2 DEF SendInv, CallTypes, Inquiries!Source
<1>5. ASSUME NEW i \in Inquiries!Id, NEW gone \in BOOLEAN, Inquiries!SendAnswer(i, gone)
      PROVE  SendInv'
  <2>1. iCall' = [iCall EXCEPT ![i]["page"] = Inquiries!Idle] /\ inFlight' = inFlight \ {i}
    BY <1>5 DEF Inquiries!SendAnswer, Inquiries!Set, Inquiries!Settle
  <2> QED  BY <1>0, <2>1 DEF SendInv, CallTypes, Inquiries!Source
<1>6. CASE UNCHANGED <<iCall, inFlight>>
  BY <1>6 DEF SendInv
<1> QED  BY <1>2, <1>3, <1>4, <1>5, <1>6
         DEF Inquiries!Next, Inquiries!vars, Inquiries!server, Inquiries!form, Inquiries!Create,
             Inquiries!FetchPage, Inquiries!FetchFails, Inquiries!Reload, Inquiries!FetchMore,
             Inquiries!CountAnswer, Inquiries!Toggle

\* What the page has loaded is of the inquiries there are until one of them changes.
LEMMA LoadStays ==
    ASSUME InquiryBounds, InquiryTypes, LoadInv, [Inquiries!Next]_Inquiries!vars
    PROVE  LoadInv'
<1>0. RowTypes /\ ListTypes /\ LoadTypes
  BY DEF InquiryTypes
<1>1. ASSUME UNCHANGED inquiries
      PROVE  \A k : Upto(k)' = Upto(k)
  BY <1>1 DEF Upto, Inquiries!Newest
<1>2. ASSUME UNCHANGED inquiries
      PROVE  Inquiries!Cardinality(Inquiries!Pending)' = Inquiries!Cardinality(Inquiries!Pending)
  BY <1>2 DEF Inquiries!Pending, Inquiries!Ids
<1>3. CASE stale'
  BY <1>3 DEF LoadInv
<1>4. ASSUME Inquiries!Load, UNCHANGED inquiries
      PROVE  LoadInv'
  <2>1. Upto(0) = <<>>
    <3>1. Inquiries!Newest(0) = <<>>
      BY DEF Inquiries!Newest
    <3> QED  BY <1>0, <3>1 DEF Upto, RowTypes, InquiryBounds
  <2>2. fetch'.got = <<>> /\ fetch'.next = 1 /\ fetch'.pc = "all" /\ counting'
    BY <1>4 DEF Inquiries!Load
  <2> QED  BY <1>1, <1>4, <2>1, <2>2 DEF LoadInv
<1>5. CASE Inquiries!FetchPage
  <2> DEFINE got == fetch.got \o Inquiries!ListPage(fetch.next)
  <2>1. UNCHANGED <<inquiries, stale, counting, count>>
    BY <1>5 DEF Inquiries!FetchPage, Inquiries!server
  <2>2. fetch.next \in Nat /\ fetch.next >= 1
    BY <1>0, <1>5 DEF Inquiries!FetchPage, LoadTypes, FetchType
  <2>3. ~stale => got = Upto(fetch.next)
    BY <1>5, <2>2, NextPage DEF Inquiries!FetchPage, LoadInv
  <2> HIDE DEF got
  <2>4. CASE /\ fetch' = [fetch EXCEPT !.got = got, !.next = @ + 1]
             /\ UNCHANGED <<list, pages, total, failed>>
    <3>1. fetch'.got = got /\ fetch'.next = fetch.next + 1 /\ fetch'.pc = fetch.pc
      BY <1>0, <2>4 DEF LoadTypes, FetchType
    <3>2. fetch'.next - 1 = fetch.next
      BY <2>2, <3>1
    <3> QED  BY <1>1, <1>2, <2>1, <2>3, <2>4, <3>1, <3>2 DEF LoadInv
  <2>5. CASE /\ fetch' = Inquiries!NoFetch
             /\ list' = got /\ pages' = fetch.next /\ total' = Len(inquiries) /\ failed' = FALSE
    BY <1>1, <1>2, <2>1, <2>3, <2>5 DEF LoadInv, Inquiries!NoFetch
  <2> QED  BY <1>5, <2>4, <2>5 DEF Inquiries!FetchPage, got
<1>6. CASE Inquiries!FetchFails
  <2>1. UNCHANGED <<inquiries, stale, counting, count>> /\ failed' = TRUE /\ fetch'.pc = "idle"
    BY <1>6 DEF Inquiries!FetchFails, Inquiries!server, Inquiries!NoFetch
  <2> QED  BY <1>1, <1>2, <2>1 DEF LoadInv
<1>7. CASE Inquiries!FetchMore /\ ~stale'
  <2>1. /\ UNCHANGED <<inquiries, list, pages, total, failed, counting, count, stale>>
        /\ ~failed /\ fetch.pc # "all"
        /\ fetch'.got = list /\ fetch'.next = pages + 1 /\ fetch'.pc = "more"
    BY <1>0, <1>7 DEF Inquiries!FetchMore, Inquiries!server, LoadTypes
  <2>2. fetch'.next - 1 = pages
    BY <1>0, <2>1 DEF ListTypes
  <2> QED  BY <1>1, <1>2, <1>7, <2>1, <2>2 DEF LoadInv
<1>8. ASSUME NEW ok \in BOOLEAN, Inquiries!CountAnswer(ok)
      PROVE  LoadInv'
  <2>1. /\ UNCHANGED <<inquiries, list, pages, total, failed, fetch, stale>>
        /\ count' \in {-1, Inquiries!Cardinality(Inquiries!Pending)}
    BY <1>8 DEF Inquiries!CountAnswer, Inquiries!server
  <2> QED  BY <1>1, <1>2, <2>1 DEF LoadInv
<1>9. CASE UNCHANGED <<inquiries, list, pages, total, count, failed, fetch, counting, stale>>
  BY <1>1, <1>2, <1>9 DEF LoadInv
<1>10. ASSUME NEW i \in Inquiries!Id, NEW s \in Inquiries!Source, Inquiries!Lock(i, s) \/ Inquiries!Mail(i, s) \/ Inquiries!Commit(i, s) \/ Inquiries!Fail(i, s)
       PROVE  LoadInv'
  BY <1>3, <1>9, <1>10 DEF Inquiries!Lock, Inquiries!Mail, Inquiries!Commit, Inquiries!Fail,
      Inquiries!shown
<1>11. ASSUME NEW i \in Inquiries!Id, Inquiries!Toggle(i)
       PROVE  LoadInv'
  BY <1>9, <1>11 DEF Inquiries!Toggle, Inquiries!server, Inquiries!shown
<1>12. ASSUME NEW i \in Inquiries!Id, NEW x \in Text, Inquiries!AnswerOfOther(i, x) \/ Inquiries!Send(i, x)
       PROVE  LoadInv'
  BY <1>9, <1>12 DEF Inquiries!AnswerOfOther, Inquiries!Send, Inquiries!shown
<1>13. ASSUME NEW i \in Inquiries!Id, NEW gone \in BOOLEAN, Inquiries!SendAnswer(i, gone)
       PROVE  LoadInv'
  BY <1>4, <1>13 DEF Inquiries!SendAnswer
<1>14. CASE Inquiries!Create
  BY <1>3, <1>14 DEF Inquiries!Create
<1>15. CASE Inquiries!Reload
  BY <1>4, <1>15 DEF Inquiries!Reload, Inquiries!server
<1>16. CASE UNCHANGED Inquiries!vars
  BY <1>9, <1>16 DEF Inquiries!vars, Inquiries!server, Inquiries!shown
<1> QED  BY <1>3, <1>5, <1>6, <1>7, <1>8, <1>10, <1>11, <1>12, <1>13, <1>14, <1>15, <1>16
    DEF Inquiries!Next

\* What is to be shown follows from the invariant.
LEMMA InquiryShows ==
    ASSUME InquiryBounds, InquiryInv
    PROVE  Inquiries!AnsweredMeansMailed /\ Inquiries!PageShowsInquiries
<1>1. Len(inquiries) \in Int /\ pages * PageSize \in Int
  BY DEF InquiryBounds, InquiryInv, InquiryTypes, RowTypes, ListTypes
<1>2. Inquiries!Newest(Inquiries!Min({Len(inquiries), pages * PageSize})) = Upto(pages)
  BY <1>1, MinOfTwo DEF Upto
<1> QED  BY <1>2 DEF InquiryInv, MailInv, SendInv, LoadInv, Inquiries!PageShowsInquiries

\* An answer that is stored was mailed, whatever of the transaction and the mail fails, and
\* the page shows the inquiries its requests were answered and sends one answer to an
\* inquiry at a time (InquiryService.answer, the page of the administrator).
THEOREM InquiriesAreAnswered ==
    InquiryBounds => (Inquiries!Spec => [](Inquiries!AnsweredMeansMailed /\ Inquiries!PageShowsInquiries))
<1> SUFFICES ASSUME InquiryBounds
             PROVE  Inquiries!Spec => [](Inquiries!AnsweredMeansMailed /\ Inquiries!PageShowsInquiries)
  OBVIOUS
<1>1. Inquiries!Init => InquiryInv
  BY InquiryBegins
<1>2. InquiryInv /\ [Inquiries!Next]_Inquiries!vars => InquiryInv'
  BY TypesStay, MailStays, SendStays, LoadStays DEF InquiryInv
<1> QED  BY <1>1, <1>2, InquiryShows, PTL DEF Inquiries!Spec

-----------------------------------------------------------------------------
(* The form of an inquiry                                                  *)

Sent == [n : Nat, visit : Writing!Visit, pc : {"sent", "stored", "refused"}]

WritingTypes ==
    /\ written \in Nat /\ written <= MaxVisits /\ wSends \in Nat
    /\ wOpen \in BOOLEAN /\ isSending \in BOOLEAN /\ abandoned \in BOOLEAN
    /\ wAsked \subseteq Sent
    /\ stored \in [Writing!Visit -> Nat] /\ told \in [Writing!Visit -> [success : Nat, error : Nat]]

\* A form has one request under way, and waits for it as long as it is open.
OneAtATime ==
    /\ \A r, s \in wAsked : r.visit = s.visit => r = s
    /\ \A r \in wAsked : r.visit <= written
    /\ wOpen => (isSending <=> \E r \in wAsked : r.visit = written)
    /\ wOpen => written >= 1

\* Once a form was told of its success it is closed, and has nothing under way.
SuccessIsLast ==
    \A v \in Writing!Visit :
        /\ told[v].success \in {0, 1}
        /\ told[v].success = 1 => \A r \in wAsked : r.visit # v
        /\ told[v].success = 1 => v <= written /\ (v = written => ~wOpen)

\* Each time it is stored is told, as a success or, where the answer is lost, as a failure.
StoredIsTold ==
    \A v \in Writing!Visit :
        stored[v] <= told[v].error + told[v].success
                       + (IF \E r \in wAsked : r.visit = v /\ r.pc = "stored" THEN 1 ELSE 0)

NothingLeftBehind == ~abandoned => \A r \in wAsked : wOpen /\ r.visit = written

WritingInv == WritingTypes /\ OneAtATime /\ SuccessIsLast /\ StoredIsTold /\ NothingLeftBehind

\* That an inquiry is stored once at most follows from the invariant.
LEMMA WritingShows ==
    ASSUME WritingInv
    PROVE  Writing!SentOnce
<1>1. ASSUME NEW v \in Writing!Visit
      PROVE  stored[v] <= 1 + told[v].error
  <2>1. stored[v] \in Nat /\ told[v].error \in Nat /\ told[v].success \in {0, 1}
    BY DEF WritingInv, WritingTypes, SuccessIsLast
  <2>2. CASE \E r \in wAsked : r.visit = v /\ r.pc = "stored"
    <3>1. told[v].success = 0
      BY <2>1, <2>2 DEF WritingInv, SuccessIsLast
    <3> QED BY <2>1, <2>2, <3>1 DEF WritingInv, StoredIsTold
  <2>3. CASE ~\E r \in wAsked : r.visit = v /\ r.pc = "stored"
    BY <2>1, <2>3 DEF WritingInv, StoredIsTold
  <2> QED BY <2>2, <2>3
<1>2. ASSUME ~abandoned, wOpen
      PROVE  /\ isSending <=> wAsked # {}
             /\ told[written].success = 0
  <2>1. written \in Writing!Visit
    BY <1>2 DEF WritingInv, WritingTypes, OneAtATime, Writing!Visit
  <2> QED BY <1>2, <2>1 DEF WritingInv, OneAtATime, SuccessIsLast, NothingLeftBehind
<1> QED BY <1>1, <1>2 DEF Writing!SentOnce

\* Nothing was written yet.
LEMMA WritingBegins == WritingBounds /\ Writing!Init => WritingInv
<1> SUFFICES ASSUME WritingBounds, Writing!Init PROVE WritingInv
  OBVIOUS
<1>1. written = 0 /\ wSends = 0 /\ wAsked = {}
  BY DEF Writing!Init
<1>2. \A v \in Writing!Visit : stored[v] = 0 /\ told[v] = [success |-> 0, error |-> 0]
  BY DEF Writing!Init
<1>3. \A v \in Writing!Visit : told[v].success = 0 /\ told[v].error = 0
  BY <1>2
<1>4. WritingTypes
  <2>1. stored \in [Writing!Visit -> Nat] /\ told \in [Writing!Visit -> [success : Nat, error : Nat]]
    BY DEF Writing!Init
  <2>2. wOpen \in BOOLEAN /\ isSending \in BOOLEAN /\ abandoned \in BOOLEAN
    BY DEF Writing!Init
  <2> QED BY <1>1, <2>1, <2>2 DEF WritingTypes, WritingBounds
<1>5. OneAtATime /\ NothingLeftBehind
  BY DEF Writing!Init, OneAtATime, NothingLeftBehind
<1>6. SuccessIsLast
  BY <1>3 DEF SuccessIsLast
<1>7. StoredIsTold
  BY <1>1, <1>2, <1>3 DEF StoredIsTold
<1> QED BY <1>4, <1>5, <1>6, <1>7 DEF WritingInv

\* The form is opened, a visit later than any before.
LEMMA WriteKeeps ==
    ASSUME WritingBounds, WritingInv, Writing!Open
    PROVE  WritingInv'
<1> USE DEF WritingInv
<1>1. WritingTypes'
  <2>1. wOpen' = TRUE /\ isSending' = FALSE /\ UNCHANGED <<wAsked, wSends, stored, told, abandoned>>
    BY DEF Writing!Open
  <2>2. written' \in Nat /\ written' <= MaxVisits
    BY DEF WritingBounds, WritingTypes, Writing!Open
  <2> QED BY <2>1, <2>2 DEF WritingTypes
<1>2. written \in Nat /\ written' = written + 1 /\ wAsked' = wAsked /\ \A r \in wAsked : r.visit <= written /\ r.visit \in Nat
  BY DEF WritingTypes, Writing!Open, OneAtATime, Sent, Writing!Visit
<1>3. OneAtATime'
  <2>1. \A r \in wAsked : r.visit # written'
    BY <1>2
  <2> QED BY <1>2, <2>1 DEF OneAtATime, Writing!Open
<1>4. SuccessIsLast'
  BY <1>2 DEF SuccessIsLast, Writing!Open, Writing!Visit
<1>5. StoredIsTold'
  BY DEF StoredIsTold, Writing!Open
<1>6. NothingLeftBehind'
  BY DEF NothingLeftBehind, Writing!Open
<1> QED BY <1>1, <1>3, <1>4, <1>5, <1>6

\* What is written is sent once: the button is disabled until the answer.
LEMMA InquirySendKeeps ==
    ASSUME WritingBounds, WritingInv, Writing!Submit
    PROVE  WritingInv'
<1> USE DEF WritingInv
<1> DEFINE new == [n |-> wSends + 1, visit |-> written, pc |-> "sent"]
<1>1. /\ wOpen /\ ~isSending /\ isSending' = TRUE /\ wAsked' = wAsked \cup {new} /\ wSends' = wSends + 1
      /\ UNCHANGED <<written, wOpen, stored, told, abandoned>>
  BY DEF Writing!Submit, Writing!MaySend
<1>2. written \in Writing!Visit /\ written \in Nat /\ new \in Sent
  BY <1>1 DEF WritingTypes, OneAtATime, Writing!Visit, Sent
<1>3. \A r \in wAsked : r.visit # written
  BY <1>1 DEF OneAtATime
<1> HIDE DEF new
<1>4. new.visit = written /\ new.pc = "sent"
  BY DEF new
<1>5. WritingTypes'
  BY <1>1, <1>2 DEF WritingTypes
<1>6. OneAtATime'
  BY <1>1, <1>2, <1>3, <1>4 DEF OneAtATime
<1>7. SuccessIsLast'
  BY <1>1, <1>2, <1>4 DEF SuccessIsLast
<1>8. StoredIsTold'
  <2>1. \A v : (\E r \in wAsked' : r.visit = v /\ r.pc = "stored") <=> \E r \in wAsked : r.visit = v /\ r.pc = "stored"
    BY <1>1, <1>4
  <2> QED BY <1>1, <2>1 DEF StoredIsTold
<1>9. NothingLeftBehind'
  BY <1>1, <1>4 DEF NothingLeftBehind
<1> QED BY <1>5, <1>6, <1>7, <1>8, <1>9

\* The form is left, and with it what was sent.
LEMMA LeaveKeeps ==
    ASSUME WritingBounds, WritingInv, Writing!Leave
    PROVE  WritingInv'
<1> USE DEF WritingInv, Writing!Leave
<1>1. WritingTypes'
  BY DEF WritingTypes
<1>2. OneAtATime'
  BY DEF OneAtATime
<1>3. SuccessIsLast'
  BY DEF SuccessIsLast
<1>4. StoredIsTold'
  BY DEF StoredIsTold
<1>5. NothingLeftBehind'
  BY DEF NothingLeftBehind
<1> QED BY <1>1, <1>2, <1>3, <1>4, <1>5

\* The server stores what was sent, or refuses it.
LEMMA StoreKeeps ==
    ASSUME WritingBounds, WritingInv, NEW r \in wAsked, NEW ok \in BOOLEAN, Writing!Serve(r, ok)
    PROVE  WritingInv'
<1> USE DEF WritingInv
<1> DEFINE new == [r EXCEPT !.pc = IF ok THEN "stored" ELSE "refused"]
<1>1. /\ r.pc = "sent" /\ wAsked' = (wAsked \ {r}) \cup {new}
      /\ stored' = IF ok THEN [stored EXCEPT ![r.visit] = @ + 1] ELSE stored
      /\ UNCHANGED <<written, wOpen, isSending, wSends, told, abandoned>>
  BY DEF Writing!Serve
<1>2. r \in Sent
  BY DEF WritingTypes
<1>3. new \in Sent /\ new.visit = r.visit /\ new.pc = IF ok THEN "stored" ELSE "refused"
  BY <1>2 DEF Sent
<1> HIDE DEF new
<1>4. WritingTypes'
  <2>1. stored' \in [Writing!Visit -> Nat]
    BY <1>1, <1>2 DEF WritingTypes, Sent
  <2> QED BY <1>1, <1>3, <2>1 DEF WritingTypes
<1>5. OneAtATime'
  BY <1>1, <1>3 DEF OneAtATime
<1>6. SuccessIsLast'
  BY <1>1, <1>3 DEF SuccessIsLast
<1>7. StoredIsTold'
  <2> SUFFICES ASSUME NEW v \in Writing!Visit
               PROVE  stored'[v] <= told[v].error + told[v].success
                       + (IF \E q \in wAsked' : q.visit = v /\ q.pc = "stored" THEN 1 ELSE 0)
    BY <1>1 DEF StoredIsTold
  <2>1. stored[v] \in Nat /\ told[v].error \in Nat /\ told[v].success \in Nat
    BY DEF WritingTypes
  <2>2. stored[v] <= told[v].error + told[v].success
                       + (IF \E q \in wAsked : q.visit = v /\ q.pc = "stored" THEN 1 ELSE 0)
    BY DEF StoredIsTold
  <2>3. CASE v = r.visit
    <3>1. \A q \in wAsked : q.visit = v => q = r
      BY <2>3 DEF OneAtATime
    <3>2. ~\E q \in wAsked : q.visit = v /\ q.pc = "stored"
      BY <3>1, <1>1
    <3>3. ok => \E q \in wAsked' : q.visit = v /\ q.pc = "stored"
      BY <1>1, <1>3, <2>3
    <3>4. stored'[v] = IF ok THEN stored[v] + 1 ELSE stored[v]
      BY <1>1, <2>3, <2>1 DEF WritingTypes
    <3> QED BY <2>1, <2>2, <3>2, <3>3, <3>4
  <2>4. CASE v # r.visit
    <3>1. stored'[v] = stored[v]
      BY <1>1, <2>4 DEF WritingTypes
    <3>2. (\E q \in wAsked' : q.visit = v /\ q.pc = "stored") <=> \E q \in wAsked : q.visit = v /\ q.pc = "stored"
      BY <1>1, <1>3, <2>4
    <3> QED BY <2>2, <3>1, <3>2
  <2> QED BY <2>3, <2>4
<1>8. NothingLeftBehind'
  BY <1>1, <1>3 DEF NothingLeftBehind
<1> QED BY <1>4, <1>5, <1>6, <1>7, <1>8

\* The answer that it was stored closes the form of its visit.
LEMMA StoredKeeps ==
    ASSUME WritingBounds, WritingInv, NEW r \in wAsked, Writing!Stored(r)
    PROVE  WritingInv'
<1> USE DEF WritingInv
<1>1. /\ r.pc = "stored" /\ wAsked' = wAsked \ {r} /\ wOpen' = FALSE
      /\ told' = [told EXCEPT ![r.visit].success = @ + 1]
      /\ UNCHANGED <<written, isSending, wSends, stored, abandoned>>
  BY DEF Writing!Stored
<1>2. r \in Sent /\ r.visit \in Writing!Visit /\ r.visit <= written
  BY DEF WritingTypes, Sent, OneAtATime
<1>3. told[r.visit] \in [success : Nat, error : Nat] /\ told[r.visit].success = 0
  BY <1>2 DEF WritingTypes, SuccessIsLast
<1>4. \A v \in Writing!Visit : /\ told'[v].success = IF v = r.visit THEN 1 ELSE told[v].success
                               /\ told'[v].error = told[v].error
  <2>1. told'[r.visit] = [told[r.visit] EXCEPT !.success = 1]
    BY <1>1, <1>2, <1>3 DEF WritingTypes
  <2>2. told'[r.visit].success = 1 /\ told'[r.visit].error = told[r.visit].error
    BY <1>3, <2>1
  <2>3. \A v \in Writing!Visit : v # r.visit => told'[v] = told[v]
    BY <1>1, <1>2 DEF WritingTypes
  <2> QED BY <2>2, <2>3
<1>5. \A q \in wAsked' : q.visit # r.visit
  BY <1>1 DEF OneAtATime
<1>6. WritingTypes'
  <2>1. told' \in [Writing!Visit -> [success : Nat, error : Nat]]
    BY <1>1, <1>2, <1>3 DEF WritingTypes
  <2> QED BY <1>1, <2>1 DEF WritingTypes
<1>7. OneAtATime'
  BY <1>1 DEF OneAtATime
<1>8. SuccessIsLast'
  <2> SUFFICES ASSUME NEW v \in Writing!Visit
               PROVE  /\ told'[v].success \in {0, 1}
                      /\ told'[v].success = 1 => \A q \in wAsked' : q.visit # v
                      /\ told'[v].success = 1 => v <= written
    BY <1>1 DEF SuccessIsLast
  <2>1. CASE v = r.visit
    BY <1>2, <1>4, <1>5, <2>1
  <2>2. CASE v # r.visit
    BY <1>1, <1>4, <2>2 DEF SuccessIsLast
  <2> QED BY <2>1, <2>2
<1>9. StoredIsTold'
  <2> SUFFICES ASSUME NEW v \in Writing!Visit
               PROVE  stored[v] <= told'[v].error + told'[v].success
                       + (IF \E q \in wAsked' : q.visit = v /\ q.pc = "stored" THEN 1 ELSE 0)
    BY <1>1 DEF StoredIsTold
  <2>1. stored[v] \in Nat /\ told[v].error \in Nat /\ told[v].success \in Nat
    BY DEF WritingTypes
  <2>2. stored[v] <= told[v].error + told[v].success
                       + (IF \E q \in wAsked : q.visit = v /\ q.pc = "stored" THEN 1 ELSE 0)
    BY DEF StoredIsTold
  <2>3. CASE v = r.visit
    <3>1. \E q \in wAsked : q.visit = v /\ q.pc = "stored"
      BY <1>1, <2>3
    <3>2. ~\E q \in wAsked' : q.visit = v /\ q.pc = "stored"
      BY <1>5, <2>3
    <3>3. told'[v].error = told[v].error /\ told'[v].success = 1 /\ told[v].success = 0
      BY <1>3, <1>4, <2>3
    <3> QED BY <2>1, <2>2, <3>1, <3>2, <3>3
  <2>4. CASE v # r.visit
    <3>1. told'[v].error = told[v].error /\ told'[v].success = told[v].success
      BY <1>4, <2>4
    <3>2. (\E q \in wAsked' : q.visit = v /\ q.pc = "stored") <=> \E q \in wAsked : q.visit = v /\ q.pc = "stored"
      BY <1>1, <2>4
    <3> QED BY <2>2, <3>1, <3>2
  <2> QED BY <2>3, <2>4
<1>10. NothingLeftBehind'
  <2>1. ASSUME ~abandoned, NEW q \in wAsked'
        PROVE  FALSE
    BY <1>1, <1>5, <2>1 DEF NothingLeftBehind
  <2> QED BY <2>1, <1>1 DEF NothingLeftBehind
<1> QED BY <1>6, <1>7, <1>8, <1>9, <1>10

\* A call that fails lets the form be sent again.
LEMMA FailsKeeps ==
    ASSUME WritingBounds, WritingInv, NEW r \in wAsked, Writing!Fails(r)
    PROVE  WritingInv'
<1> USE DEF WritingInv
<1>1. /\ wAsked' = wAsked \ {r}
      /\ told' = [told EXCEPT ![r.visit].error = @ + 1]
      /\ isSending' = (isSending /\ r.visit # written)
      /\ UNCHANGED <<written, wOpen, wSends, stored, abandoned>>
  BY DEF Writing!Fails
<1>2. r \in Sent /\ r.visit \in Writing!Visit
  BY DEF WritingTypes, Sent
<1>3. told[r.visit] \in [success : Nat, error : Nat]
  BY <1>2 DEF WritingTypes
<1>4. \A v \in Writing!Visit : /\ told'[v].error = IF v = r.visit THEN told[v].error + 1 ELSE told[v].error
                               /\ told'[v].success = told[v].success
  <2>1. told'[r.visit] = [told[r.visit] EXCEPT !.error = @ + 1]
    BY <1>1, <1>2, <1>3 DEF WritingTypes
  <2>2. told'[r.visit].error = told[r.visit].error + 1 /\ told'[r.visit].success = told[r.visit].success
    BY <1>3, <2>1
  <2>3. \A v \in Writing!Visit : v # r.visit => told'[v] = told[v]
    BY <1>1, <1>2 DEF WritingTypes
  <2> QED BY <2>2, <2>3
<1>5. \A q \in wAsked' : q.visit # r.visit
  BY <1>1 DEF OneAtATime
<1>6. WritingTypes'
  <2>1. told' \in [Writing!Visit -> [success : Nat, error : Nat]]
    BY <1>1, <1>2, <1>3 DEF WritingTypes
  <2>2. isSending' \in BOOLEAN
    BY <1>1
  <2> QED BY <1>1, <2>1, <2>2 DEF WritingTypes
<1>7. OneAtATime'
  <2>1. CASE r.visit = written
    BY <1>1, <1>5, <2>1 DEF OneAtATime
  <2>2. CASE r.visit # written
    BY <1>1, <2>2 DEF OneAtATime
  <2> QED BY <2>1, <2>2
<1>8. SuccessIsLast'
  <2> SUFFICES ASSUME NEW v \in Writing!Visit
               PROVE  /\ told'[v].success \in {0, 1}
                      /\ told'[v].success = 1 => \A q \in wAsked' : q.visit # v
                      /\ told'[v].success = 1 => v <= written /\ (v = written => ~wOpen)
    BY <1>1 DEF SuccessIsLast
  <2>1. told'[v].success = told[v].success
    BY <1>4
  <2> QED BY <1>1, <2>1 DEF SuccessIsLast
<1>9. StoredIsTold'
  <2> SUFFICES ASSUME NEW v \in Writing!Visit
               PROVE  stored[v] <= told'[v].error + told'[v].success
                       + (IF \E q \in wAsked' : q.visit = v /\ q.pc = "stored" THEN 1 ELSE 0)
    BY <1>1 DEF StoredIsTold
  <2>1. stored[v] \in Nat /\ told[v].error \in Nat /\ told[v].success \in Nat
    BY DEF WritingTypes
  <2>2. stored[v] <= told[v].error + told[v].success
                       + (IF \E q \in wAsked : q.visit = v /\ q.pc = "stored" THEN 1 ELSE 0)
    BY DEF StoredIsTold
  <2>3. CASE v = r.visit
    <3>1. told'[v].error = told[v].error + 1 /\ told'[v].success = told[v].success
      BY <1>3, <1>4, <2>3
    <3> QED BY <2>1, <2>2, <3>1
  <2>4. CASE v # r.visit
    <3>1. told'[v].error = told[v].error /\ told'[v].success = told[v].success
      BY <1>4, <2>4
    <3>2. (\E q \in wAsked' : q.visit = v /\ q.pc = "stored") <=> \E q \in wAsked : q.visit = v /\ q.pc = "stored"
      BY <1>1, <2>4
    <3> QED BY <2>2, <3>1, <3>2
  <2> QED BY <2>3, <2>4
<1>10. NothingLeftBehind'
  BY <1>1 DEF NothingLeftBehind
<1> QED BY <1>6, <1>7, <1>8, <1>9, <1>10

\* Every step keeps the invariant.
LEMMA WritingKeeps ==
    WritingBounds /\ WritingInv /\ [Writing!Next]_Writing!vars => WritingInv'
<1> SUFFICES ASSUME WritingBounds, WritingInv, [Writing!Next]_Writing!vars PROVE WritingInv'
  OBVIOUS
<1>1. CASE UNCHANGED Writing!vars
  BY <1>1 DEF Writing!vars, WritingInv, WritingTypes, OneAtATime, SuccessIsLast, StoredIsTold,
      NothingLeftBehind
<1>2. CASE Writing!Next
  BY <1>2, WriteKeeps, InquirySendKeeps, LeaveKeeps, StoreKeeps, StoredKeeps, FailsKeeps DEF Writing!Next
<1> QED BY <1>1, <1>2

\* What is written on a visit is stored once, unless the answer that it was stored is lost,
\* and the user is told so of what is stored (handleSubmit of the inquiry form).
THEOREM InquiriesAreSentOnce == WritingBounds => (Writing!Spec => []Writing!SentOnce)
<1> SUFFICES ASSUME WritingBounds PROVE Writing!Spec => []Writing!SentOnce
  OBVIOUS
<1>1. Writing!Init => WritingInv
  BY WritingBegins
<1>2. WritingInv /\ [Writing!Next]_Writing!vars => WritingInv'
  BY WritingKeeps
<1>3. WritingInv => Writing!SentOnce
  BY WritingShows
<1> QED BY <1>1, <1>2, <1>3, PTL DEF Writing!Spec

-----------------------------------------------------------------------------
(* The forms of someone who is not logged in                               *)

\* Finite sets of an instance are those of the library.
LEMMA FormsFiniteSets ==
    \A S : /\ Forms!IsFiniteSet(S) <=> IsFiniteSet(S)
           /\ Forms!Cardinality(S) = Cardinality(S)
  BY DEF Forms!IsFiniteSet, IsFiniteSet, Forms!Cardinality, Cardinality

\* A fact of the library about finite sets, for those of the instance.
LEMMA FormsCardinalityType ==
    ASSUME NEW S, Forms!IsFiniteSet(S)
    PROVE  Forms!Cardinality(S) \in Nat
  BY FS_CardinalityType, FormsFiniteSets

\* A fact of the library about finite sets, for those of the instance.
LEMMA FormsSubset ==
    ASSUME NEW S, Forms!IsFiniteSet(S), NEW T \in SUBSET S
    PROVE  /\ Forms!IsFiniteSet(T)
           /\ Forms!Cardinality(T) <= Forms!Cardinality(S)
           /\ Forms!Cardinality(S) = Forms!Cardinality(T) => S = T
  BY FS_Subset, FormsFiniteSets

\* A fact of the library about finite sets, for those of the instance.
LEMMA FormsAddElement ==
    ASSUME NEW S, NEW x, Forms!IsFiniteSet(S)
    PROVE  /\ Forms!IsFiniteSet(S \cup {x})
           /\ Forms!Cardinality(S \cup {x}) = IF x \in S THEN Forms!Cardinality(S) ELSE Forms!Cardinality(S) + 1
  BY FS_AddElement, FormsFiniteSets

\* A fact of the library about finite sets, for those of the instance.
LEMMA FormsRemoveElement ==
    ASSUME NEW S, NEW x, Forms!IsFiniteSet(S)
    PROVE  /\ Forms!IsFiniteSet(S \ {x})
           /\ Forms!Cardinality(S \ {x}) = IF x \in S THEN Forms!Cardinality(S) - 1 ELSE Forms!Cardinality(S)
  BY FS_RemoveElement, FormsFiniteSets

\* A fact of the library about finite sets, for those of the instance.
LEMMA FormsEmptySet ==
    /\ Forms!IsFiniteSet({}) /\ Forms!Cardinality({}) = 0
    /\ \A S : Forms!IsFiniteSet(S) => (Forms!Cardinality(S) = 0 <=> S = {})
  BY FS_EmptySet, FormsFiniteSets

\* A fact of the library about finite sets, for those of the instance.
LEMMA FormsSingleton ==
    /\ \A x : Forms!IsFiniteSet({x}) /\ Forms!Cardinality({x}) = 1
    /\ \A S : Forms!IsFiniteSet(S) => (Forms!Cardinality(S) = 1 <=> \E x: S = {x})
  BY FS_Singleton, FormsFiniteSets

Code == [id : Nat, email : Email, purpose : Forms!Purpose, form : Nat, at : Nat,
         mailed : BOOLEAN, verified : BOOLEAN, consumed : BOOLEAN]
FormKinds    == {"code", "confirm", "submit"}
Outcomes == {"sent", "ok", "failed", "unauthorized"}
FormRequest == [kind : FormKinds, visit : Nat, form : Nat, purpose : Forms!Purpose, email : Email, code : Nat, pc : Outcomes]

CodeTypes ==
    /\ fCodes \subseteq Code /\ Forms!IsFiniteSet(fCodes)
    /\ \A c \in fCodes : c.id \in 1..Forms!Cardinality(fCodes) /\ c.at <= fNow /\ c.form <= form
    /\ \A c, d \in fCodes : c.id = d.id => c = d

AskedTypes == fAsked \subseteq FormRequest /\ \A r \in fAsked : r.form <= form

NumberTypes ==
    /\ fNow \in 0..MaxFormTime /\ fCalls \in 0..MaxFormCalls /\ visit \in Nat /\ form \in Nat /\ fToken \in Nat
    /\ cooldown \in 0..COOLDOWN /\ phase \in 0..(SECOND - 1)
    /\ (~codeSent => cooldown = 0 /\ phase = 0)

FieldTypes ==
    /\ accounts \subseteq Email /\ view \in Forms!Purpose \cup {"login"}
    /\ email \in Email \cup {"none"} /\ codeSent \in BOOLEAN /\ fBusy \in BOOLEAN
    /\ verifiedEmail \in Email \cup {"none"}
    /\ edited \in BOOLEAN /\ lost \in BOOLEAN /\ unmailed \in BOOLEAN
    /\ (codeSent => email \in Email)

FormTypes == CodeTypes /\ AskedTypes /\ NumberTypes /\ FieldTypes

\* The requests of the step with a code that is open.
Asking == {r \in fAsked : r.kind # "submit" /\ r.form = form}

OneQuestion ==
    /\ \A r, s \in Asking : r = s
    /\ \A r \in Asking : /\ fBusy /\ view \in Forms!Purpose /\ fToken = Forms!NoToken /\ email \in Email
                         /\ r.purpose = view /\ (r.email = email \/ edited)
                         /\ r.kind = "code" /\ codeSent => cooldown = 0

\* The form was sent a code, to the address, or asked for nobody.
Told(e) == \/ \E c \in fCodes : c.form = form /\ c.mailed /\ (c.email = e \/ edited) /\ c.purpose = view
           \/ view = "password_reset" /\ unmailed

VerifiedAs(id, e, p) == \E c \in fCodes : c.id = id /\ c.verified /\ c.email = e /\ c.purpose = p

TruthInv ==
    /\ \A r \in Asking : r.kind = "code" /\ r.pc = "ok" => Told(r.email)
    /\ \A r \in fAsked : r.kind = "confirm" /\ r.pc = "ok" => VerifiedAs(r.code, r.email, r.purpose)
    /\ codeSent => Told(email)
    /\ fToken # Forms!NoToken => VerifiedAs(fToken, verifiedEmail, view) /\ verifiedEmail \in Email

\* The only code of a form that asked for none in vain.
LastCode(c) == ~unmailed /\ \A d \in fCodes : d.form = form => d.id = c.id

\* The ticks since the answer, as the form counts them: up to a second more than those
\* that have passed, as the beat of a code that is not the first is that of the one before.
Counted(c) == (COOLDOWN - cooldown) * SECOND + phase - (IF LastCode(c) THEN 0 ELSE SECOND - 1)

WaitInv ==
    /\ ~lost /\ fToken = Forms!NoToken =>
          \/ \E r \in Asking : r.kind = "code" /\ r.pc = "ok"
          \/ \A c \in fCodes : c.form = form => codeSent /\ Counted(c) <= fNow - c.at
    /\ \A r \in Asking : r.kind = "code" /\ r.pc = "ok" /\ codeSent =>
          \A c \in fCodes : c.form = form => ~LastCode(c)

MissingInv == missing \in [ticks : Nat, codes : Nat] /\ missing.ticks < SECOND
                /\ (missing.ticks > 0 => missing.codes > 1)

FormInv == FormTypes /\ OneQuestion /\ TruthInv /\ WaitInv /\ MissingInv

-----------------------------------------------------------------------------
\* The beats of a second, counted from 0.
LEMMA NextBeat ==
    ASSUME NEW S \in Nat \ {0}, NEW p \in 0..(S - 1)
    PROVE  (p + 1) % S = IF p + 1 = S THEN 0 ELSE p + 1
  OBVIOUS

\* What is to be shown follows from the invariant.
LEMMA FormShows ==
    ASSUME FormBounds, FormInv
    PROVE  Forms!TypeOK /\ Forms!FormSpeaksTrue
<1>1. Forms!TypeOK
  <2>1. fToken \in 0..Forms!Cardinality(fCodes)
    <3>1. Forms!Cardinality(fCodes) \in Nat
      BY FormsCardinalityType DEF FormInv, FormTypes, CodeTypes
    <3>2. CASE fToken = 0
      BY <3>1, <3>2
    <3>3. CASE fToken # 0
      BY <3>1, <3>3 DEF FormInv, TruthInv, VerifiedAs, Forms!NoToken, FormTypes, CodeTypes
    <3> QED BY <3>2, <3>3
  <2>2. \A c \in fCodes : c.id \in 1..Forms!Cardinality(fCodes) /\ c.email \in Email /\ c.at \in 0..fNow
    BY DEF FormInv, FormTypes, CodeTypes, NumberTypes, Code
  <2> QED BY <2>1, <2>2 DEF Forms!TypeOK, FormInv, FormTypes, NumberTypes, FieldTypes
<1>2. Forms!FormSpeaksTrue
  BY DEF Forms!FormSpeaksTrue, FormInv, TruthInv, Told, VerifiedAs, MissingInv
<1> QED BY <1>1, <1>2

\* Someone who begins has no code and no form.
LEMMA FormBegins == FormBounds /\ Forms!Init => FormInv
<1> SUFFICES ASSUME FormBounds, Forms!Init PROVE FormInv
  OBVIOUS
<1>1. CodeTypes
  BY FormsEmptySet DEF Forms!Init, CodeTypes
<1>2. AskedTypes
  BY DEF Forms!Init, AskedTypes
<1>3. NumberTypes /\ FieldTypes
  <2>1. NumberTypes
    BY DEF Forms!Init, NumberTypes, FormBounds, Forms!NoToken
  <2>2. FieldTypes
    BY DEF Forms!Init, FieldTypes
  <2> QED BY <2>1, <2>2
<1>4. OneQuestion /\ TruthInv /\ WaitInv
  BY DEF Forms!Init, OneQuestion, Asking, TruthInv, WaitInv
<1>5. MissingInv
  <2>1. missing = [ticks |-> 0, codes |-> 0]
    BY DEF Forms!Init
  <2>2. missing.ticks = 0 /\ missing \in [ticks : Nat, codes : Nat]
    BY <2>1
  <2> QED BY <2>2 DEF MissingInv, FormBounds
<1> QED BY <1>1, <1>2, <1>3, <1>4, <1>5 DEF FormInv, FormTypes

-----------------------------------------------------------------------------
(* What the steps have in common                                           *)

\* A row that is only marked.
Same(c, d) ==
    /\ d.id = c.id /\ d.email = c.email /\ d.purpose = c.purpose /\ d.form = c.form
    /\ d.at = c.at /\ d.mailed = c.mailed /\ (c.verified => d.verified)

Marked == /\ \A c \in fCodes : \E d \in fCodes' : Same(c, d)
          /\ \A d \in fCodes' : \E c \in fCodes : Same(c, d)

\* Codes that stay are marked with nothing.
LEMMA NothingMarked == UNCHANGED fCodes => Marked
  BY DEF Marked, Same

\* A code that is verified or consumed is otherwise the same.
LEMMA OneMarked ==
    ASSUME CodeTypes, NEW c \in fCodes, NEW d \in Code, Same(c, d),
           fCodes' = (fCodes \ {c}) \cup {d}, UNCHANGED <<fNow, form>>
    PROVE  CodeTypes' /\ Marked
<1>1. \A x \in fCodes : x.id = d.id => x = c
  BY DEF CodeTypes, Same
<1>2. Forms!IsFiniteSet(fCodes \ {c}) /\ Forms!Cardinality(fCodes \ {c}) = Forms!Cardinality(fCodes) - 1
  BY FormsRemoveElement DEF CodeTypes
<1>3. d \notin fCodes \ {c}
  BY <1>1
<1>4. Forms!IsFiniteSet(fCodes') /\ Forms!Cardinality(fCodes') = Forms!Cardinality(fCodes) - 1 + 1
  BY <1>2, <1>3, FormsAddElement
<1>5. Forms!Cardinality(fCodes) \in Nat
  BY FormsCardinalityType DEF CodeTypes
<1>6. Forms!Cardinality(fCodes') = Forms!Cardinality(fCodes)
  BY <1>4, <1>5
<1>7. d.id \in 1..Forms!Cardinality(fCodes) /\ d.at <= fNow /\ d.form <= form
  BY DEF CodeTypes, Same
<1>8. CodeTypes'
  BY <1>1, <1>4, <1>6, <1>7 DEF CodeTypes
<1>9. Marked
  BY DEF Marked, Same
<1> QED BY <1>8, <1>9

\* What the form was told stays true while rows are marked.
LEMMA MarkedKeeps ==
    ASSUME Marked, UNCHANGED <<form, view, edited, unmailed>>
    PROVE  /\ \A e : Told(e) => Told(e)'
           /\ \A i, e, p : VerifiedAs(i, e, p) => VerifiedAs(i, e, p)'
<1>1. ASSUME NEW e, Told(e) PROVE Told(e)'
  BY <1>1 DEF Told, Marked, Same
<1>2. ASSUME NEW i, NEW e, NEW p, VerifiedAs(i, e, p) PROVE VerifiedAs(i, e, p)'
  BY <1>2 DEF VerifiedAs, Marked, Same
<1> QED BY <1>1, <1>2

\* Marks on codes leave what the form waits for.
LEMMA MarkedWaits ==
    ASSUME WaitInv, Marked, UNCHANGED <<fNow, form, codeSent, cooldown, phase, fToken, lost, unmailed>>,
           \A r \in Asking : r.kind = "code" /\ r.pc = "ok" => r \in Asking',
           \A r \in Asking' : r.kind = "code" /\ r.pc = "ok" => r \in Asking
    PROVE  WaitInv'
<1>1. ASSUME NEW c \in fCodes, NEW d \in fCodes', Same(c, d)
      PROVE  LastCode(d)' <=> LastCode(c)
  BY <1>1 DEF LastCode, Marked, Same
<1>2. ASSUME NEW c \in fCodes, NEW d \in fCodes', Same(c, d)
      PROVE  Counted(d)' = Counted(c)
  BY <1>1, <1>2 DEF Counted
<1>3. \A d \in fCodes' : \E c \in fCodes : Same(c, d)
  BY DEF Marked
<1>4. ASSUME ~lost, fToken = Forms!NoToken
      PROVE  \/ \E r \in Asking' : r.kind = "code" /\ r.pc = "ok"
             \/ \A d \in fCodes' : d.form = form => codeSent /\ Counted(d)' <= fNow - d.at
  <2>1. CASE \E r \in Asking : r.kind = "code" /\ r.pc = "ok"
    BY <2>1
  <2>2. CASE \A c \in fCodes : c.form = form => codeSent /\ Counted(c) <= fNow - c.at
    <3> SUFFICES ASSUME NEW d \in fCodes', d.form = form
                 PROVE  codeSent /\ Counted(d)' <= fNow - d.at
      OBVIOUS
    <3>1. PICK c \in fCodes : Same(c, d)
      BY <1>3
    <3>2. Counted(d)' = Counted(c) /\ d.at = c.at /\ c.form = form
      BY <1>2, <3>1 DEF Same
    <3> QED BY <2>2, <3>2
  <2> QED BY <1>4, <2>1, <2>2 DEF WaitInv
<1>5. ASSUME NEW r \in Asking', r.kind = "code", r.pc = "ok", codeSent, NEW d \in fCodes', d.form = form
      PROVE  ~LastCode(d)'
  <2>1. PICK c \in fCodes : Same(c, d)
    BY <1>3
  <2> QED BY <1>1, <1>5, <2>1 DEF WaitInv, Same
<1> QED BY <1>4, <1>5 DEF WaitInv

\* A step with a code that begins anew has asked for nothing and knows of nothing.
LEMMA FormBeginKeeps ==
    ASSUME FormBounds, FormInv, Forms!Begin, UNCHANGED <<fNow, fCodes, accounts, fCalls, missing>>,
           fAsked' \subseteq fAsked, view' \in Forms!Purpose \cup {"login"}, visit' \in Nat
    PROVE  FormInv'
<1> USE DEF FormInv
<1>1. form \in Nat /\ form' = form + 1 /\ fToken' = Forms!NoToken /\ codeSent' = FALSE /\ verifiedEmail' = "none"
  BY DEF Forms!Begin, Forms!Fresh, FormTypes, NumberTypes
<1>2. CodeTypes'
  BY <1>1 DEF FormTypes, CodeTypes, Code
<1>3. AskedTypes'
  BY <1>1 DEF FormTypes, AskedTypes, FormRequest
<1>4. NumberTypes' /\ FieldTypes'
  <2>1. NumberTypes'
    BY <1>1 DEF FormTypes, NumberTypes, Forms!Begin, Forms!Fresh, FormBounds, Forms!NoToken
  <2>2. FieldTypes'
    BY <1>1 DEF FormTypes, FieldTypes, Forms!Begin, Forms!Fresh
  <2> QED BY <2>1, <2>2
<1>5. Asking' = {}
  <2>1. \A r \in fAsked' : r.form \in Nat /\ r.form <= form
    BY DEF FormTypes, AskedTypes, FormRequest
  <2> QED BY <1>1, <2>1 DEF Asking
<1>6. OneQuestion'
  BY <1>5 DEF OneQuestion
<1>7. TruthInv'
  BY <1>1, <1>5 DEF TruthInv, VerifiedAs
<1>8. WaitInv'
  <2>1. \A c \in fCodes' : c.form # form'
    BY <1>1 DEF FormTypes, CodeTypes, Code
  <2> QED BY <1>5, <2>1 DEF WaitInv
<1>9. MissingInv'
  BY DEF MissingInv
<1> QED BY <1>2, <1>3, <1>4, <1>6, <1>7, <1>8, <1>9 DEF FormTypes

-----------------------------------------------------------------------------
(* One lemma for each action                                               *)

\* The clock goes on, and the countdown with it, once a second.
LEMMA TickKeeps ==
    ASSUME FormBounds, FormInv, NEW skipped \in BOOLEAN, Forms!Tick(skipped)
    PROVE  FormInv'
<1> USE DEF FormInv
<1>1. /\ fNow < MaxFormTime /\ fNow' = fNow + 1
      /\ phase' = IF codeSent THEN (phase + 1) % SECOND ELSE phase
      /\ skipped => codeSent /\ phase' = 0 /\ cooldown > 0
      /\ cooldown' = IF codeSent /\ phase' = 0 /\ ~skipped /\ cooldown > 0 THEN cooldown - 1 ELSE cooldown
      /\ UNCHANGED <<fCodes, accounts, fAsked, fCalls, view, visit, form, email, codeSent, fBusy,
                     verifiedEmail, fToken, edited, lost, unmailed, missing>>
  BY DEF Forms!Tick, Forms!server, Forms!step, Forms!past
<1>2. /\ fNow \in Nat /\ phase \in 0..(SECOND - 1) /\ cooldown \in 0..COOLDOWN /\ SECOND \in Nat \ {0} /\ COOLDOWN \in Nat
      /\ ~codeSent => cooldown = 0 /\ phase = 0
  BY DEF FormTypes, NumberTypes, FormBounds
<1>3. (phase + 1) % SECOND = IF phase + 1 = SECOND THEN 0 ELSE phase + 1
  BY <1>2, NextBeat
<1>4. phase' \in 0..(SECOND - 1) /\ cooldown' \in 0..COOLDOWN /\ (cooldown = 0 => cooldown' = 0)
  BY <1>1, <1>2, <1>3
<1>5. CodeTypes'
  BY <1>1, <1>2 DEF FormTypes, CodeTypes, Code
<1>6. AskedTypes' /\ FieldTypes'
  BY <1>1 DEF FormTypes, AskedTypes, FieldTypes
<1>7. NumberTypes'
  BY <1>1, <1>2, <1>4 DEF FormTypes, NumberTypes, FormBounds
<1>8. Asking' = Asking
  BY <1>1 DEF Asking
<1>9. OneQuestion'
  BY <1>1, <1>4, <1>8 DEF OneQuestion
<1>10. TruthInv'
  BY <1>1, <1>8, NothingMarked, MarkedKeeps DEF TruthInv
<1>11. \A c \in fCodes : LastCode(c)' <=> LastCode(c)
  BY <1>1 DEF LastCode
<1>12. ASSUME NEW c \in fCodes, codeSent, Counted(c) <= fNow - c.at
       PROVE  Counted(c)' <= fNow' - c.at
  <2> DEFINE early == IF LastCode(c) THEN 0 ELSE SECOND - 1
  <2>1. c.at \in Nat /\ early \in Int
    BY <1>2 DEF FormTypes, CodeTypes, Code
  <2>2. Counted(c) = (COOLDOWN - cooldown) * SECOND + phase - early
    BY DEF Counted
  <2>3. Counted(c)' = (COOLDOWN - cooldown') * SECOND + phase' - early
    BY <1>11 DEF Counted
  <2>4. (COOLDOWN - (cooldown - 1)) * SECOND = (COOLDOWN - cooldown) * SECOND + SECOND
    BY <1>2
  <2> HIDE DEF early
  <2>5. CASE phase + 1 # SECOND
    <3>1. phase' = phase + 1
      BY <1>1, <1>3, <1>12, <2>5
    <3>2. cooldown' = cooldown
      BY <1>1, <1>2, <3>1
    <3> QED BY <1>1, <1>2, <1>12, <2>1, <2>2, <2>3, <3>1, <3>2
  <2>6. CASE phase + 1 = SECOND
    <3>1. phase' = 0
      BY <1>1, <1>3, <1>12, <2>6
    <3>2. cooldown' = cooldown \/ cooldown' = cooldown - 1
      BY <1>1
    <3> QED BY <1>1, <1>2, <1>12, <2>1, <2>2, <2>3, <2>4, <2>6, <3>1, <3>2
  <2> QED BY <2>5, <2>6
<1>13. WaitInv'
  <2>1. ~lost /\ fToken = Forms!NoToken =>
          \/ \E r \in Asking : r.kind = "code" /\ r.pc = "ok"
          \/ \A c \in fCodes : c.form = form => codeSent /\ Counted(c)' <= fNow' - c.at
    BY <1>12 DEF WaitInv
  <2> QED BY <1>1, <1>8, <1>11, <2>1 DEF WaitInv
<1>14. MissingInv'
  BY <1>1 DEF MissingInv
<1> QED BY <1>5, <1>6, <1>7, <1>9, <1>10, <1>13, <1>14 DEF FormTypes

\* A form is opened.
LEMMA OpenKeeps ==
    ASSUME FormBounds, FormInv, NEW v \in Forms!Purpose \cup {"login"}, Forms!Open(v)
    PROVE  FormInv'
<1>1. Forms!Begin /\ view' = v /\ visit' = visit + 1 /\ UNCHANGED <<fNow, fCodes, accounts, fAsked, fCalls, missing>>
  BY DEF Forms!Open, Forms!SetView, Forms!server
<1>2. visit' \in Nat
  BY <1>1 DEF FormInv, FormTypes, NumberTypes
<1> QED BY <1>1, <1>2, FormBeginKeeps

\* The address is edited, and what was verified is of another.
LEMMA EditKeeps ==
    ASSUME FormBounds, FormInv, NEW e \in Email, Forms!Edit(e)
    PROVE  FormInv'
<1> USE DEF FormInv
<1>1. /\ ~codeSent /\ email' = e /\ edited' = (edited \/ fBusy)
      /\ UNCHANGED <<fNow, fCodes, accounts, fAsked, fCalls, view, visit, form, codeSent, cooldown, phase, fBusy,
                     verifiedEmail, fToken, lost, unmailed, missing>>
  BY DEF Forms!Edit, Forms!server, Forms!step
<1>2. CodeTypes' /\ AskedTypes' /\ NumberTypes'
  BY <1>1 DEF FormTypes, CodeTypes, AskedTypes, NumberTypes
<1>3. FieldTypes'
  BY <1>1 DEF FormTypes, FieldTypes
<1>4. Asking' = Asking
  BY <1>1 DEF Asking
<1>5. \A r \in Asking : edited'
  BY <1>1 DEF OneQuestion
<1>6. OneQuestion'
  BY <1>1, <1>4, <1>5 DEF OneQuestion
<1>7. \A x : Told(x) => Told(x)'
  BY <1>1 DEF Told
<1>8. TruthInv'
  BY <1>1, <1>4, <1>7 DEF TruthInv, VerifiedAs
<1>9. WaitInv'
  BY <1>1, <1>4, NothingMarked, MarkedWaits
<1>10. MissingInv'
  BY <1>1 DEF MissingInv
<1> QED BY <1>2, <1>3, <1>6, <1>8, <1>9, <1>10 DEF FormTypes

\* A request of the step with a code.
LEMMA AskKeeps ==
    ASSUME FormBounds, FormInv, Forms!Coding, ~fBusy, email \in Email, NEW c \in Nat,
           NEW kind \in {"code", "confirm"}, kind = "code" /\ codeSent => cooldown = 0,
           Forms!Send(kind, email, c), fBusy' = TRUE,
           UNCHANGED <<fNow, fCodes, accounts, view, visit, form, email, codeSent, cooldown, phase,
                       verifiedEmail, fToken, edited, lost, unmailed, missing>>
    PROVE  FormInv'
<1> USE DEF FormInv
<1> DEFINE new == [kind |-> kind, visit |-> visit, form |-> form, purpose |-> view,
                   email |-> email, code |-> c, pc |-> "sent"]
<1>1. view \in Forms!Purpose /\ fToken = Forms!NoToken /\ fCalls < MaxFormCalls /\ fCalls' = fCalls + 1 /\ fAsked' = fAsked \cup {new}
  BY DEF Forms!Coding, Forms!Send
<1>2. visit \in Nat /\ form \in Nat
  BY DEF FormTypes, NumberTypes
<1>3. new \in FormRequest
  BY <1>1, <1>2 DEF FormRequest, FormKinds, Outcomes
<1>4. new.kind = kind /\ new.form = form /\ new.purpose = view /\ new.email = email /\ new.pc = "sent" /\ kind # "submit"
  OBVIOUS
<1> HIDE DEF new
<1>5. Asking = {}
  BY DEF OneQuestion
<1>6. Asking' = {new}
  BY <1>1, <1>4, <1>5 DEF Asking
<1>7. CodeTypes' /\ FieldTypes'
  BY DEF FormTypes, CodeTypes, FieldTypes
<1>8. NumberTypes'
  BY <1>1 DEF FormTypes, NumberTypes, FormBounds
<1>9. AskedTypes'
  BY <1>1, <1>2, <1>3, <1>4 DEF FormTypes, AskedTypes
<1>10. OneQuestion'
  BY <1>1, <1>4, <1>6 DEF OneQuestion
<1>11. TruthInv'
  BY <1>1, <1>4, <1>5, <1>6, NothingMarked, MarkedKeeps DEF TruthInv
<1>12. WaitInv'
  BY <1>4, <1>5, <1>6, NothingMarked, MarkedWaits
<1>13. MissingInv'
  BY DEF MissingInv
<1> QED BY <1>7, <1>8, <1>9, <1>10, <1>11, <1>12, <1>13 DEF FormTypes

\* A code is asked for.
LEMMA RequestCodeKeeps ==
    ASSUME FormBounds, FormInv, Forms!RequestCode
    PROVE  FormInv'
<1>1. email \in Email
  BY DEF Forms!RequestCode, FormInv, FormTypes, FieldTypes
<1>2. /\ Forms!Coding /\ ~fBusy /\ (codeSent => cooldown = 0) /\ Forms!Send("code", email, 0) /\ fBusy' = TRUE
      /\ UNCHANGED <<fNow, fCodes, accounts, view, visit, form, email, codeSent, cooldown, phase,
                     verifiedEmail, fToken, edited, lost, unmailed, missing>>
  BY DEF Forms!RequestCode, Forms!server, Forms!step, Forms!past
<1> QED BY <1>1, <1>2, AskKeeps

\* A code is entered.
LEMMA ConfirmKeeps ==
    ASSUME FormBounds, FormInv, NEW c \in Nat, Forms!Confirm(c)
    PROVE  FormInv'
<1>1. email \in Email
  BY DEF Forms!Confirm, FormInv, FormTypes, FieldTypes
<1>2. /\ Forms!Coding /\ ~fBusy /\ Forms!Send("confirm", email, c) /\ fBusy' = TRUE
      /\ UNCHANGED <<fNow, fCodes, accounts, view, visit, form, email, codeSent, cooldown, phase,
                     verifiedEmail, fToken, edited, lost, unmailed, missing>>
  BY DEF Forms!Confirm, Forms!server, Forms!step, Forms!past
<1> QED BY <1>1, <1>2, AskKeeps

\* The form is sent.
LEMMA SubmitKeeps ==
    ASSUME FormBounds, FormInv, Forms!Submit
    PROVE  FormInv'
<1> USE DEF FormInv
<1> DEFINE new == [kind |-> "submit", visit |-> visit, form |-> form, purpose |-> view,
                   email |-> verifiedEmail, code |-> fToken, pc |-> "sent"]
<1>1. /\ view \in Forms!Purpose /\ fToken # Forms!NoToken /\ fCalls < MaxFormCalls /\ fCalls' = fCalls + 1 /\ fAsked' = fAsked \cup {new}
      /\ UNCHANGED <<fNow, fCodes, accounts, view, visit, form, email, codeSent, cooldown, phase, fBusy,
                     verifiedEmail, fToken, edited, lost, unmailed, missing>>
  BY DEF Forms!Submit, Forms!Send, Forms!server, Forms!fields, Forms!step, Forms!past
<1>2. visit \in Nat /\ form \in Nat /\ fToken \in Nat /\ verifiedEmail \in Email
  BY <1>1 DEF FormTypes, NumberTypes, TruthInv
<1>3. new \in FormRequest
  BY <1>1, <1>2 DEF FormRequest, FormKinds, Outcomes
<1>4. new.kind = "submit" /\ new.form = form
  OBVIOUS
<1> HIDE DEF new
<1>6. Asking' = Asking
  BY <1>1, <1>4 DEF Asking
<1>7. CodeTypes' /\ FieldTypes'
  BY <1>1 DEF FormTypes, CodeTypes, FieldTypes
<1>8. NumberTypes'
  BY <1>1 DEF FormTypes, NumberTypes, FormBounds
<1>9. AskedTypes'
  BY <1>1, <1>2, <1>3, <1>4 DEF FormTypes, AskedTypes
<1>10. OneQuestion'
  BY <1>1, <1>6 DEF OneQuestion
<1>11. TruthInv'
  BY <1>1, <1>4, <1>6, NothingMarked, MarkedKeeps DEF TruthInv
<1>12. WaitInv'
  BY <1>1, <1>6, NothingMarked, MarkedWaits
<1>13. MissingInv'
  BY <1>1 DEF MissingInv
<1> QED BY <1>7, <1>8, <1>9, <1>10, <1>11, <1>12, <1>13 DEF FormTypes

-----------------------------------------------------------------------------
(* The services                                                            *)

Replied(r, pc) == [r EXCEPT !.pc = pc]

\* An answer takes the place of its request.
LEMMA FormAnswerKeeps ==
    ASSUME FormInv, NEW r \in fAsked, NEW pc \in Outcomes, Forms!Answer(r, pc),
           UNCHANGED <<form, view, email, codeSent, cooldown, fBusy, fToken, edited>>
    PROVE  /\ AskedTypes' /\ OneQuestion'
           /\ fAsked' = (fAsked \ {r}) \cup {Replied(r, pc)}
           /\ Replied(r, pc) = [kind |-> r.kind, visit |-> r.visit, form |-> r.form, purpose |-> r.purpose,
                                email |-> r.email, code |-> r.code, pc |-> pc]
           /\ r \in Asking => Asking' = {Replied(r, pc)}
           /\ r \notin Asking => Asking' = Asking
<1> USE DEF FormInv
<1>1. fAsked' = (fAsked \ {r}) \cup {Replied(r, pc)} /\ r \in FormRequest
  BY DEF Forms!Answer, Replied, FormTypes, AskedTypes
<1>2. Replied(r, pc) = [kind |-> r.kind, visit |-> r.visit, form |-> r.form, purpose |-> r.purpose,
                        email |-> r.email, code |-> r.code, pc |-> pc]
  BY <1>1 DEF Replied, FormRequest
<1> DEFINE new == Replied(r, pc)
<1>3. /\ new \in FormRequest /\ new.kind = r.kind /\ new.form = r.form /\ new.purpose = r.purpose
      /\ new.email = r.email /\ new.pc = pc
  BY <1>1, <1>2 DEF FormRequest
<1> HIDE DEF new
<1>4. AskedTypes'
  BY <1>1, <1>3 DEF FormTypes, AskedTypes, new
<1>5. r \in Asking => Asking' = {new}
  BY <1>1, <1>3 DEF OneQuestion, Asking, new
<1>6. r \notin Asking => Asking' = Asking
  BY <1>1, <1>3 DEF Asking, new
<1>7. OneQuestion'
  <2>1. CASE r \in Asking
    BY <1>3, <1>5, <2>1 DEF OneQuestion
  <2>2. CASE r \notin Asking
    BY <1>6, <2>2 DEF OneQuestion
  <2> QED BY <2>1, <2>2
<1> QED BY <1>1, <1>2, <1>4, <1>5, <1>6, <1>7 DEF new

\* The server compares the code that was entered.
LEMMA ServeConfirmKeeps ==
    ASSUME FormBounds, FormInv, NEW r \in fAsked, Forms!ServeConfirm(r)
    PROVE  FormInv'
<1> USE DEF FormInv
<1> DEFINE right == {c \in Forms!Latest(r) : c.id = r.code /\ fNow <= c.at + FORM_CODE_TTL}
           pc == IF right = {} THEN "failed" ELSE "ok"
<1>1. /\ r.kind = "confirm" /\ r.pc = "sent" /\ Forms!Answer(r, pc)
      /\ fCodes' = (fCodes \ right) \cup {[c EXCEPT !.verified = TRUE] : c \in right}
      /\ UNCHANGED <<fNow, accounts, fCalls, view, visit, form, email, codeSent, cooldown, phase, fBusy,
                     verifiedEmail, fToken, edited, lost, unmailed, missing>>
  BY DEF Forms!ServeConfirm, Forms!fields, Forms!step, Forms!past
<1>2. /\ AskedTypes' /\ OneQuestion'
      /\ fAsked' = (fAsked \ {r}) \cup {Replied(r, pc)}
      /\ Replied(r, pc) = [kind |-> r.kind, visit |-> r.visit, form |-> r.form, purpose |-> r.purpose,
                           email |-> r.email, code |-> r.code, pc |-> pc]
      /\ r \in Asking => Asking' = {Replied(r, pc)}
      /\ r \notin Asking => Asking' = Asking
  <2>1. pc \in Outcomes
    BY DEF Outcomes
  <2> HIDE DEF pc
  <2> QED BY <1>1, <2>1, FormAnswerKeeps
<1>3. CodeTypes' /\ Marked /\ (right # {} => VerifiedAs(r.code, r.email, r.purpose)')
  <2>1. CASE right = {}
    <3>1. fCodes' = fCodes
      BY <1>1, <2>1
    <3>2. Marked
      BY <3>1, NothingMarked
    <3> QED BY <1>1, <2>1, <3>1, <3>2 DEF FormTypes, CodeTypes
  <2>2. CASE right # {}
    <3>1. PICK c \in right : TRUE
      BY <2>2
    <3> DEFINE d == [c EXCEPT !.verified = TRUE]
    <3>2. c \in fCodes /\ c.id = r.code /\ c.email = r.email /\ c.purpose = r.purpose /\ c \in Code
      BY DEF Forms!Latest, Forms!Rows, FormTypes, CodeTypes
    <3>3. right = {c}
      BY <3>2 DEF Forms!Latest, Forms!Rows, FormTypes, CodeTypes
    <3>4. fCodes' = (fCodes \ {c}) \cup {d}
      <4>1. {[x EXCEPT !.verified = TRUE] : x \in right} = {d}
        BY <3>3
      <4> QED BY <1>1, <3>3, <4>1
    <3>5. d \in Code /\ Same(c, d) /\ d.verified
      BY <3>2 DEF Code, Same
    <3> HIDE DEF d, right
    <3>6. CodeTypes' /\ Marked
      BY <1>1, <3>2, <3>4, <3>5, OneMarked DEF FormTypes
    <3>7. VerifiedAs(r.code, r.email, r.purpose)'
      BY <3>2, <3>4, <3>5 DEF VerifiedAs, Same
    <3> QED BY <3>6, <3>7
  <2> QED BY <2>1, <2>2
<1> HIDE DEF right
<1>4. NumberTypes' /\ FieldTypes' /\ MissingInv'
  BY <1>1 DEF FormTypes, NumberTypes, FieldTypes, MissingInv
<1>5. Replied(r, pc).kind = "confirm" /\ Replied(r, pc).pc = pc /\ Replied(r, pc).code = r.code
         /\ Replied(r, pc).email = r.email /\ Replied(r, pc).purpose = r.purpose
  BY <1>1, <1>2
<1>6. pc = "ok" => VerifiedAs(r.code, r.email, r.purpose)'
  BY <1>3
<1> HIDE DEF pc
<1>7. TruthInv'
  <2>1. \A q \in Asking' : q.kind = "code" /\ q.pc = "ok" => Told(q.email)'
    BY <1>1, <1>2, <1>3, <1>5, MarkedKeeps DEF TruthInv
  <2>2. \A q \in fAsked' : q.kind = "confirm" /\ q.pc = "ok" => VerifiedAs(q.code, q.email, q.purpose)'
    BY <1>1, <1>2, <1>3, <1>5, <1>6, MarkedKeeps DEF TruthInv
  <2>3. (codeSent => Told(email))' /\ (fToken # Forms!NoToken => VerifiedAs(fToken, verifiedEmail, view) /\ verifiedEmail \in Email)'
    BY <1>1, <1>3, MarkedKeeps DEF TruthInv
  <2> QED BY <2>1, <2>2, <2>3 DEF TruthInv
<1>8. WaitInv'
  <2>1. \A q \in Asking : q.kind = "code" /\ q.pc = "ok" => q \in Asking'
    BY <1>1, <1>2 DEF OneQuestion
  <2>2. \A q \in Asking' : q.kind = "code" /\ q.pc = "ok" => q \in Asking
    BY <1>1, <1>2, <1>5
  <2> QED BY <1>1, <1>3, <2>1, <2>2, MarkedWaits
<1> QED BY <1>2, <1>3, <1>4, <1>7, <1>8 DEF FormTypes

\* The server stores the account or the password.
LEMMA ServeSubmitKeeps ==
    ASSUME FormBounds, FormInv, NEW r \in fAsked, NEW outcome \in {"ok", "failed", "unauthorized"},
           Forms!ServeSubmit(r, outcome)
    PROVE  FormInv'
<1> USE DEF FormInv
<1>1. /\ r.kind = "submit" /\ Forms!Answer(r, outcome) /\ outcome \in Outcomes
      /\ UNCHANGED <<fNow, fCalls, view, visit, form, email, codeSent, cooldown, phase, fBusy,
                     verifiedEmail, fToken, edited, lost, unmailed, missing>>
  BY DEF Forms!ServeSubmit, Forms!fields, Forms!step, Forms!past, Outcomes
<1>2. /\ AskedTypes' /\ OneQuestion' /\ fAsked' = (fAsked \ {r}) \cup {Replied(r, outcome)}
      /\ Replied(r, outcome).kind = "submit"
  BY <1>1, FormAnswerKeeps
<1>3. Asking' = Asking
  BY <1>1, FormAnswerKeeps DEF Asking
<1>4. CodeTypes' /\ Marked /\ accounts' \subseteq Email
  <2>1. CASE outcome = "ok"
    <3>1. /\ Forms!Valid(r) /\ fCodes' = {IF c.id = r.code THEN [c EXCEPT !.consumed = TRUE] ELSE c : c \in fCodes}
          /\ accounts' = accounts \cup {r.email}
      BY <2>1 DEF Forms!ServeSubmit
    <3>2. PICK c \in fCodes : c.id = r.code
      BY <3>1 DEF Forms!Valid
    <3> DEFINE d == [c EXCEPT !.consumed = TRUE]
    <3>3. c \in Code /\ \A x \in fCodes : x.id = r.code => x = c
      BY <3>2 DEF FormTypes, CodeTypes
    <3>4. fCodes' = (fCodes \ {c}) \cup {d}
      BY <3>1, <3>2, <3>3
    <3>5. d \in Code /\ Same(c, d)
      BY <3>3 DEF Code, Same
    <3> HIDE DEF d
    <3>6. CodeTypes' /\ Marked
      BY <1>1, <3>4, <3>5, OneMarked DEF FormTypes
    <3>7. r.email \in Email
      BY DEF FormTypes, AskedTypes, FormRequest
    <3> QED BY <3>1, <3>6, <3>7 DEF FormTypes, FieldTypes
  <2>2. CASE outcome # "ok"
    <3>1. UNCHANGED <<fCodes, accounts>>
      BY <2>2 DEF Forms!ServeSubmit, Forms!server
    <3>2. Marked
      BY <3>1, NothingMarked
    <3> QED BY <1>1, <3>1, <3>2 DEF FormTypes, CodeTypes, FieldTypes
  <2> QED BY <2>1, <2>2
<1>5. NumberTypes' /\ FieldTypes' /\ MissingInv'
  BY <1>1, <1>4 DEF FormTypes, NumberTypes, FieldTypes, MissingInv
<1>6. TruthInv'
  BY <1>1, <1>2, <1>3, <1>4, MarkedKeeps DEF TruthInv
<1>7. WaitInv'
  BY <1>1, <1>3, <1>4, MarkedWaits
<1> QED BY <1>2, <1>4, <1>5, <1>6, <1>7 DEF FormTypes

\* A new row is none of the others, and takes nothing from what was true of them.
LEMMA NewCode ==
    ASSUME FormBounds, FormInv, NEW r \in fAsked, NEW new \in Code,
           new.id = Forms!Cardinality(fCodes) + 1, new.form = r.form, new.at = fNow,
           fCodes' = fCodes \cup {new}, UNCHANGED <<fNow, form, view, edited>>, unmailed => unmailed'
    PROVE  /\ CodeTypes' /\ \A c \in fCodes : c.id # new.id
           /\ \A e : Told(e) => Told(e)'
           /\ \A i, e, p : VerifiedAs(i, e, p) => VerifiedAs(i, e, p)'
           /\ \A c : LastCode(c)' => LastCode(c)
           /\ unmailed' = unmailed /\ r.form # form => \A c : LastCode(c)' <=> LastCode(c)
<1> USE DEF FormInv
<1>1. Forms!IsFiniteSet(fCodes) /\ Forms!Cardinality(fCodes) \in Nat
  BY FormsCardinalityType DEF FormTypes, CodeTypes
<1>2. \A c \in fCodes : c.id # new.id
  BY <1>1 DEF FormTypes, CodeTypes
<1>3. new \notin fCodes
  BY <1>2
<1>4. Forms!IsFiniteSet(fCodes') /\ Forms!Cardinality(fCodes') = Forms!Cardinality(fCodes) + 1
  BY <1>1, <1>3, FormsAddElement
<1>5. r.form <= form /\ fNow \in Nat
  BY DEF FormTypes, AskedTypes, NumberTypes, FormBounds
<1>6. \A c \in fCodes' : c.id \in 1..Forms!Cardinality(fCodes') /\ c.at <= fNow /\ c.form <= form
  BY <1>1, <1>4, <1>5 DEF FormTypes, CodeTypes
<1>7. CodeTypes'
  BY <1>2, <1>4, <1>6 DEF FormTypes, CodeTypes
<1>8. \A e : Told(e) => Told(e)'
  BY DEF Told
<1>9. \A i, e, p : VerifiedAs(i, e, p) => VerifiedAs(i, e, p)'
  BY DEF VerifiedAs
<1>10. \A c : LastCode(c)' => LastCode(c)
  BY DEF LastCode
<1>11. unmailed' = unmailed /\ r.form # form => \A c : LastCode(c)' <=> LastCode(c)
  BY DEF LastCode
<1> QED BY <1>2, <1>7, <1>8, <1>9, <1>10, <1>11

\* What a service that mails nothing, or fails, leaves as it was.
LEMMA RefuseKeeps ==
    ASSUME FormBounds, FormInv, NEW r \in fAsked, r.kind = "code", r.pc = "sent", Forms!Answer(r, "failed"), MissingInv',
           UNCHANGED <<fNow, fCodes, accounts, fCalls, view, visit, form, email, codeSent, cooldown, phase, fBusy,
                       verifiedEmail, fToken, edited, lost, unmailed>>
    PROVE  FormInv'
<1> USE DEF FormInv
<1>1. /\ AskedTypes' /\ OneQuestion' /\ fAsked' = (fAsked \ {r}) \cup {Replied(r, "failed")}
      /\ Replied(r, "failed").pc = "failed"
      /\ r \in Asking => Asking' = {Replied(r, "failed")}
      /\ r \notin Asking => Asking' = Asking
  <2>1. "failed" \in Outcomes
    BY DEF Outcomes
  <2> QED BY <2>1, FormAnswerKeeps
<1>2. CodeTypes' /\ NumberTypes' /\ FieldTypes'
  BY DEF FormTypes, CodeTypes, NumberTypes, FieldTypes
<1>3. TruthInv'
  BY <1>1, NothingMarked, MarkedKeeps DEF TruthInv
<1>4. WaitInv'
  <2>1. \A q \in Asking : q.kind = "code" /\ q.pc = "ok" => q \in Asking'
    BY <1>1 DEF OneQuestion
  <2>2. \A q \in Asking' : q.kind = "code" /\ q.pc = "ok" => q \in Asking
    BY <1>1
  <2> QED BY <2>1, <2>2, NothingMarked, MarkedWaits
<1> QED BY <1>1, <1>2, <1>3, <1>4 DEF FormTypes

\* A resend that is refused came too early by less than a second, and was not the first.
LEMMA TooSoonByLess ==
    ASSUME FormBounds, FormInv, NEW r \in fAsked, r.kind = "code", r.pc = "sent", form = r.form, ~lost,
           NEW c \in Forms!TooSoon(r), c.form = form
    PROVE  /\ Forms!Max({COOLDOWN * SECOND - (fNow - x.at) : x \in Forms!TooSoon(r)}) \in 1..(SECOND - 1)
           /\ Forms!Cardinality({x \in fCodes : x.form = form}) + (IF unmailed THEN 1 ELSE 0) \in Nat
           /\ Forms!Cardinality({x \in fCodes : x.form = form}) + (IF unmailed THEN 1 ELSE 0) > 1
<1> USE DEF FormInv
<1>1. r \in Asking /\ fToken = Forms!NoToken /\ (codeSent => cooldown = 0)
  BY DEF Asking, OneQuestion
<1>2. c \in fCodes /\ fNow - c.at < COOLDOWN * SECOND /\ Forms!TooSoon(r) = {c}
  BY DEF Forms!TooSoon, Forms!Latest, Forms!Rows, FormTypes, CodeTypes, Code
<1>3. codeSent /\ Counted(c) <= fNow - c.at
  <2>1. ~\E q \in Asking : q.kind = "code" /\ q.pc = "ok"
    BY <1>1 DEF OneQuestion
  <2> QED BY <1>1, <1>2, <2>1 DEF WaitInv
<1>4. c.at \in Nat /\ fNow \in Nat /\ phase \in 0..(SECOND - 1) /\ SECOND \in Nat \ {0} /\ COOLDOWN \in Nat
  BY <1>2 DEF FormTypes, CodeTypes, Code, NumberTypes, FormBounds
<1> DEFINE ticks == COOLDOWN * SECOND - (fNow - c.at)
<1>5. COOLDOWN * SECOND + phase - (IF LastCode(c) THEN 0 ELSE SECOND - 1) <= fNow - c.at
  BY <1>1, <1>3, <1>4 DEF Counted
<1>6. ticks \in 1..(SECOND - 1) /\ ~LastCode(c)
  <2>1. COOLDOWN * SECOND \in Nat
    BY <1>4
  <2> QED BY <1>2, <1>4, <1>5, <2>1
<1>7. {COOLDOWN * SECOND - (fNow - x.at) : x \in Forms!TooSoon(r)} = {ticks}
  BY <1>2
<1>8. Forms!Max({ticks}) = ticks
  BY <1>6 DEF Forms!Max
<1> DEFINE S == {x \in fCodes : x.form = form}
<1>9. Forms!IsFiniteSet(S) /\ Forms!Cardinality(S) \in Nat
  BY FormsSubset, FormsCardinalityType DEF FormTypes, CodeTypes
<1>10. Forms!Max({COOLDOWN * SECOND - (fNow - x.at) : x \in Forms!TooSoon(r)}) = ticks
  BY <1>7, <1>8
<1> HIDE DEF ticks
<1> SUFFICES Forms!Cardinality(S) + (IF unmailed THEN 1 ELSE 0) \in Nat /\ Forms!Cardinality(S) + (IF unmailed THEN 1 ELSE 0) > 1
  BY <1>6, <1>10
<1>12. CASE unmailed
  <2>1. Forms!Cardinality({c}) = 1 /\ {c} \subseteq S
    BY <1>2, FormsSingleton
  <2>2. Forms!Cardinality({c}) <= Forms!Cardinality(S)
    BY <1>9, <2>1, FormsSubset
  <2>3. PICK n \in Nat : n = Forms!Cardinality(S)
    BY <1>9
  <2>4. n >= 1
    BY <2>1, <2>2, <2>3
  <2> HIDE DEF S
  <2> QED BY <1>12, <2>3, <2>4
<1>11. CASE ~unmailed
  <2>1. PICK d \in fCodes : d.form = form /\ d.id # c.id
    BY <1>6, <1>11 DEF LastCode
  <2>2. Forms!Cardinality({c} \cup {d}) = Forms!Cardinality({c}) + 1 /\ Forms!Cardinality({c}) = 1 /\ ({c} \cup {d}) \subseteq S
    BY <1>2, <2>1, FormsSingleton, FormsAddElement
  <2>3. Forms!Cardinality({c} \cup {d}) <= Forms!Cardinality(S)
    BY <1>9, <2>2, FormsSubset
  <2>4. PICK n \in Nat : n = Forms!Cardinality(S)
    BY <1>9
  <2>5. n >= 2
    BY <2>2, <2>3, <2>4
  <2> HIDE DEF S
  <2> QED BY <1>11, <2>4, <2>5
<1> QED BY <1>11, <1>12

\* A code is stored and mailed, or its mail fails and it is left.
LEMMA MailKeeps ==
    ASSUME FormBounds, FormInv, NEW r \in fAsked, r.kind = "code", r.pc = "sent", NEW ok \in BOOLEAN,
           fCodes' = fCodes \cup {[id |-> Forms!Cardinality(fCodes) + 1, email |-> r.email, purpose |-> r.purpose,
                                 form |-> r.form, at |-> fNow, mailed |-> ok, verified |-> FALSE, consumed |-> FALSE]},
           lost' = (lost \/ ~ok), Forms!Answer(r, IF ok THEN "ok" ELSE "failed"),
           UNCHANGED <<fNow, accounts, fCalls, view, visit, form, email, codeSent, cooldown, phase, fBusy,
                       verifiedEmail, fToken, edited, unmailed, missing>>
    PROVE  FormInv'
<1> USE DEF FormInv
<1> DEFINE new == [id |-> Forms!Cardinality(fCodes) + 1, email |-> r.email, purpose |-> r.purpose,
                   form |-> r.form, at |-> fNow, mailed |-> ok, verified |-> FALSE, consumed |-> FALSE]
           pc == IF ok THEN "ok" ELSE "failed"
           ans == Replied(r, pc)
<1>1. r \in FormRequest /\ fNow \in Nat /\ Forms!Cardinality(fCodes) \in Nat
  BY FormsCardinalityType DEF FormTypes, AskedTypes, NumberTypes, CodeTypes, FormBounds
<1>2. /\ new \in Code /\ new.id = Forms!Cardinality(fCodes) + 1 /\ new.form = r.form /\ new.at = fNow
      /\ new.mailed = ok /\ new.email = r.email /\ new.purpose = r.purpose /\ fCodes' = fCodes \cup {new}
  BY <1>1 DEF FormRequest, Code
<1> HIDE DEF new
<1>3. /\ CodeTypes' /\ \A c \in fCodes : c.id # new.id
      /\ \A e : Told(e) => Told(e)'
      /\ \A i, e, p : VerifiedAs(i, e, p) => VerifiedAs(i, e, p)'
      /\ \A c : LastCode(c)' => LastCode(c)
      /\ r.form # form => \A c : LastCode(c)' <=> LastCode(c)
  BY <1>2, NewCode
<1>4. /\ AskedTypes' /\ OneQuestion' /\ fAsked' = (fAsked \ {r}) \cup {ans}
      /\ ans.kind = "code" /\ ans.pc = pc /\ ans.email = r.email
      /\ r \in Asking => Asking' = {ans}
      /\ r \notin Asking => Asking' = Asking
  <2>1. pc \in Outcomes
    BY DEF Outcomes
  <2> HIDE DEF pc
  <2>2. Forms!Answer(r, pc)
    BY DEF pc
  <2> QED BY <2>1, <2>2, FormAnswerKeeps
<1>5. r \in Asking <=> r.form = form
  BY DEF Asking
<1> HIDE DEF ans
<1>6. NumberTypes' /\ FieldTypes' /\ MissingInv'
  BY DEF FormTypes, NumberTypes, FieldTypes, MissingInv
<1>7. TruthInv'
  <2>1. ASSUME NEW q \in Asking', q.kind = "code", q.pc = "ok"
        PROVE  Told(q.email)'
    <3>1. CASE r \in Asking
      <4>1. q = ans /\ ok /\ r.form = form /\ r.purpose = view
        BY <1>4, <1>5, <2>1, <3>1 DEF OneQuestion
      <4> QED BY <1>2, <1>4, <4>1 DEF Told
    <3>2. CASE r \notin Asking
      BY <1>3, <1>4, <2>1, <3>2 DEF TruthInv
    <3> QED BY <3>1, <3>2
  <2>2. \A q \in fAsked' : q.kind = "confirm" /\ q.pc = "ok" => VerifiedAs(q.code, q.email, q.purpose)'
    BY <1>3, <1>4 DEF TruthInv
  <2>3. (codeSent => Told(email))' /\ (fToken # Forms!NoToken => VerifiedAs(fToken, verifiedEmail, view) /\ verifiedEmail \in Email)'
    BY <1>3 DEF TruthInv
  <2> QED BY <2>1, <2>2, <2>3 DEF TruthInv
<1>8. WaitInv'
  <2>1. CASE r \in Asking /\ ok
    <3>1. Asking' = {ans} /\ ans.pc = "ok"
      BY <1>4, <2>1
    <3>2. ASSUME codeSent, NEW c \in fCodes', c.form = form
          PROVE  ~LastCode(c)'
      <4>1. CASE unmailed
        BY <4>1 DEF LastCode
      <4>2. CASE ~unmailed
        <5>1. PICK d \in fCodes : d.form = form
          BY <3>2, <4>2 DEF TruthInv, Told
        <5>2. new.form = form /\ new.id # d.id /\ (c = new \/ c.id # new.id)
          BY <1>2, <1>3, <1>5, <2>1, <3>2
        <5> QED BY <1>2, <5>1, <5>2 DEF LastCode
      <4> QED BY <4>1, <4>2
    <3> QED BY <1>4, <3>1, <3>2 DEF WaitInv
  <2>2. CASE r \in Asking /\ ~ok
    BY <1>4, <2>2 DEF WaitInv
  <2>3. CASE r \notin Asking
    <3>1. \A c : LastCode(c)' <=> LastCode(c)
      BY <1>3, <1>5, <2>3
    <3>2. \A c \in fCodes' : c.form = form => c \in fCodes
      BY <1>2, <1>5, <2>3
    <3>3. \A c : Counted(c)' = Counted(c)
      BY <3>1 DEF Counted
    <3> QED BY <1>4, <2>3, <3>1, <3>2, <3>3 DEF WaitInv
  <2> QED BY <2>1, <2>2, <2>3
<1> QED BY <1>3, <1>4, <1>6, <1>7, <1>8 DEF FormTypes

\* The server answers a request for a code.
LEMMA ServeCodeKeeps ==
    ASSUME FormBounds, FormInv, NEW r \in fAsked, NEW outcome \in {"mailed", "left", "failed", "refused"},
           Forms!ServeCode(r, outcome)
    PROVE  FormInv'
<1> USE DEF FormInv
<1>1. /\ r.kind = "code" /\ r.pc = "sent"
      /\ UNCHANGED <<fNow, accounts, fCalls, view, visit, form, email, codeSent, cooldown, phase, fBusy,
                     verifiedEmail, fToken, edited>>
  BY DEF Forms!ServeCode, Forms!fields, Forms!step
<1>2. CASE r.purpose = "signup" /\ r.email \in accounts
  <2>1. Forms!Answer(r, "failed") /\ UNCHANGED <<fCodes, lost, unmailed, missing>>
    BY <1>2 DEF Forms!ServeCode
  <2> QED BY <1>1, <2>1, RefuseKeeps DEF MissingInv
<1>3. CASE r.purpose = "password_reset" /\ r.email \notin accounts
  <2>1. Forms!Answer(r, "ok") /\ UNCHANGED <<fCodes, lost, missing>> /\ unmailed' = (unmailed \/ r.form = form)
    BY <1>3 DEF Forms!ServeCode
  <2> DEFINE ans == Replied(r, "ok")
  <2>2. /\ AskedTypes' /\ OneQuestion' /\ fAsked' = (fAsked \ {r}) \cup {ans}
        /\ ans.kind = "code" /\ ans.pc = "ok"
        /\ r \in Asking => Asking' = {ans}
        /\ r \notin Asking => Asking' = Asking
    <3>1. "ok" \in Outcomes
      BY DEF Outcomes
    <3> QED BY <1>1, <2>1, <3>1, FormAnswerKeeps
  <2> HIDE DEF ans
  <2>3. r \in Asking <=> r.form = form
    BY <1>1 DEF Asking
  <2>4. CodeTypes' /\ NumberTypes' /\ FieldTypes' /\ MissingInv'
    BY <1>1, <2>1 DEF FormTypes, CodeTypes, NumberTypes, FieldTypes, MissingInv
  <2>5. (\A e : Told(e) => Told(e)') /\ (r \in Asking => \A e : Told(e)')
    BY <1>1, <1>3, <2>1, <2>3 DEF Told, OneQuestion
  <2>6. TruthInv'
    BY <1>1, <2>1, <2>2, <2>5 DEF TruthInv, VerifiedAs
  <2>7. WaitInv'
    <3>1. CASE r \in Asking
      BY <2>1, <2>2, <2>3, <3>1 DEF WaitInv, LastCode
    <3>2. CASE r \notin Asking
      <4>1. unmailed' = unmailed
        BY <2>1, <2>3, <3>2 DEF FormTypes, FieldTypes
      <4> QED BY <1>1, <2>1, <2>2, <3>2, <4>1, NothingMarked, MarkedWaits
    <3> QED BY <3>1, <3>2
  <2> QED BY <2>2, <2>4, <2>6, <2>7 DEF FormTypes
<1>4. CASE ~(r.purpose = "signup" /\ r.email \in accounts) /\ ~(r.purpose = "password_reset" /\ r.email \notin accounts)
  <2>1. CASE Forms!TooSoon(r) # {}
    <3>1. /\ Forms!Answer(r, "failed") /\ UNCHANGED <<fCodes, lost, unmailed>>
          /\ missing' = IF \A c \in Forms!TooSoon(r) : c.form = form /\ form = r.form /\ ~lost
                        THEN [ticks |-> Forms!Max({COOLDOWN * SECOND - (fNow - c.at) : c \in Forms!TooSoon(r)}),
                              codes |-> Forms!Cardinality({c \in fCodes : c.form = form}) + IF unmailed THEN 1 ELSE 0]
                        ELSE missing
      BY <1>4, <2>1 DEF Forms!ServeCode
    <3>2. MissingInv'
      <4>1. CASE \A c \in Forms!TooSoon(r) : c.form = form /\ form = r.form /\ ~lost
        <5> DEFINE ticks == Forms!Max({COOLDOWN * SECOND - (fNow - c.at) : c \in Forms!TooSoon(r)})
                   given  == Forms!Cardinality({c \in fCodes : c.form = form}) + IF unmailed THEN 1 ELSE 0
        <5>1. PICK c \in Forms!TooSoon(r) : c.form = form /\ form = r.form /\ ~lost
          BY <2>1, <4>1
        <5>2. ticks \in 1..(SECOND - 1) /\ given \in Nat /\ given > 1
          BY <1>1, <5>1, TooSoonByLess
        <5>3. missing' = [ticks |-> ticks, codes |-> given]
          BY <3>1, <4>1
        <5> HIDE DEF ticks, given
        <5>4. missing'.ticks = ticks /\ missing'.codes = given
          BY <5>3
        <5> QED BY <5>2, <5>3, <5>4 DEF MissingInv, FormBounds
      <4>2. CASE ~\A c \in Forms!TooSoon(r) : c.form = form /\ form = r.form /\ ~lost
        BY <3>1, <4>2 DEF MissingInv
      <4> QED BY <4>1, <4>2
    <3> QED BY <1>1, <3>1, <3>2, RefuseKeeps
  <2>2. CASE Forms!TooSoon(r) = {}
    <3>1. /\ outcome \in {"mailed", "left", "failed"}
          /\ fCodes' = IF outcome = "failed" THEN fCodes
                      ELSE fCodes \cup {[id |-> Forms!Cardinality(fCodes) + 1, email |-> r.email,
                                        purpose |-> r.purpose, form |-> r.form, at |-> fNow,
                                        mailed |-> outcome = "mailed", verified |-> FALSE,
                                        consumed |-> FALSE]}
          /\ lost' = (lost \/ outcome = "left")
          /\ Forms!Answer(r, IF outcome = "mailed" THEN "ok" ELSE "failed")
          /\ UNCHANGED <<unmailed, missing>>
      BY <1>4, <2>2 DEF Forms!ServeCode
    <3>2. CASE outcome = "failed"
      <4>1. UNCHANGED <<fCodes, lost>> /\ Forms!Answer(r, "failed")
        BY <3>1, <3>2 DEF FormTypes, FieldTypes
      <4> QED BY <1>1, <3>1, <4>1, RefuseKeeps DEF MissingInv
    <3>3. CASE outcome \in {"mailed", "left"}
      <4> DEFINE ok == outcome = "mailed"
      <4>1. lost' = (lost \/ ~ok) /\ ok \in BOOLEAN
        BY <3>1, <3>3
      <4>2. fCodes' = fCodes \cup {[id |-> Forms!Cardinality(fCodes) + 1, email |-> r.email,
                                  purpose |-> r.purpose, form |-> r.form, at |-> fNow,
                                  mailed |-> ok, verified |-> FALSE, consumed |-> FALSE]}
        BY <3>1, <3>3
      <4>3. Forms!Answer(r, IF ok THEN "ok" ELSE "failed") /\ UNCHANGED <<unmailed, missing>>
        BY <3>1
      <4> HIDE DEF ok
      <4> QED BY <1>1, <4>1, <4>2, <4>3, MailKeeps
    <3> QED BY <3>1, <3>2, <3>3
  <2> QED BY <2>1, <2>2
<1> QED BY <1>2, <1>3, <1>4

-----------------------------------------------------------------------------
(* The answers                                                             *)

\* An answer that changes nothing of the step with a code.
LEMMA TakeKeeps ==
    ASSUME FormBounds, FormInv, NEW r \in fAsked, fAsked' = fAsked \ {r}, r \notin Asking,
           UNCHANGED <<fNow, fCodes, accounts, fCalls, view, visit, form, email, codeSent, cooldown, phase, fBusy,
                       verifiedEmail, fToken, edited, lost, unmailed, missing>>
    PROVE  FormInv'
<1> USE DEF FormInv
<1>1. Asking' = Asking
  BY DEF Asking
<1>2. CodeTypes' /\ AskedTypes' /\ NumberTypes' /\ FieldTypes' /\ MissingInv'
  BY DEF FormTypes, CodeTypes, AskedTypes, NumberTypes, FieldTypes, MissingInv
<1>3. OneQuestion'
  BY <1>1 DEF OneQuestion
<1>4. TruthInv'
  BY <1>1, NothingMarked, MarkedKeeps DEF TruthInv
<1>5. WaitInv'
  BY <1>1, NothingMarked, MarkedWaits
<1> QED BY <1>2, <1>3, <1>4, <1>5 DEF FormTypes

\* An answer comes to a form that was left.
LEMMA FormDropKeeps ==
    ASSUME FormBounds, FormInv, NEW r \in fAsked, Forms!Drop(r)
    PROVE  FormInv'
<1>1. /\ r.form # form /\ fAsked' = fAsked \ {r}
      /\ UNCHANGED <<fNow, fCodes, accounts, fCalls, view, visit, form, email, codeSent, cooldown, phase, fBusy,
                     verifiedEmail, fToken, edited, lost, unmailed, missing>>
  BY DEF Forms!Drop, Forms!Arrive, Forms!server, Forms!fields, Forms!step, Forms!past
<1>2. r \notin Asking
  BY <1>1 DEF Asking
<1> QED BY <1>1, <1>2, TakeKeeps

\* The form hears that it was stored, or fails.
LEMMA SubmitAnswerKeeps ==
    ASSUME FormBounds, FormInv, NEW r \in fAsked, NEW good \in BOOLEAN, Forms!SubmitAnswer(r, good)
    PROVE  FormInv'
<1>1. r.kind = "submit" /\ fAsked' = fAsked \ {r} /\ UNCHANGED <<fNow, fCodes, accounts, fCalls, missing>>
  BY DEF Forms!SubmitAnswer, Forms!Arrive, Forms!server
<1>2. \/ Forms!Begin /\ view' = "login" /\ visit' = visit + 1
      \/ Forms!Begin /\ UNCHANGED <<view, visit>>
      \/ UNCHANGED <<view, visit, form, email, codeSent, cooldown, phase, fBusy,
                     verifiedEmail, fToken, edited, lost, unmailed>>
  BY DEF Forms!SubmitAnswer, Forms!SetView, Forms!fields, Forms!step, Forms!past
<1>3. visit \in Nat /\ view \in Forms!Purpose \cup {"login"} /\ r \notin Asking
  BY <1>1 DEF FormInv, FormTypes, NumberTypes, FieldTypes, Asking
<1> QED BY <1>1, <1>2, <1>3, FormBeginKeeps, TakeKeeps

\* The form hears that a code was mailed, and begins to count down.
LEMMA CodeAnswerKeeps ==
    ASSUME FormBounds, FormInv, NEW r \in fAsked, NEW good \in BOOLEAN, Forms!CodeAnswer(r, good)
    PROVE  FormInv'
<1> USE DEF FormInv
<1>1. /\ r.kind = "code" /\ r.form = form /\ r.pc # "sent" /\ (good => r.pc = "ok") /\ fAsked' = fAsked \ {r}
      /\ fBusy' = FALSE /\ codeSent' = (codeSent \/ good)
      /\ cooldown' = IF good THEN COOLDOWN ELSE cooldown
      /\ lost' = (lost \/ (r.pc = "ok" /\ ~good))
      /\ UNCHANGED <<fNow, fCodes, accounts, fCalls, view, visit, form, email, phase,
                     verifiedEmail, fToken, edited, unmailed, missing>>
  BY DEF Forms!CodeAnswer, Forms!Arrive, Forms!server, Forms!step, Forms!Wait
<1>2. r \in Asking /\ Asking' = {}
  BY <1>1 DEF Asking, OneQuestion
<1>3. email \in Email /\ (r.email = email \/ edited)
  BY <1>2 DEF OneQuestion
<1>4. CodeTypes' /\ AskedTypes' /\ MissingInv'
  BY <1>1 DEF FormTypes, CodeTypes, AskedTypes, MissingInv
<1>5. codeSent' \in BOOLEAN /\ (~codeSent' => ~codeSent /\ ~good) /\ lost' \in BOOLEAN
  BY <1>1
<1>6. FieldTypes'
  BY <1>1, <1>3, <1>5 DEF FormTypes, FieldTypes
<1>7. NumberTypes'
  BY <1>1, <1>5 DEF FormTypes, NumberTypes, FormBounds
<1>8. OneQuestion'
  BY <1>2 DEF OneQuestion
<1>9. TruthInv'
  <2>1. Told(r.email) => Told(email)
    BY <1>3 DEF Told
  <2>2. codeSent' => Told(email)
    BY <1>1, <1>2, <2>1 DEF TruthInv
  <2>3. Told(email)' <=> Told(email)
    BY <1>1 DEF Told
  <2> QED BY <1>1, <1>2, <2>2, <2>3 DEF TruthInv, VerifiedAs
<1>10. WaitInv'
  <2> SUFFICES ASSUME ~lost', fToken = Forms!NoToken, NEW c \in fCodes, c.form = form
               PROVE  codeSent' /\ Counted(c)' <= fNow - c.at
    BY <1>1, <1>2 DEF WaitInv
  <2>1. ~lost /\ (r.pc = "ok" => good)
    BY <1>1
  <2>2. LastCode(c)' <=> LastCode(c)
    BY <1>1 DEF LastCode
  <2>3. /\ c.at \in Nat /\ c.at <= fNow /\ fNow \in Nat /\ phase \in 0..(SECOND - 1) /\ SECOND \in Nat \ {0} /\ COOLDOWN \in Nat
        /\ ~codeSent => phase = 0
    BY DEF FormTypes, CodeTypes, Code, NumberTypes, FormBounds
  <2>4. CASE good
    <3>1. cooldown' = COOLDOWN /\ codeSent' /\ phase' = phase
      BY <1>1, <2>4
    <3>2. Counted(c)' = phase - (IF LastCode(c) THEN 0 ELSE SECOND - 1)
      BY <2>2, <2>3, <3>1 DEF Counted
    <3>3. LastCode(c) => phase = 0
      BY <1>1, <1>2, <2>3, <2>4 DEF WaitInv
    <3> QED BY <2>3, <3>1, <3>2, <3>3
  <2>5. CASE ~good
    <3>1. cooldown' = cooldown /\ phase' = phase /\ codeSent' = codeSent
      BY <1>1, <2>5 DEF FormTypes, FieldTypes
    <3>2. Counted(c)' = Counted(c)
      BY <2>2, <3>1 DEF Counted
    <3>3. ~\E q \in Asking : q.kind = "code" /\ q.pc = "ok"
      BY <1>1, <1>2, <2>1, <2>5 DEF OneQuestion
    <3> QED BY <2>1, <3>1, <3>2, <3>3 DEF WaitInv
  <2> QED BY <2>4, <2>5
<1> QED BY <1>4, <1>6, <1>7, <1>8, <1>9, <1>10 DEF FormTypes

\* The form hears that its code was right, and keeps the token.
LEMMA ConfirmAnswerKeeps ==
    ASSUME FormBounds, FormInv, NEW r \in fAsked, NEW good \in BOOLEAN, Forms!ConfirmAnswer(r, good)
    PROVE  FormInv'
<1> USE DEF FormInv
<1>1. /\ r.kind = "confirm" /\ r.form = form /\ r.pc # "sent" /\ (good => r.pc = "ok") /\ fAsked' = fAsked \ {r}
      /\ UNCHANGED <<fNow, fCodes, accounts, fCalls, view, visit, form, edited, lost, unmailed, missing>>
  BY DEF Forms!ConfirmAnswer, Forms!Arrive, Forms!server, Forms!past
<1>2. r \in Asking /\ Asking' = {} /\ r \in FormRequest
  BY <1>1 DEF Asking, OneQuestion, FormTypes, AskedTypes
<1>3. r.purpose = view /\ r.email \in Email /\ r.code \in Nat
  BY <1>2 DEF OneQuestion, FormRequest
<1>4. CodeTypes' /\ AskedTypes' /\ MissingInv' /\ OneQuestion'
  BY <1>1, <1>2 DEF FormTypes, CodeTypes, AskedTypes, MissingInv, OneQuestion
<1>5. CASE good
  <2>1. /\ email' = "none" /\ codeSent' = FALSE /\ cooldown' = 0 /\ phase' = 0 /\ fBusy' = FALSE
        /\ verifiedEmail' = r.email /\ fToken' = r.code
    BY <1>5 DEF Forms!ConfirmAnswer, Forms!Fresh
  <2>2. VerifiedAs(r.code, r.email, view) /\ r.code # Forms!NoToken
    <3>1. VerifiedAs(r.code, r.email, view)
      BY <1>1, <1>3, <1>5 DEF TruthInv
    <3> QED BY <3>1 DEF VerifiedAs, Forms!NoToken, FormTypes, CodeTypes
  <2>3. NumberTypes'
    BY <1>1, <1>3, <2>1 DEF FormTypes, NumberTypes, FormBounds
  <2>4. FieldTypes'
    BY <1>1, <1>3, <2>1 DEF FormTypes, FieldTypes
  <2>5. TruthInv'
    <3>1. VerifiedAs(fToken, verifiedEmail, view)'
      BY <1>1, <2>1, <2>2 DEF VerifiedAs
    <3>2. \A q \in fAsked' : q.kind = "confirm" /\ q.pc = "ok" => VerifiedAs(q.code, q.email, q.purpose)'
      BY <1>1 DEF TruthInv, VerifiedAs
    <3> QED BY <1>2, <1>3, <2>1, <3>1, <3>2 DEF TruthInv
  <2>6. WaitInv'
    BY <1>2, <2>1, <2>2 DEF WaitInv
  <2> QED BY <1>4, <2>3, <2>4, <2>5, <2>6 DEF FormTypes
<1>6. CASE ~good
  <2>1. fBusy' = FALSE /\ UNCHANGED <<email, codeSent, cooldown, phase, verifiedEmail, fToken>>
    BY <1>6 DEF Forms!ConfirmAnswer, Forms!step
  <2>2. NumberTypes' /\ FieldTypes'
    BY <1>1, <2>1 DEF FormTypes, NumberTypes, FieldTypes
  <2>3. TruthInv'
    BY <1>1, <1>2, <2>1, NothingMarked, MarkedKeeps DEF TruthInv
  <2>4. WaitInv'
    <3>1. \A q \in Asking : ~(q.kind = "code" /\ q.pc = "ok")
      BY <1>1, <1>2 DEF OneQuestion
    <3> QED BY <1>1, <1>2, <2>1, <3>1, NothingMarked, MarkedWaits
  <2> QED BY <1>4, <2>2, <2>3, <2>4 DEF FormTypes
<1> QED BY <1>5, <1>6

-----------------------------------------------------------------------------
\* Every step keeps the invariant.
LEMMA FormKeeps == FormBounds /\ FormInv /\ [Forms!Next]_Forms!vars => FormInv'
<1> SUFFICES ASSUME FormBounds, FormInv, [Forms!Next]_Forms!vars PROVE FormInv'
  OBVIOUS
<1>1. CASE UNCHANGED Forms!vars
  <2> USE DEF FormInv
  <2>1. /\ UNCHANGED <<fNow, fCodes, accounts, fAsked, fCalls, view, visit, form, email, codeSent, cooldown, phase, fBusy>>
        /\ UNCHANGED <<verifiedEmail, fToken, edited, lost, unmailed, missing>>
    BY <1>1 DEF Forms!vars, Forms!server, Forms!fields, Forms!step, Forms!past
  <2>2. Asking' = Asking
    BY <2>1 DEF Asking
  <2>3. FormTypes' /\ MissingInv' /\ OneQuestion'
    BY <2>1, <2>2 DEF FormTypes, CodeTypes, AskedTypes, NumberTypes, FieldTypes, MissingInv,
        OneQuestion
  <2>4. TruthInv'
    BY <2>1, <2>2, NothingMarked, MarkedKeeps DEF TruthInv
  <2>5. WaitInv'
    BY <2>1, <2>2, NothingMarked, MarkedWaits
  <2> QED BY <2>3, <2>4, <2>5
<1>2. ASSUME NEW c \in 0..Forms!Cardinality(fCodes), Forms!Confirm(c)
      PROVE  FormInv'
  <2>1. Forms!Cardinality(fCodes) \in Nat
    BY FormsCardinalityType DEF FormInv, FormTypes, CodeTypes
  <2>2. c \in Nat
    BY <2>1
  <2> QED BY <1>2, <2>2, ConfirmKeeps
<1>3. CASE Forms!Next
  BY <1>2, <1>3, TickKeeps, OpenKeeps, EditKeeps, RequestCodeKeeps, SubmitKeeps, ServeCodeKeeps,
      ServeSubmitKeeps,
     ServeConfirmKeeps, FormDropKeeps, CodeAnswerKeeps, ConfirmAnswerKeeps, SubmitAnswerKeeps DEF Forms!Next
<1> QED BY <1>1, <1>3

\* What the forms of someone who is not logged in say of the address, the code and the wait
\* is so (the signup form, the reset form and EmailCodeVerification).
THEOREM FormsSpeakTrue ==
    FormBounds => (Forms!Spec => [](Forms!TypeOK /\ Forms!FormSpeaksTrue))
<1> SUFFICES ASSUME FormBounds PROVE Forms!Spec => [](Forms!TypeOK /\ Forms!FormSpeaksTrue)
  OBVIOUS
<1>1. Forms!Init => FormInv
  BY FormBegins
<1>2. FormInv /\ [Forms!Next]_Forms!vars => FormInv'
  BY FormKeeps
<1>3. FormInv => Forms!TypeOK /\ Forms!FormSpeaksTrue
  BY FormShows
<1> QED BY <1>1, <1>2, <1>3, PTL DEF Forms!Spec

-----------------------------------------------------------------------------
(* What the tables of accounts hold.                                       *)

\* A call has a row to mail, to delete or to mark, a guess that is left, and a name.
CallFits(c) ==
    /\ c.pc \in {"mail", "undo", "verify"} => c.row # 0
    /\ c.pc = "bump" => c.read < MAX_CONFIRM_ATTEMPTS
    /\ c.pc \in SignupPcs \cup {"seed"} => c.name \in GroupName

CallsFit == \A s \in Slot : CallFits(aCall[s])

AccountTypes ==
    /\ now \in 0..MaxTime /\ mailed \subseteq 1..lastId /\ kept \subseteq 1..lastId
    /\ calls \in 0..MaxSlotCalls
    /\ \A r \in codes : r.attempts <= MAX_CONFIRM_ATTEMPTS
    /\ \A t \in tokens : t.row # 0
    /\ account \in GroupName \cup {"none"} /\ \A g \in groups : g.name \in GroupName

\* A call that moves to a place it fits leaves the others where they fit.
LEMMA FitsKept ==
    ASSUME IdsInv, CallsFit, NEW s \in Slot, NEW c, Moves(s, c), CallFits(c)
    PROVE  CallsFit'
  BY DEF CallsFit, CallFits, Moves

\* Every step takes a call to a place it fits.
LEMMA CallsStayFit ==
    ASSUME CodeBounds, IdsInv, CallsFit, AccountTypes, NEW s \in Slot, Accounts!Step(s)
    PROVE  CallsFit'
<1>1. CASE Accounts!End(s)
  <2>1. CallFits(Accounts!Idle)
    BY DEF CallFits, Accounts!Idle, SignupPcs
  <2> QED  BY <1>1, <2>1, CallMoves, FitsKept
<1>2. ASSUME NEW pc, Accounts!To(s, pc),
             \/ pc \in {"save", "password", "empty"}
             \/ pc = "undo" /\ aCall[s].pc = "mail"
             \/ pc \in {"user", "commit"} /\ aCall[s].pc \in {"group", "user"}
      PROVE  CallsFit'
  <2> DEFINE c == [aCall[s] EXCEPT !.pc = pc]
  <2>1. Moves(s, c) /\ c.pc = pc /\ c.row = aCall[s].row /\ c.name = aCall[s].name
    BY <1>2, CallMoves, CallGoesOn
  <2>2. CallFits(aCall[s])
    BY DEF CallsFit
  <2> HIDE DEF c
  <2>3. CallFits(c)
    BY <1>2, <2>1, <2>2 DEF CallFits, SignupPcs
  <2> QED  BY <2>1, <2>3, FitsKept
<1>3. ASSUME NEW c, Accounts!Start(s, c), CallFits(c)
      PROVE  CallsFit'
  BY <1>3, CallMoves, FitsKept
<1>4. ASSUME NEW p \in Accounts!Purpose, Accounts!RequestCode(s, p)
      PROVE  CallsFit'
  <2> DEFINE c == [Accounts!Idle EXCEPT !.pc = "latest", !.purpose = p, !.since = now]
  <2>1. CallFits(c)
    BY DEF CallFits, Accounts!Idle, SignupPcs
  <2> QED  BY <1>3, <1>4, <2>1 DEF Accounts!RequestCode
<1>5. ASSUME NEW p \in Accounts!Purpose, NEW right \in BOOLEAN, Accounts!ConfirmCode(s, p, right)
      PROVE  CallsFit'
  <2>1. PICK r \in codes :
          /\ Accounts!MayTry(r)
          /\ Accounts!Start(s, [Accounts!Idle EXCEPT !.pc = IF right THEN "verify" ELSE "bump", !.row = r.id,
                                                     !.read = r.attempts])
    BY <1>5 DEF Accounts!ConfirmCode, Accounts!Latest
  <2> DEFINE c == [Accounts!Idle EXCEPT !.pc = IF right THEN "verify" ELSE "bump", !.row = r.id,
                                        !.read = r.attempts]
  <2>2. c.row = r.id /\ c.read = r.attempts /\ c.pc \in {"verify", "bump"}
    BY DEF Accounts!Idle
  <2> HIDE DEF c
  <2>3. r.id # 0 /\ r.attempts < MAX_CONFIRM_ATTEMPTS
    BY <2>1 DEF IdsInv, RowOK, Accounts!MayTry
  <2>4. CallFits(c)
    BY <2>2, <2>3 DEF CallFits, SignupPcs
  <2> QED  BY <1>3, <2>1, <2>4 DEF c
<1>6. CASE Accounts!ReadLatest(s)
  <2>1. CASE aCall' = [aCall EXCEPT ![s].pc = "count", ![s].seen = lastId]
    <3> DEFINE c == [aCall[s] EXCEPT !.pc = "count", !.seen = lastId]
    <3>1. Moves(s, c) /\ c.pc = "count"
      BY <2>1 DEF IdsInv, Moves, CallOK, CallFields
    <3> HIDE DEF c
    <3>2. CallFits(c)
      BY <3>1 DEF CallFits, SignupPcs
    <3> QED  BY <3>1, <3>2, FitsKept
  <2> QED  BY <1>1, <1>6, <2>1 DEF Accounts!ReadLatest
<1>7. CASE Accounts!SaveCode(s)
  <2> DEFINE c == [aCall[s] EXCEPT !.pc = "mail", !.row = lastId + 1]
  <2>1. Moves(s, c) /\ c.row = lastId + 1 /\ c.pc = "mail"
    BY <1>7 DEF Accounts!SaveCode, Moves, IdsInv, CallOK, CallFields
  <2> HIDE DEF c
  <2>2. CallFits(c)
    BY <2>1 DEF CallFits, SignupPcs, IdsInv
  <2> QED  BY <2>1, <2>2, FitsKept
<1>8. ASSUME NEW t \in tokens, NEW n \in GroupName, Accounts!CreateUser(s, t, n)
      PROVE  CallsFit'
  <2> DEFINE c == [Accounts!Idle EXCEPT !.pc = "group", !.row = t.row, !.name = n]
  <2>1. CallFits(c)
    BY DEF CallFits, Accounts!Idle, SignupPcs
  <2> QED  BY <1>3, <1>8, <2>1 DEF Accounts!CreateUser
<1>9. ASSUME NEW t \in tokens, Accounts!ResetPassword(s, t)
      PROVE  CallsFit'
  <2> DEFINE c == [Accounts!Idle EXCEPT !.pc = "find", !.row = t.row]
  <2>1. CallFits(c)
    BY DEF CallFits, Accounts!Idle, SignupPcs
  <2> QED  BY <1>3, <1>9, <2>1 DEF Accounts!ResetPassword
<1>10. ASSUME NEW n \in GroupName, Accounts!CreateGroup(s, n)
       PROVE  CallsFit'
  <2> DEFINE c == [Accounts!Idle EXCEPT !.pc = "seed", !.name = n]
  <2>1. CallFits(c)
    BY DEF CallFits, Accounts!Idle, SignupPcs
  <2> QED  BY <1>3, <1>10, <2>1 DEF Accounts!CreateGroup
<1>11. CASE Accounts!Boot(s)
  <2> DEFINE c == [Accounts!Idle EXCEPT !.pc = "template"]
  <2>1. CallFits(c)
    BY DEF CallFits, Accounts!Idle, SignupPcs
  <2> QED  BY <1>3, <1>11, <2>1 DEF Accounts!Boot
<1>12. CASE Accounts!CountDay(s)
  BY <1>1, <1>2, <1>12 DEF Accounts!CountDay
<1>13. CASE \E ok \in BOOLEAN : Accounts!SendMail(s, ok)
  BY <1>1, <1>2, <1>13 DEF Accounts!SendMail
<1>14. CASE Accounts!InsertGroup(s)
  BY <1>1, <1>2, <1>14 DEF Accounts!InsertGroup
<1>15. CASE Accounts!InsertUser(s)
  BY <1>1, <1>2, <1>15 DEF Accounts!InsertUser
<1>16. CASE Accounts!FindUser(s)
  BY <1>1, <1>2, <1>16 DEF Accounts!FindUser
<1>17. CASE Accounts!CountTemplate(s)
  BY <1>1, <1>2, <1>17 DEF Accounts!CountTemplate
<1>18. CASE \/ Accounts!UndoCode(s) \/ Accounts!BumpAttempts(s) \/ Accounts!VerifyCode(s)
            \/ Accounts!CommitUser(s) \/ Accounts!CommitPassword(s)
            \/ Accounts!SeedGroup(s) \/ Accounts!SeedTemplate(s) \/ Accounts!Fail(s)
  BY <1>1, <1>18 DEF Accounts!UndoCode, Accounts!BumpAttempts, Accounts!VerifyCode, Accounts!CommitUser,
      Accounts!CommitPassword, Accounts!SeedGroup, Accounts!SeedTemplate, Accounts!Fail
<1> QED  BY <1>4, <1>5, <1>6, <1>7, <1>8, <1>9, <1>10, <1>11, <1>12, <1>13, <1>14, <1>15, <1>16,
            <1>17, <1>18 DEF Accounts!Step

\* A row that gets other fields keeps to the guesses.
LEMMA GuessesKept ==
    ASSUME IdsInv, AccountTypes, NEW id, NEW g, Rewrites(id, g),
           \A r \in codes : g[r].attempts <= MAX_CONFIRM_ATTEMPTS
    PROVE  \A r \in codes' : r.attempts <= MAX_CONFIRM_ATTEMPTS
  BY DEF Rewrites, AccountTypes

\* The rows stay in their domain whatever a call does.
LEMMA TablesStayTyped ==
    ASSUME CodeBounds, IdsInv, GroupsInv, CallsFit, AccountTypes, NEW s \in Slot, Accounts!Step(s)
    PROVE  AccountTypes'
<1>0. /\ lastId \in Nat /\ CallFits(aCall[s]) /\ CallOK(aCall[s]) /\ aCall[s].row <= lastId
      /\ \A r \in codes : RowOK(r)
  BY DEF IdsInv, CallsFit
<1>1. ASSUME UNCHANGED <<now, mailed, kept, codes, lastId, tokens, account, groups>>, calls' \in 0..MaxSlotCalls
      PROVE  AccountTypes'
  BY <1>1 DEF AccountTypes
<1>2. ASSUME NEW c, Accounts!Start(s, c)
      PROVE  calls' \in 0..MaxSlotCalls
  BY <1>2 DEF Accounts!Start, AccountTypes, CodeBounds
<1>3. CASE Accounts!SeedGroup(s)
  <2>1. /\ groups' = {IF g.name = aCall[s].name THEN [g EXCEPT !.items = Accounts!Seeded] ELSE g : g \in groups}
        /\ UNCHANGED <<now, mailed, kept, codes, lastId, tokens, account, calls>>
    BY <1>3 DEF Accounts!SeedGroup
  <2>2. \A g \in groups : [g EXCEPT !.items = Accounts!Seeded].name = g.name
    BY DEF GroupsInv
  <2>3. \A h \in groups' : h.name \in GroupName
    BY <2>1, <2>2 DEF AccountTypes
  <2> QED  BY <2>1, <2>3 DEF AccountTypes
<1>4. ASSUME UNCHANGED <<now, mailed, kept, lastId, tokens, account, groups>>, calls' \in 0..MaxSlotCalls,
             \A r \in codes' : r.attempts <= MAX_CONFIRM_ATTEMPTS
      PROVE  AccountTypes'
  BY <1>4 DEF AccountTypes
<1>5. calls \in 0..MaxSlotCalls
  BY DEF AccountTypes
<1>6. CASE \/ \E p \in Accounts!Purpose : Accounts!RequestCode(s, p)
           \/ Accounts!ReadLatest(s) \/ Accounts!CountDay(s)
           \/ \E t \in tokens : Accounts!ResetPassword(s, t) \/ \E n \in GroupName : Accounts!CreateUser(s, t, n)
           \/ Accounts!InsertGroup(s) \/ Accounts!InsertUser(s) \/ Accounts!FindUser(s)
           \/ Accounts!Boot(s) \/ Accounts!CountTemplate(s) \/ Accounts!SeedTemplate(s)
  <2>1. UNCHANGED <<now, mailed, kept, codes, lastId, tokens, account, groups>>
    BY <1>6 DEF Accounts!RequestCode, Accounts!ReadLatest, Accounts!CountDay, Accounts!ResetPassword, Accounts!CreateUser,
        Accounts!InsertGroup, Accounts!InsertUser, Accounts!FindUser, Accounts!Boot, Accounts!CountTemplate,
        Accounts!SeedTemplate, Accounts!data
  <2>2. (\E c : Accounts!Start(s, c)) \/ UNCHANGED calls
    BY <1>6 DEF Accounts!RequestCode, Accounts!ReadLatest, Accounts!CountDay, Accounts!ResetPassword, Accounts!CreateUser,
        Accounts!InsertGroup, Accounts!InsertUser, Accounts!FindUser, Accounts!Boot, Accounts!CountTemplate,
        Accounts!SeedTemplate
  <2> QED  BY <1>1, <1>2, <1>5, <2>1, <2>2
<1>7. CASE Accounts!SaveCode(s)
  <2> DEFINE new == [id |-> lastId + 1, purpose |-> aCall[s].purpose, at |-> now,
                     expires |-> aCall[s].since + CODE_TTL, attempts |-> 0,
                     verified |-> FALSE, consumed |-> FALSE, seen |-> aCall[s].seen,
                     tries |-> 0, uses |-> 0, overlapped |-> FALSE]
  <2>1. /\ codes' = codes \cup {new} /\ lastId' = lastId + 1
        /\ UNCHANGED <<now, mailed, kept, tokens, account, groups, calls>>
    BY <1>7 DEF Accounts!SaveCode
  <2>2. new.attempts = 0
    OBVIOUS
  <2> HIDE DEF new
  <2>3. 1..lastId \subseteq 1..lastId'
    BY <1>0, <2>1
  <2> QED  BY <2>1, <2>2, <2>3 DEF AccountTypes, CodeBounds
<1>8. CASE \E ok \in BOOLEAN : Accounts!SendMail(s, ok)
  <2>1. aCall[s].row \in 1..lastId
    BY <1>0, <1>8 DEF Accounts!SendMail, CallFits, CallOK
  <2>2. /\ mailed' \subseteq mailed \cup {aCall[s].row}
        /\ UNCHANGED <<now, kept, codes, lastId, tokens, account, groups, calls>>
    BY <1>8 DEF Accounts!SendMail
  <2> QED  BY <2>1, <2>2 DEF AccountTypes
<1>9. CASE Accounts!UndoCode(s)
  <2>1. codes' \subseteq codes /\ UNCHANGED <<now, mailed, kept, lastId, tokens, account, groups, calls>>
    BY <1>9 DEF Accounts!UndoCode
  <2> QED  BY <1>4, <1>5, <2>1 DEF AccountTypes
<1>10. ASSUME NEW p \in Accounts!Purpose, NEW right \in BOOLEAN, Accounts!ConfirmCode(s, p, right)
       PROVE  AccountTypes'
  <2>1. PICK r0 \in codes :
          /\ \E c : Accounts!Start(s, c)
          /\ Accounts!SetRow(r0.id, LAMBDA x : [x EXCEPT !.overlapped =
                             @ \/ \E o \in Accounts!Others(s, {"bump"}) : aCall[o].row = x.id])
          /\ UNCHANGED <<now, mailed, kept, lastId, tokens, account, groups>>
    BY <1>10 DEF Accounts!ConfirmCode, Accounts!Latest
  <2> DEFINE g == [x \in codes |-> [x EXCEPT !.overlapped =
                     @ \/ \E o \in Accounts!Others(s, {"bump"}) : aCall[o].row = x.id]]
  <2>2. Rewrites(r0.id, g)
    BY <2>1 DEF Accounts!SetRow, Rewrites
  <2>3. \A r \in codes : g[r].attempts = r.attempts
    BY <1>0 DEF RowOK, RowFields
  <2> HIDE DEF g
  <2>4. \A r \in codes' : r.attempts <= MAX_CONFIRM_ATTEMPTS
    BY <2>2, <2>3, GuessesKept DEF AccountTypes
  <2> QED  BY <1>2, <1>4, <2>1, <2>4
<1>11. CASE Accounts!BumpAttempts(s)
  <2>1. /\ Accounts!SetRow(aCall[s].row, LAMBDA r : [r EXCEPT !.attempts = aCall[s].read + 1, !.tries = @ + 1])
        /\ UNCHANGED <<now, mailed, kept, lastId, tokens, account, groups, calls>> /\ aCall[s].pc = "bump"
    BY <1>11 DEF Accounts!BumpAttempts
  <2> DEFINE g == [r \in codes |-> [r EXCEPT !.attempts = aCall[s].read + 1, !.tries = @ + 1]]
  <2>2. Rewrites(aCall[s].row, g)
    BY <2>1 DEF Accounts!SetRow, Rewrites
  <2>3. \A r \in codes : g[r].attempts = aCall[s].read + 1
    BY <1>0 DEF RowOK, RowFields
  <2> HIDE DEF g
  <2>4. aCall[s].read + 1 <= MAX_CONFIRM_ATTEMPTS
    BY <1>0, <2>1 DEF CallFits, CallOK, CodeBounds
  <2>5. \A r \in codes' : r.attempts <= MAX_CONFIRM_ATTEMPTS
    BY <2>2, <2>3, <2>4, GuessesKept
  <2> QED  BY <1>4, <1>5, <2>1, <2>5
<1>12. CASE Accounts!VerifyCode(s)
  <2>1. /\ Accounts!SetRow(aCall[s].row, LAMBDA r : [r EXCEPT !.verified = TRUE])
        /\ tokens' = tokens \cup {[row |-> aCall[s].row, until |-> now + TOKEN_TTL]}
        /\ UNCHANGED <<now, mailed, kept, lastId, account, groups, calls>> /\ aCall[s].pc = "verify"
    BY <1>12 DEF Accounts!VerifyCode
  <2> DEFINE g == [r \in codes |-> [r EXCEPT !.verified = TRUE]]
  <2>2. Rewrites(aCall[s].row, g)
    BY <2>1 DEF Accounts!SetRow, Rewrites
  <2>3. \A r \in codes : g[r].attempts = r.attempts
    BY <1>0 DEF RowOK, RowFields
  <2> HIDE DEF g
  <2>4. \A r \in codes' : r.attempts <= MAX_CONFIRM_ATTEMPTS
    BY <2>2, <2>3, GuessesKept DEF AccountTypes
  <2>5. \A t \in tokens' : t.row # 0
    BY <1>0, <2>1 DEF AccountTypes, CallFits
  <2> QED  BY <2>1, <2>4, <2>5 DEF AccountTypes
<1>13. CASE Accounts!CommitUser(s) \/ Accounts!CommitPassword(s)
  <2>1. PICK pcs : Accounts!Serve(s, pcs)
    BY <1>13 DEF Accounts!CommitUser, Accounts!CommitPassword
  <2> DEFINE g == [r \in codes |-> [r EXCEPT !.consumed = TRUE, !.uses = @ + 1,
                     !.overlapped = @ \/ \E o \in Accounts!Others(s, pcs) : aCall[o].row = r.id]]
  <2>2. Rewrites(aCall[s].row, g)
    BY <2>1 DEF Accounts!Serve, Accounts!SetRow, Rewrites
  <2>3. \A r \in codes : g[r].attempts = r.attempts
    BY <1>0 DEF RowOK, RowFields
  <2> HIDE DEF g
  <2>4. \A r \in codes' : r.attempts <= MAX_CONFIRM_ATTEMPTS
    BY <2>2, <2>3, GuessesKept DEF AccountTypes
  <2>5. CASE Accounts!CommitUser(s)
    <3>1. aCall[s].name \in GroupName
      BY <1>0, <2>5 DEF Accounts!CommitUser, CallFits, SignupPcs
    <3>2. /\ groups' = groups \cup {[name |-> aCall[s].name, signup |-> TRUE, items |-> Accounts!Seeded]}
          /\ account' = aCall[s].name
          /\ UNCHANGED <<now, mailed, kept, lastId, tokens, calls>>
      BY <2>5 DEF Accounts!CommitUser
    <3> QED  BY <2>4, <3>1, <3>2 DEF AccountTypes
  <2>6. CASE Accounts!CommitPassword(s)
    BY <1>4, <1>5, <2>4, <2>6 DEF Accounts!CommitPassword
  <2> QED  BY <1>13, <2>5, <2>6
<1>14. ASSUME NEW n \in GroupName, Accounts!CreateGroup(s, n)
       PROVE  AccountTypes'
  <2>1. /\ groups' = groups \cup {[name |-> n, signup |-> FALSE, items |-> 0]}
        /\ UNCHANGED <<now, mailed, kept, codes, lastId, tokens, account>> /\ \E c : Accounts!Start(s, c)
    BY <1>14 DEF Accounts!CreateGroup
  <2> QED  BY <1>2, <2>1 DEF AccountTypes
<1>15. CASE Accounts!Fail(s)
  <2>1. /\ kept' = IF aCall[s].pc \in {"mail", "undo"} THEN kept \cup {aCall[s].row} ELSE kept
        /\ UNCHANGED <<now, mailed, codes, lastId, tokens, account, groups, calls>>
    BY <1>15 DEF Accounts!Fail
  <2>2. aCall[s].pc \in {"mail", "undo"} => aCall[s].row \in 1..lastId
    BY <1>0 DEF CallFits, CallOK
  <2> QED  BY <2>1, <2>2 DEF AccountTypes
<1> QED  BY <1>3, <1>6, <1>7, <1>8, <1>9, <1>10, <1>11, <1>12, <1>13, <1>14, <1>15 DEF Accounts!Step

\* Nobody calls at first, and there may be a user with a group.
LEMMA AccountsBeginTyped ==
    ASSUME CodeBounds, Accounts!Init
    PROVE  CallsFit /\ AccountTypes
<1>1. CallsFit
  BY DEF CallsFit, CallFits, Accounts!Init, Accounts!Idle, SignupPcs
<1>2. account \in GroupName \cup {"none"}
  BY DEF Accounts!Init, CodeBounds
<1>3. \A g \in groups : g.name \in GroupName
  <2>1. CASE account = "none"
    BY <2>1 DEF Accounts!Init
  <2>2. CASE account # "none"
    <3>1. groups = {[name |-> account, signup |-> TRUE, items |-> 1]}
      BY <2>2 DEF Accounts!Init
    <3>2. account \in GroupName
      BY <1>2, <2>2
    <3> QED  BY <3>1, <3>2
  <2> QED  BY <2>1, <2>2
<1>4. /\ now = 0 /\ codes = {} /\ mailed = {} /\ kept = {} /\ tokens = {} /\ calls = 0
  BY DEF Accounts!Init
<1> QED  BY <1>1, <1>2, <1>3, <1>4 DEF AccountTypes, CodeBounds

\* The clock, a user who is deleted and every step of a call stay in the domain.
LEMMA AccountsStayTyped ==
    ASSUME CodeBounds, IdsInv, GroupsInv, CallsFit, AccountTypes, [Accounts!Next]_Accounts!vars
    PROVE  CallsFit' /\ AccountTypes'
<1>1. CASE Accounts!Tick \/ Accounts!DeleteUser \/ UNCHANGED Accounts!vars
  <2>1. UNCHANGED aCall
    BY <1>1 DEF Accounts!Tick, Accounts!DeleteUser, Accounts!vars
  <2>2. CallsFit'
    BY <2>1 DEF CallsFit, CallFits
  <2>3. CASE Accounts!Tick
    BY <2>2, <2>3 DEF Accounts!Tick, Accounts!data, AccountTypes, CodeBounds
  <2>4. CASE Accounts!DeleteUser
    BY <2>2, <2>4 DEF Accounts!DeleteUser, AccountTypes, CodeBounds
  <2>5. CASE UNCHANGED Accounts!vars
    BY <2>2, <2>5 DEF Accounts!vars, Accounts!data, AccountTypes
  <2> QED  BY <1>1, <2>2, <2>3, <2>4, <2>5
<1>2. ASSUME NEW s \in Slot, Accounts!Step(s)
      PROVE  CallsFit' /\ AccountTypes'
  BY <1>2, CallsStayFit, TablesStayTyped
<1> QED  BY <1>1, <1>2 DEF Accounts!Next

\* The tables of accounts stay in their domain: in particular, no row stores more attempts
\* than the limit, however many calls try its code at once (confirmCode).
LEMMA AccountTypeCorrect ==
    CodeBounds => (Accounts!Spec => []Accounts!TypeOK)
<1> SUFFICES ASSUME CodeBounds PROVE Accounts!Spec => []Accounts!TypeOK
  OBVIOUS
<1>1. Accounts!Init => IdsInv /\ ServeInv
  BY InitServe
<1>2. Accounts!Init => GroupsInv
  BY InitGroups
<1>3. Accounts!Init => CallsFit /\ AccountTypes
  BY AccountsBeginTyped
<1>4. IdsInv /\ ServeInv /\ [Accounts!Next]_Accounts!vars => (IdsInv /\ ServeInv)'
  BY NextKeepsServe
<1>5. IdsInv /\ GroupsInv /\ [Accounts!Next]_Accounts!vars => GroupsInv'
  BY NextKeepsGroups
<1>6. IdsInv /\ GroupsInv /\ CallsFit /\ AccountTypes /\ [Accounts!Next]_Accounts!vars
        => (CallsFit /\ AccountTypes)'
  BY AccountsStayTyped
<1>7. IdsInv /\ AccountTypes => Accounts!TypeOK
  <2> SUFFICES ASSUME IdsInv, AccountTypes PROVE Accounts!TypeOK
    OBVIOUS
  <2>1. \A r \in codes : r.id \in 1..lastId /\ r.purpose \in Accounts!Purpose /\ r.attempts \in 0..MAX_CONFIRM_ATTEMPTS
    BY DEF IdsInv, RowOK, AccountTypes, CodeBounds
  <2>2. \A t \in tokens : t.row \in 1..lastId
    BY DEF IdsInv, AccountTypes
  <2> QED  BY <2>1, <2>2 DEF AccountTypes, Accounts!TypeOK
<1> QED  BY <1>1, <1>2, <1>3, <1>4, <1>5, <1>6, <1>7, PTL DEF Accounts!Spec

-----------------------------------------------------------------------------
(* What a session is made of.                                              *)

\* A user, or nobody.
Someone == Browser!LoggedIn \cup {None}

\* What a request asks for, of the user it was sent by.
AskFits(r) ==
    /\ r.tab \in Tab /\ r.user \in Someone
    /\ r.kind \in {"switch", "delete"} => r.about \in Group
    /\ r.kind = "login" => r.about \in Browser!User
    /\ r.kind \in {"switch", "name"} => r.user # None

ServerFits ==
    /\ \E n \in Nat : n <= MaxTokens /\ DOMAIN signed = 1..n
    /\ expired \subseteq DOMAIN signed /\ liveGroups \subseteq Group
StorageFits ==
    /\ token \in {0} \cup DOMAIN signed /\ storedUser \in Someone
    /\ storedGroup \in Group \cup {None}
TabsFit ==
    /\ user \in [Tab -> Someone] /\ selected \in [Tab -> Group \cup {None}]
AsksFit ==
    /\ sSent \in Nat /\ \A r \in asked : r.n \in 1..sSent /\ AskFits(r)

SessionTypes == ServerFits /\ StorageFits /\ TabsFit /\ AsksFit

\* The domain follows.
LEMMA SessionShowsTypes == SessionBounds /\ SessionTypes => Browser!TypeOK
  BY DEF SessionBounds, SessionTypes, ServerFits, StorageFits, TabsFit, AsksFit, AskFits, Someone,
         Browser!TypeOK, Browser!Token

\* Nobody has asked for anything.
LEMMA SessionBeginsTyped ==
    ASSUME SessionBounds, Browser!Init
    PROVE  SessionTypes
<1>1. DOMAIN signed = 1..0
  BY DEF Browser!Init
<1>2. ServerFits
  <2>1. 0 \in Nat /\ 0 <= MaxTokens /\ DOMAIN signed = 1..0
    BY <1>1 DEF SessionBounds
  <2>2. expired \subseteq DOMAIN signed /\ liveGroups \subseteq Group
    BY DEF Browser!Init
  <2> QED  BY <2>1, <2>2 DEF ServerFits
<1> QED  BY <1>2 DEF Browser!Init, SessionTypes, StorageFits, TabsFit, AsksFit, Someone

\* A token is signed under the next number.
LEMMA SignedFits ==
    ASSUME SessionBounds, SessionTypes, NEW u, NEW g, Browser!Sign(u, g),
           UNCHANGED <<expired, liveGroups>>
    PROVE  /\ ServerFits' /\ Browser!New(u, g).token \in DOMAIN signed'
           /\ Browser!New(u, g).token \in Browser!Token /\ DOMAIN signed \subseteq DOMAIN signed'
<1>1. PICK n \in Nat : n <= MaxTokens /\ DOMAIN signed = 1..n
  BY DEF SessionTypes, ServerFits
<1>2. Browser!Cardinality(DOMAIN signed) = n
  BY <1>1, BrowserInterval
<1>3. n < MaxTokens /\ DOMAIN signed' = 1..(n + 1)
  BY <1>2 DEF Browser!Sign
<1>4. Browser!New(u, g).token = n + 1
  BY <1>2 DEF Browser!New
<1>5. n + 1 \in Nat /\ n + 1 <= MaxTokens /\ 1..n \subseteq 1..(n + 1) /\ n + 1 \in 1..(n + 1)
  BY <1>3 DEF SessionBounds
<1>6. n + 1 \in 1..MaxTokens
  BY <1>5 DEF SessionBounds
<1> QED  BY <1>1, <1>3, <1>4, <1>5, <1>6 DEF SessionTypes, ServerFits, Browser!Token

\* The answer to a login or a switch enters the tab and the storage.
LEMMA EnterFits ==
    ASSUME SessionBounds, SessionTypes, NEW t \in Tab, NEW i, NEW v \in Browser!User, NEW g \in Group,
           Browser!Sign(i, g), UNCHANGED <<expired, liveGroups>>,
           Browser!Enter(t, [Browser!New(i, g) EXCEPT !.id = v], g)
    PROVE  ServerFits' /\ StorageFits' /\ TabsFit'
<1> DEFINE u == [Browser!New(i, g) EXCEPT !.id = v]
<1>1. PICK n : n = Browser!New(i, g).token
  OBVIOUS
<1>2. ServerFits' /\ n \in DOMAIN signed' /\ n \in Browser!Token
  BY <1>1, SignedFits
<1>3. u = [id |-> v, token |-> n, group |-> g]
  BY <1>1 DEF Browser!New
<1>4. u \in Someone /\ u.token = n
  BY <1>2, <1>3 DEF Someone, Browser!LoggedIn
<1>5. token' = u.token /\ Browser!SetUser(t, u) /\ Browser!SetSelectedGroup(t, g)
  BY DEF Browser!Enter
<1> HIDE DEF u
<1>6. StorageFits'
  BY <1>2, <1>4, <1>5 DEF StorageFits, Browser!SetUser, Browser!SetSelectedGroup
<1>7. TabsFit'
  BY <1>4, <1>5 DEF SessionTypes, TabsFit, Browser!SetUser, Browser!SetSelectedGroup
<1> QED  BY <1>2, <1>6, <1>7

\* A logout empties both.
LEMMA LogoutFits ==
    ASSUME SessionTypes, NEW t \in Tab, Browser!Logout(t), UNCHANGED <<signed, expired, liveGroups>>
    PROVE  ServerFits' /\ StorageFits' /\ TabsFit'
  BY DEF SessionTypes, ServerFits, StorageFits, TabsFit, Someone,
         Browser!Logout, Browser!SetUser, Browser!SetSelectedGroup

\* A tab selects a group, or none.
LEMMA SelectFits ==
    ASSUME SessionTypes, NEW t \in Tab, NEW g \in Group \cup {None}, Browser!SetSelectedGroup(t, g),
           UNCHANGED <<signed, expired, token, storedUser, user>>, liveGroups' \subseteq liveGroups
    PROVE  ServerFits' /\ StorageFits' /\ TabsFit'
  BY DEF SessionTypes, ServerFits, StorageFits, TabsFit, Browser!SetSelectedGroup

\* Nothing that is stored changes, or a group is deleted.
LEMMA StoresFit ==
    ASSUME SessionTypes, UNCHANGED <<signed, token, storedUser, storedGroup, user, selected>>,
           expired' \subseteq DOMAIN signed, liveGroups' \subseteq liveGroups
    PROVE  ServerFits' /\ StorageFits' /\ TabsFit'
  BY DEF SessionTypes, ServerFits, StorageFits, TabsFit

\* Fewer requests are under way.
LEMMA FewerAsksFit ==
    ASSUME SessionTypes, asked' \subseteq asked, UNCHANGED sSent
    PROVE  AsksFit'
  BY DEF SessionTypes, AsksFit, AskFits, Someone, Browser!LoggedIn, Browser!User, Browser!Token

\* A tab asks: the user is its own, and the others ask for what they asked for.
LEMMA AskingFits ==
    ASSUME SessionTypes, NEW t \in Tab, NEW kind, NEW header, NEW x, Browser!Ask(t, kind, header, x),
           kind \in {"switch", "delete"} => x \in Group, kind = "login" => x \in Browser!User,
           kind \in {"switch", "name"} => user[t] # None
    PROVE  AsksFit'
<1> DEFINE r == [n |-> sSent + 1, tab |-> t, kind |-> kind, token |-> header, user |-> user[t], about |-> x]
<1>1. asked' = asked \cup {r} /\ sSent' = sSent + 1
  BY DEF Browser!Ask
<1>2. r.n = sSent + 1 /\ r.tab = t /\ r.kind = kind /\ r.user = user[t] /\ r.about = x
  OBVIOUS
<1> HIDE DEF r
<1>3. user[t] \in Someone
  BY DEF SessionTypes, TabsFit
<1>4. AskFits(r)
  BY <1>2, <1>3 DEF AskFits
<1>5. sSent \in Nat /\ \A q \in asked : q.n \in 1..sSent /\ AskFits(q)
  BY DEF SessionTypes, AsksFit
<1>6. \A q \in asked' : q.n \in 1..sSent' /\ AskFits(q)
  BY <1>1, <1>2, <1>4, <1>5
<1>7. \A q : AskFits(q) => AskFits(q)'
  BY DEF AskFits, Someone, Browser!LoggedIn, Browser!User, Browser!Token
<1> QED  BY <1>1, <1>5, <1>6, <1>7 DEF AsksFit

\* The taps: a tab asks, and nothing else changes.
LEMMA TapsFit ==
    ASSUME SessionTypes, NEW t \in Tab,
           \/ \E u \in Browser!User : Browser!LoginTap(t, u)
           \/ \E g \in Group : Browser!SwitchTap(t, g)
           \/ Browser!DeleteGroupTap(t) \/ Browser!SaveNameTap(t) \/ Browser!OtherTap(t)
    PROVE  SessionTypes'
<1>1. UNCHANGED <<signed, expired, liveGroups, token, storedUser, storedGroup, user, selected>>
  BY DEF Browser!LoginTap, Browser!SwitchTap, Browser!DeleteGroupTap, Browser!SaveNameTap,
         Browser!OtherTap, Browser!server, Browser!storage, Browser!stores
<1>2. expired \subseteq DOMAIN signed
  BY DEF SessionTypes, ServerFits
<1>3. ServerFits' /\ StorageFits' /\ TabsFit'
  BY <1>1, <1>2, StoresFit
<1>4. AsksFit'
  <2>1. ASSUME NEW u \in Browser!User, Browser!LoginTap(t, u) PROVE AsksFit'
    BY <2>1, AskingFits DEF Browser!LoginTap
  <2>2. ASSUME NEW g \in Group, Browser!SwitchTap(t, g) PROVE AsksFit'
    BY <2>2, AskingFits DEF Browser!SwitchTap, Browser!IsAdmin
  <2>3. CASE Browser!DeleteGroupTap(t)
    <3>1. user[t].group \in Group
      BY <2>3 DEF Browser!DeleteGroupTap, SessionTypes, ServerFits
    <3> QED  BY <2>3, <3>1, AskingFits DEF Browser!DeleteGroupTap
  <2>4. CASE Browser!SaveNameTap(t)
    BY <2>4, AskingFits DEF Browser!SaveNameTap
  <2>5. CASE Browser!OtherTap(t)
    BY <2>5, AskingFits DEF Browser!OtherTap
  <2> QED  BY <2>1, <2>2, <2>3, <2>4, <2>5
<1> QED  BY <1>3, <1>4 DEF SessionTypes

\* The answers.
LEMMA AnswersFit ==
    ASSUME SessionBounds, SessionTypes, NEW r \in asked,
           \/ Browser!LoginAnswer(r) \/ Browser!SwitchAnswer(r) \/ Browser!DeleteGroupAnswer(r) \/ Browser!SaveNameAnswer(r)
           \/ Browser!Refused(r) \/ \E reload \in BOOLEAN : Browser!Unauthorized(r, reload)
    PROVE  SessionTypes'
<1>0. AskFits(r) /\ expired \subseteq DOMAIN signed
  BY DEF SessionTypes, AsksFit, ServerFits
<1>1. AsksFit'
  <2>1. asked' \subseteq asked /\ UNCHANGED sSent
    BY DEF Browser!LoginAnswer, Browser!SwitchAnswer, Browser!DeleteGroupAnswer, Browser!SaveNameAnswer,
           Browser!Refused, Browser!Unauthorized, Browser!Arrive
  <2> QED  BY <2>1, FewerAsksFit
<1>2. CASE Browser!LoginAnswer(r)
  <2> DEFINE i == r.about
             g == Browser!Home[i]
  <2>1. /\ Browser!Sign(i, g) /\ Browser!Enter(r.tab, Browser!New(i, g), g)
        /\ UNCHANGED <<expired, liveGroups>> /\ i \in Browser!User /\ r.tab \in Tab
    BY <1>0, <1>2 DEF Browser!LoginAnswer, AskFits
  <2>2. g \in Group
    BY <2>1 DEF Browser!Home, SessionBounds
  <2> HIDE DEF i, g
  <2>3. Browser!New(i, g) = [Browser!New(i, g) EXCEPT !.id = i]
    BY DEF Browser!New
  <2> QED  BY <1>1, <2>1, <2>2, <2>3, EnterFits DEF SessionTypes
<1>3. CASE Browser!SwitchAnswer(r)
  <2>1. r.tab \in Tab /\ r.about \in Group /\ r.user.id \in Browser!User
    BY <1>0, <1>3 DEF Browser!SwitchAnswer, AskFits, Someone, Browser!LoggedIn
  <2>2. /\ Browser!Sign("admin", r.about)
        /\ Browser!Enter(r.tab, [Browser!New("admin", r.about) EXCEPT !.id = r.user.id], r.about)
        /\ UNCHANGED <<expired, liveGroups>>
    BY <1>3 DEF Browser!SwitchAnswer
  <2> QED  BY <1>1, <2>1, <2>2, EnterFits DEF SessionTypes
<1>4. CASE Browser!DeleteGroupAnswer(r)
  <2>1. /\ UNCHANGED <<signed, expired, token, storedUser, user>> /\ liveGroups' \subseteq liveGroups
        /\ r.tab \in Tab
    BY <1>0, <1>4 DEF Browser!DeleteGroupAnswer, AskFits
  <2>2. CASE Browser!SetSelectedGroup(r.tab, None)
    BY <1>1, <2>1, <2>2, SelectFits DEF SessionTypes
  <2>3. CASE UNCHANGED <<selected, storedGroup>>
    BY <1>0, <1>1, <2>1, <2>3, StoresFit DEF SessionTypes
  <2> QED  BY <1>4, <2>2, <2>3 DEF Browser!DeleteGroupAnswer
<1>5. CASE Browser!SaveNameAnswer(r)
  <2>1. /\ user' = [user EXCEPT ![r.tab] = r.user] /\ storedUser' = r.user
        /\ UNCHANGED <<signed, expired, liveGroups, token, storedGroup, selected>>
    BY <1>5 DEF Browser!SaveNameAnswer, Browser!SetUser, Browser!server
  <2>2. r.user \in Someone
    BY <1>0 DEF AskFits
  <2> QED  BY <1>1, <2>1, <2>2 DEF SessionTypes, ServerFits, StorageFits, TabsFit
<1>6. CASE Browser!Refused(r)
  BY <1>0, <1>1, <1>6, StoresFit DEF Browser!Refused, Browser!server, Browser!storage, Browser!stores,
     SessionTypes
<1>7. CASE \E reload \in BOOLEAN : Browser!Unauthorized(r, reload)
  <2>1. Browser!Logout(r.tab) /\ UNCHANGED <<signed, expired, liveGroups>> /\ r.tab \in Tab
    BY <1>0, <1>7 DEF Browser!Unauthorized, Browser!server, AskFits
  <2> QED  BY <1>1, <2>1, LogoutFits DEF SessionTypes
<1> QED  BY <1>2, <1>3, <1>4, <1>5, <1>6, <1>7

\* Every step stays in the domain.
LEMMA SessionStaysTyped ==
    ASSUME SessionBounds, SessionTypes, [Browser!Next]_Browser!vars
    PROVE  SessionTypes'
<1>0. expired \subseteq DOMAIN signed
  BY DEF SessionTypes, ServerFits
<1>1. ASSUME NEW t \in Tab, NEW g \in Group \cup {None}, Browser!ChangeGroup(t, g)
      PROVE  SessionTypes'
  <2>1. /\ Browser!SetSelectedGroup(t, g) /\ UNCHANGED <<signed, expired, token, storedUser, user>>
        /\ liveGroups' \subseteq liveGroups /\ asked' \subseteq asked /\ UNCHANGED sSent
    BY <1>1 DEF Browser!ChangeGroup, Browser!server, Browser!net
  <2> QED  BY <2>1, SelectFits, FewerAsksFit DEF SessionTypes
<1>2. ASSUME NEW t \in Tab, Browser!LogoutTap(t)
      PROVE  SessionTypes'
  <2>1. /\ Browser!Logout(t) /\ UNCHANGED <<signed, expired, liveGroups>>
        /\ asked' \subseteq asked /\ UNCHANGED sSent
    BY <1>2 DEF Browser!LogoutTap, Browser!server, Browser!net
  <2> QED  BY <2>1, LogoutFits, FewerAsksFit DEF SessionTypes
<1>3. ASSUME NEW t \in Tab, Browser!Reload(t)
      PROVE  SessionTypes'
  <2>1. /\ user' = [user EXCEPT ![t] = storedUser] /\ selected' = [selected EXCEPT ![t] = storedGroup]
        /\ asked' \subseteq asked
        /\ UNCHANGED <<signed, expired, liveGroups, token, storedUser, storedGroup, sSent>>
    BY <1>3 DEF Browser!Reload, Browser!server, Browser!storage
  <2>2. AsksFit'
    BY <2>1, FewerAsksFit
  <2> QED  BY <2>1, <2>2 DEF SessionTypes, ServerFits, StorageFits, TabsFit
<1>4. ASSUME NEW n \in Browser!Token, Browser!Expire(n)
      PROVE  SessionTypes'
  <2>1. /\ UNCHANGED <<signed, token, storedUser, storedGroup, user, selected, sSent, liveGroups>>
        /\ asked' \subseteq asked /\ expired' \subseteq DOMAIN signed
    BY <1>0, <1>4 DEF Browser!Expire, Browser!Valid, Browser!storage, Browser!stores, Browser!net
  <2> QED  BY <2>1, StoresFit, FewerAsksFit DEF SessionTypes
<1>5. CASE UNCHANGED Browser!vars
  <2>1. /\ UNCHANGED <<signed, expired, liveGroups, token, storedUser, storedGroup, user, selected, sSent>>
        /\ asked' \subseteq asked
    BY <1>5 DEF Browser!vars, Browser!server, Browser!storage, Browser!stores, Browser!net
  <2> QED  BY <1>0, <2>1, StoresFit, FewerAsksFit DEF SessionTypes
<1>6. ASSUME NEW t \in Tab,
             \/ \E u \in Browser!User : Browser!LoginTap(t, u)
             \/ \E g \in Group : Browser!SwitchTap(t, g)
             \/ Browser!DeleteGroupTap(t) \/ Browser!SaveNameTap(t) \/ Browser!OtherTap(t)
      PROVE  SessionTypes'
  BY <1>6, TapsFit
<1>7. ASSUME NEW r \in asked,
             \/ Browser!LoginAnswer(r) \/ Browser!SwitchAnswer(r) \/ Browser!DeleteGroupAnswer(r) \/ Browser!SaveNameAnswer(r)
             \/ Browser!Refused(r) \/ \E reload \in BOOLEAN : Browser!Unauthorized(r, reload)
      PROVE  SessionTypes'
  BY <1>7, AnswersFit
<1> QED  BY <1>1, <1>2, <1>3, <1>4, <1>5, <1>6, <1>7 DEF Browser!Next

\* The storage of the browser, the stores of its tabs and the requests under way keep to
\* users, tokens and groups (useAuthStore, useGroupStore).
LEMMA SessionTypeCorrect ==
    SessionBounds => (Browser!Spec => []Browser!TypeOK)
<1> SUFFICES ASSUME SessionBounds PROVE Browser!Spec => []Browser!TypeOK
  OBVIOUS
<1>1. Browser!Init => SessionTypes
  BY SessionBeginsTyped
<1>2. SessionTypes /\ [Browser!Next]_Browser!vars => SessionTypes'
  BY SessionStaysTyped
<1>3. SessionTypes => Browser!TypeOK
  BY SessionShowsTypes
<1> QED  BY <1>1, <1>2, <1>3, PTL DEF Browser!Spec

-----------------------------------------------------------------------------
(* How many pages, answers and rows there are.                             *)

\* A load that goes on has full pages, and so has a list that is not all there is: there
\* is a row on each page that is asked for.
PagesInv ==
    /\ total <= Len(inquiries)
    /\ Len(list) < total => Len(list) = pages * PageSize
    /\ fetch.pc # "idle" =>
         /\ Len(fetch.got) = (fetch.next - 1) * PageSize
         /\ fetch.next = 1 \/ (fetch.next - 1) * PageSize < Len(inquiries)
    /\ pages <= MaxInquiries + 1

CountsInv == answers \in 0..MaxAnswers /\ opened \in 0..MaxInquiries

\* Pages have a row at least.
LEMMA PagesHaveRows ==
    ASSUME InquiryBounds, NEW n \in Nat
    PROVE  n * PageSize \in Nat /\ n <= n * PageSize /\ (n + 1) * PageSize = n * PageSize + PageSize
<1>1. PICK m \in Nat : PageSize = m + 1
  <2>1. PageSize - 1 \in Nat /\ PageSize = (PageSize - 1) + 1
    BY DEF InquiryBounds
  <2> QED  BY <2>1
<1>2. n * (m + 1) = n * m + n /\ n * m \in Nat
  OBVIOUS
<1>3. (n + 1) * (m + 1) = n * (m + 1) + (m + 1)
  OBVIOUS
<1> QED  BY <1>1, <1>2, <1>3

\* A page of rows that are there is full, or the last one.
LEMMA PageLength ==
    ASSUME InquiryBounds, InquiryTypes, NEW n \in Nat, n * PageSize <= Len(inquiries)
    PROVE  /\ Inquiries!ListPage(n + 1) \in Seq(InquiryRow)
           /\ n * PageSize + Len(Inquiries!ListPage(n + 1))
                = IF Len(inquiries) <= (n + 1) * PageSize THEN Len(inquiries) ELSE (n + 1) * PageSize
<1>1. PICK L \in Nat : L = Len(inquiries)
  BY DEF InquiryTypes, RowTypes
<1>2. PICK a \in Nat, b \in Nat : a = n * PageSize /\ b = (n + 1) * PageSize /\ a <= b
  BY PagesHaveRows DEF InquiryBounds
<1>3. n + 1 \in Nat /\ n + 1 >= 1 /\ (n + 1) - 1 = n
  OBVIOUS
<1>4. /\ Upto(n) \in Seq(InquiryRow) /\ Inquiries!ListPage(n + 1) \in Seq(InquiryRow)
      /\ Upto(n) \o Inquiries!ListPage(n + 1) = Upto(n + 1)
  BY <1>3, NextPage
<1>5. Len(Upto(n)) + Len(Inquiries!ListPage(n + 1)) = Len(Upto(n + 1))
  BY <1>4, ConcatProperties
<1>6. Len(Upto(n)) = IF L <= a THEN L ELSE a
  BY <1>1, <1>2, NewestIsSeq DEF Upto
<1>7. Len(Upto(n + 1)) = IF L <= b THEN L ELSE b
  BY <1>1, <1>2, NewestIsSeq DEF Upto
<1> QED  BY <1>1, <1>2, <1>4, <1>5, <1>6, <1>7

\* Rows are only added.
LEMMA RowsStay ==
    ASSUME InquiryTypes, [Inquiries!Next]_Inquiries!vars
    PROVE  Len(inquiries) <= Len(inquiries')
<1>1. inquiries \in Seq(Texts) /\ Len(inquiries) \in Nat
  BY DEF InquiryTypes, RowTypes
<1>2. CASE Inquiries!Create
  <2>1. inquiries' = Append(inquiries, "none")
    BY <1>2 DEF Inquiries!Create
  <2> QED  BY <1>1, <2>1
<1>3. ASSUME NEW i \in Inquiries!Id, NEW s \in Inquiries!Source, Inquiries!Commit(i, s)
      PROVE  Len(inquiries) <= Len(inquiries')
  <2>1. inquiries' = [inquiries EXCEPT ![i] = iCall[i][s].text]
    BY <1>3 DEF Inquiries!Commit
  <2>2. iCall[i][s].text \in Texts
    BY DEF InquiryTypes, CallTypes, CallType
  <2>3. CASE i \in 1..Len(inquiries)
    BY <1>1, <2>1, <2>2, <2>3, ExceptSeq
  <2>4. CASE i \notin 1..Len(inquiries)
    <3>1. inquiries' = inquiries
      BY <1>1, <2>1, <2>4
    <3> QED  BY <1>1, <3>1
  <2> QED  BY <2>3, <2>4
<1>4. CASE UNCHANGED inquiries
  BY <1>1, <1>4
<1> QED  BY <1>2, <1>3, <1>4
         DEF Inquiries!Next, Inquiries!vars, Inquiries!server, Inquiries!FetchPage,
             Inquiries!FetchFails, Inquiries!Reload, Inquiries!FetchMore, Inquiries!CountAnswer,
             Inquiries!Toggle, Inquiries!Lock, Inquiries!Mail, Inquiries!Fail, Inquiries!AnswerOfOther,
             Inquiries!Send, Inquiries!Answer, Inquiries!SendAnswer

\* What is loaded stays as full when rows are added.
LEMMA LoadedStays ==
    ASSUME InquiryTypes, PagesInv, Len(inquiries) <= Len(inquiries'), Len(inquiries') \in Nat,
           UNCHANGED <<list, pages, total>>, fetch' = fetch \/ fetch'.pc = "idle"
    PROVE  PagesInv'
<1>1. /\ Len(inquiries) \in Nat /\ total \in Nat
      /\ fetch.next \in Nat /\ (fetch.pc # "idle" => fetch.next >= 1)
  BY DEF InquiryTypes, RowTypes, ListTypes, LoadTypes, FetchType
<1>2. total' <= Len(inquiries') /\ pages' <= MaxInquiries + 1
  BY <1>1 DEF PagesInv
<1>3. Len(list') < total' => Len(list') = pages' * PageSize
  BY DEF PagesInv
<1>4. ASSUME fetch'.pc # "idle"
      PROVE  /\ Len(fetch'.got) = (fetch'.next - 1) * PageSize
             /\ fetch'.next = 1 \/ (fetch'.next - 1) * PageSize < Len(inquiries')
  <2>1. fetch' = fetch /\ fetch.pc # "idle"
    BY <1>4
  <2>2. CASE fetch.next = 1
    BY <2>1, <2>2 DEF PagesInv
  <2>3. CASE fetch.next # 1
    <3>1. Len(fetch.got) = (fetch.next - 1) * PageSize /\ (fetch.next - 1) * PageSize < Len(inquiries)
      BY <2>1, <2>3 DEF PagesInv
    <3>2. PICK a : a = Len(fetch.got)
      OBVIOUS
    <3>3. a \in Nat
      BY <3>2 DEF InquiryTypes, LoadTypes, FetchType
    <3>4. a < Len(inquiries')
      BY <1>1, <3>1, <3>2, <3>3
    <3> QED  BY <2>1, <3>1, <3>2, <3>4
  <2> QED  BY <2>2, <2>3
<1> QED  BY <1>2, <1>3, <1>4 DEF PagesInv

\* A load begins with nothing.
LEMMA LoadBegins ==
    ASSUME InquiryBounds, InquiryTypes, PagesInv, Inquiries!Load, UNCHANGED <<list, pages, total, inquiries>>
    PROVE  PagesInv'
<1>1. fetch'.got = <<>> /\ fetch'.next = 1
  BY DEF Inquiries!Load
<1>2. Len(fetch'.got) = 0 /\ (fetch'.next - 1) * PageSize = 0
  BY <1>1 DEF InquiryBounds
<1> QED  BY <1>1, <1>2 DEF PagesInv

\* A page of a load that has a row on it, or is its first.
LEMMA PageFills ==
    ASSUME InquiryBounds, InquiryTypes, PagesInv, Inquiries!FetchPage
    PROVE  PagesInv'
<1>1. PICK n \in Nat : fetch.next = n + 1
  <2>1. fetch.next \in Nat /\ fetch.next >= 1
    BY DEF InquiryTypes, LoadTypes, FetchType, Inquiries!FetchPage
  <2>2. fetch.next - 1 \in Nat /\ fetch.next = (fetch.next - 1) + 1
    BY <2>1
  <2> QED  BY <2>2
<1>2. PICK L \in Nat : L = Len(inquiries) /\ L <= MaxInquiries
  BY DEF InquiryTypes, RowTypes
<1>3. PICK a \in Nat, b \in Nat : a = n * PageSize /\ b = (n + 1) * PageSize /\ a <= b /\ n <= a
  <2>1. n * PageSize \in Nat /\ (n + 1) * PageSize \in Nat /\ n * PageSize <= (n + 1) * PageSize /\ n <= n * PageSize
    BY PagesHaveRows DEF InquiryBounds
  <2> QED  BY <2>1
<1>4. (n + 1) - 1 = n
  OBVIOUS
<1>5. Len(fetch.got) = a /\ (n = 0 \/ a < L)
  BY <1>1, <1>2, <1>3, <1>4 DEF PagesInv, Inquiries!FetchPage
<1>6. a <= L
  <2>1. CASE n = 0
    BY <1>2, <1>3, <2>1 DEF InquiryBounds
  <2> QED  BY <1>5, <2>1
<1>7. n <= MaxInquiries
  BY <1>2, <1>3, <1>6 DEF InquiryBounds
<1> DEFINE got == fetch.got \o Inquiries!ListPage(fetch.next)
<1>8. got \in Seq(InquiryRow) /\ Len(got) = IF L <= b THEN L ELSE b
  <2>1. fetch.got \in Seq(InquiryRow)
    BY DEF InquiryTypes, LoadTypes, FetchType
  <2>2. Inquiries!ListPage(n + 1) \in Seq(InquiryRow) /\ a + Len(Inquiries!ListPage(n + 1)) = IF L <= b THEN L ELSE b
    BY <1>2, <1>3, <1>6, PageLength
  <2> QED  BY <1>1, <1>5, <2>1, <2>2, ConcatProperties
<1> HIDE DEF got
<1>9. UNCHANGED inquiries
  BY DEF Inquiries!FetchPage, Inquiries!server
<1>10. CASE /\ Len(got) < L
            /\ fetch' = [fetch EXCEPT !.got = got, !.next = @ + 1]
            /\ UNCHANGED <<list, pages, total>>
  <2>1. fetch'.got = got /\ fetch'.next = n + 2
    BY <1>1, <1>10 DEF InquiryTypes, LoadTypes, FetchType
  <2>2. fetch'.next - 1 = n + 1
    BY <2>1
  <2>3. Len(fetch'.got) = b /\ b < L
    BY <1>2, <1>3, <1>8, <1>10, <2>1
  <2>4. Len(fetch'.got) = (fetch'.next - 1) * PageSize /\ (fetch'.next - 1) * PageSize < Len(inquiries')
    BY <1>2, <1>3, <1>9, <2>2, <2>3
  <2> QED  BY <1>9, <1>10, <2>4 DEF PagesInv
<1>11. CASE /\ fetch' = Inquiries!NoFetch
            /\ list' = got /\ pages' = fetch.next /\ total' = L
  <2>1. fetch'.pc = "idle"
    BY <1>11 DEF Inquiries!NoFetch
  <2>2. pages' = n + 1 /\ pages' <= MaxInquiries + 1
    BY <1>1, <1>7, <1>11 DEF InquiryBounds
  <2>3. Len(list') < total' => Len(list') = pages' * PageSize
    BY <1>2, <1>3, <1>8, <1>11, <2>2
  <2>4. total' <= Len(inquiries')
    BY <1>2, <1>9, <1>11
  <2> QED  BY <2>1, <2>2, <2>3, <2>4 DEF PagesInv
<1> QED  BY <1>2, <1>10, <1>11 DEF Inquiries!FetchPage, got

\* Another page is asked for where the list is not all there is.
LEMMA MoreFits ==
    ASSUME InquiryBounds, InquiryTypes, PagesInv, Inquiries!FetchMore
    PROVE  PagesInv'
<1>1. /\ Len(list) < total
      /\ fetch' = [pc |-> "more", want |-> pages + 1, got |-> list, next |-> pages + 1]
      /\ UNCHANGED <<inquiries, list, pages, total>>
  BY DEF Inquiries!FetchMore, Inquiries!server
<1>2. fetch'.got = list /\ fetch'.next = pages + 1
  BY <1>1
<1>3. pages \in Nat /\ total \in Nat /\ Len(list) \in Nat /\ Len(inquiries) \in Nat
  BY DEF InquiryTypes, ListTypes, RowTypes
<1>4. fetch'.next - 1 = pages
  BY <1>2, <1>3
<1>5. Len(list) = pages * PageSize /\ Len(list) < Len(inquiries)
  BY <1>1, <1>3 DEF PagesInv
<1> QED  BY <1>1, <1>2, <1>4, <1>5 DEF PagesInv

\* Every step.
LEMMA PagesStay ==
    ASSUME InquiryBounds, InquiryTypes, PagesInv, [Inquiries!Next]_Inquiries!vars
    PROVE  PagesInv'
<1>1. Len(inquiries) <= Len(inquiries') /\ Len(inquiries') \in Nat
  <2>1. InquiryTypes'
    BY TypesStay
  <2> QED  BY <2>1, RowsStay DEF InquiryTypes, RowTypes
<1>2. CASE Inquiries!FetchPage
  BY <1>2, PageFills
<1>3. CASE Inquiries!FetchMore
  BY <1>3, MoreFits
<1>4. CASE Inquiries!Reload
  BY <1>4, LoadBegins DEF Inquiries!Reload, Inquiries!server
<1>5. ASSUME NEW i \in Inquiries!Id, NEW gone \in BOOLEAN, Inquiries!SendAnswer(i, gone)
      PROVE  PagesInv'
  BY <1>5, LoadBegins DEF Inquiries!SendAnswer
<1>6. CASE Inquiries!FetchFails
  BY <1>1, <1>6, LoadedStays DEF Inquiries!FetchFails, Inquiries!NoFetch
<1>7. CASE UNCHANGED <<list, pages, total, fetch>>
  BY <1>1, <1>7, LoadedStays
<1> QED  BY <1>2, <1>3, <1>4, <1>5, <1>6, <1>7
         DEF Inquiries!Next, Inquiries!vars, Inquiries!shown, Inquiries!Create, Inquiries!CountAnswer,
             Inquiries!Toggle, Inquiries!Lock, Inquiries!Mail, Inquiries!Commit, Inquiries!Fail,
             Inquiries!AnswerOfOther, Inquiries!Send

\* An answer is counted, and the row that is open is one there is.
LEMMA CountsStay ==
    ASSUME InquiryBounds, CountsInv, [Inquiries!Next]_Inquiries!vars
    PROVE  CountsInv'
<1>1. answers \in 0..MaxAnswers /\ opened \in 0..MaxInquiries /\ MaxAnswers \in Nat /\ MaxInquiries \in Nat
  BY DEF CountsInv, InquiryBounds
<1>2. CASE UNCHANGED <<answers, opened>>
  BY <1>2 DEF CountsInv
<1>3. ASSUME NEW i \in Inquiries!Id, Inquiries!Toggle(i)
      PROVE  CountsInv'
  BY <1>1, <1>3 DEF CountsInv, Inquiries!Toggle, Inquiries!server, Inquiries!Id
<1>4. ASSUME NEW i \in Inquiries!Id, NEW x \in Text, Inquiries!AnswerOfOther(i, x) \/ Inquiries!Send(i, x)
      PROVE  CountsInv'
  <2>1. answers < MaxAnswers /\ answers' = answers + 1 /\ UNCHANGED opened
    BY <1>4 DEF Inquiries!AnswerOfOther, Inquiries!Send, Inquiries!Answer, Inquiries!form
  <2> QED  BY <1>1, <2>1 DEF CountsInv
<1>5. ASSUME NEW i \in Inquiries!Id, NEW gone \in BOOLEAN, Inquiries!SendAnswer(i, gone)
      PROVE  CountsInv'
  <2>1. UNCHANGED answers /\ opened' \in {0, opened}
    BY <1>5 DEF Inquiries!SendAnswer
  <2> QED  BY <1>1, <2>1 DEF CountsInv
<1> QED  BY <1>2, <1>3, <1>4, <1>5
         DEF Inquiries!Next, Inquiries!vars, Inquiries!server, Inquiries!form, Inquiries!Create,
             Inquiries!FetchPage, Inquiries!FetchFails, Inquiries!Reload, Inquiries!FetchMore,
             Inquiries!CountAnswer, Inquiries!Lock, Inquiries!Mail, Inquiries!Commit, Inquiries!Fail

\* No inquiry has come yet.
LEMMA PagesBegin ==
    ASSUME InquiryBounds, Inquiries!Init
    PROVE  PagesInv /\ CountsInv
<1>1. /\ inquiries = <<>> /\ list = <<>> /\ pages = 0 /\ total = 0 /\ answers = 0 /\ opened = 0
      /\ fetch.got = <<>> /\ fetch.next = 1
  BY DEF Inquiries!Init
<1>2. Len(fetch.got) = 0 /\ (fetch.next - 1) * PageSize = 0
  BY <1>1 DEF InquiryBounds
<1> QED  BY <1>1, <1>2 DEF InquiryBounds, PagesInv, CountsInv

\* The inquiries, their mails and what the page shows of them stay in their domain, and the
\* page never asks for a page that has no row (InquiryService, the admin page).
LEMMA InquiryTypeCorrect ==
    InquiryBounds => (Inquiries!Spec => []Inquiries!TypeOK)
<1> SUFFICES ASSUME InquiryBounds PROVE Inquiries!Spec => []Inquiries!TypeOK
  OBVIOUS
<1>1. Inquiries!Init => InquiryTypes
  BY InquiryBegins DEF InquiryInv
<1>2. Inquiries!Init => PagesInv /\ CountsInv
  BY PagesBegin
<1>3. InquiryTypes /\ [Inquiries!Next]_Inquiries!vars => InquiryTypes'
  BY TypesStay
<1>4. InquiryTypes /\ PagesInv /\ CountsInv /\ [Inquiries!Next]_Inquiries!vars => (PagesInv /\ CountsInv)'
  BY PagesStay, CountsStay
<1>5. InquiryTypes /\ PagesInv /\ CountsInv => Inquiries!TypeOK
  <2> SUFFICES ASSUME InquiryTypes, PagesInv, CountsInv PROVE Inquiries!TypeOK
    OBVIOUS
  <2>1. pages \in 0..(MaxInquiries + 1)
    BY DEF InquiryTypes, ListTypes, PagesInv, InquiryBounds
  <2>2. \A i \in Inquiries!Id, s \in Inquiries!Source : iCall[i][s].text \in Texts
    BY DEF InquiryTypes, CallTypes, CallType
  <2> QED  BY <2>1, <2>2 DEF InquiryTypes, RowTypes, MailTypes, ListTypes, LoadTypes, CountsInv, InquiryRow, Texts,
               Inquiries!TypeOK
<1> QED  BY <1>1, <1>2, <1>3, <1>4, <1>5, PTL DEF Inquiries!Spec

-----------------------------------------------------------------------------
(* How often an inquiry is sent.                                           *)

\* A form stores no more than it has sent, one of which may not have come yet.
SentInv ==
    /\ wSends <= MaxSends
    /\ \A r \in wAsked : r.n \in 1..wSends
    /\ \A v \in Writing!Visit :
         stored[v] + (IF \E r \in wAsked : r.visit = v /\ r.pc = "sent" THEN 1 ELSE 0) <= wSends

\* Fewer requests are under way.
LEMMA FewerAreSent ==
    ASSUME WritingTypes, SentInv, wAsked' \subseteq wAsked, UNCHANGED <<wSends, stored>>
    PROVE  SentInv'
<1>1. \A v \in Writing!Visit : stored[v] \in Nat
  BY DEF WritingTypes
<1>2. wSends \in Nat
  BY DEF WritingTypes
<1>3. ASSUME NEW v \in Writing!Visit
      PROVE  stored'[v] + (IF \E r \in wAsked' : r.visit = v /\ r.pc = "sent" THEN 1 ELSE 0) <= wSends'
  <2>1. stored'[v] = stored[v] /\ wSends' = wSends
    OBVIOUS
  <2>2. stored[v] + (IF \E r \in wAsked : r.visit = v /\ r.pc = "sent" THEN 1 ELSE 0) <= wSends
    BY DEF SentInv
  <2>3. CASE \E r \in wAsked' : r.visit = v /\ r.pc = "sent"
    BY <2>1, <2>2, <2>3
  <2>4. CASE ~\E r \in wAsked' : r.visit = v /\ r.pc = "sent"
    BY <1>1, <1>2, <2>1, <2>2, <2>4
  <2> QED  BY <2>3, <2>4
<1>4. wSends' <= MaxSends /\ \A r \in wAsked' : r.n \in 1..wSends'
  BY DEF SentInv
<1> QED  BY <1>3, <1>4 DEF SentInv

\* Another is sent.
LEMMA SubmitIsSent ==
    ASSUME WritingBounds, WritingInv, SentInv, Writing!Submit
    PROVE  SentInv'
<1> DEFINE q == [n |-> wSends + 1, visit |-> written, pc |-> "sent"]
<1>1. wAsked' = wAsked \cup {q} /\ wSends < MaxSends /\ wSends' = wSends + 1 /\ UNCHANGED stored
  BY DEF Writing!Submit
<1>2. q.n = wSends + 1 /\ q.visit = written /\ q.pc = "sent"
  OBVIOUS
<1> HIDE DEF q
<1>3. wSends \in Nat /\ \A v \in Writing!Visit : stored[v] \in Nat
  BY DEF WritingInv, WritingTypes
<1>4. ASSUME NEW v \in Writing!Visit
      PROVE  stored'[v] + (IF \E r \in wAsked' : r.visit = v /\ r.pc = "sent" THEN 1 ELSE 0) <= wSends'
  <2>1. stored[v] + (IF \E r \in wAsked : r.visit = v /\ r.pc = "sent" THEN 1 ELSE 0) <= wSends
    BY DEF SentInv
  <2>2. stored[v] <= wSends
    BY <1>3, <2>1
  <2> QED  BY <1>1, <1>3, <2>2
<1>5. \A r \in wAsked' : r.n \in 1..wSends'
  BY <1>1, <1>2, <1>3 DEF SentInv
<1> QED  BY <1>1, <1>3, <1>4, <1>5 DEF SentInv, WritingBounds

\* It is stored, or refused.
LEMMA ServeIsSent ==
    ASSUME WritingBounds, WritingInv, SentInv, NEW r \in wAsked, NEW ok \in BOOLEAN, Writing!Serve(r, ok)
    PROVE  SentInv'
<1> DEFINE q == [r EXCEPT !.pc = IF ok THEN "stored" ELSE "refused"]
<1>1. /\ wAsked' = (wAsked \ {r}) \cup {q} /\ UNCHANGED wSends /\ r.pc = "sent"
      /\ stored' = IF ok THEN [stored EXCEPT ![r.visit] = @ + 1] ELSE stored
  BY DEF Writing!Serve
<1>2. r \in Sent
  BY DEF WritingInv, WritingTypes
<1>3. q.n = r.n /\ q.visit = r.visit /\ q.pc # "sent" /\ r.visit \in Writing!Visit
  BY <1>2 DEF Sent
<1> HIDE DEF q
<1>4. wSends \in Nat /\ stored \in [Writing!Visit -> Nat]
  BY DEF WritingInv, WritingTypes
<1>5. ASSUME NEW v \in Writing!Visit
      PROVE  stored'[v] + (IF \E x \in wAsked' : x.visit = v /\ x.pc = "sent" THEN 1 ELSE 0) <= wSends'
  <2>1. stored[v] + (IF \E x \in wAsked : x.visit = v /\ x.pc = "sent" THEN 1 ELSE 0) <= wSends
    BY DEF SentInv
  <2>2. CASE v = r.visit
    <3>1. stored[v] + 1 <= wSends
      BY <1>1, <2>1, <2>2
    <3>2. ~\E x \in wAsked' : x.visit = v /\ x.pc = "sent"
      BY <1>1, <1>3, <2>2 DEF WritingInv, OneAtATime
    <3>3. stored'[v] <= stored[v] + 1 /\ stored'[v] \in Nat
      BY <1>1, <1>4
    <3> QED  BY <1>1, <1>4, <3>1, <3>2, <3>3
  <2>3. CASE v # r.visit
    <3>1. stored'[v] = stored[v]
      BY <1>1, <1>4, <2>3
    <3>2. (\E x \in wAsked' : x.visit = v /\ x.pc = "sent") <=> (\E x \in wAsked : x.visit = v /\ x.pc = "sent")
      BY <1>1, <1>3, <2>3
    <3> QED  BY <1>1, <2>1, <3>1, <3>2
  <2> QED  BY <2>2, <2>3
<1>6. \A x \in wAsked' : x.n \in 1..wSends'
  BY <1>1, <1>3 DEF SentInv
<1> QED  BY <1>1, <1>5, <1>6 DEF SentInv

\* Every step.
LEMMA SentStays ==
    ASSUME WritingBounds, WritingInv, SentInv, [Writing!Next]_Writing!vars
    PROVE  SentInv'
<1>0. WritingTypes
  BY DEF WritingInv
<1>1. CASE Writing!Open \/ Writing!Leave \/ UNCHANGED Writing!vars
  <2>1. wAsked' \subseteq wAsked /\ UNCHANGED <<wSends, stored>>
    BY <1>1 DEF Writing!Open, Writing!Leave, Writing!vars
  <2> QED  BY <1>0, <2>1, FewerAreSent
<1>2. ASSUME NEW r \in wAsked, Writing!Stored(r) \/ Writing!Fails(r)
      PROVE  SentInv'
  <2>1. wAsked' \subseteq wAsked /\ UNCHANGED <<wSends, stored>>
    BY <1>2 DEF Writing!Stored, Writing!Fails
  <2> QED  BY <1>0, <2>1, FewerAreSent
<1> QED  BY <1>1, <1>2, SubmitIsSent, ServeIsSent DEF Writing!Next

\* An inquiry is stored no more often than it was sent (the inquiry form).
LEMMA WritingTypeCorrect ==
    WritingBounds => (Writing!Spec => []Writing!TypeOK)
<1> SUFFICES ASSUME WritingBounds PROVE Writing!Spec => []Writing!TypeOK
  OBVIOUS
<1>1. Writing!Init => WritingInv
  BY WritingBegins
<1>2. Writing!Init => SentInv
  BY DEF Writing!Init, SentInv, WritingBounds
<1>3. WritingInv /\ [Writing!Next]_Writing!vars => WritingInv'
  BY WritingKeeps
<1>4. WritingInv /\ SentInv /\ [Writing!Next]_Writing!vars => SentInv'
  BY SentStays
<1>5. WritingInv /\ SentInv => Writing!TypeOK
  <2> SUFFICES ASSUME WritingInv, SentInv PROVE Writing!TypeOK
    OBVIOUS
  <2>1. wSends \in 0..MaxSends /\ written \in 0..MaxVisits
    BY DEF WritingInv, WritingTypes, SentInv, WritingBounds
  <2>2. wAsked \subseteq [n : 1..MaxSends, visit : Writing!Visit, pc : {"sent", "stored", "refused"}]
    <3> SUFFICES ASSUME NEW r \in wAsked
                 PROVE  r \in [n : 1..MaxSends, visit : Writing!Visit, pc : {"sent", "stored", "refused"}]
      OBVIOUS
    <3>1. r \in Sent
      BY DEF WritingInv, WritingTypes
    <3>2. r.n \in 1..MaxSends
      BY <2>1 DEF SentInv, WritingBounds
    <3> QED  BY <3>1, <3>2 DEF Sent
  <2>3. \A v \in Writing!Visit : stored[v] \in 0..MaxSends
    <3> SUFFICES ASSUME NEW v \in Writing!Visit PROVE stored[v] \in 0..MaxSends
      OBVIOUS
    <3>1. stored[v] \in Nat
      BY DEF WritingInv, WritingTypes
    <3>2. stored[v] + (IF \E r \in wAsked : r.visit = v /\ r.pc = "sent" THEN 1 ELSE 0) <= wSends
      BY DEF SentInv
    <3> QED  BY <2>1, <3>1, <3>2 DEF WritingBounds
  <2>4. stored \in [Writing!Visit -> 0..MaxSends]
    BY <2>3 DEF WritingInv, WritingTypes
  <2> QED  BY <2>1, <2>2, <2>4 DEF WritingInv, WritingTypes, Writing!TypeOK
<1> QED  BY <1>1, <1>2, <1>3, <1>4, <1>5, PTL DEF Writing!Spec

-----------------------------------------------------------------------------
(* Members.                                                                *)

membersVars == <<part, vars, accountVars, inquiryVars, sessionVars, formVars, writeVars>>

\* A step of Members is a step of one part, and the others stutter.
LEMMA PartsMove ==
    [MembersNext]_membersVars =>
      /\ [Next]_vars /\ [Accounts!Next]_(Accounts!vars) /\ [Inquiries!Next]_(Inquiries!vars)
      /\ [Browser!Next]_(Browser!vars) /\ [Forms!Next]_(Forms!vars) /\ [Writing!Next]_(Writing!vars)
<1>1. UNCHANGED accountVars => UNCHANGED Accounts!vars
  BY DEF accountVars, Accounts!vars, Accounts!data
<1>2. UNCHANGED inquiryVars => UNCHANGED Inquiries!vars
  BY DEF inquiryVars, Inquiries!vars, Inquiries!server, Inquiries!shown, Inquiries!form
<1>3. UNCHANGED sessionVars => UNCHANGED Browser!vars
  BY DEF sessionVars, Browser!vars, Browser!server, Browser!storage, Browser!stores, Browser!net
<1>4. UNCHANGED formVars => UNCHANGED Forms!vars
  BY DEF formVars, Forms!vars, Forms!server, Forms!fields, Forms!step, Forms!past
<1>5. UNCHANGED writeVars => UNCHANGED Writing!vars
  BY DEF writeVars, Writing!vars
<1>6. CASE UNCHANGED membersVars
  <2>1. /\ UNCHANGED vars /\ UNCHANGED accountVars /\ UNCHANGED inquiryVars
        /\ UNCHANGED sessionVars /\ UNCHANGED formVars /\ UNCHANGED writeVars
    BY <1>6 DEF membersVars
  <2> QED  BY <1>1, <1>2, <1>3, <1>4, <1>5, <2>1
<1>7. CASE MembersNext
  <2>1. /\ Next \/ UNCHANGED vars
        /\ Accounts!Next \/ UNCHANGED accountVars
        /\ Inquiries!Next \/ UNCHANGED inquiryVars
        /\ Browser!Next \/ UNCHANGED sessionVars
        /\ Forms!Next \/ UNCHANGED formVars
        /\ Writing!Next \/ UNCHANGED writeVars
    BY <1>7 DEF MembersNext
  <2> QED  BY <1>1, <1>2, <1>3, <1>4, <1>5, <2>1
<1> QED  BY <1>6, <1>7

\* So what a part does in Members is what it does on its own.
LEMMA MembersAreParts ==
    MembersSpec => /\ Spec /\ Accounts!Spec /\ Inquiries!Spec
                   /\ Browser!Spec /\ Forms!Spec /\ Writing!Spec
<1>1. MembersInit => /\ Init /\ Accounts!Init /\ Inquiries!Init
                     /\ Browser!Init /\ Forms!Init /\ Writing!Init
  BY DEF MembersInit
<1> QED  BY <1>1, PartsMove, PTL
         DEF MembersSpec, membersVars, Spec, Accounts!Spec, Inquiries!Spec, Browser!Spec,
             Forms!Spec,
             Writing!Spec

\* A code is mailed again only after the wait, and fewer than the limit in a day, of those
\* its request could see (requestCode).
THEOREM CodesAreMailedApart == MembersSpec => []CodesAreSpaced
<1>1. Accounts!CodesAreSpaced => CodesAreSpaced
  BY DEF CodesAreSpaced
<1> QED  BY <1>1, MembersAreParts, CodesStaySpaced, CodeAssumption, PTL

\* A verification serves one call, unless two of its calls overlap (confirmCode,
\* assertVerified, markConsumed).
THEOREM MembersVerifyOnce == MembersSpec => []VerificationsServeOnce
<1>1. Accounts!VerificationsServeOnce => VerificationsServeOnce
  BY DEF VerificationsServeOnce
<1> QED  BY <1>1, MembersAreParts, VerificationServesOnce, PTL

\* The group of a signup begins with its items and has them once (createUser,
\* seedLogitemsForGroup, onModuleInit).
THEOREM MembersStartWhole == MembersSpec => []GroupsStartWhole
<1>1. Accounts!GroupsStartWhole => GroupsStartWhole
  BY DEF GroupsStartWhole
<1> QED  BY <1>1, MembersAreParts, GroupsBeginWhole, PTL

\* A tab that is up to date shows, stores and sends one session (useAuthStore,
\* useGroupStore, the interceptors of the api client).
THEOREM MembersSessionsAreWhole == NullIsNobody => (MembersSpec => []SessionIsWhole)
<1> SUFFICES ASSUME NullIsNobody PROVE MembersSpec => []SessionIsWhole
  OBVIOUS
<1>1. Browser!SessionIsWhole => SessionIsWhole
  BY DEF SessionIsWhole
<1>2. Browser!Spec => []Browser!SessionIsWhole
  BY SessionStaysWhole
<1> QED  BY <1>1, <1>2, MembersAreParts, PTL

\* What is stored as an answer was mailed, whatever of the mail and the transaction fails
\* (InquiryService.answer).
THEOREM AnswersAreMailed == MembersSpec => []AnsweredMeansMailed
<1>1. Inquiries!AnsweredMeansMailed => AnsweredMeansMailed
  BY DEF AnsweredMeansMailed
<1> QED  BY <1>1, MembersAreParts, InquiriesAreAnswered, InquiryAssumption, PTL

\* The page of inquiries shows what its requests were answered, and sends one answer to an
\* inquiry at a time (the admin page).
THEOREM InquiriesAreShown == MembersSpec => []PageShowsInquiries
<1>1. Inquiries!PageShowsInquiries => PageShowsInquiries
  BY DEF PageShowsInquiries
<1> QED  BY <1>1, MembersAreParts, InquiriesAreAnswered, InquiryAssumption, PTL

\* The forms of someone who is not logged in speak the truth, and an inquiry is sent once
\* (the signup and reset forms, the inquiry form).
THEOREM MembersFormsSpeakTrue == MembersSpec => []FormSpeaksTrue
<1>1. Forms!FormSpeaksTrue /\ Writing!SentOnce => FormSpeaksTrue
  BY DEF FormSpeaksTrue
<1> QED  BY <1>1, MembersAreParts, FormsSpeakTrue, InquiriesAreSentOnce, FormAssumption,
            WritingAssumption, PTL

\* Every part of Members stays in its domain: its tables, its requests and what its pages show.
THEOREM MembersStayTyped == MembersSpec => []TypesOK
<1>1. /\ TypeOK /\ Accounts!TypeOK /\ Inquiries!TypeOK /\ Browser!TypeOK /\ Forms!TypeOK
      /\ Writing!TypeOK /\ part \in Parts
      => TypesOK
  BY ZenonT(60) DEF TypesOK, Parts
<1>2. MembersSpec => [](part \in Parts)
  <2>1. MembersInit => part \in Parts
    BY DEF MembersInit
  <2>2. part \in Parts /\ [MembersNext]_membersVars => (part \in Parts)'
    BY DEF MembersNext, membersVars, Parts
  <2> QED  BY <2>1, <2>2, PTL DEF MembersSpec, membersVars
<1> QED  BY <1>1, <1>2, MembersAreParts, TeamTypeCorrect, AccountTypeCorrect, CodeAssumption,
            InquiryTypeCorrect, InquiryAssumption, SessionTypeCorrect, SessionAssumption,
            FormsSpeakTrue, FormAssumption, WritingTypeCorrect, WritingAssumption, PTL
=============================================================================
