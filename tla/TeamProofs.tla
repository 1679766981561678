------------------------------ MODULE TeamProofs ------------------------------
(***************************************************************************)
(* Proofs about the rows of TeamPlayer in Team, about the types of its     *)
(* state and about what its page shows, for any number of players, teams,  *)
(* devices, calls and edits.                                               *)
(***************************************************************************)
EXTENDS Team, FiniteSetTheorems, TLAPS

Fields  == {"kind", "own", "team", "players", "pc", "left", "seen", "dead", "born", "gone", "crossed",
            "free", "squad"}
Outside == {"sent", "ok", "error", "unique", "done"}
RowOf(c, p) == [team |-> c.team, player |-> p]

\* What a transaction has written over the committed rows R: what it deletes is there,
\* what it inserts is of its team, and clashes with nothing it leaves.  An update that
\* nobody crossed has seen what it deletes of its team, has deleted its team, and inserted
\* all but what is left.
Tx(c, R) ==
    /\ Fields \subseteq DOMAIN c /\ c.crossed \in BOOLEAN
    /\ c.dead \subseteq R
    /\ \A b \in c.born : b = RowOf(c, b.player)
    /\ \A b \in c.born, r \in R \ c.dead : r.player # b.player
    /\ c.pc \in Outside => c.dead = {} /\ c.born = {}
    /\ c.pc \in {"steal", "clear", "drop"} => c.born = {}
    /\ c.pc = "drop" => c.kind # "update"
    /\ c.kind = "update" /\ c.pc \in {"steal", "clear"} => c.left = c.players
    /\ c.kind = "update" /\ c.pc = "clear" /\ c.seen # {} /\ ~c.crossed =>
         \A r \in R \ c.dead : r.team = c.team => r \in c.seen
    /\ c.kind = "update" /\ c.pc \in {"insert", "commit"} =>
         /\ c.left \subseteq c.players /\ (c.pc = "commit" => c.left = {})
         /\ ~c.crossed => /\ c.born = {RowOf(c, p) : p \in c.players \ c.left}
                          /\ \A r \in R \ c.dead : r.team # c.team

\* Two transactions: neither deletes what the other does, nor inserts a player whose
\* row the other deletes or inserts.
Apart(c, d) ==
    /\ c.dead \cap d.dead = {}
    /\ \A b \in c.born, x \in d.born \cup d.dead : b.player # x.player

TeamInv ==
    /\ OneTeamPerPlayer
    /\ DOMAIN call = CallId /\ \A i \in CallId : Tx(call[i], rows)
    /\ \A i, j \in CallId : i # j => Apart(call[i], call[j])

\* A call that is not in a transaction, or begins one.
LEMMA OutsideIsTx ==
    ASSUME NEW c, NEW R, Fields \subseteq DOMAIN c, c.crossed \in BOOLEAN, c.dead = {}, c.born = {},
           \/ c.pc \in Outside
           \/ c.pc = "steal" /\ c.left = c.players
           \/ c.pc \in {"clear", "insert", "commit"} /\ c.kind # "update"
    PROVE  Tx(c, R)
  BY DEF Tx, Outside

\* The call that is over is no transaction.
LEMMA DoneFacts ==
    /\ Fields \subseteq DOMAIN Done /\ Done.crossed \in BOOLEAN /\ Done.dead = {} /\ Done.born = {}
    /\ Done.pc \in Outside
    /\ \A R : Tx(Done, R)
  <1>1. /\ Fields \subseteq DOMAIN Done /\ Done.crossed \in BOOLEAN /\ Done.dead = {} /\ Done.born = {}
        /\ Done.pc \in Outside
    BY DEF Done, Fields, Outside
  <1> QED  BY <1>1, OutsideIsTx

\* A call that ends has nothing written.
LEMMA EndFacts ==
    ASSUME NEW c, NEW R, Fields \subseteq DOMAIN c, NEW pc \in {"ok", "error", "unique"}
    PROVE  End(c, pc).dead = {} /\ End(c, pc).born = {} /\ Tx(End(c, pc), R)
  <1> DEFINE d == [c EXCEPT !.pc = pc, !.left = {}, !.seen = {}, !.dead = {}, !.born = {},
                            !.gone = {}, !.crossed = FALSE]
  <1>1. Fields \subseteq DOMAIN d /\ d.crossed \in BOOLEAN /\ d.dead = {} /\ d.born = {} /\ d.pc = pc
    BY DEF Fields
  <1>2. Tx(d, R)
    BY <1>1, OutsideIsTx DEF Outside
  <1>3. End(c, pc) = d \/ End(c, pc) = Done
    BY DEF End
  <1> QED  BY <1>1, <1>2, <1>3, DoneFacts

\* A request has nothing written.
LEMMA RequestFacts ==
    ASSUME NEW kind, NEW t, NEW S, NEW R
    PROVE  /\ Request(kind, t, S).dead = {} /\ Request(kind, t, S).born = {}
           /\ Request(kind, t, S).pc = "sent" /\ Request(kind, t, S).crossed \in BOOLEAN
           /\ Fields \subseteq DOMAIN Request(kind, t, S)
           /\ Tx(Request(kind, t, S), R)
  <1>1. /\ Request(kind, t, S).dead = {} /\ Request(kind, t, S).born = {}
        /\ Request(kind, t, S).pc = "sent" /\ Request(kind, t, S).crossed \in BOOLEAN
        /\ Fields \subseteq DOMAIN Request(kind, t, S)
    BY DEF Request, Done, Fields
  <1> QED  BY <1>1, OutsideIsTx DEF Outside

\* The tables as they are found, and no call.
LEMMA InitTeam == Init => TeamInv
  <1> SUFFICES ASSUME Init PROVE TeamInv
    OBVIOUS
  <1>1. OneTeamPerPlayer
    BY DEF Init, OneTeamPerPlayer
  <1>2. DOMAIN call = CallId /\ \A i \in CallId : call[i] = Done
    BY DEF Init
  <1>3. \A i \in CallId : Tx(call[i], rows)
    BY <1>2, DoneFacts
  <1>4. \A i, j \in CallId : i # j => Apart(call[i], call[j])
    BY <1>2, DoneFacts DEF Apart
  <1> QED  BY <1>1, <1>2, <1>3, <1>4 DEF TeamInv

\* Calls move, and what each has written stays, or is gone.
LEMMA CalmStep ==
    ASSUME TeamInv, rows' = rows, DOMAIN call' = CallId,
           \A j \in CallId : /\ Tx(call'[j], rows)
                             /\ \/ call'[j].dead = call[j].dead /\ call'[j].born = call[j].born
                                \/ call'[j].dead = {} /\ call'[j].born = {}
    PROVE  TeamInv'
  <1>1. OneTeamPerPlayer'
    BY DEF TeamInv, OneTeamPerPlayer
  <1>2. \A i \in CallId : Tx(call[i], rows)'
    BY DEF Tx, RowOf
  <1>3. \A i, j \in CallId : i # j => Apart(call[i], call[j])'
    BY DEF TeamInv, Apart
  <1> QED  BY <1>1, <1>2, <1>3 DEF TeamInv, CallId

\* One call moves.
LEMMA OneCalmStep ==
    ASSUME TeamInv, rows' = rows, NEW i \in CallId, NEW c, call' = [call EXCEPT ![i] = c],
           Tx(c, rows),
           (c.dead = call[i].dead /\ c.born = call[i].born) \/ (c.dead = {} /\ c.born = {})
    PROVE  TeamInv'
  <1>1. DOMAIN call' = CallId /\ \A j \in CallId : call'[j] = IF j = i THEN c ELSE call[j]
    BY DEF TeamInv
  <1> QED  BY <1>1, CalmStep DEF TeamInv

\* No call moves.
LEMMA StillStep == TeamInv /\ UNCHANGED <<rows, call>> => TeamInv'
  <1> SUFFICES ASSUME TeamInv, UNCHANGED <<rows, call>> PROVE TeamInv'
    OBVIOUS
  <1> QED  BY CalmStep DEF TeamInv

-----------------------------------------------------------------------------
(* The handlers                                                            *)

\* A transaction begins with nothing written.
LEMMA BeginKeeps ==
    ASSUME TeamInv, NEW i \in CallId,
           BeginUpdate(i) \/ BeginDelete(i) \/ BeginCreate(i) \/ BeginBulk(i)
    PROVE  TeamInv'
  <1>1. rows' = rows /\ call[i].pc = "sent"
    BY DEF BeginUpdate, BeginDelete, BeginCreate, BeginBulk, server
  <1>2. Tx(call[i], rows) /\ Fields \subseteq DOMAIN call[i] /\ call[i].crossed \in BOOLEAN
        /\ call[i].dead = {} /\ call[i].born = {}
    BY <1>1 DEF TeamInv, Tx, Outside
  <1>3. ASSUME NEW c, call' = [call EXCEPT ![i] = c], Tx(c, rows), c.dead = {}, c.born = {}
        PROVE  TeamInv'
    BY <1>1, <1>3, OneCalmStep
  <1>4. ASSUME call' = [call EXCEPT ![i] = End(call[i], "error")] PROVE TeamInv'
    BY <1>2, <1>3, <1>4, EndFacts
  <1>5. CASE BeginUpdate(i)
    <2> DEFINE c == [call[i] EXCEPT !.pc = "steal", !.left = call[i].players]
    <2>1. /\ c.pc = "steal" /\ c.left = c.players /\ c.dead = {} /\ c.born = {}
          /\ c.crossed \in BOOLEAN /\ Fields \subseteq DOMAIN c
      BY <1>2 DEF Fields
    <2>2. Tx(c, rows)
      BY <2>1, OutsideIsTx
    <2>3. call' = [call EXCEPT ![i] = c] \/ call' = [call EXCEPT ![i] = End(call[i], "error")]
      BY <1>5 DEF BeginUpdate, Advance
    <2> HIDE DEF c
    <2> QED  BY <1>3, <1>4, <2>1, <2>2, <2>3
  <1>6. CASE BeginDelete(i)
    <2> DEFINE c == [call[i] EXCEPT !.pc = "clear"]
    <2>1. /\ c.pc = "clear" /\ c.kind # "update" /\ c.dead = {} /\ c.born = {}
          /\ c.crossed \in BOOLEAN /\ Fields \subseteq DOMAIN c
      BY <1>2, <1>6 DEF BeginDelete, Fields
    <2>2. Tx(c, rows)
      BY <2>1, OutsideIsTx
    <2>3. call' = [call EXCEPT ![i] = c] \/ call' = [call EXCEPT ![i] = End(call[i], "error")]
      BY <1>6 DEF BeginDelete, Advance
    <2> HIDE DEF c
    <2> QED  BY <1>3, <1>4, <2>1, <2>2, <2>3
  <1>7. CASE BeginCreate(i)
    <2> DEFINE c == [call[i] EXCEPT !.team = lastTeam + 1, !.left = call[i].players, !.pc = "steal"]
    <2>1. /\ c.pc = "steal" /\ c.left = c.players /\ c.dead = {} /\ c.born = {}
          /\ c.crossed \in BOOLEAN /\ Fields \subseteq DOMAIN c
      BY <1>2 DEF Fields
    <2>2. Tx(c, rows)
      BY <2>1, OutsideIsTx
    <2>3. call' = [call EXCEPT ![i] = c]
      BY <1>7 DEF BeginCreate, Advance
    <2> HIDE DEF c
    <2> QED  BY <1>3, <2>1, <2>2, <2>3
  <1>8. CASE BeginBulk(i)
    <2> DEFINE a == [call[i] EXCEPT !.team = lastTeam + 1, !.left = call[i].players \cap alive]
               b == InsertNext(a)
    <2>1. /\ a.kind = call[i].kind /\ a.dead = {} /\ a.born = {} /\ a.crossed \in BOOLEAN
          /\ Fields \subseteq DOMAIN a
      BY <1>2 DEF Fields
    <2> HIDE DEF a
    <2>2. /\ b.pc \in {"insert", "commit"} /\ b.kind = call[i].kind /\ b.dead = {} /\ b.born = {}
          /\ b.crossed \in BOOLEAN /\ Fields \subseteq DOMAIN b
      BY <2>1 DEF Fields, InsertNext
    <2>3. call[i].kind # "update"
      BY <1>8 DEF BeginBulk
    <2>4. Tx(b, rows)
      BY <2>2, <2>3, OutsideIsTx
    <2>5. call' = [call EXCEPT ![i] = b] \/ call' = [call EXCEPT ![i] = End(call[i], "error")]
      BY <1>8 DEF BeginBulk, Advance, a
    <2> HIDE DEF b
    <2> QED  BY <1>3, <1>4, <2>2, <2>4, <2>5
  <1> QED  BY <1>5, <1>6, <1>7, <1>8

\* What a statement deletes is committed, and nobody else deletes it: so nobody else
\* inserts a player of it.
LEMMA DeletingFacts ==
    ASSUME TeamInv, NEW i \in CallId, Free(i, Deleting(i)), NEW j \in CallId, j # i
    PROVE  /\ Deleting(i) \subseteq rows /\ Deleting(i) \cap call[j].dead = {}
           /\ \A b \in call[j].born, x \in Deleting(i) : b.player # x.player
  <1>1. Deleting(i) \subseteq rows /\ Deleting(i) \cap call[j].dead = {}
    BY DEF Deleting, Free
  <1>2. Tx(call[j], rows)
    BY DEF TeamInv
  <1> QED  BY <1>1, <1>2 DEF Tx

\* A statement deletes.
LEMMA DeletingStep ==
    ASSUME TeamInv, rows' = rows, NEW i \in CallId, NEW c, call' = [call EXCEPT ![i] = c],
           Tx(c, rows), c.dead = call[i].dead \cup Deleting(i), c.born = {},
           Free(i, Deleting(i))
    PROVE  TeamInv'
  <1>1. DOMAIN call' = CallId /\ \A j \in CallId : call'[j] = IF j = i THEN c ELSE call[j]
    BY DEF TeamInv
  <1>2. OneTeamPerPlayer'
    BY DEF TeamInv, OneTeamPerPlayer
  <1>3. \A j \in CallId : Tx(call'[j], rows)
    BY <1>1 DEF TeamInv
  <1>4. \A j \in CallId : Tx(call[j], rows)'
    BY <1>3 DEF Tx, RowOf
  <1>5. ASSUME NEW j \in CallId, j # i PROVE Apart(c, call[j]) /\ Apart(call[j], c)
    <2>1. Apart(call[i], call[j]) /\ Apart(call[j], call[i])
      BY <1>5 DEF TeamInv
    <2> QED  BY <1>5, <2>1, DeletingFacts DEF Apart
  <1>6. \A j, k \in CallId : j # k => Apart(call'[j], call'[k])
    BY <1>1, <1>5 DEF TeamInv
  <1>7. \A j, k \in CallId : j # k => Apart(call[j], call[k])'
    BY <1>6 DEF Apart
  <1> QED  BY <1>1, <1>2, <1>4, <1>7 DEF TeamInv, CallId

\* A statement that waits has seen what it is going to delete.
LEMMA WaitKeeps ==
    ASSUME TeamInv, NEW i \in CallId, Wait(i)
    PROVE  TeamInv'
  <1> DEFINE D == Deleting(i)
             c == [call[i] EXCEPT !.seen = D]
  <1>1. /\ rows' = rows /\ call[i].pc \in {"steal", "clear"} /\ call[i].seen = {}
        /\ call' = [call EXCEPT ![i] = c]
    BY DEF Wait, Advance, server
  <1>2. call[i].kind = "update" /\ call[i].pc = "clear" =>
          \A r \in rows \ call[i].dead : r.team = call[i].team => r \in D
    BY <1>1 DEF Deleting
  <1> HIDE DEF D
  <1>3. Tx(call[i], rows)
    BY DEF TeamInv
  <1>4. /\ c.pc = call[i].pc /\ c.seen = D /\ c.dead = call[i].dead /\ c.born = call[i].born
        /\ c.left = call[i].left /\ c.players = call[i].players /\ c.kind = call[i].kind
        /\ c.team = call[i].team /\ c.crossed = call[i].crossed /\ Fields \subseteq DOMAIN c
    BY <1>3 DEF Tx, Fields
  <1> HIDE DEF c
  <1>5. Tx(c, rows)
    BY <1>1, <1>2, <1>3, <1>4 DEF Tx, RowOf
  <1> QED  BY <1>1, <1>4, <1>5, OneCalmStep

\* The rows of the players, in whatever team, are deleted.
LEMMA StealKeeps ==
    ASSUME TeamInv, NEW i \in CallId, Steal(i)
    PROVE  TeamInv'
  <1> DEFINE D == Deleting(i)
             c == [call[i] EXCEPT !.pc = "clear", !.seen = {}, !.dead = @ \cup D]
  <1>1. /\ rows' = rows /\ call[i].pc = "steal" /\ Free(i, D) /\ D \subseteq rows
        /\ call' = [call EXCEPT ![i] = c]
    BY DEF Steal, Advance, server, Deleting
  <1> HIDE DEF D
  <1>2. Tx(call[i], rows)
    BY DEF TeamInv
  <1>3. /\ c.pc = "clear" /\ c.seen = {} /\ c.dead = call[i].dead \cup D /\ c.born = {} /\ c.left = call[i].left
        /\ c.players = call[i].players /\ c.kind = call[i].kind /\ c.crossed \in BOOLEAN
        /\ Fields \subseteq DOMAIN c
    BY <1>1, <1>2 DEF Tx, Fields
  <1> HIDE DEF c
  <1>4. Tx(c, rows)
    BY <1>1, <1>2, <1>3 DEF Tx, Outside
  <1> QED  BY <1>1, <1>3, <1>4, DeletingStep DEF D

\* The rows of the team are deleted: what is left is of other teams.
LEMMA ClearKeeps ==
    ASSUME TeamInv, NEW i \in CallId, Clear(i)
    PROVE  TeamInv'
  <1> DEFINE D == Deleting(i)
             a == [call[i] EXCEPT !.seen = {}, !.dead = @ \cup D]
             c == IF a.kind \in {"delete", "reset"} THEN [a EXCEPT !.pc = "drop"] ELSE InsertNext(a)
  <1>1. /\ rows' = rows /\ call[i].pc = "clear" /\ Free(i, D) /\ D \subseteq rows
        /\ call' = [call EXCEPT ![i] = c]
    BY DEF Clear, Advance, server, Deleting
  <1>3. Tx(call[i], rows)
    BY DEF TeamInv
  <1>2. call[i].kind = "update" /\ ~call[i].crossed =>
          \A r \in rows \ (call[i].dead \cup D) : r.team # call[i].team
    BY <1>1, <1>3 DEF Deleting, Tx
  <1> HIDE DEF D
  <1>4. /\ a.pc = "clear" /\ a.dead = call[i].dead \cup D /\ a.born = {} /\ a.left = call[i].left
        /\ a.players = call[i].players /\ a.kind = call[i].kind /\ a.crossed = call[i].crossed
        /\ a.team = call[i].team /\ Fields \subseteq DOMAIN a
    BY <1>1, <1>3 DEF Tx, Fields
  <1> HIDE DEF a
  <1>5. /\ c.dead = call[i].dead \cup D /\ c.born = {} /\ c.left = call[i].left
        /\ c.players = call[i].players /\ c.kind = call[i].kind /\ c.crossed = call[i].crossed
        /\ c.team = call[i].team /\ Fields \subseteq DOMAIN c
        /\ c.pc \in {"drop", "insert", "commit"}
        /\ c.pc = "drop" => c.kind # "update"
        /\ c.pc = "commit" => c.left = {}
    BY <1>4 DEF InsertNext, Fields
  <1> HIDE DEF c
  <1>6. c.kind = "update" => c.left = c.players
    BY <1>1, <1>3, <1>5 DEF Tx
  <1>7. Tx(c, rows)
    <2>1. /\ Fields \subseteq DOMAIN c /\ c.crossed \in BOOLEAN /\ c.dead \subseteq rows
          /\ c.pc \notin Outside
      BY <1>1, <1>3, <1>5 DEF Tx, Outside
    <2>2. c.kind = "update" => c.born = {RowOf(c, p) : p \in c.players \ c.left}
      BY <1>5, <1>6
    <2> QED  BY <1>2, <1>5, <1>6, <2>1, <2>2 DEF Tx
  <1> QED  BY <1>1, <1>5, <1>7, DeletingStep DEF D

\* The team itself is deleted, which touches no row.
LEMMA DropKeeps ==
    ASSUME TeamInv, NEW i \in CallId, Drop(i)
    PROVE  TeamInv'
  <1> DEFINE g == IF call[i].kind = "reset" THEN teams ELSE {call[i].team}
             c == [call[i] EXCEPT !.pc = "commit", !.gone = g]
  <1>1. rows' = rows /\ call[i].pc = "drop" /\ call' = [call EXCEPT ![i] = c]
    BY DEF Drop, Advance, server
  <1> HIDE DEF g
  <1>2. Tx(call[i], rows)
    BY DEF TeamInv
  <1>3. /\ c.pc = "commit" /\ c.dead = call[i].dead /\ c.born = {} /\ call[i].born = {}
        /\ c.kind = call[i].kind /\ c.kind # "update" /\ c.crossed \in BOOLEAN
        /\ Fields \subseteq DOMAIN c
    BY <1>1, <1>2 DEF Tx, Fields
  <1> HIDE DEF c
  <1>4. Tx(c, rows)
    BY <1>2, <1>3 DEF Tx, Outside
  <1> QED  BY <1>1, <1>3, <1>4, OneCalmStep

\* The row that is inserted clashes with nothing: the key is unique, and whoever
\* deletes or inserts the player makes it wait.
LEMMA InsertKeeps ==
    ASSUME TeamInv, NEW i \in CallId, NEW p \in Player, Insert(i, p)
    PROVE  TeamInv'
  <1> DEFINE r == [team |-> call[i].team, player |-> p]
             there == rows \ call[i].dead
             a == [call[i] EXCEPT !.left = @ \ {p}, !.born = @ \cup ({r} \ there)]
             c == InsertNext(a)
  <1>1. /\ rows' = rows /\ call[i].pc = "insert" /\ p \in call[i].left /\ ~Held(i, p)
        /\ \/ (r \in there \/ ~Taken(i, p)) /\ call' = [call EXCEPT ![i] = c]
           \/ call' = [call EXCEPT ![i] = End(call[i], "unique")]
    BY DEF Insert, Advance, server
  <1>2. Tx(call[i], rows) /\ Fields \subseteq DOMAIN call[i]
    BY DEF TeamInv, Tx
  <1>3. CASE call' = [call EXCEPT ![i] = End(call[i], "unique")]
    BY <1>1, <1>2, <1>3, EndFacts, OneCalmStep
  <1>4. CASE (r \in there \/ ~Taken(i, p)) /\ call' = [call EXCEPT ![i] = c]
    <2>1. r.team = call[i].team /\ r.player = p /\ r = RowOf(call[i], p)
      BY DEF RowOf
    <2> HIDE DEF r
    <2>2. /\ a.left = call[i].left \ {p} /\ a.born = call[i].born \cup ({r} \ there)
          /\ a.pc = "insert" /\ a.dead = call[i].dead /\ a.team = call[i].team
          /\ a.players = call[i].players /\ a.kind = call[i].kind /\ a.crossed = call[i].crossed
          /\ Fields \subseteq DOMAIN a
      BY <1>1, <1>2 DEF Fields
    <2> HIDE DEF a
    <2>3. /\ c.left = call[i].left \ {p} /\ c.born = call[i].born \cup ({r} \ there)
          /\ c.pc \in {"insert", "commit"} /\ c.dead = call[i].dead /\ c.team = call[i].team
          /\ c.players = call[i].players /\ c.kind = call[i].kind /\ c.crossed = call[i].crossed
          /\ Fields \subseteq DOMAIN c /\ (c.pc = "commit" => c.left = {})
      BY <2>2 DEF InsertNext, Fields
    <2> HIDE DEF c
    <2>4. r \notin there => \A x \in there : x.player # p
      BY <1>4 DEF Taken
    <2>5. \A q : RowOf(c, q) = RowOf(call[i], q)
      BY <2>3 DEF RowOf
    <2>6. Tx(c, rows)
      <3>1. /\ Fields \subseteq DOMAIN c /\ c.crossed \in BOOLEAN /\ c.dead \subseteq rows
            /\ c.pc \notin Outside \cup {"steal", "clear", "drop"}
        BY <1>2, <2>3 DEF Tx, Outside
      <3>2. \A b \in c.born : b = RowOf(c, b.player)
        BY <1>2, <2>1, <2>3, <2>5 DEF Tx
      <3>3. \A b \in c.born, x \in rows \ c.dead : x.player # b.player
        BY <1>2, <2>1, <2>3, <2>4 DEF Tx
      <3>4. ASSUME c.kind = "update"
            PROVE  /\ c.left \subseteq c.players
                   /\ ~c.crossed => /\ c.born = {RowOf(c, q) : q \in c.players \ c.left}
                                    /\ \A x \in rows \ c.dead : x.team # c.team
        <4>1. /\ call[i].left \subseteq call[i].players
              /\ ~call[i].crossed =>
                   /\ call[i].born = {RowOf(call[i], q) : q \in call[i].players \ call[i].left}
                   /\ \A x \in rows \ call[i].dead : x.team # call[i].team
          BY <1>1, <1>2, <2>3, <3>4 DEF Tx
        <4>2. ASSUME ~c.crossed PROVE c.born = {RowOf(c, q) : q \in c.players \ c.left}
          <5>1. r \notin there
            BY <2>1, <2>3, <4>1, <4>2
          <5>2. c.born = call[i].born \cup {RowOf(c, p)}
            BY <2>1, <2>3, <2>5, <5>1
          <5>3. c.players \ c.left = (call[i].players \ call[i].left) \cup {p}
            BY <1>1, <2>3, <4>1
          <5>4. call[i].born = {RowOf(c, q) : q \in call[i].players \ call[i].left}
            BY <2>3, <2>5, <4>1, <4>2
          <5> QED  BY <5>2, <5>3, <5>4
        <4> QED  BY <2>3, <4>1, <4>2
      <3> QED  BY <2>3, <3>1, <3>2, <3>3, <3>4 DEF Tx
    <2>7. DOMAIN call' = CallId /\ \A j \in CallId : call'[j] = IF j = i THEN c ELSE call[j]
      BY <1>4 DEF TeamInv
    <2>8. OneTeamPerPlayer'
      BY <1>1 DEF TeamInv, OneTeamPerPlayer
    <2>9. \A j \in CallId : Tx(call'[j], rows)
      BY <2>6, <2>7 DEF TeamInv
    <2>10. \A j \in CallId : Tx(call[j], rows)'
      BY <1>1, <2>9 DEF Tx, RowOf
    <2>11. ASSUME NEW j \in CallId, j # i PROVE Apart(c, call[j]) /\ Apart(call[j], c)
      <3>1. Apart(call[i], call[j]) /\ Apart(call[j], call[i])
        BY <2>11 DEF TeamInv
      <3>2. \A x \in call[j].born \cup call[j].dead : x.player # p
        BY <1>1, <2>11 DEF Held
      <3> QED  BY <2>1, <2>3, <3>1, <3>2 DEF Apart
    <2>12. \A j, k \in CallId : j # k => Apart(call'[j], call'[k])
      BY <2>7, <2>11 DEF TeamInv
    <2>13. \A j, k \in CallId : j # k => Apart(call[j], call[k])'
      BY <2>12 DEF Apart
    <2> QED  BY <2>7, <2>8, <2>10, <2>13 DEF TeamInv, CallId
  <1> QED  BY <1>1, <1>3, <1>4

\* What one transaction wrote is published: it clashes with no other.
LEMMA CommitKeeps ==
    ASSUME TeamInv, NEW i \in CallId, Commit(i)
    PROVE  TeamInv'
  <1> DEFINE R == (rows \ call[i].dead) \cup call[i].born
             x(j) == (call[j].crossed \/ (call[j].team = call[i].team /\ call[j].pc \in Steps \ {"sent"}))
             c(j) == [call[j] EXCEPT !.crossed = x(j)]
  <1>1. /\ rows' = R /\ call[i].pc = "commit" /\ DOMAIN call' = CallId
        /\ call'[i] = End(call[i], "ok")
        /\ \A j \in CallId : j # i => call'[j] = c(j)
    BY DEF Commit
  <1>2. Tx(call[i], rows) /\ Fields \subseteq DOMAIN call[i]
    BY DEF TeamInv, Tx
  <1>3. OneTeamPerPlayer'
    <2>1. \A r, s \in rows : r.player = s.player => r = s
      BY DEF TeamInv, OneTeamPerPlayer
    <2>2. \A b, d \in call[i].born : b.player = d.player => b = d
      BY <1>2 DEF Tx
    <2>3. \A b \in call[i].born, r \in rows \ call[i].dead : r.player # b.player
      BY <1>2 DEF Tx
    <2>4. \A r, s \in R : r.player = s.player => r = s
      BY <2>1, <2>2, <2>3
    <2> QED  BY <1>1, <2>4 DEF OneTeamPerPlayer
  <1>4. ASSUME NEW j \in CallId, j # i
        PROVE  /\ call'[j].dead = call[j].dead /\ call'[j].born = call[j].born
               /\ Tx(call'[j], R)
    <2>1. Tx(call[j], rows) /\ Apart(call[i], call[j]) /\ Apart(call[j], call[i])
      BY <1>4 DEF TeamInv
    <2>2. call[j].crossed \in BOOLEAN /\ Fields \subseteq DOMAIN call[j]
      BY <2>1 DEF Tx
    <2>3. x(j) \in BOOLEAN
      OBVIOUS
    <2>4. call'[j] = c(j)
      BY <1>1, <1>4
    <2>5. ~x(j) => ~call[j].crossed /\ (call[j].pc \in {"clear", "insert", "commit"} => call[j].team # call[i].team)
      BY DEF Steps
    <2> DEFINE y == x(j)
    <2>6. y \in BOOLEAN /\ (~y => ~call[j].crossed /\ (call[j].pc \in {"clear", "insert", "commit"} => call[j].team # call[i].team))
      BY <2>3, <2>5
    <2>7. c(j) = [call[j] EXCEPT !.crossed = y]
      OBVIOUS
    <2> HIDE DEF y
    <2> DEFINE d == call'[j]
    <2>8. /\ d.dead = call[j].dead /\ d.born = call[j].born /\ d.crossed = y /\ d.kind = call[j].kind
          /\ d.pc = call[j].pc /\ d.team = call[j].team /\ d.players = call[j].players
          /\ d.left = call[j].left /\ d.seen = call[j].seen /\ Fields \subseteq DOMAIN d
      BY <2>2, <2>4, <2>7 DEF Fields
    <2> HIDE DEF d
    <2>9. \A q : RowOf(d, q) = RowOf(call[j], q)
      BY <2>8 DEF RowOf
    <2>10. d.dead \subseteq R
      BY <2>1, <2>8 DEF Tx, Apart
    <2>11. \A b \in d.born, r \in R \ d.dead : r.player # b.player
      BY <2>1, <2>8 DEF Tx, Apart
    <2>12. \A b \in call[i].born : b.team = call[i].team
      BY <1>2 DEF Tx, RowOf
    <2>13. ASSUME d.kind = "update", d.pc \in {"insert", "commit"}
           PROVE  /\ d.left \subseteq d.players /\ (d.pc = "commit" => d.left = {})
                  /\ ~d.crossed => /\ d.born = {RowOf(d, p) : p \in d.players \ d.left}
                                   /\ \A r \in R \ d.dead : r.team # d.team
      <3>1. /\ call[j].left \subseteq call[j].players /\ (call[j].pc = "commit" => call[j].left = {})
            /\ ~call[j].crossed =>
                 /\ call[j].born = {RowOf(call[j], p) : p \in call[j].players \ call[j].left}
                 /\ \A r \in rows \ call[j].dead : r.team # call[j].team
        BY <2>1, <2>8, <2>13 DEF Tx
      <3>2. ASSUME ~d.crossed
            PROVE  d.born = {RowOf(d, p) : p \in d.players \ d.left}
        BY <2>6, <2>8, <2>9, <3>1, <3>2
      <3>3. ASSUME ~d.crossed, NEW r \in R \ d.dead PROVE r.team # d.team
        BY <2>6, <2>8, <2>12, <2>13, <3>1, <3>3
      <3> QED  BY <2>8, <3>1, <3>2, <3>3
    <2>14. Tx(d, R)
      <3>1. /\ \A b \in d.born : b = RowOf(d, b.player)
            /\ d.pc \in Outside => d.dead = {} /\ d.born = {}
            /\ d.pc \in {"steal", "clear", "drop"} => d.born = {}
            /\ d.pc = "drop" => d.kind # "update"
            /\ d.kind = "update" /\ d.pc \in {"steal", "clear"} => d.left = d.players
        BY <2>1, <2>8, <2>9 DEF Tx
      <3>2. ASSUME d.kind = "update", d.pc = "clear", d.seen # {}, ~d.crossed,
                   NEW r \in R \ d.dead, r.team = d.team
            PROVE  r \in d.seen
        <4>1. \A q \in rows \ call[j].dead : q.team = call[j].team => q \in call[j].seen
          BY <2>1, <2>6, <2>8, <3>2 DEF Tx
        <4> QED  BY <2>6, <2>8, <2>12, <3>2, <4>1
      <3> QED  BY <2>6, <2>8, <2>10, <2>11, <2>13, <3>1, <3>2 DEF Tx
    <2> QED  BY <2>8, <2>14 DEF d
  <1>5. call'[i].dead = {} /\ call'[i].born = {} /\ Tx(call'[i], R)
    BY <1>1, <1>2, EndFacts
  <1> HIDE DEF R, c, x
  <1>6. \A j \in CallId : Tx(call'[j], rows')
    BY <1>1, <1>4, <1>5
  <1>7. \A j \in CallId : Tx(call[j], rows)'
    BY <1>6 DEF Tx, RowOf
  <1>8. ASSUME NEW j \in CallId, NEW k \in CallId, j # k PROVE Apart(call'[j], call'[k])
    <2>1. Apart(call[j], call[k])
      BY <1>8 DEF TeamInv
    <2> QED  BY <1>4, <1>5, <2>1 DEF Apart
  <1>9. \A j, k \in CallId : j # k => Apart(call[j], call[k])'
    BY <1>8 DEF Apart
  <1> QED  BY <1>1, <1>3, <1>7, <1>9 DEF TeamInv, CallId

\* A handler that only reads, writes another table, or is given up.
LEMMA ReadKeeps ==
    ASSUME TeamInv, NEW i \in CallId,
           \/ Abort(i) \/ Read(i) \/ DeletePlayer(i) \/ Rename(i)
           \/ \E p \in Player : CreatePlayer(i, p)
    PROVE  TeamInv'
  <1>1. Tx(call[i], rows) /\ Fields \subseteq DOMAIN call[i]
    BY DEF TeamInv, Tx
  <1>2. ASSUME NEW pc \in {"ok", "error", "unique"}, rows' = rows,
               call' = [call EXCEPT ![i] = End(call[i], pc)]
        PROVE  TeamInv'
    BY <1>1, <1>2, EndFacts, OneCalmStep
  <1>3. CASE Abort(i)
    BY <1>2, <1>3 DEF Abort, Advance, server
  <1>4. CASE Read(i)
    <2> DEFINE c == [call[i] EXCEPT !.pc = "ok", !.free = alive, !.squad = Composition]
    <2>1. rows' = rows /\ call[i].pc = "sent" /\ call' = [call EXCEPT ![i] = c]
      BY <1>4 DEF Read, Advance, server
    <2>2. /\ c.pc = "ok" /\ c.dead = {} /\ c.born = {} /\ c.crossed \in BOOLEAN
          /\ Fields \subseteq DOMAIN c
      BY <1>1, <2>1 DEF Tx, Outside, Fields
    <2> HIDE DEF c
    <2>3. Tx(c, rows)
      BY <2>2, OutsideIsTx DEF Outside
    <2> QED  BY <2>1, <2>2, <2>3, OneCalmStep
  <1>5. CASE DeletePlayer(i)
    BY <1>2, <1>5 DEF DeletePlayer, Advance
  <1>6. CASE Rename(i)
    BY <1>2, <1>6 DEF Rename, Advance, server
  <1>7. ASSUME NEW p \in Player, CreatePlayer(i, p) PROVE TeamInv'
    <2> DEFINE a == [call[i] EXCEPT !.players = {p}]
    <2>1. Fields \subseteq DOMAIN a
      BY <1>1 DEF Fields
    <2>2. rows' = rows /\ call' = [call EXCEPT ![i] = End(a, "ok")]
      BY <1>7 DEF CreatePlayer, Advance
    <2> HIDE DEF a
    <2> QED  BY <2>1, <2>2, EndFacts, OneCalmStep
  <1> QED  BY <1>3, <1>4, <1>5, <1>6, <1>7

-----------------------------------------------------------------------------
(* The page                                                                *)

\* A request is sent, by the page or by another device, and another may be over.
LEMMA SendKeeps ==
    ASSUME TeamInv, rows' = rows, NEW c, NEW calls,
           Tx(c, rows), c.dead = {}, c.born = {},
           calls = call \/ (\E i \in CallId : calls = Close(i)) \/ \E i \in CallId : calls = Abandon(i),
           call' = [calls EXCEPT ![sent + 1] = c] \/ call' = calls
    PROVE  TeamInv'
  <1> DEFINE d(j) == [call[j] EXCEPT !.own = FALSE]
  <1>1. /\ DOMAIN calls = CallId
        /\ \A j \in CallId : calls[j] = call[j] \/ calls[j] = Done \/ calls[j] = d(j)
    BY DEF TeamInv, Close, Abandon
  <1>2. /\ DOMAIN call' = CallId
        /\ \A j \in CallId : call'[j] = call[j] \/ call'[j] = Done \/ call'[j] = c \/ call'[j] = d(j)
    BY <1>1
  <1>3. ASSUME NEW j \in CallId
        PROVE  Tx(d(j), rows) /\ d(j).dead = call[j].dead /\ d(j).born = call[j].born
    <2> DEFINE e == d(j)
    <2>1. Tx(call[j], rows)
      BY DEF TeamInv
    <2>2. Fields \subseteq DOMAIN call[j]
      BY <2>1 DEF Tx
    <2>3. /\ e.dead = call[j].dead /\ e.born = call[j].born /\ e.crossed = call[j].crossed
          /\ e.kind = call[j].kind /\ e.pc = call[j].pc /\ e.team = call[j].team
          /\ e.players = call[j].players /\ e.left = call[j].left /\ e.seen = call[j].seen
          /\ Fields \subseteq DOMAIN e
      BY <2>2 DEF Fields
    <2> HIDE DEF e
    <2>4. Tx(e, rows)
      BY <2>1, <2>3 DEF Tx, RowOf
    <2> QED  BY <2>3, <2>4 DEF e
  <1> HIDE DEF d
  <1> QED  BY <1>2, <1>3, CalmStep, DoneFacts DEF TeamInv

\* A request in which what it does not need was left out.
LEMMA OthersRequest ==
    ASSUME NEW kind, NEW t, NEW S
    PROVE  LET a == [Request(kind, t, S) EXCEPT !.free = {}, !.squad = Nowhere]
               b == [Request(kind, t, S) EXCEPT !.own = FALSE, !.free = {}, !.squad = Nowhere]
               d == [Request(kind, t, S) EXCEPT !.squad = Nowhere]
           IN  \A c \in {a, b, d} : Tx(c, rows) /\ c.dead = {} /\ c.born = {}
  <1> DEFINE a == [Request(kind, t, S) EXCEPT !.free = {}, !.squad = Nowhere]
             b == [Request(kind, t, S) EXCEPT !.own = FALSE, !.free = {}, !.squad = Nowhere]
             d == [Request(kind, t, S) EXCEPT !.squad = Nowhere]
  <1>1. /\ Fields \subseteq DOMAIN a /\ a.crossed \in BOOLEAN /\ a.dead = {} /\ a.born = {} /\ a.pc = "sent"
    BY DEF Request, Done, Fields
  <1>2. /\ Fields \subseteq DOMAIN b /\ b.crossed \in BOOLEAN /\ b.dead = {} /\ b.born = {} /\ b.pc = "sent"
    BY DEF Request, Done, Fields
  <1>3. /\ Fields \subseteq DOMAIN d /\ d.crossed \in BOOLEAN /\ d.dead = {} /\ d.born = {} /\ d.pc = "sent"
    BY DEF Request, Done, Fields
  <1> HIDE DEF a, b, d
  <1>4. Tx(a, rows) /\ Tx(b, rows) /\ Tx(d, rows)
    BY <1>1, <1>2, <1>3, OutsideIsTx DEF Outside
  <1> QED  BY <1>1, <1>2, <1>3, <1>4 DEF a, b, d

\* The page sends requests and touches no row.
LEMMA PageKeeps == TeamInv /\ PageStep => TeamInv'
  <1> SUFFICES ASSUME TeamInv, PageStep PROVE TeamInv'
    OBVIOUS
  <1>1. CASE Open
    <2>1. rows' = rows
      BY <1>1 DEF Open, server
    <2>2. call' = [call EXCEPT ![sent + 1] = [Request("load", 0, {}) EXCEPT !.free = {}, !.squad = Nowhere]]
      BY <1>1 DEF Open, Send
    <2> QED  BY <2>1, <2>2, OthersRequest, SendKeeps
  <1>2. CASE Leave
    <2> DEFINE last == SetToSeq(timers \cap DOMAIN squad)
               req(i) == Request("update", last[i - sent], squad[last[i - sent]])
               old(i) == IF i \in sent + 1..sent' THEN req(i) ELSE call[i]
               c(i) == [old(i) EXCEPT !.own = FALSE]
    <2>1. rows' = rows /\ DOMAIN call' = CallId /\ \A i \in CallId : call'[i] = c(i)
      BY <1>2 DEF Leave, server
    <2>2. ASSUME NEW i \in CallId
          PROVE  /\ Tx(call'[i], rows)
                 /\ \/ call'[i].dead = call[i].dead /\ call'[i].born = call[i].born
                    \/ call'[i].dead = {} /\ call'[i].born = {}
      <3> DEFINE o == old(i)
                 d == call'[i]
      <3>1. d = [o EXCEPT !.own = FALSE]
        BY <2>1
      <3>2. /\ Tx(o, rows)
            /\ \/ o.dead = call[i].dead /\ o.born = call[i].born
               \/ o.dead = {} /\ o.born = {}
        <4>1. o = req(i) \/ o = call[i]
          OBVIOUS
        <4>2. Tx(req(i), rows) /\ req(i).dead = {} /\ req(i).born = {}
          BY RequestFacts
        <4> HIDE DEF o, req
        <4> QED  BY <4>1, <4>2 DEF TeamInv
      <3> HIDE DEF o, d
      <3>3. Fields \subseteq DOMAIN o
        BY <3>2 DEF Tx
      <3>4. /\ d.dead = o.dead /\ d.born = o.born /\ d.crossed = o.crossed /\ d.kind = o.kind
            /\ d.pc = o.pc /\ d.team = o.team /\ d.players = o.players /\ d.left = o.left
            /\ d.seen = o.seen
            /\ Fields \subseteq DOMAIN d
        BY <3>1, <3>3 DEF Fields
      <3>5. Tx(d, rows)
        BY <3>2, <3>4 DEF Tx, RowOf
      <3> QED  BY <3>2, <3>4, <3>5 DEF d
    <2> QED  BY <2>1, <2>2, CalmStep
  <1>3. CASE \E p \in Player : Select(p)
    BY <1>3, StillStep DEF Select, server
  <1>4. ASSUME NEW t \in TeamId,
               AddToTeam(t) \/ Fire(t) \/ \E p \in Player : RemoveFromTeam(t, p)
        PROVE  TeamInv'
    <2>1. CASE AddToTeam(t) \/ \E p \in Player : RemoveFromTeam(t, p)
      BY <2>1, StillStep DEF AddToTeam, RemoveFromTeam, server
    <2>2. CASE Fire(t)
      <3>1. rows' = rows /\ (call' = call \/ call' = [call EXCEPT ![sent + 1] = Request("update", t, squad[t])])
        BY <2>2 DEF Fire, Send, server
      <3> QED  BY <3>1, RequestFacts, SendKeeps
    <2> QED  BY <1>4, <2>1, <2>2
  <1>5. ASSUME NEW k, NEW t, NEW S, Submit(k, t, S) PROVE TeamInv'
    <2>1. rows' = rows /\ call' = [call EXCEPT ![sent + 1] = Request(k, t, S)]
      BY <1>5 DEF Submit, Send, server
    <2> QED  BY <2>1, RequestFacts, SendKeeps
  <1> QED  BY <1>1, <1>2, <1>3, <1>4, <1>5 DEF PageStep

\* Another device sends a request.
LEMMA OtherKeeps == TeamInv /\ OtherStep => TeamInv'
  <1> SUFFICES ASSUME TeamInv, OtherStep PROVE TeamInv'
    OBVIOUS
  <1>1. PICK k, t, S : OtherCall(k, t, S)
    BY DEF OtherStep
  <1>2. rows' = rows
    BY <1>1 DEF OtherCall, server
  <1>3. call' = [call EXCEPT ![sent + 1] = [Request(k, t, S) EXCEPT !.own = FALSE, !.free = {}, !.squad = Nowhere]]
    BY <1>1 DEF OtherCall, Send
  <1> QED  BY <1>2, <1>3, OthersRequest, SendKeeps

\* An answer that is handled ends its call, and may send another.
LEMMA AnswerKeeps ==
    ASSUME TeamInv, NEW i \in CallId, AnswerStep(i)
    PROVE  TeamInv'
  <1>1. CASE \/ LoadAnswer(i) \/ CreateAnswer(i) \/ DeleteAnswer(i) \/ PlayersAnswer(i)
             \/ AddPlayerAnswer(i) \/ DeletePlayerAnswer(i) \/ SavePlayerAnswer(i) \/ RenameAnswer(i)
             \/ UpdateAnswer(i)
    <2>1. call' = Close(i) /\ rows' = rows
      BY <1>1 DEF LoadAnswer, CreateAnswer, DeleteAnswer, PlayersAnswer, AddPlayerAnswer,
         DeletePlayerAnswer, SavePlayerAnswer, RenameAnswer, UpdateAnswer, Finish, Show, server
    <2> QED  BY <2>1, SendKeeps, DoneFacts
  <1>2. CASE ResetAnswer(i)
    <2>1. rows' = rows
      BY <1>2 DEF ResetAnswer, Show, server
    <2>2. call' = [Close(i) EXCEPT ![sent + 1] = [Request("players", 0, {}) EXCEPT !.squad = Nowhere]]
      BY <1>2 DEF ResetAnswer, Send
    <2> QED  BY <2>1, <2>2, OthersRequest, SendKeeps
  <1>3. CASE FailedAnswer(i)
    <2>1. /\ rows' = rows
          /\ call' = Close(i) \/ call' = [Close(i) EXCEPT ![sent + 1] = Request("load", 0, {})]
      BY <1>3 DEF FailedAnswer, Reload, Finish, Send, server
    <2> DEFINE c == Request("load", 0, {})
    <2>2. Tx(c, rows) /\ c.dead = {} /\ c.born = {}
      BY RequestFacts
    <2>3. call' = Close(i) \/ call' = [Close(i) EXCEPT ![sent + 1] = c]
      BY <2>1
    <2> HIDE DEF c
    <2> QED  BY <2>1, <2>2, <2>3, SendKeeps
  <1>4. CASE LostCall(i)
    <2> DEFINE c == Request("load", 0, {})
               calls == Abandon(i)
    <2>1. rows' = rows /\ (call' = calls \/ call' = [calls EXCEPT ![sent + 1] = c])
      BY <1>4 DEF LostCall, Send, server
    <2>2. Tx(c, rows) /\ c.dead = {} /\ c.born = {}
      BY RequestFacts
    <2> HIDE DEF c
    <2> QED  BY <2>1, <2>2, SendKeeps
  <1> QED  BY <1>1, <1>2, <1>3, <1>4 DEF AnswerStep

-----------------------------------------------------------------------------
\* Every step keeps the invariant.
LEMMA NextTeam == TeamInv /\ [Next]_vars => TeamInv'
  <1> SUFFICES ASSUME TeamInv, [Next]_vars PROVE TeamInv'
    OBVIOUS
  <1>1. CASE UNCHANGED vars
    BY <1>1, StillStep DEF vars, server
  <1>2. ASSUME NEW i \in CallId, ServerStep(i) PROVE TeamInv'
    BY <1>2, BeginKeeps, WaitKeeps, StealKeeps, ClearKeeps, DropKeeps, CommitKeeps, ReadKeeps, InsertKeeps
       DEF ServerStep
  <1> QED  BY <1>1, <1>2, PageKeeps, OtherKeeps, AnswerKeeps DEF Next

\* The inductive invariant of the transactions.
THEOREM TeamInvariant == Spec => []TeamInv
  BY InitTeam, NextTeam, PTL DEF Spec

\* However many devices assign players at once, none is in two teams.
THEOREM PlayersAreInOneTeam == Spec => []OneTeamPerPlayer
  BY TeamInvariant, PTL DEF TeamInv

\* An update leaves its team with the players it names and takes them out of every
\* other, unless another transaction over that team was committed while it ran.
THEOREM UpdatesReplace == Spec => UpdateReplaces
  <1>1. ASSUME TeamInv, NEW i \in CallId, Commit(i), call[i].kind = "update", ~call[i].crossed
        PROVE  {r \in rows' : r.team = call[i].team \/ r.player \in call[i].players}
               = {[team |-> call[i].team, player |-> p] : p \in call[i].players}
    <2> DEFINE c == call[i]
    <2>1. Tx(c, rows) /\ c.pc = "commit"
      BY <1>1 DEF TeamInv, Commit
    <2>2. rows' = (rows \ c.dead) \cup c.born
      BY <1>1 DEF Commit
    <2>3. /\ c.left = {} /\ c.born = {RowOf(c, p) : p \in c.players \ c.left}
          /\ \A r \in rows \ c.dead : r.team # c.team
          /\ \A b \in c.born, r \in rows \ c.dead : r.player # b.player
      BY <1>1, <2>1 DEF Tx
    <2>4. c.born = {RowOf(c, p) : p \in c.players}
      BY <2>3
    <2>5. \A b \in c.born : b.team = c.team /\ b.player \in c.players
      BY <2>4 DEF RowOf
    <2>6. \A p \in c.players : RowOf(c, p) \in c.born /\ RowOf(c, p).player = p
      BY <2>4 DEF RowOf
    <2>7. \A r \in rows \ c.dead : r.player \notin c.players
      BY <2>3, <2>6
    <2>8. {r \in rows' : r.team = c.team \/ r.player \in c.players} = c.born
      BY <2>2, <2>3, <2>5, <2>7
    <2> QED  BY <2>4, <2>8 DEF RowOf
  <1>2. TeamInv =>
          [\A i \in CallId :
             Commit(i) /\ call[i].kind = "update" /\ ~call[i].crossed
             => {r \in rows' : r.team = call[i].team \/ r.player \in call[i].players}
                = {[team |-> call[i].team, player |-> p] : p \in call[i].players}]_vars
    BY <1>1
  <1> QED  BY <1>2, TeamInvariant, PTL DEF Spec, UpdateReplaces

-----------------------------------------------------------------------------
(* What calls, rows and the page hold                                      *)

Running     == Steps \ {"sent"}
Writes      == {"update", "create", "bulk", "delete", "reset"}
Known       == Player \ fresh
RowIn(K)    == [team : TeamId, player : K]
SquadsIn(K) == UNION {[T -> SUBSET K] : T \in SUBSET TeamId}
CallIn(K)   == [kind : Kinds, own : BOOLEAN, team : 0..MaxTeams, players : SUBSET K,
                pc : Steps \cup {"ok", "error", "unique", "done"}, left : SUBSET K,
                seen : SUBSET RowIn(K), dead : SUBSET RowIn(K), born : SUBSET RowIn(K), gone : SUBSET TeamId,
                crossed : BOOLEAN, free : SUBSET K, squad : SquadsIn(K)]

\* Where a call of each kind can stand, and that it is about one of the n teams that were
\* created from when it runs.
Stands(c, n) ==
    /\ c.pc = "steal" => c.kind \in {"update", "create"}
    /\ c.pc = "insert" => c.kind \in {"update", "create", "bulk"}
    /\ c.pc = "clear" => c.kind \in {"update", "create", "delete", "reset"}
    /\ c.pc = "drop" => c.kind \in {"delete", "reset"}
    /\ c.pc = "commit" => c.kind \in Writes
    /\ c.kind \in Writes \ {"reset"} /\ c.pc \in Running \cup {"ok"} => c.team \in 1..n
    /\ c.own /\ c.kind = "delete" => c.team \in DOMAIN c.squad
    /\ c.pc \in Outside => c.seen = {} /\ c.dead = {} /\ c.born = {}
    /\ c.gone # {} => c.pc = "commit" /\ c.kind \in {"delete", "reset"}
    /\ \A r \in c.seen \cup c.dead : r.team = c.team \/ r.player \in c.players \/ c.kind = "reset"
    /\ \A r \in c.born : r.team <= n

\* A call that names only players of K and teams up to n.
Fits(c, K, n) == c \in CallIn(K) /\ Stands(c, n)

TablesTyped ==
    /\ fresh \subseteq Player /\ alive \subseteq Known
    /\ lastTeam \in 0..MaxTeams /\ teams \subseteq 1..lastTeam
    /\ rows \subseteq RowIn(Known) /\ \A r \in rows : r.team <= lastTeam

CallsTyped ==
    /\ sent \in 0..(MaxCalls + 1) /\ call \in [CallId -> CallIn(Known)]
    /\ \A i \in CallId : i > sent => call[i].pc = "done"
    /\ \A i \in CallId : Fits(call[i], Known, lastTeam)

PageTyped ==
    /\ open \in BOOLEAN /\ free \subseteq Known /\ squad \in SquadsIn(Known)
    /\ picked \subseteq Known /\ timers \subseteq TeamId

CountsTyped == taps \in 0..MaxTaps /\ others \in 0..MaxOthers /\ behind \in BOOLEAN

\* Whoever is named anywhere was given out, and so was every team that has rows.
Typed == TablesTyped /\ CallsTyped /\ PageTyped /\ CountsTyped

\* A squad is a function from teams to sets of players.
LEMMA SquadFacts ==
    ASSUME NEW K, NEW s
    PROVE  s \in SquadsIn(K) <=> /\ s = [t \in DOMAIN s |-> s[t]]
                                 /\ DOMAIN s \subseteq TeamId
                                 /\ \A t \in DOMAIN s : s[t] \subseteq K
  <1>1. ASSUME s \in SquadsIn(K)
        PROVE  /\ s = [t \in DOMAIN s |-> s[t]]
               /\ DOMAIN s \subseteq TeamId
               /\ \A t \in DOMAIN s : s[t] \subseteq K
    <2>1. PICK T \in SUBSET TeamId : s \in [T -> SUBSET K]
      BY <1>1 DEF SquadsIn
    <2> QED  BY <2>1
  <1>2. ASSUME s = [t \in DOMAIN s |-> s[t]], DOMAIN s \subseteq TeamId,
               \A t \in DOMAIN s : s[t] \subseteq K
        PROVE  s \in SquadsIn(K)
    <2>1. s \in [DOMAIN s -> SUBSET K]
      BY <1>2
    <2> QED  BY <1>2, <2>1 DEF SquadsIn
  <1> QED  BY <1>1, <1>2

\* As players are given out and teams created, what fitted still fits.
LEMMA FitsGrows ==
    ASSUME NEW K, NEW L, K \subseteq L, NEW n \in Nat, NEW m \in Nat, n <= m, NEW c, Fits(c, K, n)
    PROVE  Fits(c, L, m)
  <1>1. SquadsIn(K) \subseteq SquadsIn(L)
    BY SquadFacts
  <1>2. RowIn(K) \subseteq RowIn(L)
    BY DEF RowIn
  <1>3. c \in CallIn(L)
    BY <1>1, <1>2 DEF Fits, CallIn
  <1>4. Stands(c, m)
    <2>1. c.team \in 1..n => c.team \in 1..m
      OBVIOUS
    <2>2. \A r \in c.born : r.team <= m
      BY DEF Fits, Stands, CallIn, RowIn, TeamId
    <2> QED  BY <2>1, <2>2 DEF Fits, Stands
  <1> QED  BY <1>3, <1>4 DEF Fits

\* What is not shown.
LEMMA NowhereFacts == \A K : Nowhere \in SquadsIn(K) /\ DOMAIN Nowhere = {}
  <1>1. DOMAIN Nowhere = {} /\ Nowhere = [t \in DOMAIN Nowhere |-> Nowhere[t]]
    BY DEF Nowhere
  <1> QED  BY <1>1, SquadFacts

\* A call that is over fits.
LEMMA DoneFits == ASSUME NEW K, NEW n PROVE Fits(Done, K, n)
  <1>1. Done \in CallIn(K)
    BY NowhereFacts, BoundAssumption DEF Done, CallIn, Kinds
  <1>2. Stands(Done, n)
    BY DEF Done, Stands, Writes, Running, Steps, Outside
  <1> QED  BY <1>1, <1>2 DEF Fits

\* A call that ends fits.
LEMMA EndFits ==
    ASSUME NEW K, NEW n, NEW c, Fits(c, K, n), NEW pc \in {"ok", "error", "unique"},
           pc = "ok" /\ c.kind \in Writes \ {"reset"} => c.team \in 1..n
    PROVE  Fits(End(c, pc), K, n)
  <1> DEFINE d == [c EXCEPT !.pc = pc, !.left = {}, !.seen = {}, !.dead = {}, !.born = {},
                            !.gone = {}, !.crossed = FALSE]
  <1>1. d \in CallIn(K)
    BY DEF Fits, CallIn
  <1>2. /\ d.pc = pc /\ d.dead = {} /\ d.born = {} /\ d.gone = {} /\ d.seen = {} /\ d.kind = c.kind /\ d.own = c.own
        /\ d.team = c.team /\ d.squad = c.squad
    BY DEF Fits, CallIn
  <1>3. End(c, pc) = d \/ End(c, pc) = Done
    BY DEF End
  <1> HIDE DEF d
  <1>4. Stands(d, n)
    BY <1>2 DEF Fits, Stands, Running, Steps, Outside
  <1> QED  BY <1>1, <1>3, <1>4, DoneFits DEF Fits

\* A request of the page fits.
LEMMA RequestFits ==
    ASSUME NEW K, NEW n, free \subseteq K, squad \in SquadsIn(K),
           NEW kind \in Kinds, NEW t \in 0..MaxTeams, NEW S, S \subseteq K,
           kind = "delete" => t \in DOMAIN squad
    PROVE  Fits(Request(kind, t, S), K, n)
  <1> DEFINE d == Request(kind, t, S)
  <1>1. Done \in CallIn(K)
    BY DoneFits DEF Fits
  <1>2. d \in CallIn(K)
    BY <1>1 DEF Request, CallIn, Steps
  <1>3. /\ d.pc = "sent" /\ d.dead = {} /\ d.born = {} /\ d.gone = {} /\ d.seen = {} /\ d.kind = kind
        /\ d.team = t /\ d.squad = squad
    BY DEF Request, Done
  <1> HIDE DEF d
  <1>4. Stands(d, n)
    BY <1>3 DEF Stands, Running, Steps
  <1> QED  BY <1>2, <1>4 DEF Fits, d

\* A request in which what it does not need was left out.
LEMMA OthersFit ==
    ASSUME NEW K, NEW n, free \subseteq K, squad \in SquadsIn(K),
           NEW kind \in Kinds, NEW t \in 0..MaxTeams, NEW S, S \subseteq K
    PROVE  /\ kind # "delete" => Fits([Request(kind, t, S) EXCEPT !.free = {}, !.squad = Nowhere], K, n)
           /\ Fits([Request(kind, t, S) EXCEPT !.own = FALSE, !.free = {}, !.squad = Nowhere], K, n)
           /\ kind # "delete" => Fits([Request(kind, t, S) EXCEPT !.squad = Nowhere], K, n)
  <1> DEFINE a == [Request(kind, t, S) EXCEPT !.free = {}, !.squad = Nowhere]
             b == [Request(kind, t, S) EXCEPT !.own = FALSE, !.free = {}, !.squad = Nowhere]
             d == [Request(kind, t, S) EXCEPT !.squad = Nowhere]
  <1>1. Done \in CallIn(K)
    BY DoneFits DEF Fits
  <1>2. Request(kind, t, S) \in CallIn(K)
    BY <1>1 DEF Request, CallIn, Steps
  <1>3. a \in CallIn(K) /\ b \in CallIn(K) /\ d \in CallIn(K)
    BY <1>2, NowhereFacts DEF CallIn
  <1>4. \A c \in {a, b, d} : c.pc = "sent" /\ c.dead = {} /\ c.born = {} /\ c.gone = {} /\ c.seen = {} /\ c.kind = kind
    BY DEF Request, Done
  <1>5. b.own = FALSE
    BY DEF Request, Done
  <1> HIDE DEF a, b, d
  <1>6. /\ kind # "delete" => Stands(a, n)
        /\ kind # "delete" => Stands(d, n)
        /\ Stands(b, n)
    BY <1>4, <1>5 DEF Stands, Running, Steps
  <1> QED  BY <1>3, <1>6 DEF Fits, a, b, d

\* What was typed stays so, as players are given out and teams created.
LEMMA CallsStayTyped ==
    ASSUME Typed, TablesTyped', fresh' \subseteq fresh, lastTeam <= lastTeam',
           sent' \in 0..(MaxCalls + 1), call' = [j \in CallId |-> call'[j]],
           \A j \in CallId : /\ call'[j] = call[j] \/ Fits(call'[j], Known', lastTeam')
                             /\ j > sent' => call'[j].pc = "done"
    PROVE  CallsTyped'
  <1>1. lastTeam \in Nat /\ lastTeam' \in Nat
    BY BoundAssumption DEF Typed, TablesTyped
  <1>2. Known \subseteq Known'
    BY DEF Known
  <1>3. ASSUME NEW j \in CallId PROVE Fits(call'[j], Known', lastTeam')
    BY <1>1, <1>2, FitsGrows DEF Typed, CallsTyped
  <1>4. call' \in [CallId -> CallIn(Known')]
    BY <1>3 DEF Fits
  <1> QED  BY <1>3, <1>4 DEF CallsTyped, Known, Fits, Stands, CallIn, RowIn, CallId

\* The page is typed as long as it stays as it is.
LEMMA PageStaysTyped == Typed /\ fresh' \subseteq fresh /\ UNCHANGED page => PageTyped'
  <1> SUFFICES ASSUME Typed, fresh' \subseteq fresh, UNCHANGED page PROVE PageTyped'
    OBVIOUS
  <1>1. Known \subseteq Known'
    BY DEF Known
  <1>2. squad \in SquadsIn(Known')
    BY <1>1, SquadFacts DEF Typed, PageTyped
  <1> QED  BY <1>1, <1>2 DEF Typed, PageTyped, page, Known, SquadsIn

\* A handler moves its call.
LEMMA HandlerTyped ==
    ASSUME Typed, TablesTyped', fresh' \subseteq fresh, lastTeam <= lastTeam',
           NEW i \in CallId, call[i].pc # "done", NEW c, Fits(c, Known', lastTeam'),
           call' = [call EXCEPT ![i] = c], sent' = sent,
           UNCHANGED <<page, bounds>>, behind' \in BOOLEAN
    PROVE  Typed'
  <1>1. DOMAIN call = CallId /\ call' = [j \in CallId |-> IF j = i THEN c ELSE call[j]]
    BY DEF Typed, CallsTyped
  <1>2. sent' \in 0..(MaxCalls + 1) /\ \A j \in CallId : j > sent' => call'[j].pc = "done"
    BY <1>1 DEF Typed, CallsTyped
  <1>3. call' = [j \in CallId |-> call'[j]]
    BY <1>1
  <1>4. \A j \in CallId : call'[j] = call[j] \/ Fits(call'[j], Known', lastTeam')
    BY <1>1
  <1>5. CallsTyped'
    BY <1>2, <1>3, <1>4, CallsStayTyped
  <1>6. PageTyped' /\ CountsTyped'
    BY PageStaysTyped DEF Typed, CountsTyped, bounds
  <1> QED  BY <1>5, <1>6 DEF Typed

\* A handler that leaves the tables alone.
LEMMA ReaderTyped ==
    ASSUME Typed, NEW i \in CallId, call[i].pc # "done", NEW c, Fits(c, Known, lastTeam),
           Advance(i, c), UNCHANGED <<server, page, bounds>>, behind' \in BOOLEAN
    PROVE  Typed'
  <1>1. TablesTyped' /\ Known' = Known /\ lastTeam' = lastTeam /\ fresh' = fresh
    BY DEF Typed, TablesTyped, server, Known, RowIn
  <1>2. lastTeam <= lastTeam'
    BY <1>1, BoundAssumption DEF Typed, TablesTyped
  <1> QED  BY <1>1, <1>2, HandlerTyped DEF Advance

\* A call that ends where it stands.
LEMMA EndTyped ==
    ASSUME Typed, NEW i \in CallId, call[i].pc # "done", NEW pc \in {"ok", "error", "unique"},
           pc = "ok" => call[i].kind \notin Writes,
           Advance(i, End(call[i], pc)), UNCHANGED <<server, page, bounds>>, behind' \in BOOLEAN
    PROVE  Typed'
  <1>1. Fits(call[i], Known, lastTeam)
    BY DEF Typed, CallsTyped
  <1>2. Fits(End(call[i], pc), Known, lastTeam)
    BY <1>1, EndFits
  <1> QED  BY <1>2, ReaderTyped

\* What composes a call.
LEMMA CallFacts ==
    ASSUME Typed, NEW i \in CallId
    PROVE  /\ call[i] \in CallIn(Known) /\ Stands(call[i], lastTeam)
           /\ lastTeam \in Nat /\ behind \in BOOLEAN
  BY BoundAssumption DEF Typed, CallsTyped, TablesTyped, CountsTyped, Fits

\* A transaction begins.
LEMMA BeginTyped ==
    ASSUME Typed, NEW i \in CallId,
           BeginUpdate(i) \/ BeginDelete(i) \/ BeginCreate(i) \/ BeginBulk(i)
    PROVE  Typed'
  <1>1. /\ call[i] \in CallIn(Known) /\ Stands(call[i], lastTeam) /\ lastTeam \in Nat
        /\ behind \in BOOLEAN /\ call[i].pc = "sent"
    BY CallFacts DEF BeginUpdate, BeginDelete, BeginCreate, BeginBulk
  <1>2. call[i].gone = {} /\ call[i].seen = {} /\ call[i].dead = {} /\ call[i].born = {}
    BY <1>1 DEF Stands, Outside
  <1>3. CASE BeginUpdate(i)
    <2>1. CASE call[i].team \notin teams
      BY <1>1, <1>3, <2>1, EndTyped DEF BeginUpdate
    <2>2. CASE call[i].team \in teams
      <3> DEFINE c == [call[i] EXCEPT !.pc = "steal", !.left = call[i].players]
      <3>1. c \in CallIn(Known)
        BY <1>1 DEF CallIn, Steps
      <3>2. /\ c.pc = "steal" /\ c.kind = "update" /\ c.team \in 1..lastTeam /\ c.gone = {} /\ c.seen = {}
            /\ c.dead = {} /\ c.born = {}
        BY <1>1, <1>2, <1>3, <2>2 DEF BeginUpdate, CallIn, Typed, TablesTyped
      <3>3. Advance(i, c)
        BY <1>3, <2>2 DEF BeginUpdate
      <3> HIDE DEF c
      <3>4. Fits(c, Known, lastTeam)
        BY <1>1, <3>1, <3>2 DEF Fits, Stands, Outside
      <3> QED  BY <1>1, <1>3, <3>3, <3>4, ReaderTyped DEF BeginUpdate
    <2> QED  BY <2>1, <2>2
  <1>4. CASE BeginDelete(i)
    <2>1. CASE ~(call[i].kind = "reset" \/ call[i].team \in teams)
      BY <1>1, <1>4, <2>1, EndTyped DEF BeginDelete
    <2>2. CASE call[i].kind = "reset" \/ call[i].team \in teams
      <3> DEFINE c == [call[i] EXCEPT !.pc = "clear"]
      <3>1. c \in CallIn(Known)
        BY <1>1 DEF CallIn, Steps
      <3>2. /\ c.pc = "clear" /\ c.kind = call[i].kind /\ c.kind \in {"delete", "reset"} /\ c.gone = {} /\ c.seen = {}
            /\ c.kind = "delete" => c.team \in 1..lastTeam
            /\ c.team = call[i].team /\ c.own = call[i].own /\ c.squad = call[i].squad
            /\ c.dead = {} /\ c.born = {}
        BY <1>1, <1>2, <1>4, <2>2 DEF BeginDelete, CallIn, Typed, TablesTyped
      <3>3. Advance(i, c)
        BY <1>4, <2>2 DEF BeginDelete
      <3> HIDE DEF c
      <3>4. Fits(c, Known, lastTeam)
        BY <1>1, <3>1, <3>2 DEF Fits, Stands, Writes, Outside
      <3> QED  BY <1>1, <1>4, <3>3, <3>4, ReaderTyped DEF BeginDelete
    <2> QED  BY <2>1, <2>2
  <1>5. lastTeam < MaxTeams =>
          /\ lastTeam + 1 \in 0..MaxTeams /\ lastTeam + 1 \in 1..(lastTeam + 1)
          /\ lastTeam <= lastTeam + 1
    BY <1>1, BoundAssumption
  <1>6. ASSUME lastTeam' = lastTeam + 1, lastTeam < MaxTeams, UNCHANGED <<alive, fresh, teams, rows>>
        PROVE  TablesTyped' /\ Known' = Known
    <2>1. \A r \in rows : r.team <= lastTeam + 1
      BY <1>1 DEF Typed, TablesTyped, RowIn, TeamId
    <2>2. teams \subseteq 1..(lastTeam + 1)
      BY <1>1 DEF Typed, TablesTyped
    <2> QED  BY <1>5, <1>6, <2>1, <2>2 DEF Typed, TablesTyped, Known, RowIn
  <1>9. CASE BeginCreate(i)
    <2> DEFINE c == [call[i] EXCEPT !.team = lastTeam + 1, !.left = call[i].players, !.pc = "steal"]
    <2>1. c \in CallIn(Known)
      BY <1>1, <1>5, <1>9 DEF CallIn, Steps, BeginCreate
    <2>2. /\ c.pc = "steal" /\ c.kind = "create" /\ c.gone = {} /\ c.seen = {} /\ c.team = lastTeam + 1
          /\ c.dead = {} /\ c.born = {}
      BY <1>1, <1>2, <1>9 DEF BeginCreate, CallIn
    <2>3. call' = [call EXCEPT ![i] = c] /\ sent' = sent
      BY <1>9 DEF BeginCreate, Advance
    <2> HIDE DEF c
    <2>4. Fits(c, Known, lastTeam + 1)
      BY <1>5, <1>9, <2>1, <2>2 DEF Fits, Stands, BeginCreate, Outside
    <2> QED  BY <1>1, <1>5, <1>6, <1>9, <2>3, <2>4, HandlerTyped DEF BeginCreate
  <1>10. CASE BeginBulk(i)
    <2>1. CASE teams # {}
      BY <1>1, <1>10, <2>1, EndTyped DEF BeginBulk, server
    <2>2. CASE teams = {}
      <3> DEFINE a == [call[i] EXCEPT !.team = lastTeam + 1, !.left = call[i].players \cap alive]
                 c == InsertNext(a)
      <3>1. a \in CallIn(Known)
        BY <1>1, <1>5, <1>10, <2>2 DEF CallIn, BeginBulk
      <3>2. /\ a.kind = "bulk" /\ a.gone = {} /\ a.seen = {} /\ a.team = lastTeam + 1 /\ a.dead = {} /\ a.born = {}
        BY <1>1, <1>2, <1>10 DEF BeginBulk, CallIn
      <3>3. call' = [call EXCEPT ![i] = c] /\ sent' = sent /\ lastTeam' = lastTeam + 1
            /\ lastTeam < MaxTeams
        BY <1>10, <2>2 DEF BeginBulk, Advance
      <3> HIDE DEF a
      <3>4. /\ c \in CallIn(Known) /\ c.pc \in {"insert", "commit"}
            /\ c.kind = "bulk" /\ c.gone = {} /\ c.seen = {} /\ c.team = lastTeam + 1 /\ c.dead = {} /\ c.born = {}
        BY <3>1, <3>2 DEF InsertNext, CallIn, Steps
      <3> HIDE DEF c
      <3>5. Fits(c, Known, lastTeam + 1)
        BY <1>5, <3>3, <3>4 DEF Fits, Stands, Outside, Writes
      <3> QED  BY <1>1, <1>5, <1>6, <1>10, <3>3, <3>5, HandlerTyped DEF BeginBulk
    <2> QED  BY <2>1, <2>2
  <1> QED  BY <1>3, <1>4, <1>9, <1>10

\* A transaction goes on.
LEMMA TransactionTyped ==
    ASSUME Typed, NEW i \in CallId,
           Wait(i) \/ Steal(i) \/ Clear(i) \/ Drop(i) \/ (\E p \in Player : Insert(i, p)) \/ Abort(i)
    PROVE  Typed'
  <1>1. /\ call[i] \in CallIn(Known) /\ Stands(call[i], lastTeam) /\ lastTeam \in Nat
        /\ behind \in BOOLEAN /\ call[i].pc \in Steps /\ call[i].pc # "done"
    BY CallFacts DEF Wait, Steal, Clear, Drop, Insert, Abort, Steps
  <1>2. Deleting(i) \subseteq RowIn(Known)
    BY DEF Deleting, Typed, TablesTyped
  <1>8. call[i].pc \in {"steal", "clear"} =>
          \A r \in Deleting(i) : \/ r.team = call[i].team \/ r.player \in call[i].players
                                 \/ call[i].kind = "reset"
    BY <1>1 DEF Deleting, Stands
  <1>9. CASE Wait(i)
    <2> DEFINE D == Deleting(i)
               c == [call[i] EXCEPT !.seen = D]
    <2>1. c \in CallIn(Known)
      BY <1>1, <1>2 DEF CallIn
    <2>2. /\ c.pc = call[i].pc /\ c.kind = call[i].kind /\ c.gone = call[i].gone /\ c.team = call[i].team
          /\ c.seen = D /\ c.dead = call[i].dead /\ c.born = call[i].born
          /\ c.players = call[i].players /\ c.own = call[i].own /\ c.squad = call[i].squad
          /\ call[i].pc \in {"steal", "clear"}
      BY <1>1, <1>9 DEF CallIn, Wait
    <2>3. Advance(i, c) /\ UNCHANGED <<server, page, bounds, behind>>
      BY <1>9 DEF Wait
    <2> HIDE DEF c
    <2>4. \A r \in D : r.team = c.team \/ r.player \in c.players \/ c.kind = "reset"
      BY <1>8, <2>2
    <2> HIDE DEF D
    <2>5. Stands(c, lastTeam)
      BY <1>1, <2>2, <2>4 DEF Stands, Running, Steps, Outside
    <2> QED  BY <1>1, <2>1, <2>3, <2>5, ReaderTyped DEF Fits
  <1>3. CASE Steal(i)
    <2> DEFINE D == Deleting(i)
               c == [call[i] EXCEPT !.pc = "clear", !.seen = {}, !.dead = @ \cup D]
    <2>1. c \in CallIn(Known)
      BY <1>1, <1>2 DEF CallIn, Steps
    <2>2. /\ c.pc = "clear" /\ c.kind = call[i].kind /\ c.gone = call[i].gone /\ c.seen = {} /\ c.team = call[i].team
          /\ c.dead = call[i].dead \cup D /\ c.born = call[i].born /\ c.players = call[i].players
          /\ c.own = call[i].own /\ c.squad = call[i].squad /\ call[i].pc = "steal"
      BY <1>1, <1>3 DEF CallIn, Steal
    <2>3. \A r \in D : r.team = call[i].team \/ r.player \in call[i].players \/ call[i].kind = "reset"
      BY <1>3, <1>8 DEF Steal
    <2>4. Advance(i, c) /\ UNCHANGED <<server, page, bounds, behind>>
      BY <1>3 DEF Steal
    <2> HIDE DEF c, D
    <2>5. Stands(c, lastTeam)
      BY <1>1, <2>2, <2>3 DEF Stands, Running, Steps, Outside
    <2> QED  BY <1>1, <2>1, <2>4, <2>5, ReaderTyped DEF Fits
  <1>4. CASE Clear(i)
    <2> DEFINE D == Deleting(i)
               a == [call[i] EXCEPT !.seen = {}, !.dead = @ \cup D]
               c == IF a.kind \in {"delete", "reset"} THEN [a EXCEPT !.pc = "drop"] ELSE InsertNext(a)
    <2>1. a \in CallIn(Known)
      BY <1>1, <1>2 DEF CallIn
    <2>2. /\ a.pc = "clear" /\ a.kind = call[i].kind /\ a.gone = call[i].gone /\ a.seen = {} /\ a.team = call[i].team
          /\ a.dead = call[i].dead \cup D /\ a.born = call[i].born /\ a.players = call[i].players
          /\ a.own = call[i].own /\ a.squad = call[i].squad
      BY <1>1, <1>4 DEF CallIn, Clear
    <2>3. \A r \in D : r.team = call[i].team \/ r.player \in call[i].players \/ call[i].kind = "reset"
      BY <1>4, <1>8 DEF Clear
    <2>4. Advance(i, c) /\ UNCHANGED <<server, page, bounds, behind>>
      BY <1>4 DEF Clear
    <2> HIDE DEF a, D
    <2>5. Stands(a, lastTeam)
      BY <1>1, <1>4, <2>2, <2>3 DEF Stands, Running, Steps, Outside, Clear
    <2>6. /\ c \in CallIn(Known)
          /\ c.kind = a.kind /\ c.gone = a.gone /\ c.seen = a.seen /\ c.team = a.team
          /\ c.dead = a.dead /\ c.born = a.born /\ c.players = a.players
          /\ c.own = a.own /\ c.squad = a.squad
          /\ IF a.kind \in {"delete", "reset"} THEN c.pc = "drop" ELSE c.pc \in {"insert", "commit"}
      BY <2>1 DEF CallIn, InsertNext, Steps
    <2> HIDE DEF c
    <2>7. Stands(c, lastTeam)
      BY <2>2, <2>5, <2>6 DEF Stands, Running, Steps, Outside, Writes
    <2> QED  BY <1>1, <2>4, <2>6, <2>7, ReaderTyped DEF Fits
  <1>5. CASE Drop(i)
    <2> DEFINE g == IF call[i].kind = "reset" THEN teams ELSE {call[i].team}
               c == [call[i] EXCEPT !.pc = "commit", !.gone = g]
    <2>1. g \subseteq TeamId
      <3>1. teams \subseteq TeamId
        BY <1>1, BoundAssumption DEF Typed, TablesTyped, TeamId
      <3>2. call[i].kind # "reset" => call[i].team \in TeamId
        BY <1>1, <1>5, BoundAssumption DEF Stands, Drop, Writes, Running, Steps, TeamId, Typed, TablesTyped
      <3> QED  BY <3>1, <3>2
    <2>2. Advance(i, c) /\ UNCHANGED <<server, page, bounds, behind>>
      BY <1>5 DEF Drop
    <2> HIDE DEF g
    <2>3. c \in CallIn(Known)
      BY <1>1, <2>1 DEF CallIn, Steps
    <2>4. /\ c.pc = "commit" /\ c.kind = call[i].kind /\ c.gone = g /\ c.team = call[i].team
          /\ c.seen = call[i].seen /\ c.dead = call[i].dead /\ c.born = call[i].born /\ c.players = call[i].players
          /\ c.own = call[i].own /\ c.squad = call[i].squad /\ call[i].pc = "drop"
      BY <1>1, <1>5 DEF CallIn, Drop
    <2> HIDE DEF c
    <2>5. Stands(c, lastTeam)
      BY <1>1, <2>4 DEF Stands, Running, Steps, Outside, Writes
    <2> QED  BY <1>1, <2>2, <2>3, <2>5, ReaderTyped DEF Fits
  <1>6. ASSUME NEW p \in Player, Insert(i, p) PROVE Typed'
    <2> DEFINE r == [team |-> call[i].team, player |-> p]
               there == rows \ call[i].dead
               a == [call[i] EXCEPT !.left = @ \ {p}, !.born = @ \cup ({r} \ there)]
               c == InsertNext(a)
    <2>1. /\ call[i].pc = "insert" /\ p \in call[i].left /\ UNCHANGED <<server, page, bounds, behind>>
          /\ Advance(i, IF r \notin there /\ Taken(i, p) THEN End(call[i], "unique") ELSE c)
      BY <1>6 DEF Insert
    <2>2. CASE r \notin there /\ Taken(i, p)
      BY <1>1, <2>1, <2>2, EndTyped
    <2>3. CASE ~(r \notin there /\ Taken(i, p))
      <3>1. call[i].team \in 1..lastTeam /\ call[i].team \in TeamId
        BY <1>1, <2>1, BoundAssumption DEF Stands, Writes, Running, Steps, TeamId, Typed, TablesTyped
      <3>2. r \in RowIn(Known) /\ r.team <= lastTeam
        BY <1>1, <2>1, <3>1 DEF RowIn, CallIn
      <3>3. Advance(i, c)
        BY <2>1, <2>3
      <3> HIDE DEF r, there
      <3>4. a \in CallIn(Known)
        BY <1>1, <3>2 DEF CallIn
      <3>5. /\ a.kind = call[i].kind /\ a.gone = call[i].gone /\ a.seen = call[i].seen /\ a.team = call[i].team
            /\ a.dead = call[i].dead /\ a.born = call[i].born \cup ({r} \ there)
            /\ a.players = call[i].players /\ a.own = call[i].own /\ a.squad = call[i].squad
        BY <1>1 DEF CallIn
      <3> HIDE DEF a
      <3>6. /\ c \in CallIn(Known) /\ c.pc \in {"insert", "commit"}
            /\ c.kind = a.kind /\ c.gone = a.gone /\ c.seen = a.seen /\ c.team = a.team
            /\ c.dead = a.dead /\ c.born = a.born /\ c.players = a.players
            /\ c.own = a.own /\ c.squad = a.squad
        BY <3>4 DEF CallIn, InsertNext, Steps
      <3> HIDE DEF c
      <3>7. Stands(c, lastTeam)
        BY <1>1, <2>1, <3>1, <3>2, <3>5, <3>6 DEF Stands, Running, Steps, Outside, Writes
      <3> QED  BY <1>1, <2>1, <3>3, <3>6, <3>7, ReaderTyped DEF Fits
    <2> QED  BY <2>2, <2>3
  <1>7. CASE Abort(i)
    BY <1>1, <1>7, EndTyped DEF Abort
  <1> QED  BY <1>3, <1>4, <1>5, <1>6, <1>7, <1>9

\* What is shown of the tables.
LEMMA CompositionTyped ==
    ASSUME TablesTyped
    PROVE  Composition \in SquadsIn(Known) /\ DOMAIN Composition = teams
  <1>1. Composition = [t \in teams |-> Composition[t]] /\ DOMAIN Composition = teams
    BY DEF Composition
  <1>2. \A t \in teams : Composition[t] \subseteq Known
    BY DEF Composition, Members, TablesTyped
  <1>3. teams \subseteq TeamId
    BY BoundAssumption DEF TablesTyped, TeamId
  <1> QED  BY <1>1, <1>2, <1>3, SquadFacts

\* A transaction is committed: what it inserted is typed.
LEMMA CommitTyped ==
    ASSUME Typed, NEW i \in CallId, Commit(i)
    PROVE  Typed'
  <1> DEFINE x(j) == call[j].crossed \/ (call[j].team = call[i].team /\ call[j].pc \in Steps \ {"sent"})
             c(j) == IF j = i THEN End(call[i], "ok") ELSE [call[j] EXCEPT !.crossed = x(j)]
  <1>1. /\ call[i] \in CallIn(Known) /\ Stands(call[i], lastTeam) /\ lastTeam \in Nat
        /\ behind \in BOOLEAN /\ call[i].pc = "commit"
    BY CallFacts DEF Commit
  <1>2. /\ rows' = (rows \ call[i].dead) \cup call[i].born
        /\ teams' = (teams \cup (IF call[i].kind \in {"create", "bulk"} THEN {call[i].team} ELSE {})) \ call[i].gone
        /\ UNCHANGED <<alive, fresh, lastTeam, sent, page, bounds>>
        /\ behind' \in BOOLEAN
    BY DEF Commit
  <1>3. call' = [j \in CallId |-> c(j)]
    BY DEF Commit
  <1>4. rows' \subseteq RowIn(Known) /\ \A r \in rows' : r.team <= lastTeam
    BY <1>1, <1>2 DEF Typed, TablesTyped, CallIn, Stands
  <1>5. call[i].kind \in {"create", "bulk"} => call[i].team \in 1..lastTeam
    BY <1>1 DEF Stands, Writes, Running, Steps
  <1>6. teams' \subseteq 1..lastTeam
    BY <1>2, <1>5 DEF Typed, TablesTyped
  <1>7. TablesTyped' /\ Known' = Known /\ fresh' = fresh /\ lastTeam' = lastTeam /\ lastTeam <= lastTeam'
    BY <1>1, <1>2, <1>4, <1>6 DEF Typed, TablesTyped, Known, RowIn
  <1>8. ASSUME NEW j \in CallId
        PROVE  /\ Fits(c(j), Known, lastTeam)
               /\ j > sent => c(j).pc = "done"
    <2>1. CASE j = i
      <3>1. call[i].kind \in Writes \ {"reset"} => call[i].team \in 1..lastTeam
        BY <1>1 DEF Stands, Running, Steps
      <3>2. Fits(End(call[i], "ok"), Known, lastTeam)
        BY <1>1, <3>1, EndFits DEF Fits
      <3>3. ~(i > sent)
        BY <1>1 DEF Typed, CallsTyped
      <3> QED  BY <2>1, <3>2, <3>3
    <2>2. CASE j # i
      <3> DEFINE y == x(j)
                 d == [call[j] EXCEPT !.crossed = y]
      <3>1. y \in BOOLEAN
        OBVIOUS
      <3>2. call[j] \in CallIn(Known) /\ Stands(call[j], lastTeam)
        BY CallFacts
      <3>3. c(j) = d
        BY <2>2
      <3> HIDE DEF y, c, x
      <3>4. /\ d \in CallIn(Known) /\ d.pc = call[j].pc /\ d.kind = call[j].kind /\ d.gone = call[j].gone /\ d.seen = call[j].seen
            /\ d.team = call[j].team /\ d.dead = call[j].dead /\ d.born = call[j].born
            /\ d.players = call[j].players /\ d.own = call[j].own /\ d.squad = call[j].squad
        BY <3>1, <3>2 DEF CallIn
      <3> HIDE DEF d
      <3>5. Stands(d, lastTeam)
        BY <3>2, <3>4 DEF Stands
      <3>6. j > sent => d.pc = "done"
        BY <3>4 DEF Typed, CallsTyped
      <3> QED  BY <3>3, <3>4, <3>5, <3>6 DEF Fits
    <2> QED  BY <2>1, <2>2
  <1> HIDE DEF c, x
  <1>9. call' = [j \in CallId |-> call'[j]]
    BY <1>3
  <1>10. \A j \in CallId : Fits(call'[j], Known', lastTeam') /\ (j > sent' => call'[j].pc = "done")
    BY <1>2, <1>3, <1>7, <1>8
  <1>11. sent' \in 0..(MaxCalls + 1)
    BY <1>2 DEF Typed, CallsTyped
  <1>12. CallsTyped'
    BY <1>7, <1>9, <1>10, <1>11, CallsStayTyped
  <1>13. PageTyped' /\ CountsTyped'
    BY <1>2, <1>7, PageStaysTyped DEF Typed, CountsTyped, bounds
  <1> QED  BY <1>7, <1>12, <1>13 DEF Typed

\* The other handlers.
LEMMA ReadTyped ==
    ASSUME Typed, NEW i \in CallId,
           \/ Read(i) \/ DeletePlayer(i) \/ Rename(i)
           \/ \E p \in Player : CreatePlayer(i, p)
    PROVE  Typed'
  <1>1. /\ call[i] \in CallIn(Known) /\ Stands(call[i], lastTeam) /\ lastTeam \in Nat
        /\ behind \in BOOLEAN /\ call[i].pc = "sent"
    BY CallFacts DEF Read, DeletePlayer, Rename, CreatePlayer
  <1> lastTeam <= lastTeam
    BY <1>1
  <1>2. CASE Read(i)
    <2> DEFINE c == [call[i] EXCEPT !.pc = "ok", !.free = alive, !.squad = Composition]
    <2>1. Composition \in SquadsIn(Known) /\ alive \subseteq Known
      BY CompositionTyped DEF Typed, TablesTyped
    <2>2. c \in CallIn(Known)
      BY <1>1, <2>1 DEF CallIn
    <2>3. /\ c.pc = "ok" /\ c.kind = call[i].kind /\ c.gone = call[i].gone /\ c.seen = call[i].seen
          /\ c.dead = call[i].dead /\ c.born = call[i].born /\ c.kind \in {"load", "players"}
      BY <1>1, <1>2 DEF CallIn, Read
    <2>4. Advance(i, c) /\ UNCHANGED <<server, page, bounds>> /\ behind' \in BOOLEAN
      BY <1>2 DEF Read
    <2> HIDE DEF c
    <2>5. Stands(c, lastTeam)
      BY <1>1, <2>3 DEF Stands, Outside, Writes
    <2> QED  BY <1>1, <2>2, <2>4, <2>5, ReaderTyped DEF Fits
  <1>3. CASE DeletePlayer(i)
    <2> DEFINE c == End(call[i], IF call[i].players \subseteq alive THEN "ok" ELSE "error")
    <2>1. Fits(c, Known, lastTeam)
      BY <1>1, <1>3, EndFits DEF Fits, DeletePlayer, Writes
    <2>2. /\ call' = [call EXCEPT ![i] = c] /\ sent' = sent /\ alive' = alive \ call[i].players
          /\ UNCHANGED <<fresh, teams, lastTeam, rows, page, bounds>> /\ behind' \in BOOLEAN
      BY <1>3 DEF DeletePlayer, Advance
    <2> HIDE DEF c
    <2>3. TablesTyped' /\ Known' = Known
      BY <2>2 DEF Typed, TablesTyped, Known, RowIn
    <2> QED  BY <1>1, <2>1, <2>2, <2>3, HandlerTyped
  <1>4. CASE Rename(i)
    <2> DEFINE pc == IF call[i].players \subseteq alive /\ (call[i].kind = "rename" => call[i].team \in teams)
                     THEN "ok" ELSE "error"
    <2>1. Advance(i, End(call[i], pc)) /\ UNCHANGED <<server, page, bounds, behind>>
          /\ call[i].kind \notin Writes
      BY <1>4 DEF Rename, Writes
    <2>2. pc \in {"ok", "error"}
      OBVIOUS
    <2> HIDE DEF pc
    <2> QED  BY <1>1, <2>1, <2>2, EndTyped
  <1>5. ASSUME NEW p \in Player, CreatePlayer(i, p) PROVE Typed'
    <2> DEFINE a == [call[i] EXCEPT !.players = {p}]
               c == End(a, "ok")
    <2>1. /\ call' = [call EXCEPT ![i] = c] /\ sent' = sent
          /\ alive' = alive \cup {p} /\ fresh' = fresh \ {p} /\ p \in fresh
          /\ UNCHANGED <<teams, lastTeam, rows, page, bounds>> /\ behind' \in BOOLEAN
      BY <1>5 DEF CreatePlayer, Advance
    <2>2. Known' = Known \cup {p} /\ Known \subseteq Known'
      BY <2>1 DEF Known
    <2>3. TablesTyped'
      <3>1. alive' \subseteq Known' /\ fresh' \subseteq Player
        BY <2>1, <2>2 DEF Typed, TablesTyped
      <3>2. rows' \subseteq RowIn(Known')
        BY <2>1, <2>2 DEF Typed, TablesTyped, RowIn
      <3> QED  BY <2>1, <3>1, <3>2 DEF Typed, TablesTyped, Known, RowIn
    <2>4. Fits(call[i], Known', lastTeam')
      BY <1>1, <2>1, <2>2, FitsGrows DEF Fits
    <2>5. a \in CallIn(Known')
      BY <2>2, <2>4 DEF CallIn, Fits
    <2>6. /\ a.pc = "sent" /\ a.kind = "addPlayer" /\ a.gone = call[i].gone /\ a.seen = call[i].seen
          /\ a.dead = {} /\ a.born = {} /\ call[i].kind = "addPlayer"
      BY <1>1, <1>5 DEF CallIn, CreatePlayer, Stands, Outside
    <2> HIDE DEF a
    <2>7. Fits(a, Known', lastTeam')
      BY <1>1, <2>5, <2>6 DEF Fits, Stands, Outside, Writes
    <2>8. Fits(c, Known', lastTeam')
      BY <2>6, <2>7, EndFits DEF Writes
    <2> HIDE DEF c
    <2>9. lastTeam <= lastTeam' /\ fresh' \subseteq fresh
      BY <1>1, <2>1
    <2> QED  BY <1>1, <2>1, <2>3, <2>8, <2>9, HandlerTyped
  <1> QED  BY <1>2, <1>3, <1>4, <1>5

\* A finite set can be listed.
LEMMA ListFacts ==
    ASSUME NEW S, IsFiniteSet(S)
    PROVE  /\ Len(SetToSeq(S)) \in Nat /\ Len(SetToSeq(S)) = Cardinality(S)
           /\ \A k \in 1..Len(SetToSeq(S)) : SetToSeq(S)[k] \in S
  <1>1. Cardinality(S) \in Nat /\ ExistsBijection(1..Cardinality(S), S)
    BY FS_CardinalityType
  <1>2. PICK n \in Nat : n = Cardinality(S)
    BY <1>1
  <1>3. \E f \in [1..n -> S] : IsInjective(f)
    BY <1>1, <1>2 DEF ExistsBijection, Bijection, Injection
  <1>4. SetToSeq(S) = CHOOSE f \in [1..n -> S] : IsInjective(f)
    BY <1>2 DEF SetToSeq
  <1>5. SetToSeq(S) \in [1..n -> S]
    BY <1>3, <1>4
  <1>6. SetToSeq(S) \in Seq(S) /\ Len(SetToSeq(S)) = n
    BY <1>5
  <1> QED  BY <1>2, <1>5, <1>6

\* The page as it is found.
LEMMA InitTyped == Init => Typed
  <1> SUFFICES ASSUME Init PROVE Typed
    OBVIOUS
  <1>1. fresh \subseteq Player /\ alive = Known /\ teams = 1..Teams /\ lastTeam = Teams
    BY DEF Init, Known
  <1>2. lastTeam \in 0..MaxTeams /\ 1..lastTeam \subseteq TeamId
    BY <1>1, BoundAssumption DEF TeamId
  <1>3. rows \subseteq RowIn(Known) /\ \A r \in rows : r.team <= lastTeam
    <2>1. PICK T \in SUBSET alive :
            \E s \in [T -> teams] : rows = {[team |-> s[p], player |-> p] : p \in T}
      BY DEF Init
    <2>2. PICK s \in [T -> teams] : rows = {[team |-> s[p], player |-> p] : p \in T}
      BY <2>1
    <2>3. \A p \in T : s[p] \in 1..lastTeam /\ s[p] \in TeamId /\ s[p] <= lastTeam /\ p \in Known
      BY <1>1, <1>2, <2>2
    <2> QED  BY <2>2, <2>3 DEF RowIn
  <1>4. TablesTyped
    BY <1>1, <1>2, <1>3 DEF TablesTyped
  <1>5. call = [i \in CallId |-> Done] /\ sent = 0
    BY DEF Init
  <1>6. \A i \in CallId : Fits(call[i], Known, lastTeam) /\ call[i].pc = "done"
    BY <1>5, DoneFits DEF Done
  <1>7. CallsTyped
    BY <1>5, <1>6, BoundAssumption DEF CallsTyped, Fits
  <1>8. Composition \in SquadsIn(Known)
    BY <1>4, CompositionTyped
  <1>9. open = TRUE /\ squad = Composition /\ free \subseteq alive /\ picked = {} /\ timers = {}
        /\ taps = 0 /\ others = 0 /\ behind = FALSE
    BY DEF Init
  <1>10. PageTyped
    BY <1>1, <1>8, <1>9 DEF PageTyped
  <1>11. CountsTyped
    <2>1. taps \in 0..MaxTaps /\ others \in 0..MaxOthers
      BY <1>9, BoundAssumption
    <2> QED  BY <1>9, <2>1 DEF CountsTyped
  <1> QED  BY <1>4, <1>7, <1>10, <1>11 DEF Typed

\* A request is sent, and another call may be over.
LEMMA SendTyped ==
    ASSUME Typed, UNCHANGED server, NEW c, Fits(c, Known, lastTeam), NEW calls,
           calls = call \/ (\E i \in CallId : calls = Close(i))
                        \/ \E i \in CallId : InFlight(i) /\ calls = Abandon(i),
           Send(calls, c) \/ (call' = calls /\ sent' = sent)
    PROVE  TablesTyped' /\ CallsTyped' /\ Known' = Known
  <1>1. TablesTyped' /\ Known' = Known /\ lastTeam' = lastTeam /\ fresh' = fresh
    BY DEF Typed, TablesTyped, server, Known, RowIn
  <1>2. lastTeam <= lastTeam' /\ sent \in Nat /\ MaxCalls \in Nat /\ sent <= MaxCalls + 1
    BY <1>1, BoundAssumption DEF Typed, TablesTyped, CallsTyped
  <1>3. Fits(Done, Known, lastTeam) /\ Done.pc = "done"
    BY DoneFits DEF Done
  <1> DEFINE d(j) == [call[j] EXCEPT !.own = FALSE]
  <1>9. ASSUME NEW j \in CallId PROVE Fits(d(j), Known, lastTeam) /\ d(j).pc = call[j].pc
    <2> DEFINE o == call[j]
               e == [o EXCEPT !.own = FALSE]
    <2>1. o \in CallIn(Known) /\ Stands(o, lastTeam)
      BY CallFacts
    <2> HIDE DEF o
    <2>2. /\ e \in CallIn(Known) /\ e.pc = o.pc /\ e.kind = o.kind /\ e.gone = o.gone /\ e.own = FALSE
          /\ e.team = o.team /\ e.seen = o.seen /\ e.dead = o.dead /\ e.born = o.born
          /\ e.players = o.players
      BY <2>1 DEF CallIn
    <2> HIDE DEF e
    <2>3. Stands(e, lastTeam)
      BY <2>1, <2>2 DEF Stands
    <2> QED  BY <2>2, <2>3 DEF Fits, e, o
  <1>4. /\ DOMAIN calls = CallId /\ calls = [j \in CallId |-> calls[j]]
        /\ \A j \in CallId : calls[j] = call[j] \/ calls[j] = Done \/ calls[j] = d(j)
    BY DEF Typed, CallsTyped, Close, Abandon
  <1> HIDE DEF d
  <1>5. /\ call' = [j \in CallId |-> call'[j]]
        /\ \A j \in CallId : call'[j] = calls[j] \/ (call'[j] = c /\ j = sent + 1 /\ sent' = sent + 1)
    BY <1>4 DEF Send
  <1>6. sent' \in 0..(MaxCalls + 1) /\ sent <= sent'
    BY <1>2 DEF Send
  <1>7. \A j \in CallId : j > sent' => call'[j].pc = "done"
    <2> SUFFICES ASSUME NEW j \in CallId, j > sent' PROVE call'[j].pc = "done"
      OBVIOUS
    <2>1. j \in Nat /\ j > sent /\ j # sent'
      BY <1>2, <1>6 DEF CallId
    <2>2. call'[j] = calls[j]
      BY <1>5, <2>1
    <2> QED  BY <1>3, <1>4, <1>9, <2>1, <2>2 DEF Typed, CallsTyped
  <1>8. \A j \in CallId : call'[j] = call[j] \/ Fits(call'[j], Known', lastTeam')
    BY <1>1, <1>3, <1>4, <1>5, <1>9
  <1> QED  BY <1>1, <1>2, <1>5, <1>6, <1>7, <1>8, CallsStayTyped

\* A call is over.
LEMMA FinishTyped ==
    ASSUME Typed, UNCHANGED server, NEW i \in CallId, Finish(i)
    PROVE  TablesTyped' /\ CallsTyped' /\ Known' = Known
  BY SendTyped, DoneFits DEF Finish

\* The page's own data are typed.
LEMMA PageFacts ==
    ASSUME Typed
    PROVE  /\ free \subseteq Known /\ squad \in SquadsIn(Known) /\ DOMAIN squad \subseteq TeamId
           /\ \A t \in DOMAIN squad : squad[t] \subseteq Known
           /\ TeamId \subseteq 0..MaxTeams /\ 0 \in 0..MaxTeams
  <1>1. free \subseteq Known /\ squad \in SquadsIn(Known)
    BY DEF Typed, PageTyped
  <1>2. TeamId \subseteq 0..MaxTeams /\ 0 \in 0..MaxTeams
    BY BoundAssumption DEF TeamId
  <1> QED  BY <1>1, <1>2, SquadFacts

\* The page is left: each request of the last ones is typed.
LEMMA LeaveTyped == Typed /\ Leave => Typed'
  <1> SUFFICES ASSUME Typed, Leave PROVE Typed'
    OBVIOUS
  <1> DEFINE S == timers \cap DOMAIN squad
             last == SetToSeq(S)
             req(i) == Request("update", last[i - sent], squad[last[i - sent]])
             old(i) == IF i \in sent + 1..sent' THEN req(i) ELSE call[i]
             c(i) == [old(i) EXCEPT !.own = FALSE]
  <1>1. IsFiniteSet(S)
    <2>1. IsFiniteSet(TeamId)
      BY BoundAssumption, FS_Interval DEF TeamId
    <2>2. S \subseteq TeamId
      BY DEF Typed, PageTyped
    <2> QED  BY <2>1, <2>2, FS_Subset
  <1>2. Len(last) \in Nat /\ \A k \in 1..Len(last) : last[k] \in S
    BY <1>1, ListFacts
  <1>3. /\ sent' = sent + Len(last) /\ sent' <= MaxCalls /\ call' = [i \in CallId |-> c(i)]
        /\ open' = FALSE /\ behind' = TRUE /\ UNCHANGED <<server, bounds>>
        /\ free' = {} /\ squad' = Nowhere /\ picked' = {} /\ timers' = {}
    BY DEF Leave
  <1>4. TablesTyped' /\ Known' = Known /\ lastTeam' = lastTeam /\ fresh' = fresh
    BY <1>3 DEF Typed, TablesTyped, server, Known, RowIn
  <1>5. sent \in Nat /\ sent' \in Nat /\ MaxCalls \in Nat /\ lastTeam <= lastTeam'
    BY <1>2, <1>3, <1>4, BoundAssumption DEF Typed, CallsTyped, TablesTyped
  <1>6. ASSUME NEW i \in CallId
        PROVE  /\ Fits(c(i), Known, lastTeam)
               /\ i > sent' => c(i).pc = "done"
    <2> DEFINE o == old(i)
               d == [o EXCEPT !.own = FALSE]
    <2>1. i \in Nat
      BY DEF CallId
    <2>2. Fits(o, Known, lastTeam)
      <3>1. CASE i \in sent + 1..sent'
        <4>1. \A k : k = i - sent => k \in 1..Len(last)
          BY <1>2, <1>3, <1>5, <2>1, <3>1
        <4>2. last[i - sent] \in S
          BY <1>2, <4>1
        <4> DEFINE t == last[i - sent]
        <4>3. t \in 0..MaxTeams /\ squad[t] \subseteq Known
          BY <4>2, PageFacts
        <4>4. o = Request("update", t, squad[t])
          BY <3>1
        <4> HIDE DEF t, o
        <4>5. "update" \in Kinds
          BY DEF Kinds
        <4> QED  BY <4>3, <4>4, <4>5, PageFacts, RequestFits
      <3>2. CASE i \notin sent + 1..sent'
        BY <3>2 DEF Typed, CallsTyped
      <3> QED  BY <3>1, <3>2
    <2>3. i > sent' => o.pc = "done"
      <3>1. i > sent' => o = call[i] /\ i > sent
        BY <1>2, <1>3, <1>5, <2>1
      <3> QED  BY <3>1 DEF Typed, CallsTyped
    <2>4. c(i) = d
      OBVIOUS
    <2> HIDE DEF o, c
    <2>5. /\ d \in CallIn(Known) /\ d.pc = o.pc /\ d.kind = o.kind /\ d.gone = o.gone /\ d.seen = o.seen /\ d.own = FALSE
          /\ d.team = o.team /\ d.dead = o.dead /\ d.born = o.born /\ d.players = o.players
      BY <2>2 DEF CallIn, Fits
    <2> HIDE DEF d
    <2>6. Stands(d, lastTeam)
      BY <2>2, <2>5 DEF Stands, Fits
    <2> QED  BY <2>3, <2>4, <2>5, <2>6 DEF Fits
  <1> HIDE DEF c, last, S
  <1>7. /\ sent' \in 0..(MaxCalls + 1) /\ call' = [j \in CallId |-> call'[j]]
        /\ \A j \in CallId : Fits(call'[j], Known', lastTeam') /\ (j > sent' => call'[j].pc = "done")
    BY <1>3, <1>4, <1>5, <1>6
  <1>8. CallsTyped'
    BY <1>4, <1>5, <1>7, CallsStayTyped
  <1>9. PageTyped' /\ CountsTyped'
    BY <1>3, NowhereFacts DEF Typed, PageTyped, CountsTyped, bounds, SquadsIn
  <1> QED  BY <1>4, <1>8, <1>9 DEF Typed

\* The page is opened, tapped, or sends what it has.
LEMMA PageStepTyped == Typed /\ PageStep => Typed'
  <1> SUFFICES ASSUME Typed, PageStep PROVE Typed'
    OBVIOUS
  <1>1. /\ free \subseteq Known /\ squad \in SquadsIn(Known) /\ DOMAIN squad \subseteq TeamId
        /\ \A t \in DOMAIN squad : squad[t] \subseteq Known
        /\ TeamId \subseteq 0..MaxTeams /\ 0 \in 0..MaxTeams
        /\ picked \subseteq Known /\ timers \subseteq TeamId /\ open \in BOOLEAN /\ CountsTyped
    BY PageFacts DEF Typed, PageTyped
  <1>2. ASSUME UNCHANGED server PROVE TablesTyped' /\ Known' = Known /\ lastTeam' = lastTeam
    BY <1>2 DEF Typed, TablesTyped, server, Known, RowIn
  <1>3. ASSUME UNCHANGED server, call' = call, sent' = sent PROVE CallsTyped' /\ TablesTyped' /\ Known' = Known
    BY <1>3, SendTyped, DoneFits
  <1>4. ASSUME Tap PROVE taps' \in 0..MaxTaps /\ others' = others
    BY <1>4, BoundAssumption DEF Tap, Typed, CountsTyped
  <1>5. CASE Open
    <2> DEFINE c == [Request("load", 0, {}) EXCEPT !.free = {}, !.squad = Nowhere]
    <2>1. Fits(c, Known, lastTeam)
      BY <1>1, OthersFit DEF Kinds
    <2>2. Send(call, c) /\ UNCHANGED server
      BY <1>5 DEF Open
    <2> HIDE DEF c
    <2>3. CallsTyped' /\ TablesTyped' /\ Known' = Known
      BY <2>1, <2>2, SendTyped
    <2>4. PageTyped' /\ CountsTyped'
      BY <1>1, <1>5, NowhereFacts DEF Open, PageTyped, CountsTyped, bounds, SquadsIn
    <2> QED  BY <2>3, <2>4 DEF Typed
  <1>6. CASE Leave
    BY <1>6, LeaveTyped
  <1>7. ASSUME NEW p \in Player, Select(p) PROVE Typed'
    <2>1. CallsTyped' /\ TablesTyped' /\ Known' = Known
      BY <1>3, <1>7 DEF Select
    <2>2. PageTyped' /\ CountsTyped'
      BY <1>1, <1>4, <1>7, <2>1 DEF Select, PageTyped, CountsTyped, SquadsIn
    <2> QED  BY <2>1, <2>2 DEF Typed
  <1>8. ASSUME NEW t \in TeamId, AddToTeam(t) PROVE Typed'
    <2>1. CallsTyped' /\ TablesTyped' /\ Known' = Known
      BY <1>3, <1>8 DEF AddToTeam
    <2>2. squad' \in SquadsIn(Known)
      <3>1. squad' = [squad EXCEPT ![t] = @ \cup picked]
        BY <1>8 DEF AddToTeam
      <3>2. squad' = [u \in DOMAIN squad |-> IF u = t THEN squad[u] \cup picked ELSE squad[u]]
        BY <3>1
      <3>3. squad' = [u \in DOMAIN squad' |-> squad'[u]] /\ DOMAIN squad' = DOMAIN squad
        BY <3>2
      <3>4. \A u \in DOMAIN squad' : squad'[u] \subseteq Known
        BY <1>1, <3>2
      <3> QED  BY <1>1, <3>3, <3>4, SquadFacts
    <2>3. PageTyped' /\ CountsTyped'
      BY <1>1, <1>4, <1>8, <2>1, <2>2 DEF AddToTeam, ScheduleSync, PageTyped, CountsTyped, SquadsIn
    <2> QED  BY <2>1, <2>3 DEF Typed
  <1>9. ASSUME NEW t \in TeamId, NEW p \in Player, RemoveFromTeam(t, p) PROVE Typed'
    <2>1. CallsTyped' /\ TablesTyped' /\ Known' = Known
      BY <1>3, <1>9 DEF RemoveFromTeam
    <2>2. squad' \in SquadsIn(Known) /\ p \in Known
      <3>1. squad' = [squad EXCEPT ![t] = @ \ {p}] /\ t \in DOMAIN squad /\ p \in squad[t]
        BY <1>9 DEF RemoveFromTeam
      <3>2. squad' = [u \in DOMAIN squad |-> IF u = t THEN squad[u] \ {p} ELSE squad[u]]
        BY <3>1
      <3>3. squad' = [u \in DOMAIN squad' |-> squad'[u]] /\ DOMAIN squad' = DOMAIN squad
        BY <3>2
      <3>4. \A u \in DOMAIN squad' : squad'[u] \subseteq Known
        BY <1>1, <3>2
      <3>5. squad' \in SquadsIn(Known)
        BY <1>1, <3>3, <3>4, SquadFacts
      <3> QED  BY <1>1, <3>1, <3>5
    <2>3. PageTyped' /\ CountsTyped'
      BY <1>1, <1>4, <1>9, <2>1, <2>2 DEF RemoveFromTeam, ScheduleSync, PageTyped, CountsTyped, SquadsIn
    <2> QED  BY <2>1, <2>3 DEF Typed
  <1>10. ASSUME NEW t \in TeamId, Fire(t) PROVE Typed'
    <2> DEFINE c == Request("update", t, squad[t])
    <2>1. t \in DOMAIN squad => Fits(c, Known, lastTeam)
      BY <1>1, RequestFits DEF Kinds
    <2>2. UNCHANGED server /\ IF t \in DOMAIN squad THEN Send(call, c) ELSE call' = call /\ sent' = sent
      BY <1>10 DEF Fire
    <2> HIDE DEF c
    <2>3. CallsTyped' /\ TablesTyped' /\ Known' = Known
      BY <1>3, <2>1, <2>2, SendTyped
    <2>4. PageTyped' /\ CountsTyped'
      BY <1>1, <1>10, <2>3 DEF Fire, PageTyped, CountsTyped, bounds, SquadsIn
    <2> QED  BY <2>3, <2>4 DEF Typed
  <1>11. ASSUME NEW k \in Kinds, NEW t \in 0..MaxTeams, NEW S, S = {} \/ k \in {"deletePlayer", "savePlayer"},
                Submit(k, t, S)
         PROVE  Typed'
    <2> DEFINE c == Request(k, t, S)
    <2>1. S \subseteq Known
      BY <1>1, <1>11 DEF Submit, Assigned
    <2>2. Fits(c, Known, lastTeam)
      BY <1>1, <1>11, <2>1, RequestFits DEF Submit
    <2>3. Send(call, c) /\ UNCHANGED <<server, page>>
      BY <1>11 DEF Submit
    <2> HIDE DEF c
    <2>4. CallsTyped' /\ TablesTyped' /\ Known' = Known
      BY <2>2, <2>3, SendTyped
    <2>5. PageTyped' /\ CountsTyped'
      BY <1>1, <1>4, <1>11, <2>3, <2>4 DEF Submit, PageTyped, CountsTyped, SquadsIn, page
    <2> QED  BY <2>4, <2>5 DEF Typed
  <1>12. ASSUME NEW k \in {"create", "reset", "addPlayer"}, Submit(k, 0, {}) PROVE Typed'
    BY <1>1, <1>11, <1>12 DEF Kinds
  <1>13. ASSUME NEW k \in {"delete", "rename"}, NEW t \in TeamId, Submit(k, t, {}) PROVE Typed'
    BY <1>1, <1>11, <1>13 DEF Kinds
  <1>14. ASSUME NEW k \in {"deletePlayer", "savePlayer"}, NEW p \in Player, Submit(k, 0, {p}) PROVE Typed'
    BY <1>1, <1>11, <1>14 DEF Kinds
  <1> QED  BY <1>5, <1>6, <1>7, <1>8, <1>9, <1>10, <1>12, <1>13, <1>14 DEF PageStep

\* Another device sends a request.
LEMMA OtherStepTyped == Typed /\ OtherStep => Typed'
  <1> SUFFICES ASSUME Typed, OtherStep PROVE Typed'
    OBVIOUS
  <1>1. /\ free \subseteq Known /\ squad \in SquadsIn(Known)
        /\ TeamId \subseteq 0..MaxTeams /\ 0 \in 0..MaxTeams
    BY PageFacts
  <1>2. ASSUME NEW k \in Kinds, NEW t \in 0..MaxTeams, NEW S, S \subseteq Known, OtherCall(k, t, S)
        PROVE  Typed'
    <2> DEFINE c == [Request(k, t, S) EXCEPT !.own = FALSE, !.free = {}, !.squad = Nowhere]
    <2>1. Fits(c, Known, lastTeam)
      BY <1>1, <1>2, OthersFit
    <2>2. Send(call, c) /\ UNCHANGED <<server, page, taps>> /\ behind' = TRUE
          /\ others < MaxOthers /\ others' = others + 1
      BY <1>2 DEF OtherCall
    <2> HIDE DEF c
    <2>3. CallsTyped' /\ TablesTyped' /\ Known' = Known
      BY <2>1, <2>2, SendTyped
    <2>4. PageTyped' /\ CountsTyped'
      BY <1>1, <2>2, <2>3, BoundAssumption DEF Typed, PageTyped, CountsTyped, SquadsIn, page
    <2> QED  BY <2>3, <2>4 DEF Typed
  <1>3. ASSUME NEW t \in TeamId, NEW S \in SUBSET (Player \ fresh), OtherCall("update", t, S) PROVE Typed'
    BY <1>1, <1>2, <1>3 DEF Kinds, Known
  <1>4. ASSUME NEW k \in {"create", "bulk"}, NEW S \in SUBSET (Player \ fresh), OtherCall(k, 0, S) PROVE Typed'
    BY <1>1, <1>2, <1>4 DEF Kinds, Known
  <1>5. ASSUME NEW t \in TeamId, OtherCall("delete", t, {}) PROVE Typed'
    BY <1>1, <1>2, <1>5 DEF Kinds
  <1>6. ASSUME OtherCall("reset", 0, {}) PROVE Typed'
    BY <1>1, <1>2, <1>6 DEF Kinds
  <1>7. ASSUME NEW p \in Player \ fresh, OtherCall("deletePlayer", 0, {p}) PROVE Typed'
    BY <1>1, <1>2, <1>7 DEF Kinds, Known
  <1> QED  BY <1>3, <1>4, <1>5, <1>6, <1>7 DEF OtherStep

\* An answer is handled: what it shows was typed in its closure.
LEMMA AnswerTyped ==
    ASSUME Typed, NEW i \in CallId, AnswerStep(i)
    PROVE  Typed'
  <1>1. /\ free \subseteq Known /\ squad \in SquadsIn(Known) /\ DOMAIN squad \subseteq TeamId
        /\ \A t \in DOMAIN squad : squad[t] \subseteq Known
        /\ TeamId \subseteq 0..MaxTeams /\ 0 \in 0..MaxTeams
        /\ picked \subseteq Known /\ timers \subseteq TeamId /\ open \in BOOLEAN /\ CountsTyped
    BY PageFacts DEF Typed, PageTyped
  <1>2. call[i] \in CallIn(Known) /\ Stands(call[i], lastTeam) /\ lastTeam \in 0..MaxTeams /\ lastTeam \in Nat
    BY CallFacts DEF Typed, TablesTyped
  <1>3. /\ call[i].free \subseteq Known /\ call[i].squad \in SquadsIn(Known) /\ call[i].players \subseteq Known
        /\ DOMAIN call[i].squad \subseteq TeamId
        /\ \A t \in DOMAIN call[i].squad : call[i].squad[t] \subseteq Known
    <2>1. call[i].free \subseteq Known /\ call[i].squad \in SquadsIn(Known) /\ call[i].players \subseteq Known
      BY <1>2 DEF CallIn
    <2> QED  BY <2>1, SquadFacts
  <1>4. ASSUME NEW f, f \subseteq Known, NEW s, s \in SquadsIn(Known), free' = f, squad' = s,
               UNCHANGED <<server, open, picked, timers, bounds>>, behind' \in BOOLEAN,
               CallsTyped' /\ TablesTyped' /\ Known' = Known
        PROVE  Typed'
    <2>1. PageTyped' /\ CountsTyped'
      BY <1>1, <1>4 DEF PageTyped, CountsTyped, bounds, SquadsIn
    <2> QED  BY <1>4, <2>1 DEF Typed
  <1>5. ASSUME Finish(i), UNCHANGED server PROVE CallsTyped' /\ TablesTyped' /\ Known' = Known
    BY <1>5, FinishTyped
  <1>6. CASE LoadAnswer(i)
    BY <1>1, <1>3, <1>4, <1>5, <1>6 DEF LoadAnswer, CountsTyped
  <1>7. CASE CreateAnswer(i)
    <2> DEFINE s == [u \in DOMAIN call[i].squad \cup {call[i].team} |->
                       IF u = call[i].team THEN {} ELSE call[i].squad[u]]
    <2>1. call[i].team \in TeamId
      BY <1>2, <1>7, BoundAssumption DEF CreateAnswer, Answered, Stands, Writes, TeamId
    <2>2. s \in SquadsIn(Known)
      <3>1. s = [t \in DOMAIN s |-> s[t]] /\ DOMAIN s \subseteq TeamId
        BY <1>3, <2>1
      <3>2. \A t \in DOMAIN s : s[t] \subseteq Known
        BY <1>3
      <3> HIDE DEF s
      <3> QED  BY <3>1, <3>2, SquadFacts
    <2>3. Show(i, free, s) /\ Finish(i)
      BY <1>7 DEF CreateAnswer
    <2> HIDE DEF s
    <2> QED  BY <1>1, <1>4, <1>5, <2>2, <2>3 DEF Show
  <1>8. CASE DeleteAnswer(i)
    <2> DEFINE s == Without(call[i].squad, call[i].team)
               f == call[i].free \cup call[i].squad[call[i].team]
    <2>1. call[i].team \in DOMAIN call[i].squad
      BY <1>2, <1>8 DEF DeleteAnswer, Answered, Stands, Mine
    <2>2. s \in SquadsIn(Known)
      <3>1. s = [t \in DOMAIN s |-> s[t]] /\ DOMAIN s \subseteq TeamId
        BY <1>3 DEF Without
      <3>2. \A t \in DOMAIN s : s[t] \subseteq Known
        BY <1>3 DEF Without
      <3> HIDE DEF s
      <3> QED  BY <3>1, <3>2, SquadFacts
    <2>3. f \subseteq Known
      BY <1>3, <2>1
    <2>4. Show(i, f, s) /\ Finish(i)
      BY <1>8 DEF DeleteAnswer
    <2> HIDE DEF s, f
    <2> QED  BY <1>1, <1>4, <1>5, <2>2, <2>3, <2>4 DEF Show
  <1>9. CASE ResetAnswer(i)
    <2> DEFINE c == [Request("players", 0, {}) EXCEPT !.squad = Nowhere]
    <2>1. Fits(c, Known, lastTeam)
      BY <1>1, OthersFit DEF Kinds
    <2>2. Send(Close(i), c) /\ Show(i, free, Nowhere)
      BY <1>9 DEF ResetAnswer
    <2> HIDE DEF c
    <2>3. CallsTyped' /\ TablesTyped' /\ Known' = Known
      BY <2>1, <2>2, SendTyped DEF Show
    <2>4. Nowhere \in SquadsIn(Known)
      BY NowhereFacts
    <2> QED  BY <1>1, <1>4, <2>2, <2>3, <2>4 DEF Show
  <1>10. CASE PlayersAnswer(i)
    BY <1>1, <1>3, <1>4, <1>5, <1>10 DEF PlayersAnswer, CountsTyped
  <1>11. CASE AddPlayerAnswer(i)
    BY <1>1, <1>3, <1>4, <1>5, <1>11 DEF AddPlayerAnswer, Show
  <1>12. CASE DeletePlayerAnswer(i)
    <2> DEFINE s == [u \in DOMAIN call[i].squad |-> call[i].squad[u] \ call[i].players]
    <2>1. s \in SquadsIn(Known)
      <3>1. s = [t \in DOMAIN s |-> s[t]] /\ DOMAIN s \subseteq TeamId /\ \A t \in DOMAIN s : s[t] \subseteq Known
        BY <1>3
      <3> HIDE DEF s
      <3> QED  BY <3>1, SquadFacts
    <2>2. Show(i, call[i].free \ call[i].players, s) /\ Finish(i)
      BY <1>12 DEF DeletePlayerAnswer
    <2> HIDE DEF s
    <2> QED  BY <1>3, <1>4, <1>5, <2>1, <2>2 DEF Show
  <1>13. CASE SavePlayerAnswer(i)
    BY <1>1, <1>3, <1>4, <1>5, <1>13 DEF SavePlayerAnswer, Show
  <1>14. CASE RenameAnswer(i)
    BY <1>1, <1>3, <1>4, <1>5, <1>14 DEF RenameAnswer, Show
  <1>15. CASE UpdateAnswer(i)
    BY <1>1, <1>4, <1>5, <1>15 DEF UpdateAnswer, page, server, CountsTyped
  <1>16. CASE FailedAnswer(i)
    <2> DEFINE c == Request("load", 0, {})
    <2>1. Fits(c, Known, lastTeam)
      BY <1>1, RequestFits DEF Kinds
    <2>2. (Send(Close(i), c) \/ Finish(i)) /\ UNCHANGED <<server, page, bounds>> /\ behind' \in BOOLEAN
      BY <1>1, <1>16 DEF FailedAnswer, Reload, CountsTyped
    <2> HIDE DEF c
    <2>3. CallsTyped' /\ TablesTyped' /\ Known' = Known
      BY <1>5, <2>1, <2>2, SendTyped
    <2> QED  BY <1>1, <1>4, <2>2, <2>3 DEF page
  <1>17. CASE LostCall(i)
    <2> DEFINE c == Request("load", 0, {})
               calls == Abandon(i)
    <2>1. Fits(c, Known, lastTeam)
      BY <1>1, RequestFits DEF Kinds
    <2>2. /\ Send(calls, c) \/ (call' = calls /\ sent' = sent)
          /\ InFlight(i) /\ UNCHANGED <<server, page, bounds>> /\ behind' \in BOOLEAN
      BY <1>17 DEF LostCall, Mine
    <2> HIDE DEF c
    <2>3. CallsTyped' /\ TablesTyped' /\ Known' = Known
      BY <2>1, <2>2, SendTyped
    <2> QED  BY <1>1, <1>4, <2>2, <2>3 DEF page
  <1> QED  BY <1>6, <1>7, <1>8, <1>9, <1>10, <1>11, <1>12, <1>13, <1>14, <1>15, <1>16, <1>17 DEF AnswerStep

\* Every step keeps the types.
LEMMA NextTyped == Typed /\ [Next]_vars => Typed'
  <1> SUFFICES ASSUME Typed, [Next]_vars PROVE Typed'
    OBVIOUS
  <1>1. CASE UNCHANGED vars
    <2>1. CallsTyped' /\ TablesTyped' /\ Known' = Known /\ UNCHANGED page /\ fresh' = fresh
      BY <1>1, SendTyped, DoneFits DEF vars, server
    <2>2. CountsTyped'
      BY <1>1 DEF vars, bounds, Typed, CountsTyped
    <2> QED  BY <2>1, <2>2, PageStaysTyped DEF Typed
  <1>2. ASSUME NEW i \in CallId, ServerStep(i) PROVE Typed'
    BY <1>2, BeginTyped, TransactionTyped, CommitTyped, ReadTyped DEF ServerStep
  <1> QED  BY <1>1, <1>2, PageStepTyped, OtherStepTyped, AnswerTyped DEF Next

\* Rows, calls and the page stay in their domains.
THEOREM TeamTypeCorrect == Spec => []TypeOK
  <1>1. Typed => TypeOK
    <2> SUFFICES ASSUME Typed PROVE TypeOK
      OBVIOUS
    <2>1. Known \subseteq Player
      BY DEF Known
    <2>2. \A s : s \in SquadsIn(Known) => s \in SquadsIn(Player)
      BY <2>1, SquadFacts
    <2>3. Squads = SquadsIn(Player) /\ Row = RowIn(Player)
      BY DEF Squads, SquadsIn, Row, RowIn
    <2>4. Call = CallIn(Player)
      BY <2>3 DEF Call, CallIn
    <2>5. \A c : c \in CallIn(Known) => c \in CallIn(Player)
      BY <2>1, <2>2 DEF CallIn, RowIn
    <2>6. call \in [CallId -> Call]
      BY <2>4, <2>5 DEF Typed, CallsTyped
    <2>7. rows \subseteq Row
      BY <2>1, <2>3 DEF Typed, TablesTyped, RowIn
    <2> QED  BY <2>1, <2>2, <2>3, <2>6, <2>7 DEF Typed, TablesTyped, CallsTyped, PageTyped, CountsTyped, TypeOK
  <1> QED  BY <1>1, InitTyped, NextTyped, PTL DEF Spec

-----------------------------------------------------------------------------
(* What the page shows                                                     *)

\* The updates of teams that are under way, and the rows that there will be when they have
\* been committed in the order in which they were sent.
Updating   == {i \in CallId : call[i].kind = "update" /\ call[i].pc \in Steps}
Over(i, r) == r.team = call[i].team \/ r.player \in call[i].players
Sets(i, r) == r.team = call[i].team /\ r.player \in call[i].players
Ending     == {r \in Row : \/ \E i \in Updating : Sets(i, r) /\ \A j \in Updating : j > i => ~Over(j, r)
                           \/ r \in rows /\ \A j \in Updating : ~Over(j, r)}

\* Free players f and squads s are those of the players A and teams W once the rows are E;
\* the teams T may differ from their rows.
InSync(f, s, T, A, W, E) ==
    /\ DOMAIN s = W
    /\ \A t, u \in DOMAIN s : t # u => s[t] \cap s[u] = {}
    /\ \A t \in DOMAIN s : s[t] \cap f = {}
    /\ A = f \cup Assigned(s)
    /\ \A t \in DOMAIN s \ T, p \in A : p \in s[t] <=> [team |-> t, player |-> p] \in E

Edited       == timers \cap DOMAIN squad
Synced(f, s) == InSync(f, s, Edited, alive, teams, Ending)

\* Anything but an update or a load is the only call under way; what was lost is loaded again.
Single(i) == InFlight(i) /\ call[i].kind \notin {"update", "load"}
Lost(i)   == InFlight(i) /\ \/ call[i].kind = "load"
                            \/ call[i].kind = "update" /\ call[i].pc \in {"error", "unique"}
PageKinds == Kinds \ {"bulk", "none"}

\* What a transaction that runs alone has prepared, with the teams W and the rows R.
Prepared(c, W, R) ==
    /\ c.kind = "create" => /\ c.players = {} /\ c.left = {} /\ c.seen = {} /\ c.dead = {} /\ c.born = {}
                            /\ c.pc \in Running => c.team \notin W /\ \A r \in R : r.team # c.team
    /\ c.kind \in {"delete", "reset"} => c.seen = {} /\ c.born = {} /\ (c.pc = "clear" => c.dead = {})
    /\ c.kind = "delete" /\ c.pc \in {"drop", "commit"} => c.dead = {r \in R : r.team = c.team}
    /\ c.kind = "delete" /\ c.pc = "commit" => c.gone = {c.team}
    /\ c.kind = "reset" /\ c.pc = "commit" => c.gone = W
    /\ c.kind = "deletePlayer" => \E p \in Player : c.players = {p}

\* What the page would show is in step, if it handled the answer with nothing changed.
Confirmed(c, T, A, W, E) ==
    /\ c.kind = "create" =>
         InSync(c.free, [u \in DOMAIN c.squad \cup {c.team} |-> IF u = c.team THEN {} ELSE c.squad[u]],
                T, A, W, E)
    /\ c.kind = "delete" => InSync(c.free \cup c.squad[c.team], Without(c.squad, c.team), T, A, W, E)
    /\ c.kind = "reset" => W = {}
    /\ c.kind = "addPlayer" => InSync(c.free \cup c.players, c.squad, T, A, W, E)
    /\ c.kind = "deletePlayer" =>
         InSync(c.free \ c.players, [u \in DOMAIN c.squad |-> c.squad[u] \ c.players], T, A, W, E)
    /\ c.kind \in {"savePlayer", "rename"} => InSync(c.free, c.squad, T, A, W, E)

\* The page while its call c is the only one: the server still has what it was sent for, or
\* it was done.
Alone(c) ==
    IF c.kind = "players"
    THEN squad = Nowhere /\ teams = {} /\ (c.pc = "ok" => c.free = alive)
    ELSE /\ DOMAIN c.squad = DOMAIN squad
         /\ c.pc # "ok" => /\ Prepared(c, teams, rows)
                           /\ Synced(free, squad) /\ Synced(c.free, c.squad)
         /\ c.pc = "ok" => Confirmed(c, Edited, alive, teams, Ending)

Shown ==
    /\ open
    /\ \A i \in CallId : InFlight(i) => call[i].own /\ call[i].kind \in PageKinds
    /\ \A i, j \in CallId : Single(i) /\ InFlight(j) => i = j
    /\ \A i \in CallId : InFlight(i) /\ call[i].kind = "load" /\ call[i].pc = "ok" =>
          call[i].squad = Composition /\ call[i].free = alive /\ Updating = {}
    /\ (\A i \in CallId : ~Lost(i) /\ ~Single(i)) => Synced(free, squad)
    /\ \A i \in CallId : Single(i) => Alone(call[i])

\* While nothing set it behind, the page shows what will be when its updates have been
\* committed, but for the teams whose timers run, or loads it.
ShowInv == ~behind => Shown

\* A team whose timer was started may differ.
LEMMA SyncLoosens ==
    ASSUME NEW f, NEW s, NEW T, NEW U, NEW A, NEW W, NEW E, InSync(f, s, T, A, W, E),
           T \cap DOMAIN s \subseteq U
    PROVE  InSync(f, s, U, A, W, E)
  BY DEF InSync

\* Selected players that are free go to a team, and its timer starts.
LEMMA AddSync ==
    ASSUME NEW f, NEW s, NEW T, NEW A, NEW W, NEW E, InSync(f, s, T, A, W, E),
           NEW t \in DOMAIN s, NEW P, P \subseteq f
    PROVE  InSync(f \ P, [s EXCEPT ![t] = @ \cup P], T \cup {t}, A, W, E)
  <1> DEFINE z == [s EXCEPT ![t] = @ \cup P]
             g == f \ P
  <1>1. /\ DOMAIN z = DOMAIN s /\ z[t] = s[t] \cup P
        /\ \A u \in DOMAIN s : u # t => z[u] = s[u]
    OBVIOUS
  <1> HIDE DEF z
  <1>2. DOMAIN z = W /\ \A u \in DOMAIN z : z[u] \cap g = {}
    BY <1>1 DEF InSync
  <1>3. \A u, v \in DOMAIN z : u # v => z[u] \cap z[v] = {}
    BY <1>1 DEF InSync
  <1>4. Assigned(z) = Assigned(s) \cup P
    BY <1>1 DEF Assigned
  <1>5. A = g \cup Assigned(z)
    BY <1>4 DEF InSync
  <1>6. \A u \in DOMAIN z \ (T \cup {t}), p \in A : p \in z[u] <=> [team |-> u, player |-> p] \in E
    BY <1>1 DEF InSync
  <1> QED  BY <1>2, <1>3, <1>5, <1>6 DEF InSync, z

\* A player leaves a team, and its timer starts.
LEMMA RemoveSync ==
    ASSUME NEW f, NEW s, NEW T, NEW A, NEW W, NEW E, InSync(f, s, T, A, W, E),
           NEW t \in DOMAIN s, NEW p \in s[t]
    PROVE  InSync(f \cup {p}, [s EXCEPT ![t] = @ \ {p}], T \cup {t}, A, W, E)
  <1> DEFINE z == [s EXCEPT ![t] = @ \ {p}]
             g == f \cup {p}
  <1>1. /\ DOMAIN z = DOMAIN s /\ z[t] = s[t] \ {p}
        /\ \A u \in DOMAIN s : u # t => z[u] = s[u]
    OBVIOUS
  <1> HIDE DEF z
  <1>2. DOMAIN z = W /\ \A u \in DOMAIN z : z[u] \cap g = {}
    BY <1>1 DEF InSync
  <1>3. \A u, v \in DOMAIN z : u # v => z[u] \cap z[v] = {}
    BY <1>1 DEF InSync
  <1>4. Assigned(z) \cup {p} = Assigned(s)
    <2>1. Assigned(s) \subseteq Assigned(z) \cup {p}
      BY <1>1 DEF Assigned
    <2>2. Assigned(z) \subseteq Assigned(s) /\ p \in Assigned(s)
      BY <1>1 DEF Assigned
    <2> QED  BY <2>1, <2>2
  <1>5. A = g \cup Assigned(z)
    BY <1>4 DEF InSync
  <1>6. \A u \in DOMAIN z \ (T \cup {t}), q \in A : q \in z[u] <=> [team |-> u, player |-> q] \in E
    BY <1>1 DEF InSync
  <1> QED  BY <1>2, <1>3, <1>5, <1>6 DEF InSync, z

\* What a load brings is in step.
LEMMA CompositionSync ==
    ASSUME Typed, OneTeamPerPlayer, NEW T
    PROVE  InSync(alive \ Assigned(Composition), Composition, T, alive, teams, rows)
  <1>1. DOMAIN Composition = teams /\ \A t \in teams : Composition[t] = Members(t)
    BY DEF Composition
  <1>2. \A t, p : p \in Members(t) <=> p \in alive /\ [team |-> t, player |-> p] \in rows
    <2> SUFFICES ASSUME NEW t, NEW p
                 PROVE  p \in Members(t) <=> p \in alive /\ [team |-> t, player |-> p] \in rows
      OBVIOUS
    <2>1. \A r \in rows : r = [team |-> r.team, player |-> r.player]
      BY DEF Typed, TablesTyped, RowIn
    <2>2. ASSUME p \in Members(t) PROVE p \in alive /\ [team |-> t, player |-> p] \in rows
      <3>1. PICK r \in rows : r.team = t /\ r.player \in alive /\ p = r.player
        BY <2>2 DEF Members
      <3> QED  BY <2>1, <3>1
    <2>3. ASSUME p \in alive, [team |-> t, player |-> p] \in rows PROVE p \in Members(t)
      BY <2>3 DEF Members
    <2> QED  BY <2>2, <2>3
  <1>3. ASSUME NEW t, NEW u, NEW p, p \in Members(t), p \in Members(u) PROVE t = u
    <2> DEFINE x == [team |-> t, player |-> p]
               y == [team |-> u, player |-> p]
    <2>1. x \in rows /\ y \in rows
      BY <1>2, <1>3
    <2>2. x.player = p /\ y.player = p /\ x.team = t /\ y.team = u
      OBVIOUS
    <2> HIDE DEF x, y
    <2> QED  BY <2>1, <2>2 DEF OneTeamPerPlayer
  <1>4. Assigned(Composition) \subseteq alive
    BY <1>1, <1>2 DEF Assigned
  <1>5. \A t, u \in teams : t # u => Composition[t] \cap Composition[u] = {}
    BY <1>1, <1>3
  <1>6. \A t \in teams : Composition[t] \cap (alive \ Assigned(Composition)) = {}
    BY <1>1 DEF Assigned
  <1>7. \A t \in teams, p \in alive : p \in Composition[t] <=> [team |-> t, player |-> p] \in rows
    BY <1>1, <1>2
  <1> QED  BY <1>1, <1>4, <1>5, <1>6, <1>7 DEF InSync

\* What is in step, with nothing edited, is what a load would bring.
LEMMA InSyncIsComposition ==
    ASSUME Typed, InSync(free, squad, {}, alive, teams, rows)
    PROVE  squad = Composition /\ free = alive \ Assigned(squad)
  <1>1. squad = [t \in DOMAIN squad |-> squad[t]]
    BY SquadFacts DEF Typed, PageTyped
  <1>2. ASSUME NEW t \in teams PROVE squad[t] = Members(t)
    <2>1. \A r \in rows : r = [team |-> r.team, player |-> r.player]
      BY DEF Typed, TablesTyped, RowIn
    <2>2. squad[t] \subseteq alive
      BY DEF InSync, Assigned
    <2>3. ASSUME NEW p \in squad[t] PROVE p \in Members(t)
      <3>1. [team |-> t, player |-> p] \in rows /\ p \in alive
        BY <2>2 DEF InSync
      <3> QED  BY <3>1 DEF Members
    <2>4. ASSUME NEW p \in Members(t) PROVE p \in squad[t]
      <3>1. PICK r \in rows : r.team = t /\ r.player \in alive /\ p = r.player
        BY <2>4 DEF Members
      <3>2. [team |-> t, player |-> p] \in rows
        BY <2>1, <3>1
      <3> QED  BY <3>1, <3>2 DEF InSync
    <2> QED  BY <2>3, <2>4
  <1>3. squad = Composition
    BY <1>1, <1>2 DEF Composition, InSync
  <1>4. free = alive \ Assigned(squad)
    BY DEF InSync, Assigned
  <1> QED  BY <1>3, <1>4

\* With no update under way, the rows stay as they are.
LEMMA EndingIsRows == Typed /\ Updating = {} => Ending = rows
  <1> SUFFICES ASSUME Typed, Updating = {} PROVE Ending = rows
    OBVIOUS
  <1>1. rows \subseteq Row
    BY DEF Typed, TablesTyped, RowIn, Row, Known
  <1> QED  BY <1>1 DEF Ending

\* Updates move on and write nothing yet.
LEMMA EndingStays ==
    ASSUME rows' = rows, Updating' = Updating,
           \A j \in Updating : call'[j].team = call[j].team /\ call'[j].players = call[j].players
    PROVE  Ending' = Ending
  BY DEF Ending, Over, Sets

\* A team that is new has no players.
LEMMA CreateSync ==
    ASSUME NEW f, NEW s, NEW T, NEW A, NEW W, NEW E, InSync(f, s, T, A, W, E),
           NEW t, t \notin W, \A r \in E : r.team # t
    PROVE  InSync(f, [u \in DOMAIN s \cup {t} |-> IF u = t THEN {} ELSE s[u]], T, A, W \cup {t}, E)
  <1> DEFINE z == [u \in DOMAIN s \cup {t} |-> IF u = t THEN {} ELSE s[u]]
  <1>1. /\ DOMAIN z = DOMAIN s \cup {t} /\ z[t] = {} /\ t \notin DOMAIN s
        /\ \A u \in DOMAIN s : z[u] = s[u]
    BY DEF InSync
  <1> HIDE DEF z
  <1>2. DOMAIN z = W \cup {t} /\ \A u \in DOMAIN z : z[u] \cap f = {}
    BY <1>1 DEF InSync
  <1>3. \A u, v \in DOMAIN z : u # v => z[u] \cap z[v] = {}
    BY <1>1 DEF InSync
  <1>4. Assigned(z) = Assigned(s)
    BY <1>1 DEF Assigned
  <1>5. \A u \in DOMAIN z \ T, p \in A : p \in z[u] <=> [team |-> u, player |-> p] \in E
    BY <1>1 DEF InSync
  <1> QED  BY <1>2, <1>3, <1>4, <1>5 DEF InSync, z

\* The players of a team that is deleted are free.
LEMMA DeleteSync ==
    ASSUME NEW f, NEW s, NEW T, NEW A, NEW W, NEW E, InSync(f, s, T, A, W, E), NEW t \in DOMAIN s
    PROVE  InSync(f \cup s[t], Without(s, t), T, A, W \ {t}, E \ {r \in E : r.team = t})
  <1> DEFINE z == Without(s, t)
             g == f \cup s[t]
             F == E \ {r \in E : r.team = t}
  <1>1. /\ DOMAIN z = DOMAIN s \ {t}
        /\ \A u \in DOMAIN z : z[u] = s[u]
    BY DEF Without
  <1> HIDE DEF z
  <1>2. DOMAIN z = W \ {t} /\ \A u \in DOMAIN z : z[u] \cap g = {}
    BY <1>1 DEF InSync
  <1>3. \A u, v \in DOMAIN z : u # v => z[u] \cap z[v] = {}
    BY <1>1 DEF InSync
  <1>4. Assigned(s) = Assigned(z) \cup s[t]
    <2>1. Assigned(s) \subseteq Assigned(z) \cup s[t]
      BY <1>1 DEF Assigned
    <2>2. Assigned(z) \cup s[t] \subseteq Assigned(s)
      BY <1>1 DEF Assigned
    <2> QED  BY <2>1, <2>2
  <1>5. A = g \cup Assigned(z)
    BY <1>4 DEF InSync
  <1>6. \A u, p : u # t => ([team |-> u, player |-> p] \in E <=> [team |-> u, player |-> p] \in F)
    OBVIOUS
  <1> HIDE DEF F
  <1>7. \A u \in DOMAIN z \ T, p \in A : p \in z[u] <=> [team |-> u, player |-> p] \in F
    BY <1>1, <1>6 DEF InSync
  <1> QED  BY <1>2, <1>3, <1>5, <1>7 DEF InSync, z, F

\* A player who is new is free.
LEMMA AddPlayerSync ==
    ASSUME NEW f, NEW s, NEW T, NEW A, NEW W, NEW E, InSync(f, s, T, A, W, E),
           NEW p, p \notin A, \A r \in E : r.player # p
    PROVE  InSync(f \cup {p}, s, T, A \cup {p}, W, E)
  <1>1. \A t \in DOMAIN s : p \notin s[t]
    BY DEF InSync, Assigned
  <1>2. A \cup {p} = (f \cup {p}) \cup Assigned(s)
    BY DEF InSync
  <1>3. \A t \in DOMAIN s \ T, q \in A \cup {p} : q \in s[t] <=> [team |-> t, player |-> q] \in E
    <2>1. \A t : [team |-> t, player |-> p] \notin E
      OBVIOUS
    <2>2. \A t \in DOMAIN s \ T, q \in A : q \in s[t] <=> [team |-> t, player |-> q] \in E
      BY DEF InSync
    <2>3. ASSUME NEW t \in DOMAIN s \ T, NEW q \in A \cup {p}
          PROVE  q \in s[t] <=> [team |-> t, player |-> q] \in E
      <3>1. CASE q = p
        BY <1>1, <2>1, <3>1
      <3>2. CASE q # p
        BY <2>2, <3>2
      <3> QED  BY <3>1, <3>2
    <2> QED  BY <2>3
  <1>4. \A t \in DOMAIN s : s[t] \cap (f \cup {p}) = {}
    BY <1>1 DEF InSync
  <1> QED  BY <1>2, <1>3, <1>4 DEF InSync

\* A player who is deleted is nowhere.
LEMMA DeletePlayerSync ==
    ASSUME NEW f, NEW s, NEW T, NEW A, NEW W, NEW E, InSync(f, s, T, A, W, E), NEW P
    PROVE  InSync(f \ P, [u \in DOMAIN s |-> s[u] \ P], T, A \ P, W, E)
  <1> DEFINE z == [u \in DOMAIN s |-> s[u] \ P]
  <1>1. DOMAIN z = DOMAIN s /\ \A u \in DOMAIN s : z[u] = s[u] \ P
    OBVIOUS
  <1> HIDE DEF z
  <1>2. DOMAIN z = W /\ \A u \in DOMAIN z : z[u] \cap (f \ P) = {}
    BY <1>1 DEF InSync
  <1>3. \A u, v \in DOMAIN z : u # v => z[u] \cap z[v] = {}
    BY <1>1 DEF InSync
  <1>4. Assigned(z) = Assigned(s) \ P
    BY <1>1 DEF Assigned
  <1>5. A \ P = (f \ P) \cup Assigned(z)
    BY <1>4 DEF InSync
  <1>6. ASSUME NEW u \in DOMAIN z \ T, NEW p \in A \ P
        PROVE  p \in z[u] <=> [team |-> u, player |-> p] \in E
    <2>1. \A v \in DOMAIN s \ T, q \in A : q \in s[v] <=> [team |-> v, player |-> q] \in E
      BY DEF InSync
    <2> QED  BY <1>1, <2>1
  <1> QED  BY <1>2, <1>3, <1>5, <1>6 DEF InSync, z

-----------------------------------------------------------------------------
(* What the page shows, while the server works                             *)

\* An update that moves on: if it does not fail, the page shows what it showed.
LEMMA UpdateMoves ==
    ASSUME Shown, NEW i \in CallId, call[i].kind = "update", call[i].pc \in Steps,
           UNCHANGED <<alive, teams, page>>,
           \A j \in CallId \ {i} : call'[j].kind = call[j].kind /\ call'[j].own = call[j].own
                                   /\ call'[j].pc = call[j].pc,
           call'[i].kind = "update", call'[i].own = call[i].own, call'[i].pc # "done",
           call'[i].pc \in {"error", "unique"} \/ Ending' = Ending
    PROVE  Shown'
  <1>1. InFlight(i) /\ i \in Updating /\ ~Lost(i)
    BY DEF InFlight, Updating, Steps, Lost
  <1>2. \A j \in CallId : ~Single(j)
    BY <1>1 DEF Shown, Single
  <1>3. \A j \in CallId : InFlight(j) => call[j].own /\ call[j].kind \in PageKinds
    BY DEF Shown
  <1>4. \A j \in CallId : call'[j].pc # "done" =>
           /\ InFlight(j) /\ call'[j].own = call[j].own /\ call'[j].kind = call[j].kind
    BY <1>1 DEF InFlight
  <1>5. \A j \in CallId : (InFlight(j) => call[j].own /\ call[j].kind \in PageKinds)'
    BY <1>3, <1>4 DEF InFlight, PageKinds, Kinds
  <1>6. \A j \in CallId : ~Single(j)'
    BY <1>2, <1>4 DEF Single, InFlight
  <1>7. \A j \in CallId : ~(InFlight(j)' /\ call'[j].kind = "load" /\ call'[j].pc = "ok")
    BY <1>1 DEF Shown, InFlight
  <1>8. (\A j \in CallId : ~Lost(j) /\ ~Single(j))' => Synced(free, squad)'
    <2> SUFFICES ASSUME \A j \in CallId : ~Lost(j)' PROVE Synced(free, squad)'
      OBVIOUS
    <2>1. \A j \in CallId : ~Lost(j)
      BY <1>1 DEF Lost, InFlight
    <2>2. call'[i].pc \notin {"error", "unique"}
      BY DEF Lost, InFlight
    <2>3. Ending' = Ending
      BY <2>2
    <2>4. Synced(free, squad)
      BY <1>2, <2>1 DEF Shown
    <2> QED  BY <2>3, <2>4 DEF Synced, Edited, page
  <1> QED  BY <1>5, <1>6, <1>7, <1>8 DEF Shown, page, CallId

\* Commits that are in order and uncrossed do what the page expects of them.
LEMMA CommitEnds ==
    ASSUME Typed, TeamInv, Shown, NEW i \in CallId, Commit(i), ~behind', call[i].kind = "update"
    PROVE  Ending' = Ending
  <1> DEFINE c == call[i]
  <1>1. /\ call[i].pc = "commit" /\ ~call[i].crossed
        /\ \A j \in Mine : j < i => call[j].pc \notin Steps
        /\ rows' = (rows \ call[i].dead) \cup call[i].born
    BY DEF Commit
  <1>2. Tx(c, rows) /\ Stands(c, lastTeam) /\ c \in CallIn(Known)
    BY CallFacts DEF TeamInv
  <1>3. c.left = {} /\ c.born = {RowOf(c, p) : p \in c.players}
    BY <1>1, <1>2 DEF Tx
  <1>4. \A r \in rows \ c.dead : r.team # c.team /\ r.player \notin c.players
    <2>1. \A p \in c.players : RowOf(c, p) \in c.born /\ RowOf(c, p).player = p
      BY <1>3 DEF RowOf
    <2> QED  BY <1>1, <1>2, <2>1 DEF Tx
  <1>5. \A r \in c.dead : Over(i, r)
    BY <1>2 DEF Stands, Over
  <1>6. rows \ c.dead = {r \in rows : ~Over(i, r)}
    BY <1>4, <1>5 DEF Over
  <1>7. rows \subseteq Row /\ c.team \in TeamId /\ c.players \subseteq Player
    <2>1. rows \subseteq Row /\ c.players \subseteq Player
      BY <1>2 DEF Typed, TablesTyped, RowIn, Row, Known, CallIn
    <2>2. c.team \in TeamId
      BY <1>1, <1>2, BoundAssumption DEF Stands, Writes, Running, Steps, Typed, TablesTyped, TeamId
    <2> QED  BY <2>1, <2>2
  <1>8. \A r \in Row : r \in c.born <=> Sets(i, r)
    <2>1. \A r \in Row : r = [team |-> r.team, player |-> r.player]
      BY DEF Row
    <2> QED  BY <1>3, <2>1 DEF RowOf, Sets
  <1>9. \A r \in Row : r \in rows' <=> (r \in rows /\ ~Over(i, r)) \/ Sets(i, r)
    BY <1>1, <1>6, <1>8
  <1>10. /\ \A j \in CallId : call'[j].team = call[j].team \/ j = i
         /\ \A j \in CallId : call'[j].players = call[j].players \/ j = i
         /\ \A j \in CallId \ {i} : call'[j].kind = call[j].kind /\ call'[j].pc = call[j].pc
         /\ call'[i].pc \notin Steps
    <2> DEFINE x(j) == call[j].crossed \/ (call[j].team = call[i].team /\ call[j].pc \in Steps \ {"sent"})
    <2>1. \A j \in CallId \ {i} : call'[j] = [call[j] EXCEPT !.crossed = x(j)]
      BY DEF Commit
    <2> HIDE DEF x
    <2>2. \A j \in CallId : call[j] \in CallIn(Known)
      BY CallFacts
    <2>3. call'[i].pc \notin Steps
      <3>1. call'[i] = End(c, "ok")
        BY DEF Commit
      <3>2. End(c, "ok").pc \in {"ok", "done"}
        BY <1>2 DEF End, CallIn, Done
      <3> QED  BY <3>1, <3>2 DEF Steps
    <2>4. ASSUME NEW j \in CallId \ {i}
          PROVE  /\ call'[j].team = call[j].team /\ call'[j].players = call[j].players
                 /\ call'[j].kind = call[j].kind /\ call'[j].pc = call[j].pc
      <3> DEFINE y == x(j)
      <3>1. call'[j] = [call[j] EXCEPT !.crossed = y]
        BY <2>1
      <3> HIDE DEF y
      <3> QED  BY <2>2, <3>1 DEF CallIn
    <2> QED  BY <2>3, <2>4
  <1>11. Updating' = Updating \ {i} /\ i \in Updating
    BY <1>1, <1>10 DEF Updating, Steps, CallId
  <1>12. \A j \in Updating : j \in Nat /\ j \in CallId /\ i \in Nat
    BY DEF Updating, CallId
  <1>13. \A j \in Updating \ {i} : j > i
    <2>1. \A j \in Updating : j \in Mine
      BY DEF Shown, Updating, Mine, InFlight, Steps
    <2>2. \A j \in Updating : call[j].pc \in Steps
      BY DEF Updating
    <2> QED  BY <1>1, <1>12, <2>1, <2>2
  <1>14. \A j \in Updating \ {i}, r \in Row : (Over(j, r)' <=> Over(j, r)) /\ (Sets(j, r)' <=> Sets(j, r))
    BY <1>10, <1>12 DEF Over, Sets
  <1> HIDE DEF c
  <1>15. ASSUME NEW r \in Row
         PROVE  (\/ \E k \in Updating : Sets(k, r) /\ \A j \in Updating : j > k => ~Over(j, r)
                 \/ r \in rows /\ \A j \in Updating : ~Over(j, r))
                <=>
                (\/ \E k \in Updating \ {i} : Sets(k, r) /\ \A j \in Updating \ {i} : j > k => ~Over(j, r)
                 \/ r \in rows' /\ \A j \in Updating \ {i} : ~Over(j, r))
    <2>1. ASSUME NEW k \in Updating, Sets(k, r), \A j \in Updating : j > k => ~Over(j, r)
          PROVE  \/ k # i
                 \/ r \in rows' /\ \A j \in Updating \ {i} : ~Over(j, r)
      BY <1>9, <1>13, <2>1
    <2>2. ASSUME r \in rows, \A j \in Updating : ~Over(j, r)
          PROVE  r \in rows' /\ \A j \in Updating \ {i} : ~Over(j, r)
      BY <1>9, <1>11, <2>2
    <2>3. ASSUME NEW k \in Updating \ {i}, Sets(k, r), \A j \in Updating \ {i} : j > k => ~Over(j, r)
          PROVE  \A j \in Updating : j > k => ~Over(j, r)
      <3>1. ~(i > k)
        BY <1>12, <1>13
      <3> QED  BY <2>3, <3>1
    <2>4. ASSUME r \in rows', \A j \in Updating \ {i} : ~Over(j, r)
          PROVE  \/ \E k \in Updating : Sets(k, r) /\ \A j \in Updating : j > k => ~Over(j, r)
                 \/ r \in rows /\ \A j \in Updating : ~Over(j, r)
      <3>1. CASE Sets(i, r)
        <4>1. \A j \in Updating : j > i => ~Over(j, r)
          BY <1>12, <2>4
        <4> QED  BY <1>11, <3>1, <4>1
      <3>2. CASE ~Sets(i, r)
        BY <1>9, <2>4, <3>2
      <3> QED  BY <3>1, <3>2
    <2> QED  BY <2>1, <2>2, <2>3, <2>4
  <1>16. \A r \in Row :
           r \in Ending' <=>
             (\/ \E k \in Updating \ {i} : Sets(k, r) /\ \A j \in Updating \ {i} : j > k => ~Over(j, r)
              \/ r \in rows' /\ \A j \in Updating \ {i} : ~Over(j, r))
    BY <1>11, <1>14 DEF Ending
  <1> QED  BY <1>15, <1>16 DEF Ending

\* An update moves on in its transaction, or fails.
LEMMA UpdateAdvances ==
    ASSUME Typed, Shown, NEW i \in CallId, call[i].kind = "update", call[i].pc \in Steps,
           NEW c, call' = [call EXCEPT ![i] = c], UNCHANGED <<server, page>>,
           c.kind = "update", c.own = call[i].own, c.team = call[i].team, c.players = call[i].players,
           c.pc \in Steps \cup {"error", "unique"}
    PROVE  Shown'
  <1>1. DOMAIN call = CallId
    BY DEF Typed, CallsTyped
  <1>2. call'[i] = c /\ \A j \in CallId \ {i} : call'[j] = call[j]
    BY <1>1
  <1>3. c.pc # "done"
    BY DEF Steps
  <1>4. c.pc \in Steps => Ending' = Ending
    <2> SUFFICES ASSUME c.pc \in Steps PROVE Ending' = Ending
      OBVIOUS
    <2>1. Updating' = Updating
      BY <1>2 DEF Updating, CallId
    <2>2. \A j \in Updating : call'[j].team = call[j].team /\ call'[j].players = call[j].players
      BY <1>2 DEF Updating
    <2> QED  BY <2>1, <2>2, EndingStays DEF server
  <1>5. UNCHANGED <<alive, teams, page>>
    BY DEF server
  <1> QED  BY <1>2, <1>3, <1>4, <1>5, UpdateMoves

\* A call of the page that ends keeps what it is about.
LEMMA EndKeeps ==
    ASSUME NEW K, NEW c, c \in CallIn(K), c.own, NEW pc \in {"ok", "error", "unique"}
    PROVE  LET d == End(c, pc) IN
           /\ d.kind = c.kind /\ d.own = c.own /\ d.team = c.team /\ d.players = c.players
           /\ d.pc = pc /\ d.free = c.free /\ d.squad = c.squad
           /\ d.left = {} /\ d.seen = {} /\ d.dead = {} /\ d.born = {}
  BY DEF End, CallIn

\* The same, for whatever it is answered.
LEMMA EndsKeep ==
    ASSUME NEW K, NEW c, c \in CallIn(K), c.own
    PROVE  \A pc \in {"ok", "error", "unique"} :
             /\ End(c, pc).kind = c.kind /\ End(c, pc).own = c.own /\ End(c, pc).team = c.team
             /\ End(c, pc).players = c.players /\ End(c, pc).pc = pc
             /\ End(c, pc).free = c.free /\ End(c, pc).squad = c.squad
             /\ End(c, pc).left = {} /\ End(c, pc).seen = {} /\ End(c, pc).dead = {} /\ End(c, pc).born = {}
  <1> TAKE pc \in {"ok", "error", "unique"}
  <1> DEFINE d == End(c, pc)
  <1>1. /\ d.kind = c.kind /\ d.own = c.own /\ d.team = c.team /\ d.players = c.players
        /\ d.pc = pc /\ d.free = c.free /\ d.squad = c.squad
        /\ d.left = {} /\ d.seen = {} /\ d.dead = {} /\ d.born = {}
    BY EndKeeps
  <1> HIDE DEF d
  <1> QED  BY <1>1 DEF d

\* An update of the page, at each step of its transaction.
LEMMA UpdateShown ==
    ASSUME Typed, TeamInv, Shown, NEW i \in CallId, ServerStep(i), ~behind', call[i].kind = "update"
    PROVE  Shown'
  <1> DEFINE c == call[i]
  <1>1. c \in CallIn(Known) /\ Stands(c, lastTeam)
    BY CallFacts
  <1>2. \/ BeginUpdate(i) \/ Wait(i) \/ Steal(i) \/ Clear(i) \/ (\E p \in Player : Insert(i, p))
        \/ Commit(i) \/ Abort(i)
    BY <1>1 DEF ServerStep, BeginDelete, BeginCreate, BeginBulk, Drop, Read, DeletePlayer, Rename,
       CreatePlayer, Stands
  <1>3. c.pc \in Steps
    BY <1>2 DEF BeginUpdate, Wait, Steal, Clear, Insert, Commit, Abort, Steps
  <1>4. c.own
    BY <1>3 DEF Shown, InFlight, Steps
  <1>13. \A pc \in {"ok", "error", "unique"} :
           /\ End(c, pc).kind = c.kind /\ End(c, pc).own = c.own /\ End(c, pc).team = c.team
           /\ End(c, pc).players = c.players /\ End(c, pc).pc = pc
           /\ End(c, pc).free = c.free /\ End(c, pc).squad = c.squad
           /\ End(c, pc).left = {} /\ End(c, pc).seen = {} /\ End(c, pc).dead = {} /\ End(c, pc).born = {}
    <2>1. c \in CallIn(Known) /\ c.own
      BY <1>1, <1>4
    <2> HIDE DEF c
    <2> QED  BY <2>1, EndsKeep
  <1>5. ASSUME NEW pc \in {"error", "unique"}, Advance(i, End(c, pc)), UNCHANGED <<server, page>>
        PROVE  Shown'
    <2> DEFINE d == End(c, pc)
    <2>1. /\ d.kind = "update" /\ d.own = c.own /\ d.team = c.team /\ d.players = c.players
          /\ d.pc = pc
      <3>1. pc \in {"ok", "error", "unique"}
        OBVIOUS
      <3> HIDE DEF c, d
      <3>2. c.kind = "update"
        BY DEF c
      <3> QED  BY <1>13, <3>1, <3>2 DEF d
    <2> HIDE DEF d
    <2>2. call' = [call EXCEPT ![i] = d]
      BY <1>5 DEF Advance, d
    <2> QED  BY <1>3, <1>5, <2>1, <2>2, UpdateAdvances
  <1>6. CASE BeginUpdate(i)
    <2> DEFINE d == [call[i] EXCEPT !.pc = "steal", !.left = call[i].players]
    <2>1. UNCHANGED <<server, page>> /\ (Advance(i, d) \/ Advance(i, End(c, "error")))
      BY <1>6 DEF BeginUpdate
    <2>2. d.kind = c.kind /\ d.own = c.own /\ d.team = c.team /\ d.players = c.players /\ d.pc \in Steps
      BY <1>1 DEF CallIn, Steps
    <2> HIDE DEF d
    <2> QED  BY <1>3, <1>5, <2>1, <2>2, UpdateAdvances DEF Advance
  <1>7. CASE Steal(i)
    <2> DEFINE D == Deleting(i)
               d == [call[i] EXCEPT !.pc = "clear", !.seen = {}, !.dead = @ \cup D]
    <2>1. UNCHANGED <<server, page>> /\ call' = [call EXCEPT ![i] = d]
      BY <1>7 DEF Steal, Advance
    <2>2. d.kind = c.kind /\ d.own = c.own /\ d.team = c.team /\ d.players = c.players /\ d.pc \in Steps
      BY <1>1 DEF CallIn, Steps
    <2> HIDE DEF d
    <2> QED  BY <1>3, <2>1, <2>2, UpdateAdvances
  <1>8. CASE Clear(i)
    <2> DEFINE D == Deleting(i)
               a == [call[i] EXCEPT !.seen = {}, !.dead = @ \cup D]
               d == IF a.kind \in {"delete", "reset"} THEN [a EXCEPT !.pc = "drop"] ELSE InsertNext(a)
    <2>1. UNCHANGED <<server, page>> /\ call' = [call EXCEPT ![i] = d]
      BY <1>8 DEF Clear, Advance
    <2> HIDE DEF D
    <2>2. /\ a.kind = c.kind /\ a.own = c.own /\ a.team = c.team /\ a.players = c.players
          /\ {"kind", "own", "team", "players", "pc"} \subseteq DOMAIN a
      BY <1>1 DEF CallIn
    <2> HIDE DEF a
    <2>3. d.kind = c.kind /\ d.own = c.own /\ d.team = c.team /\ d.players = c.players /\ d.pc \in Steps
      BY <2>2 DEF InsertNext, Steps
    <2> HIDE DEF d
    <2> QED  BY <1>3, <2>1, <2>3, UpdateAdvances
  <1>9. ASSUME NEW p \in Player, Insert(i, p) PROVE Shown'
    <2> DEFINE B == {[team |-> call[i].team, player |-> p]} \ (rows \ call[i].dead)
               a == [call[i] EXCEPT !.left = @ \ {p}, !.born = @ \cup B]
               d == InsertNext(a)
    <2>1. UNCHANGED <<server, page>> /\ (Advance(i, d) \/ Advance(i, End(c, "unique")))
      BY <1>9 DEF Insert
    <2> HIDE DEF B
    <2>2. /\ a.kind = c.kind /\ a.own = c.own /\ a.team = c.team /\ a.players = c.players
          /\ {"kind", "own", "team", "players", "pc"} \subseteq DOMAIN a
      BY <1>1 DEF CallIn
    <2> HIDE DEF a
    <2>3. d.kind = c.kind /\ d.own = c.own /\ d.team = c.team /\ d.players = c.players /\ d.pc \in Steps
      BY <2>2 DEF InsertNext, Steps
    <2> HIDE DEF d
    <2> QED  BY <1>3, <1>5, <2>1, <2>3, UpdateAdvances DEF Advance
  <1>10. CASE Abort(i)
    BY <1>5, <1>10 DEF Abort
  <1>12. CASE Wait(i)
    <2> DEFINE D == Deleting(i)
               d == [call[i] EXCEPT !.seen = D]
    <2>1. UNCHANGED <<server, page>> /\ call' = [call EXCEPT ![i] = d]
      BY <1>12 DEF Wait, Advance
    <2>2. d.kind = c.kind /\ d.own = c.own /\ d.team = c.team /\ d.players = c.players /\ d.pc = c.pc
      BY <1>1 DEF CallIn
    <2> HIDE DEF d
    <2> QED  BY <1>3, <2>1, <2>2, UpdateAdvances
  <1>11. CASE Commit(i)
    <2> DEFINE x(j) == call[j].crossed \/ (call[j].team = call[i].team /\ call[j].pc \in Steps \ {"sent"})
    <2>1. Ending' = Ending
      BY <1>11, CommitEnds
    <2>2. c.gone = {} /\ c.pc = "commit"
      BY <1>1, <1>11 DEF Stands, Commit
    <2>3. UNCHANGED <<alive, teams, page>>
      BY <1>11, <2>2 DEF Commit
    <2>4. call'[i] = End(c, "ok") /\ \A j \in CallId \ {i} : call'[j] = [call[j] EXCEPT !.crossed = x(j)]
      BY <1>11 DEF Commit
    <2> HIDE DEF x
    <2>5. ASSUME NEW j \in CallId \ {i}
          PROVE  call'[j].kind = call[j].kind /\ call'[j].own = call[j].own /\ call'[j].pc = call[j].pc
      <3> DEFINE y == x(j)
      <3>1. call'[j] = [call[j] EXCEPT !.crossed = y] /\ call[j] \in CallIn(Known)
        BY <2>4, CallFacts
      <3> HIDE DEF y
      <3> QED  BY <3>1 DEF CallIn
    <2>6. call'[i].kind = "update" /\ call'[i].own = call[i].own /\ call'[i].pc # "done"
      <3>1. call'[i] = End(c, "ok") /\ c.kind = "update"
        BY <2>4
      <3> HIDE DEF c
      <3>2. ASSUME NEW pc \in {"ok", "error", "unique"}
            PROVE  End(c, pc).kind = c.kind /\ End(c, pc).own = c.own /\ End(c, pc).pc = pc
        <4> QED  BY <1>13
      <3>3. End(c, "ok").kind = c.kind /\ End(c, "ok").own = c.own /\ End(c, "ok").pc # "done"
        BY <3>2
      <3> QED  BY <3>1, <3>3, Zenon DEF c
    <2> QED  BY <1>3, <2>1, <2>3, <2>5, <2>6, UpdateMoves
  <1> QED  BY <1>2, <1>6, <1>7, <1>8, <1>9, <1>10, <1>11, <1>12

\* A load that is read, or fails.
LEMMA LoadShown ==
    ASSUME Typed, Shown, NEW i \in CallId, ServerStep(i), ~behind', call[i].kind = "load"
    PROVE  Shown'
  <1>1. call[i] \in CallIn(Known) /\ Stands(call[i], lastTeam) /\ DOMAIN call = CallId
    BY CallFacts DEF Typed, CallsTyped
  <1>2. Read(i) \/ Abort(i)
    BY <1>1 DEF ServerStep, BeginUpdate, BeginDelete, BeginCreate, BeginBulk, Wait, Steal, Clear, Drop,
       Insert, Commit, DeletePlayer, Rename, CreatePlayer, Stands, Writes
  <1>3. InFlight(i) /\ call[i].own /\ i \notin Updating
    BY <1>2 DEF Read, Abort, Shown, InFlight, Steps, Updating
  <1>4. \A j \in CallId : ~Single(j)
    BY <1>3 DEF Shown, Single
  <1>5. PICK c : /\ call' = [call EXCEPT ![i] = c] /\ c.kind = "load" /\ c.own
                 /\ c.pc = "error" \/ (Read(i) /\ c.pc = "ok" /\ c.free = alive /\ c.squad = Composition)
    <2>1. CASE Read(i)
      <3> DEFINE d == [call[i] EXCEPT !.pc = "ok", !.free = alive, !.squad = Composition]
      <3>1. call' = [call EXCEPT ![i] = d]
        BY <2>1 DEF Read, Advance
      <3>2. d.kind = "load" /\ d.own /\ d.pc = "ok" /\ d.free = alive /\ d.squad = Composition
        BY <1>1, <1>3 DEF CallIn
      <3> HIDE DEF d
      <3> QED  BY <2>1, <3>1, <3>2
    <2>2. CASE Abort(i)
      <3> DEFINE d == End(call[i], "error")
      <3>1. d.kind = "load" /\ d.own /\ d.pc = "error"
        BY <1>1, <1>3, EndKeeps
      <3>2. call' = [call EXCEPT ![i] = d]
        BY <2>2 DEF Abort, Advance
      <3> HIDE DEF d
      <3> QED  BY <3>1, <3>2
    <2> QED  BY <1>2, <2>1, <2>2
  <1>6. call'[i] = c /\ \A j \in CallId \ {i} : call'[j] = call[j]
    BY <1>1, <1>5
  <1>7. UNCHANGED <<server, page>>
    BY <1>2 DEF Read, Abort
  <1>8. Composition' = Composition /\ alive' = alive
    BY <1>7 DEF Composition, Members, server
  <1>9. Updating' = Updating
    BY <1>5, <1>6, <1>3 DEF Updating, CallId
  <1>10. Read(i) => Updating = {}
    BY <1>3 DEF Read, Updating, Shown, Mine, InFlight, Steps
  <1>11. Lost(i)'
    BY <1>5, <1>6 DEF Lost, InFlight
  <1>12. \A j \in CallId : (InFlight(j) => call[j].own /\ call[j].kind \in PageKinds)'
    BY <1>5, <1>6 DEF Shown, InFlight, PageKinds, Kinds
  <1>13. \A j \in CallId : ~Single(j)'
    BY <1>4, <1>5, <1>6 DEF Single, InFlight
  <1>14. \A j \in CallId : call'[j].pc # "done" /\ call'[j].kind = "load" /\ call'[j].pc = "ok" =>
           call'[j].squad = Composition /\ call'[j].free = alive /\ Updating = {}
    <2> SUFFICES ASSUME NEW j \in CallId, call'[j].pc # "done", call'[j].kind = "load", call'[j].pc = "ok"
                 PROVE  call'[j].squad = Composition /\ call'[j].free = alive /\ Updating = {}
      OBVIOUS
    <2>1. CASE j = i
      BY <1>5, <1>6, <1>10, <2>1
    <2>2. CASE j # i
      BY <1>6, <2>2 DEF Shown, InFlight
    <2> QED  BY <2>1, <2>2
  <1> QED  BY <1>7, <1>8, <1>9, <1>11, <1>12, <1>13, <1>14 DEF Shown, InFlight, page, CallId

\* The only call of the page.
LEMMA AloneFacts ==
    ASSUME Typed, Shown, NEW i \in CallId, Single(i)
    PROVE  /\ call[i].own /\ call[i].kind \in PageKinds \ {"update", "load"} /\ call[i].pc # "done"
           /\ Updating = {} /\ Ending = rows
           /\ \A j \in CallId \ {i} : call[j].pc = "done"
           /\ Alone(call[i])
           /\ call[i] \in CallIn(Known) /\ Stands(call[i], lastTeam) /\ DOMAIN call = CallId
  <1>1. /\ call[i].own /\ call[i].kind \in PageKinds \ {"update", "load"} /\ call[i].pc # "done"
        /\ Alone(call[i])
    BY DEF Shown, Single, InFlight
  <1>2. \A j \in CallId \ {i} : call[j].pc = "done"
    BY DEF Shown, InFlight
  <1>3. Updating = {}
    BY <1>1, <1>2 DEF Updating, Steps
  <1>4. Ending = rows
    BY <1>3, EndingIsRows
  <1>5. DOMAIN call = CallId
    BY DEF Typed, CallsTyped
  <1> QED  BY <1>1, <1>2, <1>3, <1>4, <1>5, CallFacts

\* The only call moves.
LEMMA AloneMoves ==
    ASSUME Typed, Shown, NEW i \in CallId, Single(i),
           \A j \in CallId \ {i} : call'[j].pc = call[j].pc,
           call'[i].kind = call[i].kind, call'[i].own = call[i].own, call'[i].pc # "done",
           open' = open, Alone(call[i])'
    PROVE  Shown'
  <1>1. /\ call[i].own /\ call[i].kind \in PageKinds \ {"update", "load"}
        /\ \A j \in CallId \ {i} : call'[j].pc = "done"
    BY AloneFacts
  <1>2. Single(i)'
    BY <1>1 DEF Single, InFlight
  <1>3. \A j \in CallId : InFlight(j)' => j = i
    BY <1>1 DEF InFlight
  <1>4. call'[i].own /\ call'[i].kind \in PageKinds \ {"update", "load"}
    BY <1>1
  <1> QED  BY <1>2, <1>3, <1>4 DEF Shown, Single, PageKinds, Kinds, CallId

\* Nothing but the only call moves.
LEMMA OnlyCall ==
    ASSUME Typed, Shown, NEW i \in CallId, Single(i),
           \A j \in CallId \ {i} : call'[j].pc = call[j].pc,
           call'[i].kind = call[i].kind, Typed'
    PROVE  Updating' = {} /\ Ending' = rows'
  <1>1. /\ call[i].kind # "update" /\ \A j \in CallId \ {i} : call'[j].pc = "done"
    BY AloneFacts
  <1>2. Updating' = {}
    BY <1>1 DEF Updating, Steps, CallId
  <1>3. rows' \subseteq Row
    BY DEF Typed, TablesTyped, RowIn, Row, Known
  <1> QED  BY <1>2, <1>3 DEF Ending

\* The only call has done nothing yet, or fails.
LEMMA AloneWaits ==
    ASSUME Typed, Typed', Shown, NEW i \in CallId, Single(i), call[i].kind # "players", call[i].pc # "ok",
           NEW c, call' = [call EXCEPT ![i] = c], UNCHANGED <<alive, teams, rows, page>>,
           c.kind = call[i].kind, c.own = call[i].own, c.free = call[i].free, c.squad = call[i].squad,
           c.pc \notin {"ok", "done"}, Prepared(c, teams, rows)
    PROVE  Shown'
  <1>1. Alone(call[i]) /\ DOMAIN call = CallId /\ Ending = rows
    BY AloneFacts
  <1>2. call'[i] = c /\ \A j \in CallId \ {i} : call'[j] = call[j]
    BY <1>1
  <1>3. Ending' = Ending
    BY <1>1, <1>2, OnlyCall
  <1>4. /\ DOMAIN c.squad = DOMAIN squad /\ Synced(free, squad) /\ Synced(c.free, c.squad)
    BY <1>1 DEF Alone
  <1>5. InSync(free, squad, Edited, alive, teams, Ending)' /\ Edited' = Edited
    BY <1>3, <1>4 DEF Synced, Edited, page
  <1>6. InSync(c.free, c.squad, Edited', alive', teams', Ending')
    BY <1>3, <1>4, <1>5 DEF Synced
  <1>7. InSync(call[i].free, call[i].squad, Edited, alive, teams, Ending)'
    BY <1>2, <1>6
  <1>8. Alone(call[i])'
    BY <1>2, <1>4, <1>5, <1>7 DEF Alone, Synced, page
  <1> QED  BY <1>2, <1>8, AloneMoves DEF page

\* The only call was done.
LEMMA AloneConfirms ==
    ASSUME Typed, Typed', Shown, NEW i \in CallId, Single(i), call[i].kind # "players", call[i].pc # "ok",
           \A j \in CallId \ {i} : call'[j].pc = call[j].pc,
           NEW c, call'[i] = c, UNCHANGED page,
           c.kind = call[i].kind, c.own = call[i].own, c.free = call[i].free, c.squad = call[i].squad,
           c.pc = "ok", Confirmed(c, Edited, alive', teams', rows')
    PROVE  Shown'
  <1>1. Alone(call[i])
    BY AloneFacts
  <1>2. Ending' = rows' /\ Edited' = Edited
    BY OnlyCall DEF Edited, page
  <1>3. DOMAIN c.squad = DOMAIN squad
    BY <1>1 DEF Alone
  <1>4. Confirmed(call[i], Edited, alive, teams, Ending)'
    BY <1>2
  <1>5. Alone(call[i])'
    BY <1>3, <1>4 DEF Alone, page
  <1> QED  BY <1>5, AloneMoves DEF page

\* The only call is a transaction that goes on.
LEMMA AloneTransaction ==
    ASSUME Typed, Typed', Shown, NEW i \in CallId, Single(i), ServerStep(i),
           call[i].kind \in {"create", "delete", "reset"}, ~Commit(i)
    PROVE  Shown'
  <1> DEFINE k == call[i]
  <1>1. /\ k.own /\ k.kind \in {"create", "delete", "reset"} /\ Ending = rows
        /\ Alone(k) /\ k \in CallIn(Known) /\ Stands(k, lastTeam) /\ DOMAIN call = CallId
    BY AloneFacts
  <1>2. \/ BeginDelete(i) \/ BeginCreate(i) \/ Wait(i) \/ Steal(i) \/ Clear(i) \/ Drop(i)
        \/ (\E p \in Player : Insert(i, p)) \/ Abort(i)
    BY DEF ServerStep, BeginUpdate, BeginBulk, Read, DeletePlayer, Rename, CreatePlayer
  <1>3. k.pc \in Steps /\ k.pc # "ok"
    BY <1>2 DEF BeginDelete, BeginCreate, Wait, Steal, Clear, Drop, Insert, Abort, Steps
  <1>4. Prepared(k, teams, rows)
    BY <1>1, <1>3 DEF Alone
  <1>5. UNCHANGED <<alive, teams, rows, page>>
    BY <1>2 DEF BeginDelete, BeginCreate, Wait, Steal, Clear, Drop, Insert, Abort, server
  <1>6. ASSUME NEW c, call' = [call EXCEPT ![i] = c],
               c.kind = k.kind, c.own = k.own, c.free = k.free, c.squad = k.squad,
               c.pc \notin {"ok", "done"}, Prepared(c, teams, rows)
        PROVE  Shown'
    BY <1>1, <1>3, <1>5, <1>6, AloneWaits
  <1>7. ASSUME Advance(i, End(k, "error")) PROVE Shown'
    <2> DEFINE c == End(k, "error")
    <2>1. /\ c.kind = k.kind /\ c.own = k.own /\ c.players = k.players
          /\ c.pc = "error" /\ c.free = k.free /\ c.squad = k.squad
          /\ c.left = {} /\ c.seen = {} /\ c.dead = {} /\ c.born = {}
      <3>1. k \in CallIn(Known) /\ k.own
        BY <1>1
      <3> HIDE DEF k
      <3> QED  BY <3>1, EndsKeep
    <2>2. call' = [call EXCEPT ![i] = c]
      BY <1>7 DEF Advance
    <2> HIDE DEF c
    <2>3. Prepared(c, teams, rows)
      BY <1>4, <2>1 DEF Prepared, Running, Steps
    <2> QED  BY <1>6, <2>1, <2>2, <2>3
  <1>8. CASE BeginDelete(i)
    <2> DEFINE c == [call[i] EXCEPT !.pc = "clear"]
    <2>1. /\ c.kind = k.kind /\ c.own = k.own /\ c.free = k.free /\ c.squad = k.squad /\ c.pc = "clear"
          /\ c.seen = k.seen /\ c.dead = k.dead /\ c.born = k.born
      BY <1>1 DEF CallIn
    <2>2. call' = [call EXCEPT ![i] = c] \/ Advance(i, End(k, "error"))
      BY <1>8 DEF BeginDelete, Advance
    <2>3. c.seen = {} /\ c.dead = {} /\ c.born = {} /\ c.kind \in {"delete", "reset"}
      BY <1>1, <1>8, <2>1 DEF Stands, Outside, BeginDelete
    <2> HIDE DEF c
    <2>4. Prepared(c, teams, rows)
      BY <2>1, <2>3 DEF Prepared
    <2> QED  BY <1>6, <1>7, <2>1, <2>2, <2>4
  <1>9. CASE BeginCreate(i)
    <2> DEFINE c == [call[i] EXCEPT !.team = lastTeam + 1, !.left = call[i].players, !.pc = "steal"]
    <2>1. /\ c.kind = k.kind /\ c.own = k.own /\ c.free = k.free /\ c.squad = k.squad /\ c.pc = "steal"
          /\ c.seen = k.seen /\ c.dead = k.dead /\ c.born = k.born /\ c.players = k.players /\ c.left = k.players
          /\ c.team = lastTeam + 1
      BY <1>1 DEF CallIn
    <2>2. call' = [call EXCEPT ![i] = c] /\ k.kind = "create"
      BY <1>9 DEF BeginCreate, Advance
    <2>3. k.players = {} /\ k.seen = {} /\ k.dead = {} /\ k.born = {}
      BY <1>4, <2>2 DEF Prepared
    <2> HIDE DEF c
    <2>4. lastTeam + 1 \notin teams /\ \A r \in rows : r.team # lastTeam + 1
      BY BoundAssumption DEF Typed, TablesTyped, RowIn, TeamId
    <2>5. Prepared(c, teams, rows)
      BY <2>1, <2>2, <2>3, <2>4 DEF Prepared
    <2> QED  BY <1>6, <2>1, <2>2, <2>5
  <1>10. CASE Steal(i)
    <2> DEFINE D == Deleting(i)
               c == [call[i] EXCEPT !.pc = "clear", !.seen = {}, !.dead = @ \cup D]
    <2>1. k.kind = "create"
      BY <1>1, <1>10 DEF Steal, Stands
    <2>2. D = {}
      BY <1>4, <1>10, <2>1 DEF Prepared, Deleting, Steal
    <2>3. call' = [call EXCEPT ![i] = c] /\ k.pc = "steal"
      BY <1>10 DEF Steal, Advance
    <2> HIDE DEF D
    <2>4. /\ c.kind = k.kind /\ c.own = k.own /\ c.free = k.free /\ c.squad = k.squad /\ c.pc = "clear"
          /\ c.seen = {} /\ c.dead = k.dead /\ c.born = k.born /\ c.players = k.players /\ c.left = k.left
          /\ c.team = k.team
      BY <1>1, <2>2 DEF CallIn
    <2> HIDE DEF c
    <2>5. Prepared(c, teams, rows)
      BY <1>4, <2>1, <2>3, <2>4 DEF Prepared, Running, Steps
    <2> QED  BY <1>6, <2>3, <2>4, <2>5
  <1>11. CASE Clear(i)
    <2> DEFINE D == Deleting(i)
               a == [call[i] EXCEPT !.seen = {}, !.dead = @ \cup D]
               c == IF a.kind \in {"delete", "reset"} THEN [a EXCEPT !.pc = "drop"] ELSE InsertNext(a)
    <2>1. call' = [call EXCEPT ![i] = c] /\ k.pc = "clear"
      BY <1>11 DEF Clear, Advance
    <2>2. D = {r \in rows : k.kind = "reset" \/ r.team = k.team} \ k.dead
      BY <1>1, <1>4, <1>11 DEF Prepared, Deleting, Clear
    <2> HIDE DEF D
    <2>3. /\ a.seen = {} /\ a.kind = k.kind /\ a.own = k.own /\ a.free = k.free /\ a.squad = k.squad /\ a.pc = k.pc
          /\ a.dead = k.dead \cup D /\ a.born = k.born /\ a.players = k.players /\ a.left = k.left
          /\ a.team = k.team /\ Fields \subseteq DOMAIN a
      BY <1>1 DEF CallIn, Fields
    <2> HIDE DEF a
    <2>4. /\ c.kind = k.kind /\ c.own = k.own /\ c.free = k.free /\ c.squad = k.squad
          /\ c.seen = {} /\ c.dead = k.dead \cup D /\ c.born = k.born /\ c.players = k.players /\ c.left = k.left
          /\ c.team = k.team
          /\ k.kind = "create" => c.pc \in {"insert", "commit"}
          /\ k.kind # "create" => c.pc = "drop"
      BY <1>1, <2>3 DEF InsertNext, Fields
    <2> HIDE DEF c
    <2>5. Prepared(c, teams, rows)
      <3>1. CASE k.kind = "create"
        <4>1. k.dead = {} /\ D = {}
          BY <1>4, <2>1, <2>2, <3>1 DEF Prepared, Running, Steps
        <4> QED  BY <1>4, <2>1, <2>4, <3>1, <4>1 DEF Prepared, Running, Steps
      <3>2. CASE k.kind # "create"
        <4>1. k.dead = {} /\ k.born = {}
          BY <1>1, <1>4, <2>1, <3>2 DEF Prepared
        <4> QED  BY <1>1, <2>2, <2>4, <3>2, <4>1 DEF Prepared
      <3> QED  BY <3>1, <3>2
    <2>6. c.pc \notin {"ok", "done"}
      BY <2>4
    <2> QED  BY <1>6, <2>1, <2>4, <2>5, <2>6
  <1>12. CASE Drop(i)
    <2> DEFINE g == IF call[i].kind = "reset" THEN teams ELSE {call[i].team}
               c == [call[i] EXCEPT !.pc = "commit", !.gone = g]
    <2>1. call' = [call EXCEPT ![i] = c] /\ k.pc = "drop" /\ k.kind \in {"delete", "reset"}
      BY <1>1, <1>12 DEF Drop, Advance, Stands
    <2> HIDE DEF g
    <2>2. /\ c.kind = k.kind /\ c.own = k.own /\ c.free = k.free /\ c.squad = k.squad /\ c.pc = "commit"
          /\ c.seen = k.seen /\ c.dead = k.dead /\ c.born = k.born /\ c.team = k.team /\ c.gone = g
      BY <1>1 DEF CallIn
    <2> HIDE DEF c
    <2>3. Prepared(c, teams, rows)
      BY <1>4, <2>1, <2>2 DEF Prepared, g
    <2> QED  BY <1>6, <2>1, <2>2, <2>3
  <1>13. ASSUME NEW p \in Player, Insert(i, p) PROVE Shown'
    BY <1>1, <1>4, <1>13 DEF Insert, Prepared, Stands
  <1>14. CASE Abort(i)
    BY <1>7, <1>14 DEF Abort
  <1>15. CASE Wait(i)
    <2>1. \A j \in CallId \ {i} : call[j].dead = {}
      BY AloneFacts, CallFacts DEF Stands, Outside
    <2>2. Free(i, Deleting(i))
      BY <2>1 DEF Free
    <2> QED  BY <1>15, <2>2 DEF Wait
  <1> QED  BY <1>2, <1>8, <1>9, <1>10, <1>11, <1>12, <1>13, <1>14, <1>15

\* The only call is committed.
LEMMA AloneCommits ==
    ASSUME Typed, Typed', Shown, NEW i \in CallId, Single(i), Commit(i)
    PROVE  Shown'
  <1> DEFINE k == call[i]
             c == End(k, "ok")
             x(j) == call[j].crossed \/ (call[j].team = call[i].team /\ call[j].pc \in Steps \ {"sent"})
  <1>1. /\ k.own /\ Ending = rows /\ k.kind \in PageKinds \ {"update", "load"}
        /\ Alone(k) /\ k \in CallIn(Known) /\ Stands(k, lastTeam) /\ DOMAIN call = CallId
    BY AloneFacts
  <1>2. /\ k.pc = "commit" /\ rows' = (rows \ k.dead) \cup k.born
        /\ teams' = (teams \cup (IF k.kind \in {"create", "bulk"} THEN {k.team} ELSE {})) \ k.gone
        /\ alive' = alive /\ UNCHANGED page
    BY DEF Commit
  <1>3. call'[i] = c /\ \A j \in CallId \ {i} : call'[j] = [call[j] EXCEPT !.crossed = x(j)]
    BY DEF Commit
  <1> HIDE DEF x
  <1>4. ASSUME NEW j \in CallId \ {i} PROVE call'[j].pc = call[j].pc
    <2> DEFINE y == x(j)
    <2>1. call'[j] = [call[j] EXCEPT !.crossed = y] /\ call[j] \in CallIn(Known)
      BY <1>3, CallFacts
    <2> HIDE DEF y
    <2> QED  BY <2>1 DEF CallIn
  <1>5. /\ c.kind = k.kind /\ c.own = k.own /\ c.pc = "ok" /\ c.free = k.free /\ c.squad = k.squad
        /\ c.team = k.team
    <2>1. k \in CallIn(Known) /\ k.own
      BY <1>1
    <2> HIDE DEF k
    <2> QED  BY <2>1, EndsKeep
  <1>6. k.kind \in {"create", "delete", "reset"}
    BY <1>1, <1>2 DEF Stands, Writes, PageKinds
  <1>7. /\ Prepared(k, teams, rows) /\ InSync(k.free, k.squad, Edited, alive, teams, rows)
    BY <1>1, <1>2, <1>6 DEF Alone, Synced
  <1> HIDE DEF c
  <1>8. Confirmed(c, Edited, alive', teams', rows')
    <2>1. CASE k.kind = "create"
      <3>1. k.dead = {} /\ k.born = {} /\ k.gone = {} /\ k.team \notin teams /\ \A r \in rows : r.team # k.team
        BY <1>1, <1>2, <1>7, <2>1 DEF Prepared, Stands, Running, Steps
      <3>2. rows' = rows /\ teams' = teams \cup {k.team}
        BY <1>2, <2>1, <3>1
      <3>3. InSync(k.free, [u \in DOMAIN k.squad \cup {k.team} |-> IF u = k.team THEN {} ELSE k.squad[u]],
                   Edited, alive, teams \cup {k.team}, rows)
        BY <1>7, <3>1, CreateSync
      <3> QED  BY <1>2, <1>5, <2>1, <3>2, <3>3 DEF Confirmed
    <2>2. CASE k.kind = "delete"
      <3>1. k.dead = {r \in rows : r.team = k.team} /\ k.born = {} /\ k.gone = {k.team} /\ k.team \in DOMAIN k.squad
        BY <1>1, <1>2, <1>7, <2>2 DEF Prepared, Stands
      <3>2. rows' = rows \ {r \in rows : r.team = k.team} /\ teams' = teams \ {k.team}
        BY <1>2, <2>2, <3>1
      <3>3. InSync(k.free \cup k.squad[k.team], Without(k.squad, k.team), Edited, alive, teams \ {k.team},
                   rows \ {r \in rows : r.team = k.team})
        BY <1>7, <3>1, DeleteSync
      <3> QED  BY <1>2, <1>5, <2>2, <3>2, <3>3 DEF Confirmed
    <2>3. CASE k.kind = "reset"
      <3>1. k.gone = teams
        BY <1>2, <1>7, <2>3 DEF Prepared
      <3>2. teams' = {}
        BY <1>2, <2>3, <3>1
      <3> QED  BY <1>5, <2>3, <3>2 DEF Confirmed
    <2> QED  BY <1>6, <2>1, <2>2, <2>3
  <1>9. k.kind # "players" /\ k.pc # "ok"
    BY <1>2, <1>6
  <1> QED  BY <1>2, <1>3, <1>4, <1>5, <1>8, <1>9, AloneConfirms

\* The only call is a handler that is one statement, or fails.
LEMMA AloneHandler ==
    ASSUME Typed, Typed', Shown, NEW i \in CallId, Single(i), ServerStep(i),
           call[i].kind \in {"addPlayer", "deletePlayer", "savePlayer", "rename", "players"}
    PROVE  Shown'
  <1> DEFINE k == call[i]
  <1>1. /\ k.own /\ k.kind \in {"addPlayer", "deletePlayer", "savePlayer", "rename", "players"}
        /\ Ending = rows /\ Alone(k) /\ k \in CallIn(Known) /\ Stands(k, lastTeam) /\ DOMAIN call = CallId
    BY AloneFacts
  <1>2. \/ Abort(i) \/ Read(i) \/ DeletePlayer(i) \/ Rename(i) \/ (\E p \in Player : CreatePlayer(i, p))
    BY <1>1 DEF ServerStep, BeginUpdate, BeginDelete, BeginCreate, BeginBulk, Wait, Steal, Clear, Drop,
       Insert, Commit, Stands, Writes
  <1>3. k.pc \in Steps /\ k.pc # "ok"
    BY <1>2 DEF Abort, Read, DeletePlayer, Rename, CreatePlayer, Steps
  <1>4. k.kind # "players" => Prepared(k, teams, rows) /\ InSync(k.free, k.squad, Edited, alive, teams, rows)
    BY <1>1, <1>3 DEF Alone, Synced
  <1>5. UNCHANGED page /\ teams' = teams /\ rows' = rows
    BY <1>2 DEF Abort, Read, DeletePlayer, Rename, CreatePlayer, server
  <1>6. \A pc \in {"ok", "error", "unique"} :
          /\ End(k, pc).kind = k.kind /\ End(k, pc).own = k.own /\ End(k, pc).team = k.team
          /\ End(k, pc).players = k.players /\ End(k, pc).pc = pc
          /\ End(k, pc).free = k.free /\ End(k, pc).squad = k.squad
          /\ End(k, pc).left = {} /\ End(k, pc).seen = {} /\ End(k, pc).dead = {} /\ End(k, pc).born = {}
    <2>1. k \in CallIn(Known) /\ k.own
      BY <1>1
    <2> HIDE DEF k
    <2> QED  BY <2>1, EndsKeep
  <1>7. ASSUME Advance(i, End(k, "error")), alive' = alive PROVE Shown'
    <2> DEFINE c == End(k, "error")
    <2>1. /\ c.kind = k.kind /\ c.own = k.own /\ c.players = k.players
          /\ c.pc = "error" /\ c.free = k.free /\ c.squad = k.squad
      BY <1>6
    <2>2. call' = [call EXCEPT ![i] = c]
      BY <1>7 DEF Advance
    <2> HIDE DEF c
    <2>3. CASE k.kind = "players"
      <3>1. call'[i] = c /\ \A j \in CallId \ {i} : call'[j] = call[j]
        BY <1>1, <2>2
      <3>2. squad' = Nowhere /\ teams' = {}
        BY <1>1, <1>5, <2>3 DEF Alone, page
      <3>3. Alone(call[i])'
        BY <2>1, <2>3, <3>1, <3>2 DEF Alone
      <3> QED  BY <1>5, <2>1, <3>1, <3>3, AloneMoves DEF page
    <2>4. CASE k.kind # "players"
      <3>1. Prepared(c, teams, rows)
        BY <1>1, <1>4, <2>1, <2>4 DEF Prepared
      <3> QED  BY <1>3, <1>5, <1>7, <2>1, <2>2, <2>4, <3>1, AloneWaits
    <2> QED  BY <2>3, <2>4
  <1>8. ASSUME NEW c, call' = [call EXCEPT ![i] = c], k.kind # "players",
               c.kind = k.kind, c.own = k.own, c.free = k.free, c.squad = k.squad,
               c.pc = "ok", Confirmed(c, Edited, alive', teams, rows)
        PROVE  Shown'
    <2>1. call'[i] = c /\ \A j \in CallId \ {i} : call'[j] = call[j]
      BY <1>1, <1>8
    <2> QED  BY <1>3, <1>5, <1>8, <2>1, AloneConfirms
  <1>9. CASE Abort(i)
    BY <1>7, <1>9 DEF Abort, server
  <1>10. CASE Read(i)
    <2> DEFINE c == [call[i] EXCEPT !.pc = "ok", !.free = alive, !.squad = Composition]
    <2>1. call' = [call EXCEPT ![i] = c] /\ k.kind = "players" /\ alive' = alive
      BY <1>1, <1>10 DEF Read, Advance, server
    <2>2. c.kind = k.kind /\ c.own = k.own /\ c.pc = "ok" /\ c.free = alive
      BY <1>1 DEF CallIn
    <2> HIDE DEF c
    <2>3. call'[i] = c /\ \A j \in CallId \ {i} : call'[j] = call[j]
      BY <1>1, <2>1
    <2>4. squad' = Nowhere /\ teams' = {}
      BY <1>1, <1>5, <2>1 DEF Alone, page
    <2>5. Alone(call[i])'
      BY <2>1, <2>2, <2>3, <2>4 DEF Alone
    <2> QED  BY <1>5, <2>2, <2>3, <2>5, AloneMoves DEF page
  <1>11. CASE DeletePlayer(i)
    <2>1. k.kind = "deletePlayer" /\ alive' = alive \ k.players
      BY <1>11 DEF DeletePlayer
    <2>2. PICK p \in Player : k.players = {p}
      BY <1>4, <2>1 DEF Prepared
    <2>3. CASE k.players \subseteq alive
      <3> DEFINE c == End(k, "ok")
      <3>1. call' = [call EXCEPT ![i] = c]
        BY <1>11, <2>3 DEF DeletePlayer, Advance
      <3>2. /\ c.kind = k.kind /\ c.own = k.own /\ c.players = k.players
            /\ c.pc = "ok" /\ c.free = k.free /\ c.squad = k.squad
        BY <1>6
      <3> HIDE DEF c
      <3>3. InSync(k.free \ k.players, [u \in DOMAIN k.squad |-> k.squad[u] \ k.players], Edited,
                   alive \ k.players, teams, rows)
        BY <1>4, <2>1, DeletePlayerSync
      <3>4. Confirmed(c, Edited, alive', teams, rows)
        BY <2>1, <3>2, <3>3 DEF Confirmed
      <3> QED  BY <1>8, <2>1, <3>1, <3>2, <3>4
    <2>4. CASE ~(k.players \subseteq alive)
      <3>1. alive' = alive
        BY <2>1, <2>2, <2>4
      <3>2. Advance(i, End(k, "error"))
        BY <1>11, <2>4 DEF DeletePlayer
      <3> QED  BY <1>7, <3>1, <3>2
    <2> QED  BY <2>3, <2>4
  <1>12. CASE Rename(i)
    <2>1. k.kind \in {"savePlayer", "rename"} /\ alive' = alive
      BY <1>12 DEF Rename, server
    <2>2. Advance(i, End(k, "ok")) \/ Advance(i, End(k, "error"))
      BY <1>12 DEF Rename
    <2>3. ASSUME Advance(i, End(k, "ok")) PROVE Shown'
      <3> DEFINE c == End(k, "ok")
      <3>1. call' = [call EXCEPT ![i] = c]
        BY <2>3 DEF Advance
      <3>2. /\ c.kind = k.kind /\ c.own = k.own /\ c.pc = "ok" /\ c.free = k.free /\ c.squad = k.squad
        BY <1>6
      <3> HIDE DEF c
      <3>3. Confirmed(c, Edited, alive', teams, rows)
        BY <1>4, <2>1, <3>2 DEF Confirmed
      <3> QED  BY <1>8, <2>1, <3>1, <3>2, <3>3
    <2> QED  BY <1>7, <2>1, <2>2, <2>3
  <1>13. ASSUME NEW p \in Player, CreatePlayer(i, p) PROVE Shown'
    <2> DEFINE a == [call[i] EXCEPT !.players = {p}]
               c == End(a, "ok")
    <2>1. call' = [call EXCEPT ![i] = c] /\ k.kind = "addPlayer" /\ alive' = alive \cup {p} /\ p \in fresh
      BY <1>13 DEF CreatePlayer, Advance
    <2>2. a.kind = k.kind /\ a.own = k.own /\ a.free = k.free /\ a.squad = k.squad /\ a.players = {p}
          /\ Fields \subseteq DOMAIN a
      BY <1>1 DEF CallIn, Fields
    <2> HIDE DEF a
    <2>3. c.kind = k.kind /\ c.own = k.own /\ c.free = k.free /\ c.squad = k.squad /\ c.players = {p}
          /\ c.pc = "ok"
      BY <1>1, <2>2 DEF End, Fields
    <2> HIDE DEF c
    <2>4. p \notin alive /\ \A r \in rows : r.player # p
      BY <2>1 DEF Typed, TablesTyped, Known, RowIn
    <2>5. InSync(k.free \cup {p}, k.squad, Edited, alive \cup {p}, teams, rows)
      BY <1>4, <2>1, <2>4, AddPlayerSync
    <2>6. Confirmed(c, Edited, alive', teams, rows)
      BY <2>1, <2>3, <2>5 DEF Confirmed
    <2> QED  BY <1>8, <2>1, <2>3, <2>6
  <1> QED  BY <1>2, <1>9, <1>10, <1>11, <1>12, <1>13

\* The page while the server works.
LEMMA ServerShown ==
    ASSUME Typed, Typed', TeamInv, Shown, NEW i \in CallId, ServerStep(i), ~behind'
    PROVE  Shown'
  <1>1. call[i].pc \in Steps /\ InFlight(i)
    BY DEF ServerStep, BeginUpdate, BeginDelete, BeginCreate, BeginBulk, Wait, Steal, Clear, Drop, Insert,
       Commit, Abort, Read, CreatePlayer, DeletePlayer, Rename, Steps, InFlight
  <1>2. call[i].kind \in PageKinds
    BY <1>1 DEF Shown
  <1>3. CASE call[i].kind \in {"update", "load"}
    BY <1>3, UpdateShown, LoadShown
  <1>4. CASE call[i].kind \in {"create", "delete", "reset"}
    <2>1. Single(i)
      BY <1>1, <1>4 DEF Single
    <2> QED  BY <1>4, <2>1, AloneTransaction, AloneCommits
  <1>5. CASE call[i].kind \in {"addPlayer", "deletePlayer", "savePlayer", "rename", "players"}
    <2>1. Single(i)
      BY <1>1, <1>5 DEF Single
    <2> QED  BY <1>5, <2>1, AloneHandler
  <1> QED  BY <1>2, <1>3, <1>4, <1>5 DEF PageKinds, Kinds

-----------------------------------------------------------------------------
(* What the page shows, as it is edited                                    *)

\* What a request says.
LEMMA RequestSays ==
    ASSUME NEW kind, NEW t, NEW S
    PROVE  LET c == Request(kind, t, S) IN
           /\ c.kind = kind /\ c.own /\ c.team = t /\ c.players = S /\ c.pc = "sent"
           /\ c.left = {} /\ c.seen = {} /\ c.dead = {} /\ c.born = {}
           /\ c.free = free /\ c.squad = squad
  BY DEF Request, Done

\* What is sent is the last call.
LEMMA SendFacts ==
    ASSUME Typed, Typed', NEW c, Send(call, c)
    PROVE  /\ sent + 1 \in CallId /\ call'[sent + 1] = c /\ call[sent + 1].pc = "done"
           /\ \A j \in CallId \ {sent + 1} : call'[j] = call[j]
           /\ \A j \in CallId : InFlight(j) => j < sent + 1
  <1>1. sent \in Nat /\ sent' \in 0..(MaxCalls + 1) /\ sent' = sent + 1 /\ DOMAIN call = CallId
    BY BoundAssumption DEF Typed, CallsTyped, Send
  <1>2. sent + 1 \in CallId
    BY <1>1, BoundAssumption DEF CallId
  <1>3. call' = [call EXCEPT ![sent + 1] = c]
    BY DEF Send
  <1>4. \A j \in CallId : j > sent => call[j].pc = "done"
    BY DEF Typed, CallsTyped
  <1>5. \A j \in CallId : InFlight(j) => j < sent + 1
    BY <1>1, <1>4, BoundAssumption DEF InFlight, CallId
  <1>6. call[sent + 1].pc = "done"
    BY <1>1, <1>2, <1>4
  <1> QED  BY <1>1, <1>2, <1>3, <1>5, <1>6

\* Nothing happens that the page or its calls could tell.
LEMMA ShownStays ==
    ASSUME Shown, UNCHANGED <<server, call, open, free, squad>>, Edited' = Edited
    PROVE  Shown'
  <1>1. Updating' = Updating /\ Ending' = Ending /\ Composition' = Composition
    BY DEF Updating, Ending, Over, Sets, Composition, Members, server
  <1>2. \A j \in CallId : /\ InFlight(j)' <=> InFlight(j)
                          /\ Single(j)' <=> Single(j)
                          /\ Lost(j)' <=> Lost(j)
    BY DEF InFlight, Single, Lost
  <1>3. Synced(free, squad)' <=> Synced(free, squad)
    BY <1>1 DEF Synced, server
  <1>4. ASSUME NEW j \in CallId PROVE Alone(call[j])' <=> Alone(call[j])
    BY <1>1 DEF Alone, Synced, server
  <1> QED  BY <1>1, <1>2, <1>3, <1>4 DEF Shown, server, CallId

\* A team whose timer was started may differ from what was done.
LEMMA ConfirmedLoosens ==
    ASSUME NEW c, NEW T, NEW U, T \subseteq U, NEW A, NEW W, NEW E, Confirmed(c, T, A, W, E)
    PROVE  Confirmed(c, U, A, W, E)
  BY SyncLoosens DEF Confirmed

\* A team is edited, and its timer starts.
LEMMA EditShown ==
    ASSUME Typed, Shown, ~Loading, UNCHANGED <<server, call, open>>,
           NEW t \in DOMAIN squad, timers' = timers \cup {t}, DOMAIN squad' = DOMAIN squad,
           \A T, A, W, E : InSync(free, squad, T, A, W, E) => InSync(free', squad', T \cup {t}, A, W, E)
    PROVE  Shown'
  <1>1. Updating' = Updating /\ Ending' = Ending
    BY DEF Updating, Ending, Over, Sets, server
  <1>2. \A j \in CallId : /\ InFlight(j)' <=> InFlight(j)
                          /\ Single(j)' <=> Single(j)
                          /\ Lost(j)' <=> Lost(j)
    BY DEF InFlight, Single, Lost
  <1>3. Edited' = Edited \cup {t}
    BY DEF Edited
  <1>4. Synced(free, squad) => Synced(free, squad)'
    BY <1>1, <1>3 DEF Synced, server
  <1>5. \A j \in CallId : InFlight(j) => call[j].kind # "load"
    BY DEF Loading, Mine, Shown
  <1>6. ASSUME NEW j \in CallId, Alone(call[j]) PROVE Alone(call[j])'
    <2> DEFINE c == call[j]
    <2>1. c.kind # "players"
      BY <1>6, NowhereFacts DEF Alone
    <2>2. DOMAIN c.squad = DOMAIN squad
      BY <1>6, <2>1 DEF Alone
    <2>3. CASE c.pc = "ok"
      <3>1. Confirmed(c, Edited, alive, teams, Ending)
        BY <1>6, <2>1, <2>3 DEF Alone
      <3> HIDE DEF c
      <3>2. Confirmed(c, Edited \cup {t}, alive, teams, Ending)
        BY <3>1, ConfirmedLoosens
      <3> USE DEF c
      <3>3. Confirmed(call[j], Edited, alive, teams, Ending)'
        BY <1>1, <1>3, <3>2 DEF server
      <3> QED  BY <2>1, <2>2, <2>3, <3>3 DEF Alone
    <2>4. CASE c.pc # "ok"
      <3>1. Prepared(c, teams, rows) /\ Synced(free, squad) /\ Synced(c.free, c.squad)
        BY <1>6, <2>1, <2>4 DEF Alone
      <3> HIDE DEF c
      <3>2. InSync(c.free, c.squad, Edited \cup {t}, alive, teams, Ending)
        BY <3>1, SyncLoosens DEF Synced
      <3> USE DEF c
      <3>3. Synced(c.free, c.squad)'
        BY <1>1, <1>3, <3>2 DEF Synced, server
      <3>4. Prepared(call[j], teams, rows)'
        BY <3>1 DEF server
      <3> QED  BY <1>4, <2>1, <2>2, <2>4, <3>1, <3>3, <3>4 DEF Alone
    <2> QED  BY <2>3, <2>4
  <1> QED  BY <1>2, <1>4, <1>5, <1>6 DEF Shown, CallId

\* What a team is now replaces its rows, and those of its players.
LEMMA FireSync ==
    ASSUME NEW f, NEW s, NEW T, NEW A, NEW W, NEW E, InSync(f, s, T, A, W, E), NEW t \in DOMAIN s, NEW F,
           \A u \in DOMAIN s, p \in A :
              [team |-> u, player |-> p] \in F <=> \/ u = t /\ p \in s[t]
                                                   \/ u # t /\ p \notin s[t] /\ [team |-> u, player |-> p] \in E
    PROVE  InSync(f, s, T \ {t}, A, W, F)
  <1>1. ASSUME NEW u \in DOMAIN s \ (T \ {t}), NEW p \in A
        PROVE  p \in s[u] <=> [team |-> u, player |-> p] \in F
    <2>1. CASE u = t
      BY <2>1
    <2>2. CASE u # t
      <3>1. p \in s[u] <=> [team |-> u, player |-> p] \in E
        BY <2>2 DEF InSync
      <3>2. p \in s[u] => p \notin s[t]
        BY <2>2 DEF InSync
      <3> QED  BY <2>2, <3>1, <3>2
    <2> QED  BY <2>1, <2>2
  <1> QED  BY <1>1 DEF InSync

\* An update that is sent comes last.
LEMMA UpdateLast ==
    ASSUME Typed, Typed', NEW t, NEW S, Send(call, Request("update", t, S)), rows' = rows
    PROVE  Ending' = {r \in Row : \/ r.team = t /\ r.player \in S
                                  \/ r.team # t /\ r.player \notin S /\ r \in Ending}
  <1> DEFINE c == Request("update", t, S)
  <1>0. PICK n : n = sent + 1
    OBVIOUS
  <1>1. /\ n \in CallId /\ call'[n] = c /\ call[n].pc = "done"
        /\ \A j \in CallId \ {n} : call'[j] = call[j]
        /\ \A j \in CallId : InFlight(j) => j < n
    BY <1>0, SendFacts
  <1>2. c.kind = "update" /\ c.team = t /\ c.players = S /\ c.pc = "sent"
    BY RequestSays
  <1> HIDE DEF c
  <1>3. Updating' = Updating \cup {n} /\ n \notin Updating
    BY <1>1, <1>2 DEF Updating, Steps, CallId
  <1>4. \A j \in Updating : j \in Nat /\ n \in Nat /\ j < n
    BY <1>1 DEF Updating, InFlight, CallId, Steps
  <1>5. \A r : /\ Over(n, r)' <=> r.team = t \/ r.player \in S
               /\ Sets(n, r)' <=> r.team = t /\ r.player \in S
    BY <1>1, <1>2 DEF Over, Sets
  <1>6. \A j \in Updating, r \in Row : (Over(j, r)' <=> Over(j, r)) /\ (Sets(j, r)' <=> Sets(j, r))
    BY <1>1, <1>3 DEF Over, Sets, Updating
  <1>7. ASSUME NEW r \in Row
        PROVE  r \in Ending' <=> Sets(n, r)' \/ (~Over(n, r)' /\ r \in Ending)
    <2>1. ASSUME Sets(n, r)' PROVE r \in Ending'
      <3>1. \A j \in Updating' : ~(j > n)
        BY <1>1, <1>3, <1>4 DEF CallId
      <3> QED  BY <1>3, <2>1, <3>1 DEF Ending
    <2>2. ASSUME ~Over(n, r)', r \in Ending PROVE r \in Ending'
      <3>1. CASE \E i \in Updating : Sets(i, r) /\ \A j \in Updating : j > i => ~Over(j, r)
        BY <1>3, <1>6, <2>2, <3>1 DEF Ending
      <3>2. CASE r \in rows /\ \A j \in Updating : ~Over(j, r)
        BY <1>3, <1>6, <2>2, <3>2 DEF Ending
      <3> QED  BY <2>2, <3>1, <3>2 DEF Ending
    <2>3. ASSUME r \in Ending', ~Sets(n, r)' PROVE ~Over(n, r)' /\ r \in Ending
      <3>1. CASE \E i \in Updating' : Sets(i, r)' /\ \A j \in Updating' : j > i => ~Over(j, r)'
        <4>1. PICK i \in Updating' : Sets(i, r)' /\ \A j \in Updating' : j > i => ~Over(j, r)'
          BY <3>1
        <4>2. i # n
          BY <2>3, <4>1
        <4>3. i \in Updating /\ n > i
          BY <1>3, <1>4, <4>2
        <4> QED  BY <1>3, <1>6, <4>1, <4>3 DEF Ending
      <3>2. CASE r \in rows' /\ \A j \in Updating' : ~Over(j, r)'
        BY <1>3, <1>6, <3>2 DEF Ending
      <3> QED  BY <2>3, <3>1, <3>2 DEF Ending
    <2> QED  BY <2>1, <2>2, <2>3
  <1>8. Ending' \subseteq Row
    BY DEF Ending
  <1> QED  BY <1>5, <1>7, <1>8

\* A timer fires.
LEMMA FireShown ==
    ASSUME Typed, Typed', Shown, NEW t \in TeamId, Fire(t), ~behind'
    PROVE  Shown'
  <1>1. UNCHANGED <<server, open, free, squad>> /\ timers' = timers \ {t}
    BY DEF Fire
  <1>2. Edited' = Edited \ {t}
    BY <1>1 DEF Edited
  <1>3. CASE t \notin DOMAIN squad
    <2>1. Edited' = Edited
      BY <1>2, <1>3 DEF Edited
    <2>2. UNCHANGED call
      BY <1>3 DEF Fire
    <2> QED  BY <1>1, <2>1, <2>2, ShownStays
  <1>4. CASE t \in DOMAIN squad
    <2> DEFINE S == squad[t]
               c == Request("update", t, S)
    <2>1. Send(call, c) /\ ~Overlaps("update")
      BY <1>4 DEF Fire
    <2>2. PICK n : n = sent + 1
      OBVIOUS
    <2>3. /\ n \in CallId /\ call'[n] = c /\ call[n].pc = "done"
          /\ \A j \in CallId \ {n} : call'[j] = call[j]
      BY <2>1, <2>2, SendFacts
    <2>4. c.kind = "update" /\ c.own /\ c.pc = "sent"
      BY RequestSays
    <2>5. \A j \in CallId : InFlight(j) => call[j].kind = "update" /\ call[j].own
      BY <2>1 DEF Overlaps, Mine, Shown
    <2>6. Ending' = {r \in Row : \/ r.team = t /\ r.player \in S
                                 \/ r.team # t /\ r.player \notin S /\ r \in Ending}
      BY <1>1, <2>1, UpdateLast DEF server
    <2> HIDE DEF c
    <2>7. \A j \in CallId : InFlight(j)' => call'[j].kind = "update" /\ call'[j].own
      BY <2>3, <2>4, <2>5 DEF InFlight
    <2>8. \A j \in CallId : Lost(j) => Lost(j)'
      BY <2>3 DEF Lost, InFlight
    <2>9. \A j \in CallId : ~Single(j)
      BY <2>5 DEF Single
    <2>10. Synced(free, squad) => Synced(free, squad)'
      <3> SUFFICES ASSUME Synced(free, squad) PROVE Synced(free, squad)'
        OBVIOUS
      <3>1. DOMAIN squad \subseteq TeamId /\ alive \subseteq Player
        BY PageFacts DEF Typed, TablesTyped, Known
      <3>2. \A u \in TeamId, p \in Player :
               /\ [team |-> u, player |-> p] \in Row
               /\ [team |-> u, player |-> p].team = u /\ [team |-> u, player |-> p].player = p
        BY DEF Row
      <3>3. \A u \in DOMAIN squad, p \in alive :
               [team |-> u, player |-> p] \in Ending' <=>
                  \/ u = t /\ p \in S
                  \/ u # t /\ p \notin S /\ [team |-> u, player |-> p] \in Ending
        BY <2>6, <3>1, <3>2
      <3>4. PICK F : F = Ending'
        OBVIOUS
      <3>5. InSync(free, squad, Edited \ {t}, alive, teams, F)
        BY <1>4, <3>3, <3>4, FireSync DEF Synced
      <3> QED  BY <1>1, <1>2, <3>4, <3>5 DEF Synced, server
    <2>11. open'
      BY <1>1 DEF Shown
    <2>12. \A j \in CallId : (InFlight(j) => call[j].own /\ call[j].kind \in PageKinds)'
      BY <2>7 DEF PageKinds, Kinds
    <2>13. \A j \in CallId : ~Single(j)' /\ ~(InFlight(j)' /\ call'[j].kind = "load")
      BY <2>7 DEF Single
    <2>14. (\A j \in CallId : ~Lost(j) /\ ~Single(j))' => Synced(free, squad)'
      BY <2>8, <2>9, <2>10 DEF Shown
    <2> QED  BY <2>11, <2>12, <2>13, <2>14 DEF Shown, CallId
  <1> QED  BY <1>3, <1>4

\* A tap that calls the server.
LEMMA SubmitShown ==
    ASSUME Typed, Typed', Shown, NEW kind \in PageKinds \ {"update", "load", "players"}, NEW t, NEW S,
           kind = "create" => S = {}, kind = "deletePlayer" => \E p \in Player : S = {p},
           Submit(kind, t, S), ~behind'
    PROVE  Shown'
  <1> DEFINE c == Request(kind, t, S)
  <1>1. Send(call, c) /\ ~Overlaps(kind) /\ UNCHANGED <<server, page>>
    BY DEF Submit
  <1>2. PICK n : n = sent + 1
    OBVIOUS
  <1>3. /\ n \in CallId /\ call'[n] = c /\ call[n].pc = "done"
        /\ \A j \in CallId \ {n} : call'[j] = call[j]
    BY <1>1, <1>2, SendFacts
  <1>4. /\ c.kind = kind /\ c.own /\ c.players = S /\ c.pc = "sent" /\ c.left = {} /\ c.seen = {}
        /\ c.dead = {} /\ c.born = {} /\ c.free = free /\ c.squad = squad
    BY RequestSays
  <1> HIDE DEF c
  <1>5. \A j \in CallId : ~InFlight(j)
    BY <1>1 DEF Overlaps, Mine, Shown
  <1>6. Synced(free, squad)
    BY <1>5 DEF Shown, Lost, Single
  <1>7. Updating = {} /\ Updating' = {}
    BY <1>3, <1>4, <1>5 DEF Updating, InFlight, Steps, PageKinds, CallId
  <1>8. Ending = rows /\ Ending' = rows /\ Edited' = Edited
    <2>1. rows \subseteq Row
      BY DEF Typed, TablesTyped, RowIn, Row, Known
    <2> QED  BY <1>1, <1>7, <2>1 DEF Ending, Edited, server, page
  <1>9. Synced(free, squad)'
    BY <1>1, <1>6, <1>8 DEF Synced, server, page
  <1>10. Prepared(c, teams, rows)
    BY <1>4 DEF Prepared, Running, Steps
  <1>11. Alone(call[n])'
    <2>1. DOMAIN c.squad = DOMAIN squad' /\ c.pc # "ok" /\ c.kind # "players"
      BY <1>1, <1>4 DEF page
    <2>2. InSync(c.free, c.squad, Edited', alive', teams', Ending')
      BY <1>1, <1>4, <1>6, <1>8 DEF Synced, server
    <2>3. Prepared(c, teams', rows')
      BY <1>1, <1>10 DEF server
    <2> QED  BY <1>3, <1>9, <2>1, <2>2, <2>3 DEF Alone, Synced
  <1>12. \A j \in CallId : InFlight(j)' => j = n
    BY <1>3, <1>5 DEF InFlight
  <1>13. Single(n)' /\ call'[n].own /\ call'[n].kind \in PageKinds \ {"load"}
    BY <1>3, <1>4 DEF Single, InFlight
  <1> QED  BY <1>1, <1>3, <1>11, <1>12, <1>13 DEF Shown, Single, page, CallId

\* The page is opened when nothing is under way: it loads.
LEMMA OpenShown == Typed /\ Typed' /\ Open /\ ~behind' => Shown'
  <1> SUFFICES ASSUME Typed, Typed', Open, ~behind' PROVE Shown'
    OBVIOUS
  <1> DEFINE c == [Request("load", 0, {}) EXCEPT !.free = {}, !.squad = Nowhere]
  <1>1. Send(call, c) /\ open' /\ \A j \in CallId : ~InFlight(j)
    BY DEF Open
  <1>2. PICK n : n = sent + 1
    OBVIOUS
  <1>3. /\ n \in CallId /\ call'[n] = c
        /\ \A j \in CallId \ {n} : call'[j] = call[j]
    BY <1>1, <1>2, SendFacts
  <1>4. c.kind = "load" /\ c.own /\ c.pc = "sent"
    BY DEF Request, Done
  <1> HIDE DEF c
  <1>5. \A j \in CallId : InFlight(j)' => j = n
    BY <1>1, <1>3 DEF InFlight
  <1>6. Lost(n)' /\ ~Single(n)'
    BY <1>3, <1>4 DEF Lost, Single, InFlight
  <1> QED  BY <1>1, <1>3, <1>4, <1>5, <1>6 DEF Shown, Single, PageKinds, Kinds, CallId

\* What the page shows, whatever is done on it.
LEMMA PageShown ==
    ASSUME Typed, Typed', ShowInv, PageStep, ~behind'
    PROVE  Shown'
  <1>1. CASE Open
    BY <1>1, OpenShown
  <1>2. CASE Leave
    BY <1>2 DEF Leave
  <1>3. ASSUME NEW p \in Player, Select(p) PROVE Shown'
    <2>1. UNCHANGED <<server, call, open, free, squad>> /\ Edited' = Edited /\ ~behind
      BY <1>3 DEF Select, Edited
    <2> QED  BY <2>1, ShownStays DEF ShowInv
  <1>4. ASSUME NEW t \in TeamId, AddToTeam(t) PROVE Shown'
    <2>1. ~behind /\ picked \subseteq free
      BY <1>4 DEF AddToTeam
    <2>2. /\ ~Loading /\ UNCHANGED <<server, call, open>> /\ t \in DOMAIN squad
          /\ squad' = [squad EXCEPT ![t] = @ \cup picked] /\ free' = free \ picked
          /\ timers' = timers \cup {t}
      BY <1>4 DEF AddToTeam, Tap, ScheduleSync
    <2>3. DOMAIN squad' = DOMAIN squad
      BY <2>2
    <2>4. \A T, A, W, E : InSync(free, squad, T, A, W, E) => InSync(free', squad', T \cup {t}, A, W, E)
      BY <2>1, <2>2, AddSync
    <2> QED  BY <2>1, <2>2, <2>3, <2>4, EditShown DEF ShowInv
  <1>5. ASSUME NEW t \in TeamId, Fire(t) PROVE Shown'
    <2>1. ~behind
      BY <1>5 DEF Fire
    <2> QED  BY <1>5, <2>1, FireShown DEF ShowInv
  <1>6. ASSUME NEW t \in TeamId, NEW p \in Player, RemoveFromTeam(t, p) PROVE Shown'
    <2>1. ~behind
      BY <1>6 DEF RemoveFromTeam
    <2>2. /\ ~Loading /\ UNCHANGED <<server, call, open>> /\ t \in DOMAIN squad /\ p \in squad[t]
          /\ squad' = [squad EXCEPT ![t] = @ \ {p}] /\ free' = free \cup {p}
          /\ timers' = timers \cup {t}
      BY <1>6 DEF RemoveFromTeam, Tap, ScheduleSync
    <2>3. DOMAIN squad' = DOMAIN squad
      BY <2>2
    <2>4. \A T, A, W, E : InSync(free, squad, T, A, W, E) => InSync(free', squad', T \cup {t}, A, W, E)
      BY <2>2, RemoveSync
    <2> QED  BY <2>1, <2>2, <2>3, <2>4, EditShown DEF ShowInv
  <1>7. ASSUME NEW kind \in PageKinds \ {"update", "load", "players"}, NEW t, NEW S,
               kind = "create" => S = {}, kind = "deletePlayer" => \E p \in Player : S = {p},
               Submit(kind, t, S)
        PROVE  Shown'
    <2>1. ~behind
      BY <1>7 DEF Submit
    <2> QED  BY <1>7, <2>1, SubmitShown DEF ShowInv
  <1>8. ASSUME NEW k \in {"create", "reset", "addPlayer"}, Submit(k, 0, {}) PROVE Shown'
    <2>1. k \in PageKinds \ {"update", "load", "players"} /\ k # "deletePlayer"
      BY DEF PageKinds, Kinds
    <2> QED  BY <1>7, <1>8, <2>1
  <1>9. ASSUME NEW k \in {"delete", "rename"}, NEW t \in TeamId, Submit(k, t, {}) PROVE Shown'
    <2>1. k \in PageKinds \ {"update", "load", "players"} /\ k # "deletePlayer"
      BY DEF PageKinds, Kinds
    <2> QED  BY <1>7, <1>9, <2>1
  <1>10. ASSUME NEW k \in {"deletePlayer", "savePlayer"}, NEW p \in Player, Submit(k, 0, {p}) PROVE Shown'
    <2>1. k \in PageKinds \ {"update", "load", "players"} /\ k # "create"
      BY DEF PageKinds, Kinds
    <2> QED  BY <1>7, <1>10, <2>1
  <1> QED  BY <1>1, <1>2, <1>3, <1>4, <1>5, <1>6, <1>8, <1>9, <1>10 DEF PageStep

-----------------------------------------------------------------------------
(* What the page shows, when it is answered                                *)

\* The only call is answered, and the page shows what came of it.
LEMMA AloneAnswered ==
    ASSUME Typed, Typed', Shown, NEW i \in CallId, Single(i), Finish(i), UNCHANGED <<server, open, timers>>,
           InSync(free', squad', Edited, alive, teams, Ending)
    PROVE  Shown'
  <1>1. Ending = rows /\ DOMAIN call = CallId /\ \A j \in CallId \ {i} : call[j].pc = "done"
    BY AloneFacts
  <1>2. \A j \in CallId : call'[j].pc = "done"
    BY <1>1 DEF Finish, Close, Done
  <1>3. Updating' = {}
    BY <1>2 DEF Updating, Steps
  <1>4. Ending' = rows'
    BY <1>3, EndingIsRows DEF Ending, Typed, TablesTyped, RowIn, Row, Known
  <1>5. PICK g : g = free'
    OBVIOUS
  <1>6. PICK z : z = squad'
    OBVIOUS
  <1>7. Edited \cap DOMAIN z \subseteq Edited'
    BY <1>6 DEF Edited
  <1>8. InSync(g, z, Edited', alive, teams, rows)
    <2>1. PICK U : U = Edited'
      OBVIOUS
    <2>2. InSync(g, z, Edited, alive, teams, rows)
      BY <1>1, <1>5, <1>6
    <2>3. InSync(g, z, U, alive, teams, rows)
      BY <1>7, <2>1, <2>2, SyncLoosens
    <2> QED  BY <2>1, <2>3
  <1>9. Synced(free, squad)'
    BY <1>4, <1>5, <1>6, <1>8 DEF Synced, server
  <1>10. open'
    BY DEF Shown
  <1> QED  BY <1>2, <1>9, <1>10 DEF Shown, Single, InFlight, CallId

\* A list that is loaded is in step.
LEMMA LoadAnswered ==
    ASSUME Typed, Typed', TeamInv, Shown, NEW i \in CallId, LoadAnswer(i)
    PROVE  Shown'
  <1>1. /\ InFlight(i) /\ call[i].kind = "load" /\ call[i].pc = "ok"
        /\ squad' = call[i].squad /\ free' = call[i].free \ Assigned(call[i].squad)
        /\ UNCHANGED <<server, open, timers>> /\ call' = [call EXCEPT ![i] = Done]
    BY DEF LoadAnswer, Answered, Mine, Finish, Close
  <1>2. call[i].squad = Composition /\ call[i].free = alive /\ Updating = {}
    BY <1>1 DEF Shown
  <1>3. call'[i] = Done /\ \A j \in CallId \ {i} : call'[j] = call[j]
    BY <1>1 DEF Typed, CallsTyped
  <1>4. \A j \in CallId : InFlight(j)' => InFlight(j) /\ call'[j] = call[j]
    BY <1>3 DEF InFlight, Done
  <1>5. \A j \in CallId : ~Single(j)
    BY <1>1 DEF Shown, Single
  <1>6. \A j \in CallId : ~Single(j)'
    BY <1>4, <1>5 DEF Single
  <1>7. Updating' = {}
    BY <1>2, <1>4 DEF Updating, InFlight, Steps
  <1>8. Ending' = rows' /\ Composition' = Composition
    BY <1>1, <1>7 DEF Ending, Typed, TablesTyped, RowIn, Row, Known, Composition, Members, server
  <1>9. OneTeamPerPlayer
    BY DEF TeamInv
  <1>10. InSync(alive \ Assigned(Composition), Composition, Edited', alive, teams, rows)
    <2>1. PICK U : U = Edited'
      OBVIOUS
    <2>2. InSync(alive \ Assigned(Composition), Composition, U, alive, teams, rows)
      BY <1>9, CompositionSync
    <2> QED  BY <2>1, <2>2
  <1>11. Synced(free, squad)'
    BY <1>1, <1>2, <1>8, <1>10 DEF Synced, server
  <1>12. \A j \in CallId : InFlight(j)' => call'[j].own /\ call'[j].kind \in PageKinds
    BY <1>4 DEF Shown
  <1>13. \A j \in CallId : InFlight(j)' /\ call'[j].kind = "load" /\ call'[j].pc = "ok" =>
           call'[j].squad = Composition' /\ call'[j].free = alive'
    BY <1>1, <1>4, <1>8 DEF Shown, server
  <1> QED  BY <1>1, <1>6, <1>7, <1>11, <1>12, <1>13 DEF Shown, CallId, PageKinds, Kinds

\* An update that was done is forgotten.
LEMMA UpdateAnswered ==
    ASSUME Typed, Typed', Shown, NEW i \in CallId, UpdateAnswer(i)
    PROVE  Shown'
  <1>1. /\ InFlight(i) /\ call[i].kind = "update" /\ call[i].pc = "ok"
        /\ UNCHANGED <<server, page>> /\ call' = [call EXCEPT ![i] = Done]
    BY DEF UpdateAnswer, Answered, Mine, Finish, Close
  <1>2. call'[i] = Done /\ \A j \in CallId \ {i} : call'[j] = call[j]
    BY <1>1 DEF Typed, CallsTyped
  <1>3. \A j \in CallId : InFlight(j)' => InFlight(j) /\ call'[j] = call[j]
    BY <1>2 DEF InFlight, Done
  <1>4. \A j \in CallId : ~Single(j)
    BY <1>1 DEF Shown, Single
  <1>5. \A j \in CallId : ~Single(j)'
    BY <1>3, <1>4 DEF Single
  <1>6. Updating' = Updating
    BY <1>1, <1>2 DEF Updating, Steps, Done, CallId
  <1>7. Ending' = Ending /\ Composition' = Composition
    <2>1. \A j \in Updating : call'[j].team = call[j].team /\ call'[j].players = call[j].players
      BY <1>1, <1>2 DEF Updating, Steps
    <2> QED  BY <1>1, <1>6, <2>1, EndingStays DEF server, Composition, Members
  <1>8. Synced(free, squad)' <=> Synced(free, squad)
    BY <1>1, <1>7 DEF Synced, Edited, server, page
  <1>9. \A j \in CallId : Lost(j) => Lost(j)'
    BY <1>1, <1>2 DEF Lost, InFlight
  <1>10. (\A j \in CallId : ~Lost(j) /\ ~Single(j))' => Synced(free, squad)'
    BY <1>4, <1>8, <1>9 DEF Shown
  <1>11. \A j \in CallId : InFlight(j)' => call'[j].own /\ call'[j].kind \in PageKinds
    BY <1>3 DEF Shown
  <1>12. \A j \in CallId : InFlight(j)' /\ call'[j].kind = "load" /\ call'[j].pc = "ok" =>
           call'[j].squad = Composition' /\ call'[j].free = alive' /\ Updating' = {}
    BY <1>1, <1>3, <1>6, <1>7 DEF Shown, server
  <1> QED  BY <1>1, <1>5, <1>10, <1>11, <1>12 DEF Shown, page, CallId, PageKinds, Kinds

\* A call that is answered, and one that is sent for it.
LEMMA ResendFacts ==
    ASSUME Typed, Typed', NEW i \in CallId, InFlight(i), NEW c, Send(Close(i), c)
    PROVE  /\ sent + 1 \in CallId \ {i} /\ call'[sent + 1] = c /\ call'[i] = Done
           /\ \A j \in CallId \ {i, sent + 1} : call'[j] = call[j]
           /\ call[sent + 1].pc = "done"
  <1>1. sent \in Nat /\ sent' \in 0..(MaxCalls + 1) /\ sent' = sent + 1 /\ DOMAIN call = CallId
    BY BoundAssumption DEF Typed, CallsTyped, Send
  <1>2. sent + 1 \in CallId
    BY <1>1, BoundAssumption DEF CallId
  <1>3. call' = [[call EXCEPT ![i] = Done] EXCEPT ![sent + 1] = c]
    BY DEF Send, Close
  <1>4. call[sent + 1].pc = "done"
    BY <1>1, <1>2 DEF Typed, CallsTyped
  <1>5. i # sent + 1
    BY <1>4 DEF InFlight
  <1> QED  BY <1>1, <1>2, <1>3, <1>4, <1>5

\* An update that failed is loaded again.
LEMMA UpdateFailed ==
    ASSUME Typed, Typed', Shown, NEW i \in CallId, FailedAnswer(i), call[i].kind = "update"
    PROVE  Shown'
  <1> DEFINE c == Request("load", 0, {})
  <1>1. InFlight(i) /\ i \notin Updating /\ UNCHANGED <<server, page>> /\ Send(Close(i), c)
    BY DEF FailedAnswer, Mine, Updating, Steps, Reload
  <1>2. PICK n : n = sent + 1
    OBVIOUS
  <1>3. /\ n \in CallId \ {i} /\ call'[n] = c /\ call'[i] = Done
        /\ \A j \in CallId \ {i, n} : call'[j] = call[j]
        /\ call[n].pc = "done"
    BY <1>1, <1>2, ResendFacts
  <1>4. c.kind = "load" /\ c.own /\ c.pc = "sent"
    BY RequestSays
  <1> HIDE DEF c
  <1>5. \A j \in CallId \ {n} : InFlight(j)' => InFlight(j) /\ call'[j] = call[j]
    BY <1>3 DEF InFlight, Done
  <1>6. \A j \in CallId : ~Single(j)
    BY <1>1 DEF Shown, Single
  <1>7. \A j \in CallId : ~Single(j)'
    BY <1>3, <1>4, <1>5, <1>6 DEF Single
  <1>8. Updating' = Updating /\ Composition' = Composition
    BY <1>1, <1>3, <1>4 DEF Updating, Steps, Done, CallId, Composition, Members, server
  <1>9. Lost(n)'
    BY <1>3, <1>4 DEF Lost, InFlight
  <1>10. \A j \in CallId : InFlight(j)' => call'[j].own /\ call'[j].kind \in PageKinds
    BY <1>3, <1>4, <1>5 DEF Shown, PageKinds, Kinds
  <1>11. \A j \in CallId : InFlight(j)' /\ call'[j].kind = "load" /\ call'[j].pc = "ok" =>
           call'[j].squad = Composition' /\ call'[j].free = alive' /\ Updating' = {}
    BY <1>1, <1>3, <1>4, <1>5, <1>8 DEF Shown, server
  <1> QED  BY <1>1, <1>3, <1>7, <1>9, <1>10, <1>11 DEF Shown, page, CallId, PageKinds, Kinds

\* The teams are gone, and the players are asked for.
LEMMA ResetAnswered ==
    ASSUME Typed, Typed', Shown, NEW i \in CallId, ResetAnswer(i)
    PROVE  Shown'
  <1> DEFINE c == [Request("players", 0, {}) EXCEPT !.squad = Nowhere]
  <1>1. /\ InFlight(i) /\ call[i].kind = "reset" /\ call[i].pc = "ok" /\ Send(Close(i), c)
        /\ squad' = Nowhere /\ UNCHANGED <<server, open, timers>>
    BY DEF ResetAnswer, Answered, Mine, Show
  <1>2. PICK n : n = sent + 1
    OBVIOUS
  <1>3. /\ n \in CallId \ {i} /\ call'[n] = c /\ call'[i] = Done
        /\ \A j \in CallId \ {i, n} : call'[j] = call[j]
    BY <1>1, <1>2, ResendFacts
  <1>4. c.kind = "players" /\ c.own /\ c.pc = "sent"
    BY DEF Request, Done
  <1> HIDE DEF c
  <1>5. Single(i)
    BY <1>1 DEF Single
  <1>6. Alone(call[i]) /\ \A j \in CallId \ {i} : call[j].pc = "done"
    BY <1>5, AloneFacts
  <1>7. teams = {}
    BY <1>1, <1>6 DEF Alone, Confirmed
  <1>8. Alone(call[n])'
    BY <1>1, <1>3, <1>4, <1>7 DEF Alone, server
  <1>9. \A j \in CallId : InFlight(j)' => j = n
    BY <1>3, <1>6 DEF InFlight, Done
  <1>10. Single(n)' /\ call'[n].own /\ call'[n].kind \in PageKinds \ {"load"}
    BY <1>3, <1>4 DEF Single, InFlight, PageKinds, Kinds
  <1>11. open'
    BY <1>1 DEF Shown
  <1> QED  BY <1>3, <1>8, <1>9, <1>10, <1>11 DEF Shown, Single, CallId

\* What the page shows, whatever it is answered.
LEMMA AnswerShown ==
    ASSUME Typed, Typed', TeamInv, Shown, NEW i \in CallId, AnswerStep(i), ~behind'
    PROVE  Shown'
  <1> DEFINE c == call[i]
  <1>1. CASE LoadAnswer(i) \/ UpdateAnswer(i) \/ ResetAnswer(i)
    BY <1>1, LoadAnswered, UpdateAnswered, ResetAnswered
  <1>2. ASSUME Single(i), c.pc = "ok", c.kind # "players"
        PROVE  Confirmed(c, Edited, alive, teams, Ending)
    BY <1>2 DEF Shown, Alone
  <1>3. ASSUME NEW f, NEW s, Show(i, f, s)
        PROVE  /\ free' = f /\ squad' = s /\ c.free = free /\ c.squad = squad
               /\ UNCHANGED <<server, open, timers>>
    BY <1>3 DEF Show
  <1>4. ASSUME NEW kind \in Kinds \ {"update", "load"}, Answered(i, kind)
        PROVE  Single(i) /\ c.pc = "ok" /\ c.kind = kind
    BY <1>4 DEF Answered, Mine, Single
  <1>5. CASE CreateAnswer(i)
    <2>1. Single(i) /\ c.pc = "ok" /\ c.kind = "create" /\ Finish(i)
      BY <1>4, <1>5 DEF CreateAnswer, Kinds
    <2> QED  BY <1>2, <1>3, <1>5, <2>1, AloneAnswered DEF CreateAnswer, Confirmed
  <1>6. CASE DeleteAnswer(i)
    <2>1. Single(i) /\ c.pc = "ok" /\ c.kind = "delete" /\ Finish(i)
      BY <1>4, <1>6 DEF DeleteAnswer, Kinds
    <2> QED  BY <1>2, <1>3, <1>6, <2>1, AloneAnswered DEF DeleteAnswer, Confirmed
  <1>7. CASE AddPlayerAnswer(i)
    <2>1. Single(i) /\ c.pc = "ok" /\ c.kind = "addPlayer" /\ Finish(i)
      BY <1>4, <1>7 DEF AddPlayerAnswer, Kinds
    <2> QED  BY <1>2, <1>3, <1>7, <2>1, AloneAnswered DEF AddPlayerAnswer, Confirmed
  <1>8. CASE DeletePlayerAnswer(i)
    <2>1. Single(i) /\ c.pc = "ok" /\ c.kind = "deletePlayer" /\ Finish(i)
      BY <1>4, <1>8 DEF DeletePlayerAnswer, Kinds
    <2> QED  BY <1>2, <1>3, <1>8, <2>1, AloneAnswered DEF DeletePlayerAnswer, Confirmed
  <1>9. CASE SavePlayerAnswer(i)
    <2>1. Single(i) /\ c.pc = "ok" /\ c.kind = "savePlayer" /\ Finish(i)
      BY <1>4, <1>9 DEF SavePlayerAnswer, Kinds
    <2> QED  BY <1>2, <1>3, <1>9, <2>1, AloneAnswered DEF SavePlayerAnswer, Confirmed
  <1>10. CASE RenameAnswer(i)
    <2>1. Single(i) /\ c.pc = "ok" /\ c.kind = "rename" /\ Finish(i)
      BY <1>4, <1>10 DEF RenameAnswer, Kinds
    <2> QED  BY <1>2, <1>3, <1>10, <2>1, AloneAnswered DEF RenameAnswer, Confirmed
  <1>11. CASE PlayersAnswer(i)
    <2>1. Single(i) /\ c.pc = "ok" /\ c.kind = "players" /\ Finish(i)
      BY <1>4, <1>11 DEF PlayersAnswer, Kinds
    <2>2. squad = Nowhere /\ teams = {} /\ c.free = alive
      BY <2>1 DEF Shown, Alone
    <2>3. free' = alive /\ squad' = Nowhere /\ UNCHANGED <<server, open, timers>>
      BY <1>11, <2>2 DEF PlayersAnswer
    <2>4. InSync(alive, Nowhere, Edited, alive, teams, Ending)
      BY <2>2, NowhereFacts DEF InSync, Assigned
    <2> QED  BY <2>1, <2>3, <2>4, AloneAnswered
  <1>12. CASE FailedAnswer(i)
    <2>1. CASE c.kind = "update"
      BY <1>12, <2>1, UpdateFailed
    <2>2. CASE c.kind # "update"
      <3>1. Single(i) /\ c.pc # "ok" /\ c.kind # "players" /\ Finish(i) /\ UNCHANGED <<server, page>>
        BY <1>12, <2>2 DEF FailedAnswer, Mine, Single
      <3>2. Synced(free, squad)
        BY <3>1 DEF Shown, Alone
      <3> QED  BY <3>1, <3>2, AloneAnswered DEF Synced, page
    <2> QED  BY <2>1, <2>2
  <1>13. CASE LostCall(i)
    BY <1>13 DEF LostCall
  <1> QED  BY <1>1, <1>5, <1>6, <1>7, <1>8, <1>9, <1>10, <1>11, <1>12, <1>13 DEF AnswerStep

-----------------------------------------------------------------------------
(* The page converges                                                      *)

\* The page begins with what is in the tables.
LEMMA InitShown == Init => ShowInv
  <1> SUFFICES ASSUME Init PROVE Shown
    BY DEF ShowInv
  <1>1. Typed
    BY InitTyped
  <1>2. \A i \in CallId : call[i] = Done
    BY DEF Init
  <1>3. \A i \in CallId : ~InFlight(i)
    BY <1>2 DEF InFlight, Done
  <1>4. Updating = {} /\ Edited = {}
    BY <1>2 DEF Updating, Done, Init, Edited
  <1>5. Ending = rows
    BY <1>1, <1>4, EndingIsRows
  <1>6. OneTeamPerPlayer
    BY InitTeam DEF TeamInv
  <1>7. InSync(alive \ Assigned(Composition), Composition, Edited, alive, teams, rows)
    BY <1>1, <1>6, CompositionSync
  <1>8. Synced(free, squad)
    BY <1>5, <1>7 DEF Init, Synced
  <1> QED  BY <1>3, <1>8 DEF Shown, Single, Init

\* Whatever moves, a page that is not behind shows what there will be, or loads it.
LEMMA NextShown == Typed /\ Typed' /\ TeamInv /\ ShowInv /\ [Next]_vars => ShowInv'
  <1> SUFFICES ASSUME Typed, Typed', TeamInv, ShowInv, [Next]_vars, ~behind' PROVE Shown'
    BY DEF ShowInv
  <1>1. CASE PageStep
    BY <1>1, PageShown
  <1>2. CASE OtherStep
    BY <1>2 DEF OtherStep, OtherCall
  <1>3. ASSUME NEW i \in CallId, ServerStep(i) PROVE Shown'
    <2>1. ~behind
      BY <1>3, CallFacts DEF ServerStep, BeginUpdate, BeginDelete, BeginCreate, BeginBulk, Wait, Steal, Clear, Drop,
         Insert, Commit, Abort, Read, CreatePlayer, DeletePlayer, Rename
    <2> QED  BY <1>3, <2>1, ServerShown DEF ShowInv
  <1>4. ASSUME NEW i \in CallId, AnswerStep(i) PROVE Shown'
    <2>1. ~behind
      BY <1>4, CallFacts DEF AnswerStep, LoadAnswer, CreateAnswer, DeleteAnswer, ResetAnswer, PlayersAnswer,
         AddPlayerAnswer, DeletePlayerAnswer, SavePlayerAnswer, RenameAnswer, UpdateAnswer, FailedAnswer, LostCall,
         Show
    <2> QED  BY <1>4, <2>1, AnswerShown DEF ShowInv
  <1>5. CASE UNCHANGED vars
    <2>1. UNCHANGED <<server, call, open, free, squad>> /\ Edited' = Edited /\ ~behind
      BY <1>5 DEF vars, Edited, page
    <2> QED  BY <2>1, ShownStays DEF ShowInv
  <1> QED  BY <1>1, <1>2, <1>3, <1>4, <1>5 DEF Next

\* When nothing is left to send or to answer, what there will be is what there is.
LEMMA ShowsConverge == Typed /\ ShowInv => EditsConverge
  <1> SUFFICES ASSUME Typed, ShowInv, ~behind, timers = {}, Mine = {}
               PROVE  squad = Composition /\ free = alive \ Assigned(squad)
    BY DEF EditsConverge
  <1>1. \A i \in CallId : ~InFlight(i)
    BY DEF ShowInv, Shown, Mine
  <1>2. Updating = {} /\ Edited = {}
    BY <1>1 DEF Updating, InFlight, Steps, Edited
  <1>3. Synced(free, squad)
    BY <1>1 DEF ShowInv, Shown, Lost, Single
  <1>4. InSync(free, squad, {}, alive, teams, rows)
    BY <1>2, <1>3, EndingIsRows DEF Synced
  <1> QED  BY <1>4, InSyncIsComposition

\* EditsConverge, the page's side of team.service.ts and teams/page.tsx: edits that are shown
\* at once and sent later end in what the server has, for every order in which transactions
\* run, calls are answered and answers are lost, that the history does not exclude.
THEOREM PagesConverge == Spec => []EditsConverge
  <1>1. Init => Typed /\ TeamInv /\ ShowInv
    BY InitTyped, InitTeam, InitShown
  <1>2. Typed /\ TeamInv /\ ShowInv /\ [Next]_vars => (Typed /\ TeamInv /\ ShowInv)'
    BY NextTyped, NextTeam, NextShown
  <1>3. Typed /\ TeamInv /\ ShowInv => EditsConverge
    BY ShowsConverge
  <1> QED  BY <1>1, <1>2, <1>3, PTL DEF Spec
=============================================================================
