-------------------------- MODULE GameGatingProofs --------------------------
(***************************************************************************)
(* Proofs about GameGating, for every set of groups, requests and clicks   *)
(* on the start button, every assignment of requests to groups, every      *)
(* order in which an UPDATE meets the rows, and every limit.               *)
(***************************************************************************)
EXTENDS GameGating, FiniteSetTheorems, TLAPS

-----------------------------------------------------------------------------
(* The inductive invariant.  The heart of it is that nobody moves a        *)
(* counter whose row is locked, so that what the holder wrote is still     *)
(* right when it is published.                                             *)

\* A row has one holder; a save holds the row of its group only, with the counter
\* it took; a start holds rows with the maximum it computed.
LockInv ==
    \A g \in Group :
        /\ \A t, u \in lock[g] : t = u
        /\ \A r \in lock[g] \cap Request :
             /\ pc[r] = "save" /\ GroupOf[r] = g /\ monetized
             /\ freeGamesUsed[g] < Limit /\ written[g] = freeGamesUsed[g] + 1
        /\ \A a \in lock[g] \cap Start :
             pc[a] = "backfill" /\ written[g] = Greatest(a, g)

\* A game is in the table exactly when its request has committed, and only a
\* request that saw the setting reaches the counter.
SaveInv ==
    \A r \in Request :
        /\ game[r] # "none" <=> pc[r] \in {"counted", "done"}
        /\ pc[r] \in {"count", "consume", "counted"} => monetized

\* No group has counted more games than it has.
CountInv ==
    \A a \in Start : \A g \in Group : counted[a][g] <= Cardinality(GamesOf(g))

\* Every free game is in the counter, and there are no more of them than allowed.
QuotaInv ==
    \A g \in Group :
        LET n == Cardinality(FreeGames \cap GamesOf(g)) IN
        n <= Limit /\ n <= freeGamesUsed[g]

GateInv == TypeOK /\ LockInv /\ SaveInv /\ CountInv /\ QuotaInv

USE RequestAssumption, StartAssumption, LimitAssumption

-----------------------------------------------------------------------------
(* Counting games, and what an unlocked or a locked row may become.        *)

\* A group has a finite number of games, and so has every part of them.
LEMMA GamesAreFinite ==
    \A g \in Group : \A S \in SUBSET GamesOf(g) :
        /\ IsFiniteSet(S) /\ Cardinality(S) \in Nat
        /\ Cardinality(GamesOf(g)) \in Nat /\ Cardinality(S) <= Cardinality(GamesOf(g))
<1> TAKE g \in Group
<1> TAKE S \in SUBSET GamesOf(g)
<1>1. GamesOf(g) \in SUBSET Request
  BY DEF GamesOf
<1>2. IsFiniteSet(GamesOf(g))
  BY <1>1, FS_Subset
<1> QED  BY <1>2, FS_Subset, FS_CardinalityType

\* The quota holds on when no free game is added and no counter gets smaller.
LEMMA QuotaKept ==
    ASSUME GateInv, FreeGames' = FreeGames, freeGamesUsed' \in [Group -> Nat],
           \A g \in Group : freeGamesUsed[g] <= freeGamesUsed'[g]
    PROVE  QuotaInv'
<1> SUFFICES ASSUME NEW g \in Group
             PROVE  /\ Cardinality(FreeGames \cap GamesOf(g)) <= Limit
                    /\ Cardinality(FreeGames \cap GamesOf(g)) <= freeGamesUsed'[g]
  BY DEF QuotaInv, GamesOf
<1>1. Cardinality(FreeGames \cap GamesOf(g)) \in Nat
  BY GamesAreFinite
<1>2. /\ Cardinality(FreeGames \cap GamesOf(g)) <= Limit
      /\ Cardinality(FreeGames \cap GamesOf(g)) <= freeGamesUsed[g]
  BY DEF GateInv, QuotaInv
<1>3. freeGamesUsed[g] \in Nat /\ freeGamesUsed'[g] \in Nat
  BY DEF GateInv, TypeOK
<1> QED  BY <1>1, <1>2, <1>3

\* Publishing the rows a transaction holds makes no counter smaller, and leaves
\* each below the limit or the number of games of its group.
LEMMA PublishFacts ==
    ASSUME GateInv, NEW t \in Txn, Publish(t)
    PROVE  /\ freeGamesUsed' \in [Group -> Nat]
           /\ \A g \in Group :
                /\ freeGamesUsed[g] <= freeGamesUsed'[g]
                /\ t \notin lock[g] => freeGamesUsed'[g] = freeGamesUsed[g]
                /\ \/ freeGamesUsed'[g] <= Limit
                   \/ freeGamesUsed'[g] <= Cardinality(GamesOf(g))
<1>1. freeGamesUsed' \in [Group -> Nat]
  BY DEF Publish, GateInv, TypeOK
<1> SUFFICES ASSUME NEW g \in Group
             PROVE  /\ freeGamesUsed[g] <= freeGamesUsed'[g]
                    /\ t \notin lock[g] => freeGamesUsed'[g] = freeGamesUsed[g]
                    /\ \/ freeGamesUsed'[g] <= Limit
                       \/ freeGamesUsed'[g] <= Cardinality(GamesOf(g))
  BY <1>1
<1>2. /\ freeGamesUsed[g] \in Nat /\ written[g] \in Nat
      /\ freeGamesUsed[g] <= Limit \/ freeGamesUsed[g] <= Cardinality(GamesOf(g))
  BY DEF GateInv, TypeOK
<1>3. CASE t \notin lock[g]
  BY <1>2, <1>3 DEF Publish
<1>4. CASE t \in lock[g] /\ t \in Request
  <2>1. freeGamesUsed'[g] = freeGamesUsed[g] + 1 /\ freeGamesUsed[g] < Limit
    BY <1>4 DEF Publish, GateInv, LockInv
  <2> QED  BY <1>2, <1>4, <2>1
<1>5. CASE t \in lock[g] /\ t \in Start
  <2>1. freeGamesUsed'[g] = Greatest(t, g)
    BY <1>5 DEF Publish, GateInv, LockInv
  <2>2. counted[t][g] \in Nat /\ counted[t][g] <= Cardinality(GamesOf(g))
    BY <1>5 DEF GateInv, CountInv, TypeOK
  <2> QED  BY <1>2, <1>5, <2>1, <2>2 DEF Greatest
<1> QED  BY <1>3, <1>4, <1>5 DEF Txn

-----------------------------------------------------------------------------
(* One lemma per kind of step.                                             *)

\* A statement that moves neither a row nor a counter.
LEMMA SaveMovesKeepInv ==
    ASSUME GateInv, NEW r \in Request, ReadSetting(r) \/ CountActiveSubs(r) \/ Refuse(r)
    PROVE  GateInv'
<1>1. PICK l \in {"save", "count", "consume", "refused"} :
        /\ pc' = [pc EXCEPT ![r] = l] /\ pc[r] \in {"idle", "count", "consume"}
        /\ l \in {"count", "consume"} => monetized
  BY DEF ReadSetting, CountActiveSubs, Refuse, Goto, GateInv, SaveInv
<1>2. UNCHANGED <<monetized, freeGamesUsed, game, subscribed, lock, written, counted>>
  BY DEF ReadSetting, CountActiveSubs, Refuse, tables
<1>3. TypeOK'
  BY <1>1, <1>2 DEF GateInv, TypeOK
<1>4. LockInv'
  <2>1. \A g \in Group : r \notin lock[g]
    BY <1>1 DEF GateInv, LockInv
  <2>2. \A t \in Txn : t # r => pc'[t] = pc[t]
    BY <1>1 DEF GateInv, TypeOK
  <2> QED  BY <1>2, <2>1, <2>2 DEF GateInv, LockInv, Txn, Greatest
<1>5. SaveInv'
  BY <1>1, <1>2 DEF GateInv, SaveInv, TypeOK, Txn
<1>6. FreeGames' = FreeGames
  BY <1>1 DEF FreeGames, GateInv, TypeOK, Txn
<1>7. QuotaInv'
  BY <1>2, <1>6 DEF QuotaInv, GateInv, GamesOf
<1> QED  BY <1>2, <1>3, <1>4, <1>5, <1>7 DEF GateInv, CountInv, GamesOf

\* The counter is taken: the row is locked, and nothing is published yet.
LEMMA ConsumeKeepsInv ==
    ASSUME GateInv, NEW r \in Request, Consume(r)
    PROVE  GateInv'
<1> DEFINE g == GroupOf[r]
<1>1. /\ g \in Group /\ pc[r] = "consume" /\ monetized
      /\ freeGamesUsed[g] \in Nat /\ freeGamesUsed[g] < Limit
  BY DEF Consume, GateInv, SaveInv, TypeOK
<1>2. /\ lock' = [lock EXCEPT ![g] = {r}] /\ lock[g] = {}
      /\ written' = [written EXCEPT ![g] = freeGamesUsed[g] + 1]
      /\ pc' = [pc EXCEPT ![r] = "save"]
      /\ UNCHANGED <<monetized, freeGamesUsed, game, subscribed, counted>>
  BY DEF Consume, Goto, tables
<1> HIDE DEF g
<1>3. TypeOK'
  BY <1>1, <1>2 DEF GateInv, TypeOK, Txn
<1>4. LockInv'
  <2>1. \A h \in Group : r \notin lock[h]
    BY <1>1 DEF GateInv, LockInv
  <2>2. \A t \in Txn : t # r => pc'[t] = pc[t]
    BY <1>2 DEF GateInv, TypeOK
  <2>3. lock'[g] = {r} /\ written'[g] = freeGamesUsed'[g] + 1 /\ pc'[r] = "save"
    BY <1>1, <1>2 DEF GateInv, TypeOK, Txn
  <2>4. \A h \in Group : h # g => lock'[h] = lock[h] /\ written'[h] = written[h]
    BY <1>2 DEF GateInv, TypeOK
  <2> QED  BY <1>1, <1>2, <2>1, <2>2, <2>3, <2>4 DEF GateInv, LockInv, Txn, Greatest, g
<1>5. SaveInv'
  BY <1>1, <1>2 DEF GateInv, SaveInv, TypeOK, Txn
<1>6. FreeGames' = FreeGames
  BY <1>1, <1>2 DEF FreeGames, GateInv, TypeOK, Txn
<1>7. QuotaInv'
  BY <1>2, <1>6 DEF QuotaInv, GateInv, GamesOf
<1> QED  BY <1>2, <1>3, <1>5, <1>4, <1>7 DEF GateInv, CountInv, GamesOf

\* What a transaction that ends leaves locked is as it was.
LEMMA ReleaseKeepsLocks ==
    ASSUME GateInv, NEW t \in Txn, Release(t), monetized => monetized', UNCHANGED <<written, counted>>,
           \A u \in Txn : u # t => pc'[u] = pc[u],
           \A g \in Group : t \notin lock[g] => freeGamesUsed'[g] = freeGamesUsed[g]
    PROVE  LockInv' /\ lock' \in [Group -> SUBSET Txn]
<1>1. \A g \in Group : lock'[g] \subseteq lock[g] /\ t \notin lock'[g]
  BY DEF Release
<1>2. \A g \in Group : lock'[g] # {} => t \notin lock[g]
  BY <1>1 DEF GateInv, LockInv, TypeOK
<1> SUFFICES ASSUME NEW g \in Group, lock'[g] # {}
             PROVE  /\ \A u, v \in lock'[g] : u = v
                    /\ \A r \in lock'[g] \cap Request :
                         /\ pc'[r] = "save" /\ GroupOf[r] = g /\ monetized'
                         /\ freeGamesUsed'[g] < Limit /\ written'[g] = freeGamesUsed'[g] + 1
                    /\ \A a \in lock'[g] \cap Start :
                         pc'[a] = "backfill" /\ written'[g] = Greatest(a, g)'
  BY DEF LockInv, Release, GateInv, TypeOK
<1>3. freeGamesUsed'[g] = freeGamesUsed[g] /\ \A a \in Start : Greatest(a, g)' = Greatest(a, g)
  BY <1>2 DEF Greatest
<1>4. \A u \in lock'[g] : u \in lock[g] /\ u \in Txn /\ pc'[u] = pc[u]
  BY <1>1 DEF GateInv, TypeOK
<1> QED  BY <1>3, <1>4 DEF GateInv, LockInv

\* A save that commits: the game is there and, if it holds a row, one more is
\* counted, of the games and of the free games alike.
LEMMA CommitFacts ==
    ASSUME GateInv, NEW r \in Request, Commit(r)
    PROVE  LET g == GroupOf[r] IN
           /\ g \in Group /\ game[r] = "none" /\ game'[r] = "live" /\ pc[r] = "save"
           /\ \/ /\ pc' = [pc EXCEPT ![r] = "done"] /\ FreeGames' = FreeGames
                 /\ freeGamesUsed' = freeGamesUsed
              \/ /\ pc' = [pc EXCEPT ![r] = "counted"] /\ FreeGames' = FreeGames \cup {r}
                 /\ monetized /\ r \notin FreeGames /\ freeGamesUsed[g] < Limit
                 /\ freeGamesUsed' = [freeGamesUsed EXCEPT ![g] = @ + 1]
<1>1. /\ pc[r] = "save" /\ game' = [game EXCEPT ![r] = "live"] /\ game[r] = "none"
      /\ GroupOf[r] \in Group
  BY DEF Commit, GateInv, SaveInv, TypeOK
<1>2. game'[r] = "live"
  BY <1>1 DEF GateInv, TypeOK
<1>3. CASE Holds(r) = {}
  <2>1. pc' = [pc EXCEPT ![r] = "done"]
    BY <1>3 DEF Commit, Goto
  <2>2. FreeGames' = FreeGames
    BY <1>1, <2>1 DEF FreeGames, GateInv, TypeOK, Txn
  <2>3. freeGamesUsed' = freeGamesUsed
    BY <1>3 DEF Commit, Publish, Holds, GateInv, TypeOK
  <2> QED  BY <1>1, <1>2, <2>1, <2>2, <2>3
<1>4. CASE Holds(r) # {}
  <2>1. pc' = [pc EXCEPT ![r] = "counted"]
    BY <1>4 DEF Commit, Goto
  <2>2. FreeGames' = FreeGames \cup {r} /\ r \notin FreeGames
    BY <1>1, <2>1 DEF FreeGames, GateInv, TypeOK, Txn
  <2>3. PICK g \in Group : r \in lock[g]
    BY <1>4 DEF Holds
  <2>4. /\ g = GroupOf[r] /\ monetized /\ freeGamesUsed[g] < Limit
        /\ written[g] = freeGamesUsed[g] + 1
        /\ \A h \in Group : r \in lock[h] <=> h = g
    BY <2>3 DEF GateInv, LockInv
  <2>5. freeGamesUsed' = [freeGamesUsed EXCEPT ![g] = @ + 1]
    BY <2>4 DEF Commit, Publish, GateInv, TypeOK
  <2> QED  BY <1>1, <1>2, <2>1, <2>2, <2>4, <2>5
<1> QED  BY <1>3, <1>4

\* A commit keeps the invariant: it publishes what it wrote under its own lock.
LEMMA CommitKeepsInv ==
    ASSUME GateInv, NEW r \in Request, Commit(r)
    PROVE  GateInv'
<1>1. /\ r \in Txn /\ Publish(r) /\ Release(r)
      /\ UNCHANGED <<monetized, subscribed, written, counted>>
      /\ game' = [game EXCEPT ![r] = "live"]
      /\ pc[r] = "save"
      /\ \E l \in {"counted", "done"} :
           pc' = [pc EXCEPT ![r] = l] /\ (l = "counted" => monetized)
  BY CommitFacts DEF Commit, Goto, Txn
<1>2. LockInv' /\ lock' \in [Group -> SUBSET Txn]
  BY <1>1, PublishFacts, ReleaseKeepsLocks DEF GateInv, TypeOK
<1>3. TypeOK'
  BY <1>1, <1>2, PublishFacts DEF GateInv, TypeOK, GamesOf, Txn
<1>4. SaveInv'
  BY <1>1 DEF GateInv, SaveInv, TypeOK, Txn
<1>5. QuotaInv'
  <2>1. CASE FreeGames' = FreeGames
    BY <1>1, <2>1, PublishFacts, QuotaKept
  <2>2. CASE FreeGames' # FreeGames
    <3> DEFINE g == GroupOf[r]
    <3>1. /\ FreeGames' = FreeGames \cup {r} /\ r \notin FreeGames
          /\ freeGamesUsed' = [freeGamesUsed EXCEPT ![g] = @ + 1]
          /\ freeGamesUsed[g] < Limit /\ g \in Group
      BY <2>2, CommitFacts
    <3> SUFFICES ASSUME NEW h \in Group
                 PROVE  /\ Cardinality(FreeGames' \cap GamesOf(h)) <= Limit
                        /\ Cardinality(FreeGames' \cap GamesOf(h)) <= freeGamesUsed'[h]
      BY DEF QuotaInv, GamesOf
    <3>2. /\ Cardinality(FreeGames \cap GamesOf(h)) \in Nat
          /\ IsFiniteSet(FreeGames \cap GamesOf(h))
      BY GamesAreFinite
    <3>3. /\ Cardinality(FreeGames \cap GamesOf(h)) <= Limit
          /\ Cardinality(FreeGames \cap GamesOf(h)) <= freeGamesUsed[h]
          /\ freeGamesUsed[h] \in Nat
      BY DEF GateInv, QuotaInv, TypeOK
    <3>4. CASE h = g
      <4>1. FreeGames' \cap GamesOf(h) = (FreeGames \cap GamesOf(h)) \cup {r}
        BY <3>1, <3>4 DEF GamesOf
      <4>2. Cardinality(FreeGames' \cap GamesOf(h)) = Cardinality(FreeGames \cap GamesOf(h)) + 1
        BY <3>1, <3>2, <4>1, FS_AddElement
      <4>3. freeGamesUsed'[h] = freeGamesUsed[h] + 1
        BY <3>1, <3>4 DEF GateInv, TypeOK
      <4> QED  BY <3>1, <3>2, <3>3, <3>4, <4>2, <4>3
    <3>5. CASE h # g
      <4>1. FreeGames' \cap GamesOf(h) = FreeGames \cap GamesOf(h)
        BY <3>1, <3>5 DEF GamesOf
      <4>2. freeGamesUsed'[h] = freeGamesUsed[h]
        BY <3>1, <3>5 DEF GateInv, TypeOK
      <4> QED  BY <3>3, <4>1, <4>2
    <3> QED  BY <3>4, <3>5
  <2> QED  BY <2>1, <2>2
<1> QED  BY <1>1, <1>2, <1>3, <1>4, <1>5 DEF GateInv, CountInv, GamesOf

\* A transaction that is rolled back leaves nothing but a released row.
LEMMA RollbackKeepsInv ==
    ASSUME GateInv, NEW t \in Txn, pc[t] \in {"save", "backfill"}, Release(t),
           pc' = [pc EXCEPT ![t] = "failed"],
           UNCHANGED <<tables, subscribed, written, counted>>
    PROVE  GateInv'
<1>1. UNCHANGED <<monetized, freeGamesUsed, game, subscribed, written, counted>>
  BY DEF tables
<1>2. LockInv' /\ lock' \in [Group -> SUBSET Txn]
  BY <1>1, ReleaseKeepsLocks DEF GateInv, TypeOK
<1>3. TypeOK'
  BY <1>1, <1>2 DEF GateInv, TypeOK, GamesOf
<1>4. SaveInv'
  BY <1>1 DEF GateInv, SaveInv, TypeOK, Txn
<1>5. FreeGames' = FreeGames
  BY DEF FreeGames, GateInv, TypeOK, Txn
<1>6. QuotaInv'
  BY <1>1, <1>5 DEF QuotaInv, GateInv, GamesOf
<1> QED  BY <1>1, <1>2, <1>3, <1>4, <1>6 DEF GateInv, CountInv, GamesOf

\* The subquery of the backfill counts no more games than there are.
LEMMA BackfillKeepsInv ==
    ASSUME GateInv, NEW a \in Start, Backfill(a)
    PROVE  GateInv'
<1> DEFINE live(g) == {r \in GamesOf(g) : game[r] = "live"}
<1>1. /\ pc[a] = "idle" /\ pc' = [pc EXCEPT ![a] = "backfill"]
      /\ counted' = [counted EXCEPT ![a] = [g \in Group |-> Cardinality(live(g))]]
      /\ UNCHANGED <<monetized, freeGamesUsed, game, subscribed, lock, written>>
  BY DEF Backfill, Goto, tables
<1>2. \A g \in Group : Cardinality(live(g)) \in Nat /\ Cardinality(live(g)) <= Cardinality(GamesOf(g))
  BY GamesAreFinite
<1> HIDE DEF live
<1>3. TypeOK'
  BY <1>1, <1>2 DEF GateInv, TypeOK, GamesOf
<1>4. LockInv'
  <2>1. \A g \in Group : a \notin lock[g]
    BY <1>1 DEF GateInv, LockInv
  <2>2. \A t \in Txn : t # a => pc'[t] = pc[t]
    BY <1>1 DEF GateInv, TypeOK
  <2>3. \A b \in Start : b # a => counted'[b] = counted[b]
    BY <1>1 DEF GateInv, TypeOK
  <2> QED  BY <1>1, <2>1, <2>2, <2>3 DEF GateInv, LockInv, Txn, Greatest
<1>5. SaveInv'
  BY <1>1 DEF GateInv, SaveInv, TypeOK, Txn
<1>6. CountInv'
  BY <1>1, <1>2 DEF GateInv, CountInv, TypeOK, GamesOf
<1>7. FreeGames' = FreeGames
  BY <1>1 DEF FreeGames, GateInv, TypeOK, Txn
<1>8. QuotaInv'
  BY <1>1, <1>7 DEF QuotaInv, GateInv, GamesOf
<1> QED  BY <1>3, <1>4, <1>5, <1>6, <1>8 DEF GateInv

\* The backfill locks a row and writes the maximum; nothing is published yet.
LEMMA BackfillRowKeepsInv ==
    ASSUME GateInv, NEW a \in Start, NEW g \in Group, BackfillRow(a, g)
    PROVE  GateInv'
<1>1. /\ pc[a] = "backfill" /\ lock[g] = {}
      /\ lock' = [lock EXCEPT ![g] = {a}]
      /\ written' = [written EXCEPT ![g] = Greatest(a, g)]
      /\ UNCHANGED <<monetized, freeGamesUsed, game, subscribed, counted, pc>>
  BY DEF BackfillRow, tables
<1>2. Greatest(a, g) \in Nat
  BY DEF GateInv, TypeOK, Greatest
<1>3. TypeOK'
  BY <1>1, <1>2 DEF GateInv, TypeOK, Txn, GamesOf
<1>4. LockInv'
  <2>1. lock'[g] = {a} /\ written'[g] = Greatest(a, g)
    BY <1>1 DEF GateInv, TypeOK
  <2>2. \A h \in Group : h # g => lock'[h] = lock[h] /\ written'[h] = written[h]
    BY <1>1 DEF GateInv, TypeOK
  <2> QED  BY <1>1, <2>1, <2>2 DEF GateInv, LockInv, Greatest
<1> QED
  BY <1>1, <1>3, <1>4 DEF GateInv, SaveInv, CountInv, QuotaInv, FreeGames, GamesOf

\* The start publishes every row at once and the setting with them.
LEMMA InsertSettingKeepsInv ==
    ASSUME GateInv, NEW a \in Start, InsertSetting(a)
    PROVE  GateInv'
<1>1. /\ a \in Txn /\ Publish(a) /\ Release(a) /\ monetized'
      /\ UNCHANGED <<game, subscribed, written, counted>>
      /\ pc[a] = "backfill" /\ pc' = [pc EXCEPT ![a] = "done"]
  BY DEF InsertSetting, Goto, Txn
<1>2. LockInv' /\ lock' \in [Group -> SUBSET Txn]
  BY <1>1, PublishFacts, ReleaseKeepsLocks DEF GateInv, TypeOK
<1>3. TypeOK'
  BY <1>1, <1>2, PublishFacts DEF GateInv, TypeOK, GamesOf
<1>4. SaveInv'
  BY <1>1 DEF GateInv, SaveInv, TypeOK, Txn
<1>5. FreeGames' = FreeGames
  BY <1>1 DEF FreeGames, GateInv, TypeOK, Txn
<1>6. QuotaInv'
  BY <1>1, <1>5, PublishFacts, QuotaKept
<1> QED  BY <1>1, <1>2, <1>3, <1>4, <1>6 DEF GateInv, CountInv, GamesOf

\* The tables are empty and the counters within the limit.
LEMMA InitGate == Init => GateInv
<1> SUFFICES ASSUME Init PROVE GateInv
  OBVIOUS
<1>1. TypeOK
  <2>1. freeGamesUsed \in [Group -> Nat] /\ \A g \in Group : freeGamesUsed[g] <= Limit
    BY DEF Init
  <2> QED  BY <2>1 DEF Init, TypeOK, Txn
<1>2. LockInv /\ SaveInv
  BY DEF Init, LockInv, SaveInv, Txn
<1>3. CountInv
  BY GamesAreFinite DEF Init, CountInv
<1>4. QuotaInv
  <2>1. FreeGames = {}
    BY DEF Init, FreeGames, Txn
  <2>2. \A g \in Group : Cardinality(FreeGames \cap GamesOf(g)) = 0
    BY <2>1, FS_EmptySet
  <2> QED  BY <2>2 DEF QuotaInv, Init
<1> QED  BY <1>1, <1>2, <1>3, <1>4 DEF GateInv

\* Every step keeps the invariant.
LEMMA NextKeepsGate == GateInv /\ [Next]_vars => GateInv'
<1> SUFFICES ASSUME GateInv, [Next]_vars PROVE GateInv'
  OBVIOUS
<1>1. ASSUME NEW r \in Request, ReadSetting(r) \/ CountActiveSubs(r) \/ Refuse(r)
      PROVE  GateInv'
  BY <1>1, SaveMovesKeepInv
<1>2. ASSUME NEW r \in Request, Consume(r)
      PROVE  GateInv'
  BY <1>2, ConsumeKeepsInv
<1>3. ASSUME NEW r \in Request, Commit(r)
      PROVE  GateInv'
  BY <1>3, CommitKeepsInv
<1>4. ASSUME NEW r \in Request, Rollback(r)
      PROVE  GateInv'
  BY <1>4, RollbackKeepsInv DEF Rollback, Goto, Txn
<1>5. ASSUME NEW r \in Request, DeleteGame(r) \/ UpdateGameStatus(r)
      PROVE  GateInv'
  <2>1. /\ UNCHANGED <<monetized, freeGamesUsed, subscribed, lock, written, counted, pc>>
        /\ \E s \in {"live", "DELETED"} : game' = [game EXCEPT ![r] = s]
        /\ game[r] # "none"
    BY <1>5 DEF DeleteGame, UpdateGameStatus
  <2>2. TypeOK' /\ SaveInv'
    BY <2>1 DEF GateInv, TypeOK, SaveInv, GamesOf
  <2> QED
    BY <2>1, <2>2 DEF GateInv, LockInv, CountInv, QuotaInv, FreeGames, GamesOf, Greatest
<1>6. ASSUME NEW a \in Start, Backfill(a)
      PROVE  GateInv'
  BY <1>6, BackfillKeepsInv
<1>7. ASSUME NEW a \in Start, NEW g \in Group, BackfillRow(a, g)
      PROVE  GateInv'
  BY <1>7, BackfillRowKeepsInv
<1>8. ASSUME NEW a \in Start, InsertSetting(a)
      PROVE  GateInv'
  BY <1>8, InsertSettingKeepsInv
<1>9. ASSUME NEW a \in Start, StartFails(a)
      PROVE  GateInv'
  BY <1>9, RollbackKeepsInv DEF StartFails, Goto, Txn
<1>10. ASSUME NEW g \in Group, ChangeSubscription(g)
       PROVE  GateInv'
  <2>1. /\ UNCHANGED <<monetized, freeGamesUsed, game, lock, written, counted, pc>>
        /\ subscribed' \in [Group -> BOOLEAN]
    BY <1>10 DEF ChangeSubscription, tables, GateInv, TypeOK
  <2> QED
    BY <2>1 DEF GateInv, TypeOK, LockInv, SaveInv, CountInv, QuotaInv, FreeGames, GamesOf, Greatest
<1>11. CASE UNCHANGED vars
  BY <1>11 DEF vars, GateInv, TypeOK, LockInv, SaveInv, CountInv, QuotaInv, FreeGames, GamesOf, Greatest
<1> QED
  BY <1>1, <1>2, <1>3, <1>4, <1>5, <1>6, <1>7, <1>8, <1>9, <1>10, <1>11
     DEF Next, SaveStep, StartStep

-----------------------------------------------------------------------------
(* The theorems.                                                           *)

\* The inductive invariant holds in every state.
THEOREM GateInvariant == Spec => []GateInv
  BY InitGate, NextKeepsGate, PTL DEF Spec

\* Every table stays in its domain, and a counter below the limit or the games
\* of its group (the types of Group.freeGamesUsed and AppSetting).
THEOREM GateTypeCorrect == Spec => []TypeOK
<1>1. GateInv => TypeOK
  BY DEF GateInv
<1> QED  BY <1>1, GateInvariant, PTL

\* However many saves race for the last free game of a group, no more than the
\* limit are created (the conditional UPDATE of saveGameAndLogs).
THEOREM LimitIsKept == Spec => []FreeGamesWithinLimit
<1>1. GateInv => FreeGamesWithinLimit
  BY DEF GateInv, QuotaInv, FreeGamesWithinLimit
<1> QED  BY <1>1, GateInvariant, PTL

\* A step takes one from a counter with a game that is created for free, raises
\* the counters with the setting, or touches neither.
LEMMA StepMovesQuota ==
    ASSUME GateInv, [Next]_vars
    PROVE  \/ UNCHANGED <<monetized, freeGamesUsed, FreeGames>>
           \/ /\ ~monetized /\ monetized' /\ FreeGames' = FreeGames
              /\ freeGamesUsed' \in [Group -> Nat]
              /\ \A g \in Group : freeGamesUsed[g] <= freeGamesUsed'[g]
           \/ \E r \in Request :
                /\ monetized /\ monetized' = monetized
                /\ r \notin FreeGames /\ FreeGames' = FreeGames \cup {r}
                /\ game[r] = "none" /\ game'[r] = "live"
                /\ GroupOf[r] \in Group /\ freeGamesUsed[GroupOf[r]] < Limit
                /\ freeGamesUsed' = [freeGamesUsed EXCEPT ![GroupOf[r]] = @ + 1]
<1> DEFINE Same == UNCHANGED <<monetized, freeGamesUsed, FreeGames>>
<1>1. ASSUME NEW t \in Txn, NEW l, pc' = [pc EXCEPT ![t] = l],
             pc[t] # "counted", l # "counted"
      PROVE  FreeGames' = FreeGames
  BY <1>1 DEF FreeGames, GateInv, TypeOK, Txn
<1>2. ASSUME NEW r \in Request, ReadSetting(r) \/ CountActiveSubs(r) \/ Refuse(r)
                                \/ Consume(r) \/ Rollback(r)
      PROVE  Same
  <2>1. /\ UNCHANGED <<monetized, freeGamesUsed>> /\ pc[r] # "counted" /\ r \in Txn
        /\ \E l \in {"save", "count", "consume", "refused", "failed"} : pc' = [pc EXCEPT ![r] = l]
    BY <1>2 DEF ReadSetting, CountActiveSubs, Refuse, Consume, Rollback, Goto, tables, Txn
  <2> QED  BY <2>1, <1>1
<1>3. ASSUME NEW a \in Start, Backfill(a) \/ StartFails(a)
      PROVE  Same
  <2>1. /\ UNCHANGED <<monetized, freeGamesUsed>> /\ pc[a] # "counted" /\ a \in Txn
        /\ \E l \in {"backfill", "failed"} : pc' = [pc EXCEPT ![a] = l]
    BY <1>3 DEF Backfill, StartFails, Goto, tables, Txn
  <2> QED  BY <2>1, <1>1
<1>4. ASSUME pc' = pc, UNCHANGED <<monetized, freeGamesUsed>>
      PROVE  Same
  BY <1>4 DEF FreeGames
<1>5. ASSUME NEW r \in Request, DeleteGame(r) \/ UpdateGameStatus(r)
      PROVE  Same
  BY <1>4, <1>5 DEF DeleteGame, UpdateGameStatus
<1>6. CASE \/ \E a \in Start, g \in Group : BackfillRow(a, g)
           \/ \E g \in Group : ChangeSubscription(g)
           \/ UNCHANGED vars
  BY <1>4, <1>6 DEF BackfillRow, ChangeSubscription, tables, vars
<1>7. ASSUME NEW a \in Start, InsertSetting(a)
      PROVE  /\ ~monetized /\ monetized' /\ FreeGames' = FreeGames
             /\ freeGamesUsed' \in [Group -> Nat]
             /\ \A g \in Group : freeGamesUsed[g] <= freeGamesUsed'[g]
  <2>1. /\ a \in Txn /\ Publish(a) /\ ~monetized /\ monetized'
        /\ pc[a] # "counted" /\ pc' = [pc EXCEPT ![a] = "done"]
    BY <1>7 DEF InsertSetting, Goto, Txn
  <2> QED  BY <2>1, <1>1, PublishFacts
<1>8. ASSUME NEW r \in Request, Commit(r)
      PROVE  \/ Same
             \/ /\ monetized /\ monetized' = monetized
                /\ r \notin FreeGames /\ FreeGames' = FreeGames \cup {r}
                /\ game[r] = "none" /\ game'[r] = "live"
                /\ GroupOf[r] \in Group /\ freeGamesUsed[GroupOf[r]] < Limit
                /\ freeGamesUsed' = [freeGamesUsed EXCEPT ![GroupOf[r]] = @ + 1]
  BY <1>8, CommitFacts DEF Commit
<1> QED
  BY <1>2, <1>3, <1>5, <1>6, <1>7, <1>8 DEF Next, SaveStep, StartStep

\* The counter moves with a free game, by one, or upwards with the start of
\* monetization, and in no other way (the transaction of saveGameAndLogs and the
\* GREATEST of startMonetization).
THEOREM CounterIsExact == Spec => CounterMovesWithGames
<1> DEFINE Moves == \A g \in Group : freeGamesUsed'[g] # freeGamesUsed[g] =>
          \/ /\ freeGamesUsed'[g] = freeGamesUsed[g] + 1
             /\ \E r \in GamesOf(g) : game[r] = "none" /\ game'[r] = "live"
          \/ /\ freeGamesUsed'[g] > freeGamesUsed[g]
             /\ ~monetized /\ monetized'
<1>1. GateInv /\ [Next]_vars => [Moves]_vars
  <2> SUFFICES ASSUME GateInv, [Next]_vars, NEW g \in Group,
                      freeGamesUsed'[g] # freeGamesUsed[g]
               PROVE  \/ /\ freeGamesUsed'[g] = freeGamesUsed[g] + 1
                         /\ \E r \in GamesOf(g) : game[r] = "none" /\ game'[r] = "live"
                      \/ /\ freeGamesUsed'[g] > freeGamesUsed[g]
                         /\ ~monetized /\ monetized'
    OBVIOUS
  <2>1. freeGamesUsed \in [Group -> Nat]
    BY DEF GateInv, TypeOK
  <2>2. ASSUME NEW r \in Request, game[r] = "none", game'[r] = "live",
               freeGamesUsed' = [freeGamesUsed EXCEPT ![GroupOf[r]] = @ + 1]
        PROVE  /\ freeGamesUsed'[g] = freeGamesUsed[g] + 1
               /\ \E q \in GamesOf(g) : game[q] = "none" /\ game'[q] = "live"
    BY <2>1, <2>2 DEF GamesOf
  <2>3. ASSUME freeGamesUsed' \in [Group -> Nat], freeGamesUsed[g] <= freeGamesUsed'[g]
        PROVE  freeGamesUsed'[g] > freeGamesUsed[g]
    BY <2>1, <2>3
  <2> QED  BY <2>2, <2>3, StepMovesQuota
<1> QED  BY <1>1, GateInvariant, PTL DEF Spec, CounterMovesWithGames

\* The transactions of saveGameAndLogs and startMonetization implement FreeQuota.
THEOREM ImplementsQuota == Spec => RefinesQuota
<1>1. Init => Quota!QuotaInit
  BY DEF Init, Quota!QuotaInit, FreeGames, Txn
<1>2. GateInv /\ [Next]_vars => [Quota!QuotaNext]_(Quota!quotaVars)
  BY StepMovesQuota DEF Quota!QuotaNext, Quota!StartGating, Quota!CreateFree, Quota!quotaVars
<1> QED  BY <1>1, <1>2, GateInvariant, PTL DEF Spec, RefinesQuota, Quota!QuotaSpec
=============================================================================
