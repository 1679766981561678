----------------------------- MODULE PagesProofs -----------------------------
(***************************************************************************)
(* Proofs about the pages of GroupPages, for any number of games, seasons, *)
(* groups, tabs, days and requests: each page is proved about on its own,  *)
(* as the instance that GroupPages makes of it, and what is proved holds   *)
(* of GroupPages because a step of GroupPages is a step of one part.  What *)
(* is proved about the page of games is in GameProofs, and what is about   *)
(* the sums and ranks of the records in StatisticsProofs.                  *)
(***************************************************************************)
EXTENDS GameProofs

-----------------------------------------------------------------------------
(* The page of the subscription                                            *)

Subs  == {"none", "active", "canceling"}
BillKinds == {"status", "subscribe", "cancel", "resume"}
Pcs   == {"sent", "key", "active", "issue", "pay", "ok", "failed"}
BillCall  == [tab : Tab, gone : BOOLEAN, kind : BillKinds, pc : Pcs, key : Nat, sub : Subs, auth : Nat]

GroupTypes ==
    /\ customerKey \in Nat /\ keys \in Nat /\ customerKey <= keys /\ sub \in Subs
    /\ auths \in Seq(Nat) /\ Len(auths) <= MaxAuths /\ \A a \in DOMAIN auths : auths[a] \in 1..keys
    /\ used \subseteq DOMAIN auths /\ refused \subseteq DOMAIN auths /\ rekeyed \in BOOLEAN
    /\ posts \in [Billing!Auth -> Nat] /\ reloads \in Nat /\ bCalls \in 0..MaxCalls

\* A request that was given the key of the group.
HasKey(r) == r.pc \in {"active", "issue", "pay"} \/ (r.kind = "status" /\ r.pc = "ok")

CallOK(r) ==
    /\ r \in BillCall /\ r.key <= keys
    /\ HasKey(r) \/ r.pc = "key" => r.key # 0
    /\ r.kind = "subscribe" => r.auth \in DOMAIN auths
CallTypes == \A r \in bAsked : CallOK(r)

TabTypes ==
    /\ at \in [Tab -> {"closed", "page", "toss"}]
    /\ url \in [Tab -> Nat] /\ submitted \in [Tab -> Nat]
    /\ bShown \in [Tab -> [sub : Subs, key : Nat]]
    /\ \A t \in Tab : bShown[t].key <= keys /\ (at[t] = "toss" => bShown[t].key # 0)
    /\ pending \in [Tab -> SUBSET {"subscribe", "cancel", "resume"}]
    /\ waiting \subseteq Tab /\ stale \subseteq Tab

BillTypes == GroupTypes /\ CallTypes /\ TabTypes

\* An authorisation is in the address of one tab, which may send it once more each time
\* that it is loaded.
PostInv ==
    /\ \A t \in Tab : url[t] <= Len(auths)
    /\ \A t, u \in Tab : url[t] = url[u] /\ url[t] # 0 => t = u
    /\ \A a \in Billing!Auth : a > Len(auths) => posts[a] = 0
    /\ \A a \in Billing!Auth : posts[a] + (IF \E t \in Tab : url[t] = a /\ submitted[t] # a THEN 1 ELSE 0) <= 1 + reloads

\* As long as no key took the place of another there is one key.
KeyInv ==
    /\ \A a \in refused : a \in used \/ rekeyed
    /\ ~rekeyed => /\ \A r \in bAsked : HasKey(r) => r.key = customerKey
                   /\ \A t \in Tab : bShown[t].key \in {0, customerKey}
                   /\ \A a \in DOMAIN auths : auths[a] = customerKey

\* What a tab will show, and what it shows, is what the group is unless it changed.
StatusInv ==
    /\ \A r \in bAsked : r.kind = "status" /\ ~r.gone /\ r.tab \notin stale =>
          /\ r.pc \in {"active", "ok"} => r.key = customerKey
          /\ r.pc = "ok" => r.sub = sub
    /\ \A t \in Tab : bShown[t] # Billing!NoStatus /\ t \notin waiting \cup stale
                      => bShown[t].sub = sub /\ bShown[t].key = customerKey

BillInv == BillTypes /\ PostInv /\ KeyInv /\ StatusInv

-----------------------------------------------------------------------------
\* What is to be shown follows from the invariant.
LEMMA BillShows ==
    ASSUME BillBounds, BillInv
    PROVE  Billing!TypeOK /\ Billing!BillingPageAgrees
<1> USE DEF BillInv
<1>1. Billing!TypeOK
  <2>1. customerKey \in 0..keys /\ auths \in Seq(1..keys)
    BY DEF BillTypes, GroupTypes
  <2>2. url \in [Tab -> 0..MaxAuths]
    BY DEF BillBounds, BillTypes, GroupTypes, TabTypes, PostInv
  <2>3. bShown \in [Tab -> [sub : Subs, key : 0..keys]]
    <3>1. \A t \in Tab : bShown[t] \in [sub : Subs, key : 0..keys]
      BY DEF BillTypes, TabTypes, GroupTypes
    <3> QED BY <3>1 DEF BillTypes, TabTypes
  <2> QED BY <2>1, <2>2, <2>3 DEF Billing!TypeOK, BillTypes, GroupTypes, TabTypes, Subs
<1>2. \A a \in Billing!Auth : posts[a] <= 1 + reloads
  <2> SUFFICES ASSUME NEW a \in Billing!Auth PROVE posts[a] <= 1 + reloads
    OBVIOUS
  <2>1. posts[a] \in Nat /\ reloads \in Nat
    BY DEF BillTypes, GroupTypes
  <2>2. posts[a] + (IF \E t \in Tab : url[t] = a /\ submitted[t] # a THEN 1 ELSE 0) <= 1 + reloads
    BY DEF PostInv
  <2> QED BY <2>1, <2>2
<1> QED BY <1>1, <1>2 DEF Billing!BillingPageAgrees, KeyInv, StatusInv

\* Nothing was asked yet.
LEMMA BillBegins == BillBounds /\ Billing!Init => BillInv
<1> SUFFICES ASSUME BillBounds, Billing!Init PROVE BillInv
  OBVIOUS
<1>1. auths = <<>> /\ used = {} /\ refused = {} /\ bAsked = {} /\ bCalls = 0 /\ reloads = 0
  BY DEF Billing!Init
<1>2. customerKey \in Nat /\ keys = customerKey /\ sub \in Subs
  BY DEF Billing!Init, Subs
<1>3. \A t \in Tab : bShown[t] = Billing!NoStatus /\ url[t] = 0 /\ at[t] = "closed"
  BY DEF Billing!Init
<1>4. \A t \in Tab : bShown[t].key = 0
  BY <1>3 DEF Billing!NoStatus
<1>5. \A a \in Billing!Auth : posts[a] = 0 /\ a # 0
  BY DEF Billing!Init, Billing!Auth, BillBounds
<1>6. GroupTypes
  <2>1. posts \in [Billing!Auth -> Nat] /\ rekeyed \in BOOLEAN
    BY DEF Billing!Init
  <2>2. auths \in Seq(Nat) /\ Len(auths) = 0 /\ DOMAIN auths = {}
    BY <1>1
  <2> QED BY <1>1, <1>2, <2>1, <2>2 DEF GroupTypes, BillBounds
<1>7. TabTypes
  <2>1. Billing!NoStatus \in [sub : Subs, key : Nat]
    BY DEF Billing!NoStatus, Subs
  <2>2. bShown \in [Tab -> [sub : Subs, key : Nat]]
    BY <2>1 DEF Billing!Init
  <2>3. \A t \in Tab : bShown[t].key <= keys /\ (at[t] = "toss" => bShown[t].key # 0)
    BY <1>2, <1>3, <1>4
  <2>4. url \in [Tab -> Nat] /\ submitted \in [Tab -> Nat]
    BY DEF Billing!Init
  <2>5. at \in [Tab -> {"closed", "page", "toss"}] /\ pending \in [Tab -> SUBSET {"subscribe", "cancel", "resume"}]
    BY DEF Billing!Init
  <2>6. waiting \subseteq Tab /\ stale \subseteq Tab
    BY DEF Billing!Init
  <2> QED BY <2>2, <2>3, <2>4, <2>5, <2>6 DEF TabTypes
<1>8. PostInv
  BY <1>1, <1>3, <1>5 DEF PostInv
<1>9. KeyInv
  BY <1>1, <1>4 DEF KeyInv
<1>10. StatusInv
  BY <1>1, <1>3 DEF StatusInv
<1> QED BY <1>1, <1>6, <1>7, <1>8, <1>9, <1>10 DEF BillInv, BillTypes, CallTypes

-----------------------------------------------------------------------------
(* What the steps have in common                                           *)

\* What follows a request: the same, which may be of no use any more.
Heir(q, r) ==
    /\ q \in BillCall /\ q.tab = r.tab /\ q.kind = r.kind /\ q.pc = r.pc /\ q.key = r.key /\ q.sub = r.sub
    /\ q.auth = r.auth /\ (r.gone => q.gone)

New(q) == q \in BillCall /\ q.pc = "sent" /\ (q.kind = "subscribe" => q.auth \in DOMAIN auths')

\* The requests after a step of a page: those there were, and new ones.
Asks == \A q \in bAsked' : (New(q) /\ q.key = 0) \/ \E r \in bAsked : Heir(q, r)

\* A request that begins, or is dismissed, stays in the domain.
LEMMA AsksKeep ==
    ASSUME BillInv, Asks, keys' = keys, DOMAIN auths \subseteq DOMAIN auths'
    PROVE  CallTypes'
<1> SUFFICES ASSUME NEW q \in bAsked' PROVE CallOK(q)'
  BY DEF CallTypes
<1>1. keys \in Nat
  BY DEF BillInv, BillTypes, GroupTypes
<1>2. CASE New(q) /\ q.key = 0
  BY <1>1, <1>2 DEF CallOK, New, HasKey
<1>3. CASE \E r \in bAsked : Heir(q, r)
  BY <1>3 DEF Heir, CallOK, CallTypes, BillInv, BillTypes, HasKey
<1> QED BY <1>2, <1>3 DEF Asks

\* A request whose tab is gone is otherwise the same.
LEMMA DismissedIsHeir ==
    ASSUME NEW r \in BillCall
    PROVE  Heir([r EXCEPT !.gone = TRUE], r) /\ [r EXCEPT !.gone = TRUE].gone /\ Heir(r, r)
  BY DEF Heir, BillCall

\* A request that is made is a new one of its tab.
LEMMA RequestIsNew ==
    ASSUME NEW t \in Tab, NEW kind \in BillKinds, url[t] \in Nat, kind = "subscribe" => url[t] \in DOMAIN auths'
    PROVE  /\ New(Billing!Request(t, kind)) /\ Billing!Request(t, kind).key = 0 /\ Billing!Request(t, kind).tab = t
           /\ Billing!Request(t, kind).kind = kind /\ Billing!Request(t, kind).pc = "sent"
<1>1. Billing!Request(t, kind) \in BillCall
  BY DEF Billing!Request, BillCall, Pcs, Subs
<1> QED BY <1>1 DEF Billing!Request, New

\* A step of the server takes one request further.
LEMMA SwapKeeps ==
    ASSUME BillInv, NEW r, NEW q, Billing!Swap(r, q), keys \in Nat, keys' >= keys, keys' \in Nat,
           CallOK(q)', UNCHANGED <<auths, bCalls, at, url, submitted, bShown, waiting, pending, reloads, posts>>,
           stale' \subseteq Tab
    PROVE  CallTypes' /\ TabTypes' /\ PostInv'
<1> USE DEF BillInv
<1>1. bAsked' = (bAsked \ {r}) \cup {q}
  BY DEF Billing!Swap
<1>2. CallTypes'
  BY <1>1 DEF BillTypes, CallTypes, CallOK, BillCall, HasKey
<1>3. TabTypes'
  BY DEF BillTypes, TabTypes
<1>4. PostInv'
  BY DEF PostInv
<1> QED BY <1>2, <1>3, <1>4

\* A call that goes on is otherwise the same.
LEMMA PcIsCall ==
    ASSUME NEW r \in BillCall, NEW pc \in Pcs
    PROVE  LET q == [r EXCEPT !.pc = pc] IN
           /\ q \in BillCall /\ q.pc = pc /\ q.tab = r.tab /\ q.kind = r.kind /\ q.key = r.key /\ q.sub = r.sub
           /\ q.auth = r.auth /\ q.gone = r.gone
  BY DEF BillCall

\* The inheritance of what is said of requests, in a step of a page.
LEMMA AsksAgree ==
    ASSUME BillInv, Asks, UNCHANGED <<customerKey, sub, used, refused, rekeyed>>
    PROVE  /\ \A a \in refused' : a \in used' \/ rekeyed'
           /\ ~rekeyed' => \A q \in bAsked' : HasKey(q) => q.key = customerKey'
<1>1. \A q \in bAsked' : HasKey(q) => \E r \in bAsked : HasKey(r) /\ q.key = r.key
  BY DEF Asks, New, Heir, HasKey
<1> QED BY <1>1 DEF BillInv, KeyInv

-----------------------------------------------------------------------------
(* The server                                                              *)

\* The customer key is stored.
LEMMA WriteKeyKeeps ==
    ASSUME BillBounds, BillInv, NEW r \in bAsked, Billing!WriteKey(r)
    PROVE  BillInv'
<1> USE DEF BillInv
<1> DEFINE pc == IF r.kind = "status" THEN "active" ELSE "issue"
           q == [r EXCEPT !.pc = pc]
<1>1. /\ r.pc = "key" /\ customerKey' = r.key /\ rekeyed' = (rekeyed \/ customerKey # 0)
      /\ Billing!Swap(r, q) /\ stale' = Tab
      /\ UNCHANGED <<keys, sub, auths, used, refused, posts, bCalls, at, url, submitted, bShown, waiting, pending, reloads>>
  BY DEF Billing!WriteKey, Billing!To, Billing!toss, Billing!page
<1>2. CallOK(r) /\ r \in BillCall /\ r.key # 0 /\ r.key <= keys /\ keys \in Nat /\ r.key \in Nat
  BY <1>1 DEF BillTypes, CallTypes, CallOK, GroupTypes, BillCall
<1>3. /\ q \in BillCall /\ q.pc = pc /\ q.tab = r.tab /\ q.kind = r.kind /\ q.key = r.key /\ q.sub = r.sub
      /\ q.auth = r.auth /\ q.gone = r.gone
  <2>1. pc \in Pcs
    BY DEF Pcs
  <2> HIDE DEF pc
  <2> QED BY <1>2, <2>1, PcIsCall
<1>4. CallOK(q)'
  BY <1>1, <1>2, <1>3 DEF CallOK, HasKey
<1> HIDE DEF q
<1>5. CallTypes' /\ TabTypes' /\ PostInv'
  BY <1>1, <1>2, <1>4, SwapKeeps
<1>6. GroupTypes'
  BY <1>1, <1>2 DEF BillTypes, GroupTypes
<1>7. KeyInv'
  <2>1. \A a \in refused' : a \in used' \/ rekeyed'
    BY <1>1 DEF KeyInv
  <2>2. ASSUME ~rekeyed'
        PROVE  /\ \A x \in bAsked' : HasKey(x) => x.key = customerKey'
               /\ \A t \in Tab : bShown[t].key \in {0, customerKey'}
               /\ \A a \in DOMAIN auths : auths[a] = customerKey'
    <3>1. ~rekeyed /\ customerKey = 0
      BY <1>1, <2>2
    <3>2. \A x \in bAsked : ~HasKey(x)
      BY <3>1 DEF KeyInv, BillTypes, CallTypes, CallOK
    <3>3. \A t \in Tab : bShown[t].key = 0
      BY <3>1 DEF KeyInv
    <3>4. \A a \in DOMAIN auths : FALSE
      BY <3>1 DEF KeyInv, BillTypes, GroupTypes
    <3>5. bAsked' = (bAsked \ {r}) \cup {q}
      BY <1>1 DEF Billing!Swap
    <3> QED BY <1>1, <1>3, <3>2, <3>3, <3>4, <3>5
  <2> QED BY <1>1, <2>1, <2>2 DEF KeyInv
<1>8. StatusInv'
  <2>1. \A x \in bAsked' : x.tab \in Tab
    BY <1>5 DEF CallTypes, CallOK, BillCall
  <2> QED BY <1>1, <2>1 DEF StatusInv
<1> QED BY <1>5, <1>6, <1>7, <1>8 DEF BillTypes

\* ensureCustomerKey gives a request the key that the group has, or draws one.
LEMMA EnsureKeeps ==
    ASSUME BillBounds, BillInv, NEW r \in bAsked, NEW next \in {"active", "issue"}, Billing!EnsureCustomerKey(r, next),
           next = "active" <=> r.kind = "status",
           UNCHANGED <<customerKey, sub, auths, used, refused, rekeyed, posts, bCalls, at, url, submitted,
                       bShown, waiting, pending, reloads, stale>>
    PROVE  BillInv'
<1> USE DEF BillInv
<1> DEFINE pc  == IF customerKey # 0 THEN next ELSE "key"
           key == IF customerKey # 0 THEN customerKey ELSE keys + 1
<1>0. PICK q : q = [r EXCEPT !.pc = pc, !.key = key]
  OBVIOUS
<1>1. Billing!Swap(r, q) /\ keys' = IF customerKey # 0 THEN keys ELSE keys + 1
  BY <1>0 DEF Billing!EnsureCustomerKey
<1>2. CallOK(r) /\ r \in BillCall /\ keys \in Nat /\ customerKey \in Nat /\ customerKey <= keys
  BY DEF BillTypes, CallTypes, CallOK, GroupTypes
<1>3. pc \in Pcs /\ key \in Nat /\ key # 0
  BY <1>2 DEF Pcs
<1>4. /\ q \in BillCall /\ q.pc = pc /\ q.tab = r.tab /\ q.kind = r.kind /\ q.key = key /\ q.sub = r.sub
      /\ q.auth = r.auth /\ q.gone = r.gone
  <2> HIDE DEF pc, key
  <2> QED BY <1>0, <1>2, <1>3 DEF BillCall
<1>5. keys' \in Nat /\ keys' >= keys /\ key <= keys'
  BY <1>1, <1>2
<1>6. CallOK(q)'
  BY <1>2, <1>3, <1>4, <1>5 DEF CallOK, HasKey
<1>7. CallTypes' /\ TabTypes' /\ PostInv'
  <2>1. stale' \subseteq Tab
    BY DEF BillTypes, TabTypes
  <2> QED BY <1>1, <1>2, <1>5, <1>6, <2>1, SwapKeeps
<1>8. GroupTypes'
  BY <1>2, <1>5 DEF BillTypes, GroupTypes
<1>9. bAsked' = (bAsked \ {r}) \cup {q}
  BY <1>1 DEF Billing!Swap
<1>10. HasKey(q) => q.key = customerKey
  BY <1>4 DEF HasKey
<1>11. KeyInv'
  BY <1>9, <1>10 DEF KeyInv
<1>12. StatusInv'
  <2>1. q.pc \in {"active", "ok"} => q.key = customerKey /\ q.pc # "ok"
    BY <1>4
  <2> QED BY <1>9, <2>1 DEF StatusInv
<1> QED BY <1>7, <1>8, <1>11, <1>12 DEF BillTypes

\* getStatus finds the group.
LEMMA StatusGroupKeeps ==
    ASSUME BillBounds, BillInv, NEW r \in bAsked, Billing!StatusGroup(r)
    PROVE  BillInv'
<1>1. /\ r.kind = "status" /\ Billing!EnsureCustomerKey(r, "active")
      /\ UNCHANGED <<customerKey, sub, auths, used, refused, rekeyed, posts, bCalls, at, url, submitted,
                     bShown, waiting, pending, reloads, stale>>
  BY DEF Billing!StatusGroup, Billing!toss, Billing!past, Billing!page
<1> QED BY <1>1, EnsureKeeps

\* A step that gives a request no key, and changes nothing else.
LEMMA AdvanceKeeps ==
    ASSUME BillBounds, BillInv, NEW r \in bAsked, NEW pc \in {"pay", "ok", "failed"}, Billing!To(r, pc),
           pc = "ok" => r.kind # "status", pc = "pay" => r.pc = "issue",
           sub' \in Subs, used \subseteq used', used' \subseteq DOMAIN auths,
           refused' \subseteq DOMAIN auths, \A a \in refused' : a \in used' \/ rekeyed,
           stale' = Tab \/ (stale' = stale /\ sub' = sub),
           UNCHANGED <<customerKey, keys, auths, rekeyed, posts, bCalls, at, url, submitted,
                       bShown, waiting, pending, reloads>>
    PROVE  BillInv'
<1> USE DEF BillInv
<1> DEFINE q == [r EXCEPT !.pc = pc]
<1>1. Billing!Swap(r, q)
  BY DEF Billing!To
<1>2. CallOK(r) /\ r \in BillCall /\ keys \in Nat
  BY DEF BillTypes, CallTypes, CallOK, GroupTypes
<1>3. /\ q \in BillCall /\ q.pc = pc /\ q.tab = r.tab /\ q.kind = r.kind /\ q.key = r.key /\ q.sub = r.sub
      /\ q.auth = r.auth /\ q.gone = r.gone
  <2>1. pc \in Pcs
    BY DEF Pcs
  <2> QED BY <1>2, <2>1, PcIsCall
<1> HIDE DEF q
<1>4. HasKey(q) => HasKey(r)
  BY <1>3 DEF HasKey
<1>5. CallOK(q)'
  BY <1>2, <1>3, <1>4 DEF CallOK, HasKey
<1>6. CallTypes' /\ TabTypes' /\ PostInv'
  <2>1. stale' \subseteq Tab
    BY DEF BillTypes, TabTypes
  <2> QED BY <1>1, <1>2, <1>5, <2>1, SwapKeeps
<1>7. GroupTypes'
  BY DEF BillTypes, GroupTypes
<1>8. bAsked' = (bAsked \ {r}) \cup {q}
  BY <1>1 DEF Billing!Swap
<1>9. KeyInv'
  BY <1>3, <1>4, <1>8 DEF KeyInv
<1>10. StatusInv'
  <2>1. CASE stale' = Tab
    <3>1. \A x \in bAsked' : x.tab \in Tab
      BY <1>6 DEF CallTypes, CallOK, BillCall
    <3> QED BY <2>1, <3>1 DEF StatusInv
  <2>2. CASE stale' = stale /\ sub' = sub
    BY <1>3, <1>8, <2>2 DEF StatusInv
  <2> QED BY <2>1, <2>2
<1> QED BY <1>6, <1>7, <1>9, <1>10 DEF BillTypes

\* getStatus finds the subscription.
LEMMA StatusActiveKeeps ==
    ASSUME BillBounds, BillInv, NEW r \in bAsked, Billing!StatusActive(r)
    PROVE  BillInv'
<1> USE DEF BillInv
<1>0. PICK q : q = [r EXCEPT !.pc = "ok", !.sub = sub]
  OBVIOUS
<1>1. /\ r.kind = "status" /\ r.pc = "active" /\ Billing!Swap(r, q)
      /\ UNCHANGED <<customerKey, keys, sub, auths, used, refused, rekeyed, posts, bCalls, at, url, submitted,
                     bShown, waiting, pending, reloads, stale>>
  BY <1>0 DEF Billing!StatusActive, Billing!group, Billing!toss, Billing!past, Billing!page
<1>2. CallOK(r) /\ r \in BillCall /\ keys \in Nat /\ sub \in Subs
  BY DEF BillTypes, CallTypes, CallOK, GroupTypes
<1>3. /\ q \in BillCall /\ q.pc = "ok" /\ q.tab = r.tab /\ q.kind = r.kind /\ q.key = r.key /\ q.sub = sub
      /\ q.auth = r.auth /\ q.gone = r.gone
  BY <1>0, <1>2 DEF BillCall, Pcs
<1>4. HasKey(r) /\ CallOK(q)'
  BY <1>1, <1>2, <1>3 DEF CallOK, HasKey
<1>5. CallTypes' /\ TabTypes' /\ PostInv'
  <2>1. stale' \subseteq Tab
    BY <1>1 DEF BillTypes, TabTypes
  <2> QED BY <1>1, <1>2, <1>4, <2>1, SwapKeeps
<1>6. GroupTypes'
  BY <1>1 DEF BillTypes, GroupTypes
<1>7. bAsked' = (bAsked \ {r}) \cup {q}
  BY <1>1 DEF Billing!Swap
<1>8. KeyInv'
  BY <1>1, <1>3, <1>4, <1>7 DEF KeyInv
<1>9. StatusInv'
  BY <1>1, <1>3, <1>7 DEF StatusInv
<1> QED BY <1>5, <1>6, <1>8, <1>9 DEF BillTypes

\* subscribe finds the group, and its customer key.
LEMMA SubscribeGroupKeeps ==
    ASSUME BillBounds, BillInv, NEW r \in bAsked, Billing!SubscribeGroup(r)
    PROVE  BillInv'
<1>1. /\ r.kind = "subscribe"
      /\ UNCHANGED <<customerKey, sub, auths, used, refused, rekeyed, posts, bCalls, at, url, submitted,
                     bShown, waiting, pending, reloads, stale>>
  BY DEF Billing!SubscribeGroup, Billing!toss, Billing!past, Billing!page
<1>2. CASE sub # "none"
  <2>1. Billing!To(r, "failed") /\ UNCHANGED keys
    BY <1>2 DEF Billing!SubscribeGroup
  <2> QED BY <1>1, <2>1, AdvanceKeeps DEF BillInv, BillTypes, GroupTypes, KeyInv
<1>3. CASE sub = "none"
  <2>1. Billing!EnsureCustomerKey(r, "issue")
    BY <1>3 DEF Billing!SubscribeGroup
  <2> QED BY <1>1, <2>1, EnsureKeeps
<1> QED BY <1>2, <1>3

\* The authorisation is used: Toss issues a billing key for it once.
LEMMA IssueBillingKeyKeeps ==
    ASSUME BillBounds, BillInv, NEW r \in bAsked, Billing!IssueBillingKey(r)
    PROVE  BillInv'
<1> USE DEF BillInv
<1>1. /\ r.kind = "subscribe" /\ r.pc = "issue"
      /\ UNCHANGED <<customerKey, keys, sub, auths, rekeyed, posts, bCalls, at, url, submitted,
                     bShown, waiting, pending, reloads, stale>>
  BY DEF Billing!IssueBillingKey, Billing!group, Billing!page
<1>2. r.auth \in DOMAIN auths
  BY <1>1 DEF BillTypes, CallTypes, CallOK
<1>3. CASE r.auth \notin used /\ auths[r.auth] = r.key
  <2>1. used' = used \cup {r.auth} /\ Billing!To(r, "pay") /\ UNCHANGED refused
    BY <1>3 DEF Billing!IssueBillingKey
  <2> QED BY <1>1, <1>2, <2>1, AdvanceKeeps DEF BillTypes, GroupTypes, KeyInv
<1>4. CASE ~(r.auth \notin used /\ auths[r.auth] = r.key)
  <2>1. refused' = refused \cup {r.auth} /\ Billing!To(r, "failed") /\ UNCHANGED used
    BY <1>4 DEF Billing!IssueBillingKey
  <2>2. r.auth \in used \/ rekeyed
    BY <1>1, <1>2, <1>4 DEF KeyInv, HasKey
  <2>3. \A a \in refused' : a \in used' \/ rekeyed
    BY <2>1, <2>2 DEF KeyInv
  <2> QED BY <1>1, <1>2, <2>1, <2>3, AdvanceKeeps DEF BillTypes, GroupTypes
<1> QED BY <1>3, <1>4

\* The first charge succeeds and the subscription is stored, or it fails.
LEMMA PersistKeeps ==
    ASSUME BillBounds, BillInv, NEW r \in bAsked, NEW paid \in BOOLEAN, Billing!Persist(r, paid)
    PROVE  BillInv'
<1> USE DEF BillInv
<1>1. /\ r.kind = "subscribe"
      /\ UNCHANGED <<customerKey, keys, auths, used, refused, rekeyed, posts, bCalls, at, url, submitted,
                     bShown, waiting, pending, reloads>>
      /\ \/ sub' = "active" /\ Billing!To(r, "ok") /\ stale' = Tab
         \/ Billing!To(r, "failed") /\ UNCHANGED <<sub, stale>>
  BY DEF Billing!Persist, Billing!toss, Billing!past, Billing!page
<1>2. sub' \in Subs
  BY <1>1 DEF BillTypes, GroupTypes, Subs
<1> QED BY <1>1, <1>2, AdvanceKeeps DEF BillTypes, GroupTypes, KeyInv

\* cancel and resume store what was asked.
LEMMA SetCancelKeeps ==
    ASSUME BillBounds, BillInv, NEW r \in bAsked, Billing!SetCancel(r)
    PROVE  BillInv'
<1> USE DEF BillInv
<1>1. /\ r.kind # "status"
      /\ UNCHANGED <<customerKey, keys, auths, used, refused, rekeyed, posts, bCalls, at, url, submitted,
                     bShown, waiting, pending, reloads>>
      /\ \/ Billing!To(r, "failed") /\ UNCHANGED <<sub, stale>>
         \/ sub' \in {"canceling", "active"} /\ Billing!To(r, "ok") /\ stale' = IF sub' = sub THEN stale ELSE Tab
  BY DEF Billing!SetCancel, Billing!toss, Billing!past, Billing!page
<1>2. sub' \in Subs
  BY <1>1 DEF BillTypes, GroupTypes, Subs
<1> QED BY <1>1, <1>2, AdvanceKeeps DEF BillTypes, GroupTypes, KeyInv

\* The subscription ends by itself.
LEMMA LapseKeeps ==
    ASSUME BillBounds, BillInv, Billing!Lapse
    PROVE  BillInv'
<1> USE DEF BillInv
<1>1. /\ sub' = "none" /\ stale' = Tab
      /\ UNCHANGED <<customerKey, keys, auths, used, refused, rekeyed, posts, bAsked, bCalls, at, url, submitted,
                     bShown, waiting, pending, reloads>>
  BY DEF Billing!Lapse, Billing!toss, Billing!past, Billing!page
<1>2. GroupTypes' /\ CallTypes' /\ TabTypes'
  BY <1>1 DEF BillTypes, GroupTypes, CallTypes, CallOK, TabTypes, Subs, HasKey
<1>3. PostInv' /\ KeyInv'
  BY <1>1 DEF PostInv, KeyInv
<1>4. StatusInv'
  BY <1>1 DEF StatusInv, BillTypes, CallTypes, CallOK, BillCall
<1> QED BY <1>2, <1>3, <1>4 DEF BillTypes

-----------------------------------------------------------------------------
(* The page                                                                *)

\* A page that is loaded dismisses what its tab has asked for, and asks for the status.
LEMMA LoadKeeps ==
    ASSUME BillBounds, BillInv, NEW t \in Tab, NEW a \in Nat, Billing!Load(t, a),
           DOMAIN auths \subseteq DOMAIN auths',
           UNCHANGED <<customerKey, keys, sub, used, refused, rekeyed, posts>>
    PROVE  /\ CallTypes' /\ TabTypes' /\ StatusInv' /\ bCalls' \in 0..MaxCalls
           /\ \A b \in refused' : b \in used' \/ rekeyed'
           /\ ~rekeyed' => /\ \A q \in bAsked' : HasKey(q) => q.key = customerKey'
                           /\ \A u \in Tab : bShown'[u].key \in {0, customerKey'}
           /\ url' = [url EXCEPT ![t] = a] /\ submitted' = [submitted EXCEPT ![t] = 0]
<1> USE DEF BillInv
<1> DEFINE dismissed(r) == IF r.tab = t THEN [r EXCEPT !.gone = TRUE] ELSE r
<1>1. /\ at' = [at EXCEPT ![t] = "page"] /\ url' = [url EXCEPT ![t] = a] /\ submitted' = [submitted EXCEPT ![t] = 0]
      /\ bShown' = [bShown EXCEPT ![t] = Billing!NoStatus] /\ pending' = [pending EXCEPT ![t] = {}]
      /\ bCalls < MaxCalls /\ bCalls' = bCalls + 1 /\ waiting' = waiting \cup {t} /\ stale' = stale \ {t}
      /\ bAsked' = {dismissed(r) : r \in bAsked} \cup {Billing!Request(t, "status")}
  BY DEF Billing!Load
<1>2. Billing!NoStatus \in [sub : Subs, key : Nat] /\ Billing!NoStatus.key = 0
  BY DEF Billing!NoStatus, Subs
<1>3. /\ New(Billing!Request(t, "status")) /\ Billing!Request(t, "status").key = 0 /\ Billing!Request(t, "status").tab = t
      /\ Billing!Request(t, "status").kind = "status" /\ Billing!Request(t, "status").pc = "sent"
  <2>1. url[t] \in Nat /\ "status" \in BillKinds
    BY DEF BillTypes, TabTypes, BillKinds
  <2> QED BY <2>1, RequestIsNew
<1>4. ASSUME NEW q \in bAsked'
      PROVE  q = Billing!Request(t, "status") \/ \E r \in bAsked : Heir(q, r) /\ (q.tab = t => q.gone)
  <2>1. ASSUME NEW r \in bAsked, q = dismissed(r)
        PROVE  Heir(q, r) /\ (q.tab = t => q.gone)
    <3>1. r \in BillCall
      BY DEF BillTypes, CallTypes, CallOK
    <3>2. CASE r.tab = t
      BY <2>1, <3>1, <3>2, DismissedIsHeir
    <3>3. CASE r.tab # t
      BY <2>1, <3>1, <3>3, DismissedIsHeir
    <3> QED BY <3>2, <3>3
  <2> QED BY <1>1, <2>1
<1>5. Asks
  BY <1>3, <1>4 DEF Asks
<1>6. CallTypes'
  BY <1>5, AsksKeep
<1>7. TabTypes'
  <2>1. bShown' \in [Tab -> [sub : Subs, key : Nat]]
    BY <1>1, <1>2 DEF BillTypes, TabTypes
  <2>2. \A u \in Tab : bShown'[u].key <= keys /\ (at'[u] = "toss" => bShown'[u].key # 0)
    <3> SUFFICES ASSUME NEW u \in Tab PROVE bShown'[u].key <= keys /\ (at'[u] = "toss" => bShown'[u].key # 0)
      OBVIOUS
    <3>1. CASE u = t
      <4>1. bShown'[u] = Billing!NoStatus /\ at'[u] = "page"
        BY <1>1, <3>1 DEF BillTypes, TabTypes
      <4>2. keys \in Nat
        BY DEF BillTypes, GroupTypes
      <4> QED BY <1>2, <4>1, <4>2
    <3>2. CASE u # t
      <4>1. bShown'[u] = bShown[u] /\ at'[u] = at[u]
        BY <1>1, <3>2 DEF BillTypes, TabTypes
      <4> QED BY <4>1 DEF BillTypes, TabTypes
    <3> QED BY <3>1, <3>2
  <2>3. /\ at' \in [Tab -> {"closed", "page", "toss"}] /\ url' \in [Tab -> Nat] /\ submitted' \in [Tab -> Nat]
        /\ waiting' \subseteq Tab /\ stale' \subseteq Tab
    BY <1>1 DEF BillTypes, TabTypes
  <2>4. pending' \in [Tab -> SUBSET {"subscribe", "cancel", "resume"}]
    BY <1>1 DEF BillTypes, TabTypes
  <2> QED BY <2>1, <2>2, <2>3, <2>4 DEF TabTypes
<1>8. StatusInv'
  <2>1. ASSUME NEW q \in bAsked', q.kind = "status", ~q.gone, q.tab \notin stale'
        PROVE  /\ q.pc \in {"active", "ok"} => q.key = customerKey
               /\ q.pc = "ok" => q.sub = sub
    <3>1. CASE q = Billing!Request(t, "status")
      BY <1>3, <3>1
    <3>2. CASE \E r \in bAsked : Heir(q, r) /\ (q.tab = t => q.gone)
      <4>1. PICK r \in bAsked : Heir(q, r) /\ (q.tab = t => q.gone)
        BY <3>2
      <4>2. r.kind = "status" /\ ~r.gone /\ r.tab \notin stale
        BY <1>1, <2>1, <4>1 DEF Heir
      <4> QED BY <4>1, <4>2 DEF StatusInv, Heir
    <3> QED BY <1>4, <3>1, <3>2
  <2>2. ASSUME NEW u \in Tab, bShown'[u] # Billing!NoStatus, u \notin waiting' \cup stale'
        PROVE  bShown'[u].sub = sub /\ bShown'[u].key = customerKey
    <3>1. u # t
      BY <1>1, <2>2
    <3>2. bShown'[u] = bShown[u] /\ u \notin waiting \cup stale
      BY <1>1, <2>2, <3>1 DEF BillTypes, TabTypes
    <3> QED BY <2>2, <3>2 DEF StatusInv
  <2> QED BY <2>1, <2>2 DEF StatusInv
<1>9. /\ \A b \in refused' : b \in used' \/ rekeyed'
      /\ ~rekeyed' => \A q \in bAsked' : HasKey(q) => q.key = customerKey'
  BY <1>5, AsksAgree
<1>10. ~rekeyed' => \A u \in Tab : bShown'[u].key \in {0, customerKey'}
  <2> SUFFICES ASSUME ~rekeyed, NEW u \in Tab PROVE bShown'[u].key \in {0, customerKey}
    OBVIOUS
  <2>1. CASE u = t
    <3>1. bShown'[u] = Billing!NoStatus
      BY <1>1, <2>1 DEF BillTypes, TabTypes
    <3> QED BY <1>2, <3>1
  <2>2. CASE u # t
    <3>1. bShown'[u] = bShown[u]
      BY <1>1, <2>2 DEF BillTypes, TabTypes
    <3> QED BY <3>1 DEF KeyInv
  <2> QED BY <2>1, <2>2
<1>11. bCalls' \in 0..MaxCalls
  BY <1>1 DEF BillTypes, GroupTypes, BillBounds
<1> QED BY <1>1, <1>6, <1>7, <1>8, <1>9, <1>10, <1>11

\* A tab opens the page.
LEMMA OpenTabKeeps ==
    ASSUME BillBounds, BillInv, NEW t \in Tab, Billing!Open(t)
    PROVE  BillInv'
<1> USE DEF BillInv
<1>1. Billing!Load(t, 0) /\ UNCHANGED <<customerKey, keys, sub, auths, used, refused, rekeyed, posts, reloads>>
  BY DEF Billing!Open, Billing!group, Billing!toss, Billing!past
<1>2. /\ CallTypes' /\ TabTypes' /\ StatusInv' /\ bCalls' \in 0..MaxCalls
      /\ \A b \in refused' : b \in used' \/ rekeyed'
      /\ ~rekeyed' => /\ \A q \in bAsked' : HasKey(q) => q.key = customerKey'
                      /\ \A u \in Tab : bShown'[u].key \in {0, customerKey'}
      /\ url' = [url EXCEPT ![t] = 0] /\ submitted' = [submitted EXCEPT ![t] = 0]
  BY <1>1, LoadKeeps
<1>3. GroupTypes'
  BY <1>1, <1>2 DEF BillTypes, GroupTypes
<1>4. KeyInv'
  BY <1>1, <1>2 DEF KeyInv
<1>5. PostInv'
  <2>1. \A u \in Tab : IF u = t THEN url'[u] = 0 ELSE url'[u] = url[u] /\ submitted'[u] = submitted[u]
    BY <1>2 DEF BillTypes, TabTypes
  <2>2. \A a \in Billing!Auth : a # 0 /\ posts[a] \in Nat /\ reloads \in Nat
    BY DEF Billing!Auth, BillTypes, GroupTypes
  <2>3. ASSUME NEW a \in Billing!Auth
        PROVE  posts[a] + (IF \E u \in Tab : url'[u] = a /\ submitted'[u] # a THEN 1 ELSE 0) <= 1 + reloads
    <3>1. (\E u \in Tab : url'[u] = a /\ submitted'[u] # a) => \E u \in Tab : url[u] = a /\ submitted[u] # a
      BY <2>1, <2>2
    <3> QED BY <2>2, <3>1 DEF PostInv
  <2>4. \A u \in Tab : url'[u] <= Len(auths)
    BY <2>1 DEF PostInv, BillTypes, GroupTypes
  <2>5. \A u, w \in Tab : url'[u] = url'[w] /\ url'[u] # 0 => u = w
    BY <2>1 DEF PostInv
  <2> QED BY <1>1, <2>3, <2>4, <2>5 DEF PostInv
<1> QED BY <1>2, <1>3, <1>4, <1>5 DEF BillTypes

\* A tab is loaded again.
LEMMA ReloadTabKeeps ==
    ASSUME BillBounds, BillInv, NEW t \in Tab, Billing!Reload(t)
    PROVE  BillInv'
<1> USE DEF BillInv
<1>1. Billing!Load(t, url[t]) /\ reloads' = reloads + 1
      /\ UNCHANGED <<customerKey, keys, sub, auths, used, refused, rekeyed, posts>>
  BY DEF Billing!Reload, Billing!group, Billing!toss, Billing!past
<1>2. url[t] \in Nat
  BY DEF BillTypes, TabTypes
<1>3. /\ CallTypes' /\ TabTypes' /\ StatusInv' /\ bCalls' \in 0..MaxCalls
      /\ \A b \in refused' : b \in used' \/ rekeyed'
      /\ ~rekeyed' => /\ \A q \in bAsked' : HasKey(q) => q.key = customerKey'
                      /\ \A u \in Tab : bShown'[u].key \in {0, customerKey'}
      /\ url' = [url EXCEPT ![t] = url[t]] /\ submitted' = [submitted EXCEPT ![t] = 0]
  BY <1>1, <1>2, LoadKeeps
<1>4. GroupTypes'
  BY <1>1, <1>3 DEF BillTypes, GroupTypes
<1>5. KeyInv'
  BY <1>1, <1>3 DEF KeyInv
<1>6. PostInv'
  <2>1. \A u \in Tab : url'[u] = url[u] /\ (u # t => submitted'[u] = submitted[u])
    BY <1>3 DEF BillTypes, TabTypes
  <2>2. \A a \in Billing!Auth : posts[a] \in Nat /\ reloads \in Nat
    BY DEF BillTypes, GroupTypes
  <2>3. ASSUME NEW a \in Billing!Auth
        PROVE  posts[a] + (IF \E u \in Tab : url'[u] = a /\ submitted'[u] # a THEN 1 ELSE 0) <= 1 + (reloads + 1)
    BY <2>2 DEF PostInv
  <2> QED BY <1>1, <2>1, <2>3 DEF PostInv
<1> QED BY <1>3, <1>4, <1>5, <1>6 DEF BillTypes

\* A tab comes back from Toss, with an authorisation or without.
LEMMA ReturnKeeps ==
    ASSUME BillBounds, BillInv, NEW t \in Tab, NEW ok \in BOOLEAN, Billing!Return(t, ok)
    PROVE  BillInv'
<1> USE DEF BillInv
<1> DEFINE a == IF ok THEN Len(auths') ELSE 0
<1>1. /\ at[t] = "toss" /\ (ok => Len(auths) < MaxAuths)
      /\ auths' = IF ok THEN Append(auths, bShown[t].key) ELSE auths
      /\ Billing!Load(t, a)
      /\ UNCHANGED <<customerKey, keys, sub, used, refused, rekeyed, posts, reloads>>
  BY DEF Billing!Return, Billing!group, Billing!past
<1>2. bShown[t].key \in 1..keys /\ auths \in Seq(Nat) /\ keys \in Nat /\ Len(auths) <= MaxAuths
  BY <1>1 DEF BillTypes, TabTypes, GroupTypes
<1>3. /\ auths' \in Seq(Nat) /\ Len(auths') = IF ok THEN Len(auths) + 1 ELSE Len(auths)
      /\ DOMAIN auths \subseteq DOMAIN auths'
      /\ \A i \in DOMAIN auths' : auths'[i] = bShown[t].key \/ (i \in DOMAIN auths /\ auths'[i] = auths[i])
  <2>1. CASE ok
    BY <1>1, <1>2, <2>1
  <2>2. CASE ~ok
    BY <1>1, <1>2, <2>2
  <2> QED BY <2>1, <2>2
<1>4. Len(auths') <= MaxAuths /\ Len(auths) \in Nat
  BY <1>1, <1>2, <1>3 DEF BillBounds
<1>5. PICK b \in Nat : b = a
  BY <1>3
<1>6. /\ CallTypes' /\ TabTypes' /\ StatusInv' /\ bCalls' \in 0..MaxCalls
      /\ \A x \in refused' : x \in used' \/ rekeyed'
      /\ ~rekeyed' => /\ \A q \in bAsked' : HasKey(q) => q.key = customerKey'
                      /\ \A u \in Tab : bShown'[u].key \in {0, customerKey'}
      /\ url' = [url EXCEPT ![t] = b] /\ submitted' = [submitted EXCEPT ![t] = 0]
  <2> HIDE DEF a
  <2>1. Billing!Load(t, b)
    BY <1>1, <1>5
  <2> QED BY <1>1, <1>3, <2>1, LoadKeeps
<1>7. GroupTypes'
  <2>1. \A i \in DOMAIN auths' : auths'[i] \in 1..keys
    BY <1>2, <1>3 DEF BillTypes, GroupTypes
  <2>2. used \subseteq DOMAIN auths' /\ refused \subseteq DOMAIN auths'
    BY <1>3 DEF BillTypes, GroupTypes
  <2> QED BY <1>1, <1>3, <1>4, <1>6, <2>1, <2>2 DEF BillTypes, GroupTypes
<1>8. KeyInv'
  <2>1. ASSUME ~rekeyed, NEW i \in DOMAIN auths' PROVE auths'[i] = customerKey
    <3>1. bShown[t].key \in {0, customerKey} /\ \A j \in DOMAIN auths : auths[j] = customerKey
      BY <2>1 DEF KeyInv
    <3>2. bShown[t].key # 0
      BY <1>2
    <3> QED BY <1>3, <3>1, <3>2
  <2> QED BY <1>1, <1>6, <2>1 DEF KeyInv
<1>9. PostInv'
  <2>1. \A u \in Tab : IF u = t THEN url'[u] = b ELSE url'[u] = url[u] /\ submitted'[u] = submitted[u]
    BY <1>6 DEF BillTypes, TabTypes
  <2>2. \A x \in Billing!Auth : x # 0 /\ x \in Nat /\ posts[x] \in Nat /\ reloads \in Nat
    BY DEF Billing!Auth, BillTypes, GroupTypes
  <2>3. b = 0 \/ (b = Len(auths) + 1 /\ Len(auths') = Len(auths) + 1)
    BY <1>3, <1>5
  <2>4. \A u \in Tab : url[u] \in Nat /\ url[u] <= Len(auths)
    BY DEF PostInv, BillTypes, TabTypes
  <2>5. ASSUME NEW x \in Billing!Auth
        PROVE  posts[x] + (IF \E u \in Tab : url'[u] = x /\ submitted'[u] # x THEN 1 ELSE 0) <= 1 + reloads
    <3>1. CASE x = b
      <4>1. x > Len(auths)
        BY <1>4, <2>2, <2>3, <3>1
      <4>2. posts[x] = 0
        BY <4>1 DEF PostInv
      <4> QED BY <2>2, <4>2
    <3>2. CASE x # b
      <4>1. (\E u \in Tab : url'[u] = x /\ submitted'[u] # x) => \E u \in Tab : url[u] = x /\ submitted[u] # x
        BY <2>1, <3>2
      <4> QED BY <2>2, <4>1 DEF PostInv
    <3> QED BY <3>1, <3>2
  <2>6. \A u \in Tab : url'[u] <= Len(auths')
    BY <1>3, <1>4, <2>1, <2>3, <2>4
  <2>7. \A u, w \in Tab : url'[u] = url'[w] /\ url'[u] # 0 => u = w
    BY <1>4, <2>1, <2>3, <2>4 DEF PostInv
  <2>8. \A x \in Billing!Auth : x > Len(auths') => posts[x] = 0
    BY <1>3, <1>4, <2>2 DEF PostInv
  <2> QED BY <1>1, <2>5, <2>6, <2>7, <2>8 DEF PostInv
<1> QED BY <1>6, <1>7, <1>8, <1>9 DEF BillTypes

\* A new request for the status dismisses those there are.
LEMMA FetchKeeps ==
    ASSUME BillBounds, BillInv, NEW t \in Tab, NEW rest \in SUBSET bAsked, Billing!Fetch(t, rest),
           UNCHANGED <<customerKey, keys, sub, auths, used, refused, rekeyed, bShown>>
    PROVE  /\ Asks /\ CallTypes' /\ StatusInv' /\ bCalls' \in 0..MaxCalls
           /\ waiting' \subseteq Tab /\ stale' \subseteq Tab
<1> USE DEF BillInv
<1> DEFINE dismissed(r) == IF r.tab = t /\ r.kind = "status" THEN [r EXCEPT !.gone = TRUE] ELSE r
<1>1. /\ bCalls < MaxCalls /\ bCalls' = bCalls + 1 /\ waiting' = waiting \cup {t} /\ stale' = stale \ {t}
      /\ bAsked' = {Billing!Request(t, "status")} \cup {dismissed(r) : r \in rest}
  BY DEF Billing!Fetch
<1>2. /\ New(Billing!Request(t, "status")) /\ Billing!Request(t, "status").key = 0 /\ Billing!Request(t, "status").tab = t
      /\ Billing!Request(t, "status").kind = "status" /\ Billing!Request(t, "status").pc = "sent"
  <2>1. url[t] \in Nat /\ "status" \in BillKinds
    BY DEF BillTypes, TabTypes, BillKinds
  <2> QED BY <2>1, RequestIsNew
<1>3. ASSUME NEW q \in bAsked'
      PROVE  q = Billing!Request(t, "status") \/ \E r \in bAsked : Heir(q, r) /\ (q.tab = t /\ q.kind = "status" => q.gone)
  <2>1. ASSUME NEW r \in rest, q = dismissed(r)
        PROVE  Heir(q, r) /\ (q.tab = t /\ q.kind = "status" => q.gone)
    <3>1. r \in BillCall
      BY DEF BillTypes, CallTypes, CallOK
    <3>2. CASE r.tab = t /\ r.kind = "status"
      BY <2>1, <3>1, <3>2, DismissedIsHeir
    <3>3. CASE ~(r.tab = t /\ r.kind = "status")
      BY <2>1, <3>1, <3>3, DismissedIsHeir
    <3> QED BY <3>2, <3>3
  <2> QED BY <1>1, <2>1
<1>4. Asks
  BY <1>2, <1>3 DEF Asks
<1>5. CallTypes'
  BY <1>4, AsksKeep
<1>6. StatusInv'
  <2>1. ASSUME NEW q \in bAsked', q.kind = "status", ~q.gone, q.tab \notin stale'
        PROVE  /\ q.pc \in {"active", "ok"} => q.key = customerKey
               /\ q.pc = "ok" => q.sub = sub
    <3>1. CASE q = Billing!Request(t, "status")
      BY <1>2, <3>1
    <3>2. CASE \E r \in bAsked : Heir(q, r) /\ (q.tab = t /\ q.kind = "status" => q.gone)
      <4>1. PICK r \in bAsked : Heir(q, r) /\ (q.tab = t /\ q.kind = "status" => q.gone)
        BY <3>2
      <4>2. r.kind = "status" /\ ~r.gone /\ r.tab \notin stale
        BY <1>1, <2>1, <4>1 DEF Heir
      <4> QED BY <4>1, <4>2 DEF StatusInv, Heir
    <3> QED BY <1>3, <3>1, <3>2
  <2>2. ASSUME NEW u \in Tab, bShown[u] # Billing!NoStatus, u \notin waiting' \cup stale'
        PROVE  bShown[u].sub = sub /\ bShown[u].key = customerKey
    <3>1. u \notin waiting \cup stale
      BY <1>1, <2>2
    <3> QED BY <2>2, <3>1 DEF StatusInv
  <2> QED BY <2>1, <2>2 DEF StatusInv
<1>7. bCalls' \in 0..MaxCalls /\ waiting' \subseteq Tab /\ stale' \subseteq Tab
  BY <1>1 DEF BillTypes, GroupTypes, TabTypes, BillBounds
<1> QED BY <1>4, <1>5, <1>6, <1>7

\* A tab is looked at again, and asks for the status.
LEMMA RefocusKeeps ==
    ASSUME BillBounds, BillInv, NEW t \in Tab, Billing!Refocus(t)
    PROVE  BillInv'
<1> USE DEF BillInv
<1>1. Billing!Fetch(t, bAsked) /\ UNCHANGED <<customerKey, keys, sub, auths, used, refused, rekeyed, posts,
                                              at, url, submitted, bShown, pending, reloads>>
  BY DEF Billing!Refocus, Billing!group, Billing!toss, Billing!past
<1>2. Asks /\ CallTypes' /\ StatusInv' /\ bCalls' \in 0..MaxCalls /\ waiting' \subseteq Tab /\ stale' \subseteq Tab
  <2>1. bAsked \in SUBSET bAsked
    OBVIOUS
  <2> QED BY <1>1, <2>1, FetchKeeps
<1>3. GroupTypes' /\ TabTypes' /\ PostInv'
  BY <1>1, <1>2 DEF BillTypes, GroupTypes, TabTypes, PostInv
<1>4. KeyInv'
  BY <1>1, <1>2, AsksAgree DEF KeyInv
<1> QED BY <1>2, <1>3, <1>4 DEF BillTypes

\* A tab goes to Toss.
LEMMA StartBillingAuthKeeps ==
    ASSUME BillBounds, BillInv, NEW t \in Tab, Billing!StartBillingAuth(t)
    PROVE  BillInv'
<1> USE DEF BillInv
<1>1. /\ bShown[t].key # 0 /\ at' = [at EXCEPT ![t] = "toss"]
      /\ UNCHANGED <<customerKey, keys, sub, auths, used, refused, rekeyed, posts, bAsked, bCalls,
                     url, submitted, bShown, waiting, pending, reloads, stale>>
  BY DEF Billing!StartBillingAuth, Billing!group, Billing!toss, Billing!past
<1>2. GroupTypes' /\ CallTypes' /\ PostInv' /\ KeyInv' /\ StatusInv'
  BY <1>1 DEF BillTypes, GroupTypes, CallTypes, CallOK, HasKey, PostInv, KeyInv, StatusInv
<1>3. TabTypes'
  BY <1>1 DEF BillTypes, TabTypes
<1> QED BY <1>2, <1>3 DEF BillTypes

\* A mutation of a tab is one more request.
LEMMA SendKeeps ==
    ASSUME BillBounds, BillInv, NEW t \in Tab, NEW kind \in {"subscribe", "cancel", "resume"}, Billing!Send(t, kind),
           kind = "subscribe" => url[t] \in DOMAIN auths,
           UNCHANGED <<customerKey, keys, sub, auths, used, refused, rekeyed, bShown, waiting, stale>>
    PROVE  Asks /\ CallTypes' /\ StatusInv' /\ KeyInv' /\ bCalls' \in 0..MaxCalls
<1> USE DEF BillInv
<1>1. bCalls < MaxCalls /\ bCalls' = bCalls + 1 /\ bAsked' = bAsked \cup {Billing!Request(t, kind)}
  BY DEF Billing!Send
<1>2. /\ New(Billing!Request(t, kind)) /\ Billing!Request(t, kind).key = 0
      /\ Billing!Request(t, kind).kind = kind /\ Billing!Request(t, kind).pc = "sent"
  <2>1. url[t] \in Nat /\ kind \in BillKinds
    BY DEF BillTypes, TabTypes, BillKinds
  <2> QED BY <2>1, RequestIsNew
<1>3. Asks
  <2>1. \A r \in bAsked : Heir(r, r)
    BY DEF Heir, BillTypes, CallTypes, CallOK
  <2> QED BY <1>1, <1>2, <2>1 DEF Asks
<1>4. CallTypes'
  BY <1>3, AsksKeep
<1>5. StatusInv'
  BY <1>1, <1>2 DEF StatusInv
<1>6. KeyInv'
  BY <1>3, AsksAgree DEF KeyInv
<1>7. bCalls' \in 0..MaxCalls
  BY <1>1 DEF BillTypes, GroupTypes, BillBounds
<1> QED BY <1>3, <1>4, <1>5, <1>6, <1>7

\* A tab sends the authorisation of its address.
LEMMA SubmitKeeps ==
    ASSUME BillBounds, BillInv, NEW t \in Tab, Billing!Submit(t)
    PROVE  BillInv'
<1> USE DEF BillInv
<1>1. /\ url[t] # 0 /\ submitted[t] # url[t] /\ submitted' = [submitted EXCEPT ![t] = url[t]]
      /\ Billing!Send(t, "subscribe") /\ posts' = [posts EXCEPT ![url[t]] = @ + 1]
      /\ pending' = [pending EXCEPT ![t] = @ \cup {"subscribe"}]
      /\ UNCHANGED <<customerKey, keys, sub, auths, used, refused, rekeyed, at, url, bShown, waiting, reloads, stale>>
  BY DEF Billing!Submit, Billing!group, Billing!toss
<1>2. url[t] \in Nat /\ url[t] <= Len(auths) /\ auths \in Seq(Nat) /\ Len(auths) <= MaxAuths
  BY DEF BillTypes, TabTypes, GroupTypes, PostInv
<1>3. url[t] \in DOMAIN auths /\ url[t] \in Billing!Auth
  BY <1>1, <1>2 DEF Billing!Auth, BillBounds
<1>4. Asks /\ CallTypes' /\ StatusInv' /\ KeyInv' /\ bCalls' \in 0..MaxCalls
  BY <1>1, <1>3, SendKeeps
<1>5. GroupTypes'
  <2>1. posts' \in [Billing!Auth -> Nat]
    BY <1>1, <1>3 DEF BillTypes, GroupTypes
  <2> QED BY <1>1, <1>4, <2>1 DEF BillTypes, GroupTypes
<1>6. TabTypes'
  <2>1. submitted' \in [Tab -> Nat]
    BY <1>1, <1>2 DEF BillTypes, TabTypes
  <2>2. pending' \in [Tab -> SUBSET {"subscribe", "cancel", "resume"}]
    BY <1>1 DEF BillTypes, TabTypes
  <2> QED BY <1>1, <2>1, <2>2 DEF BillTypes, TabTypes
<1>7. PostInv'
  <2>1. \A a \in Billing!Auth : posts[a] \in Nat /\ posts'[a] = IF a = url[t] THEN posts[a] + 1 ELSE posts[a]
    BY <1>1, <1>3 DEF BillTypes, GroupTypes
  <2>2. \A u \in Tab : submitted'[u] = IF u = t THEN url[t] ELSE submitted[u]
    BY <1>1 DEF BillTypes, TabTypes
  <2>3. reloads \in Nat
    BY DEF BillTypes, GroupTypes
  <2>4. ASSUME NEW a \in Billing!Auth
        PROVE  posts'[a] + (IF \E u \in Tab : url[u] = a /\ submitted'[u] # a THEN 1 ELSE 0) <= 1 + reloads
    <3>1. CASE a = url[t]
      <4>1. \E u \in Tab : url[u] = a /\ submitted[u] # a
        BY <1>1, <3>1
      <4>2. ~\E u \in Tab : url[u] = a /\ submitted'[u] # a
        BY <1>1, <2>2, <3>1 DEF PostInv
      <4>3. posts[a] + 1 <= 1 + reloads
        BY <4>1 DEF PostInv
      <4> QED BY <2>1, <2>3, <3>1, <4>2, <4>3
    <3>2. CASE a # url[t]
      <4>1. (\E u \in Tab : url[u] = a /\ submitted'[u] # a) <=> \E u \in Tab : url[u] = a /\ submitted[u] # a
        BY <2>2, <3>2
      <4> QED BY <2>1, <3>2, <4>1 DEF PostInv
    <3> QED BY <3>1, <3>2
  <2>5. \A a \in Billing!Auth : a > Len(auths) => posts'[a] = 0
    BY <1>2, <2>1 DEF PostInv, Billing!Auth
  <2> QED BY <1>1, <2>4, <2>5 DEF PostInv
<1> QED BY <1>4, <1>5, <1>6, <1>7 DEF BillTypes

\* A tap cancels or resumes.
LEMMA TapKeeps ==
    ASSUME BillBounds, BillInv, NEW t \in Tab, NEW kind \in {"cancel", "resume"}, Billing!Tap(t, kind)
    PROVE  BillInv'
<1> USE DEF BillInv
<1>1. /\ Billing!Send(t, kind) /\ pending' = [pending EXCEPT ![t] = @ \cup {kind}]
      /\ UNCHANGED <<customerKey, keys, sub, auths, used, refused, rekeyed, posts, at, url, submitted,
                     bShown, waiting, reloads, stale>>
  BY DEF Billing!Tap, Billing!group, Billing!toss, Billing!past
<1>2. Asks /\ CallTypes' /\ StatusInv' /\ KeyInv' /\ bCalls' \in 0..MaxCalls
  BY <1>1, SendKeeps
<1>3. TabTypes'
  <2>1. pending' \in [Tab -> SUBSET {"subscribe", "cancel", "resume"}]
    BY <1>1 DEF BillTypes, TabTypes
  <2> QED BY <1>1, <2>1 DEF BillTypes, TabTypes
<1>4. GroupTypes' /\ PostInv'
  BY <1>1, <1>2 DEF BillTypes, GroupTypes, PostInv
<1> QED BY <1>2, <1>3, <1>4 DEF BillTypes

\* An answer comes to a page that is gone.
LEMMA DropKeeps ==
    ASSUME BillBounds, BillInv, NEW r \in bAsked, Billing!Drop(r)
    PROVE  BillInv'
<1> USE DEF BillInv
<1>1. /\ bAsked' = bAsked \ {r}
      /\ UNCHANGED <<customerKey, keys, sub, auths, used, refused, rekeyed, posts, bCalls, at, url, submitted,
                     bShown, waiting, pending, reloads, stale>>
  BY DEF Billing!Drop, Billing!group, Billing!toss, Billing!past, Billing!page
<1>2. GroupTypes' /\ CallTypes' /\ TabTypes'
  BY <1>1 DEF BillTypes, GroupTypes, CallTypes, CallOK, HasKey, TabTypes
<1>3. PostInv' /\ KeyInv' /\ StatusInv'
  BY <1>1 DEF PostInv, KeyInv, StatusInv
<1> QED BY <1>2, <1>3 DEF BillTypes

\* A tab hears the status, or that it is not to be had.
LEMMA StatusAnswerKeeps ==
    ASSUME BillBounds, BillInv, NEW r \in bAsked, NEW lost \in BOOLEAN, Billing!StatusAnswer(r, lost)
    PROVE  BillInv'
<1> USE DEF BillInv
<1>1. /\ r.kind = "status" /\ r.pc = "ok" /\ ~r.gone /\ at[r.tab] = "page" /\ bAsked' = bAsked \ {r}
      /\ waiting' = waiting \ {r.tab}
      /\ bShown' = IF lost THEN bShown ELSE [bShown EXCEPT ![r.tab] = [sub |-> r.sub, key |-> r.key]]
      /\ stale' = IF lost THEN stale \cup {r.tab} ELSE stale
      /\ UNCHANGED <<customerKey, keys, sub, auths, used, refused, rekeyed, posts, bCalls, at, url, submitted,
                     pending, reloads>>
  BY DEF Billing!StatusAnswer, Billing!group, Billing!toss, Billing!past
<1>2. r.tab \in Tab /\ r.sub \in Subs /\ r.key \in Nat /\ r.key <= keys /\ r.key # 0
  BY <1>1 DEF BillTypes, CallTypes, CallOK, BillCall, HasKey
<1>3. \A u \in Tab : \/ bShown'[u] = bShown[u] /\ (u = r.tab => lost)
                     \/ u = r.tab /\ ~lost /\ bShown'[u] = [sub |-> r.sub, key |-> r.key]
  BY <1>1, <1>2 DEF BillTypes, TabTypes
<1>4. \A u \in Tab : \/ bShown'[u] = bShown[u] /\ (u = r.tab => lost)
                     \/ u = r.tab /\ ~lost /\ bShown'[u].sub = r.sub /\ bShown'[u].key = r.key
  BY <1>3
<1>5. GroupTypes' /\ CallTypes' /\ PostInv'
  BY <1>1 DEF BillTypes, GroupTypes, CallTypes, CallOK, HasKey, PostInv
<1>6. TabTypes'
  <2>1. bShown' \in [Tab -> [sub : Subs, key : Nat]]
    BY <1>1, <1>2 DEF BillTypes, TabTypes
  <2>2. \A u \in Tab : bShown'[u].key <= keys /\ (at[u] = "toss" => bShown'[u].key # 0)
    BY <1>2, <1>4 DEF BillTypes, TabTypes
  <2>3. waiting' \subseteq Tab /\ stale' \subseteq Tab
    BY <1>1, <1>2 DEF BillTypes, TabTypes
  <2> QED BY <1>1, <2>1, <2>2, <2>3 DEF BillTypes, TabTypes
<1>7. KeyInv'
  <2>1. HasKey(r)
    BY <1>1 DEF HasKey
  <2> QED BY <1>1, <1>4, <2>1 DEF KeyInv
<1>8. StatusInv'
  <2>1. ASSUME NEW u \in Tab, bShown'[u] # Billing!NoStatus, u \notin waiting' \cup stale'
        PROVE  bShown'[u].sub = sub /\ bShown'[u].key = customerKey
    <3>1. CASE u = r.tab
      <4>1. ~lost /\ u \notin stale
        BY <1>1, <2>1, <3>1
      <4> QED BY <1>1, <1>4, <3>1, <4>1 DEF StatusInv
    <3>2. CASE u # r.tab
      <4>1. bShown'[u] = bShown[u] /\ u \notin waiting \cup stale
        BY <1>1, <1>4, <2>1, <3>2
      <4> QED BY <2>1, <4>1 DEF StatusInv
    <3> QED BY <3>1, <3>2
  <2>2. \A q \in bAsked' : q \in bAsked /\ (q.tab \notin stale' => q.tab \notin stale)
    BY <1>1
  <2> QED BY <1>1, <2>1, <2>2 DEF StatusInv
<1> QED BY <1>5, <1>6, <1>7, <1>8 DEF BillTypes

\* A tab hears what became of its subscribe, cancel or resume.
LEMMA MutationAnswerKeeps ==
    ASSUME BillBounds, BillInv, NEW r \in bAsked, NEW lost \in BOOLEAN, Billing!MutationAnswer(r, lost)
    PROVE  BillInv'
<1> USE DEF BillInv
<1>1. /\ pending' = [pending EXCEPT ![r.tab] = @ \ {r.kind}]
      /\ url' = IF r.kind = "subscribe" THEN [url EXCEPT ![r.tab] = 0] ELSE url
      /\ UNCHANGED <<customerKey, keys, sub, auths, used, refused, rekeyed, posts, at, submitted, bShown, reloads>>
  BY DEF Billing!MutationAnswer, Billing!group, Billing!toss, Billing!past
<1>2. r.tab \in Tab
  BY DEF BillTypes, CallTypes, CallOK, BillCall
<1>3. Asks /\ CallTypes' /\ StatusInv' /\ bCalls' \in 0..MaxCalls /\ waiting' \subseteq Tab /\ stale' \subseteq Tab
  <2>1. CASE r.pc = "ok" /\ ~lost
    <3>1. Billing!Fetch(r.tab, bAsked \ {r}) /\ bAsked \ {r} \in SUBSET bAsked
      BY <2>1 DEF Billing!MutationAnswer
    <3> QED BY <1>1, <1>2, <3>1, FetchKeeps
  <2>2. CASE ~(r.pc = "ok" /\ ~lost)
    <3>1. bAsked' = bAsked \ {r} /\ UNCHANGED <<bCalls, waiting, stale>>
      BY <2>2 DEF Billing!MutationAnswer
    <3>2. Asks
      BY <3>1 DEF Asks, Heir, BillTypes, CallTypes, CallOK
    <3>3. CallTypes' /\ StatusInv'
      BY <1>1, <3>1 DEF BillTypes, CallTypes, CallOK, HasKey, StatusInv
    <3> QED BY <3>1, <3>2, <3>3 DEF BillTypes, GroupTypes, TabTypes
  <2> QED BY <2>1, <2>2
<1>4. \A u \in Tab : url'[u] = url[u] \/ url'[u] = 0
  BY <1>1, <1>2 DEF BillTypes, TabTypes
<1>5. GroupTypes'
  BY <1>1, <1>3 DEF BillTypes, GroupTypes
<1>6. TabTypes'
  <2>1. url' \in [Tab -> Nat]
    BY <1>1 DEF BillTypes, TabTypes
  <2>2. pending' \in [Tab -> SUBSET {"subscribe", "cancel", "resume"}]
    BY <1>1 DEF BillTypes, TabTypes
  <2> QED BY <1>1, <1>3, <2>1, <2>2 DEF BillTypes, TabTypes
<1>7. KeyInv'
  BY <1>1, <1>3, AsksAgree DEF KeyInv
<1>8. PostInv'
  <2>1. \A a \in Billing!Auth : a # 0 /\ posts[a] \in Nat /\ reloads \in Nat
    BY DEF Billing!Auth, BillTypes, GroupTypes
  <2>2. ASSUME NEW a \in Billing!Auth
        PROVE  posts[a] + (IF \E u \in Tab : url'[u] = a /\ submitted[u] # a THEN 1 ELSE 0) <= 1 + reloads
    <3>1. (\E u \in Tab : url'[u] = a /\ submitted[u] # a) => \E u \in Tab : url[u] = a /\ submitted[u] # a
      BY <1>4, <2>1
    <3> QED BY <2>1, <3>1 DEF PostInv
  <2>3. \A u \in Tab : url'[u] <= Len(auths)
    BY <1>4 DEF PostInv, BillTypes, GroupTypes
  <2>4. \A u, w \in Tab : url'[u] = url'[w] /\ url'[u] # 0 => u = w
    BY <1>4 DEF PostInv
  <2> QED BY <1>1, <2>2, <2>3, <2>4 DEF PostInv
<1> QED BY <1>3, <1>5, <1>6, <1>7, <1>8 DEF BillTypes

-----------------------------------------------------------------------------
\* Every step keeps the invariant.
LEMMA BillKeeps == BillBounds /\ BillInv /\ [Billing!Next]_Billing!vars => BillInv'
<1> SUFFICES ASSUME BillBounds, BillInv, [Billing!Next]_Billing!vars PROVE BillInv'
  OBVIOUS
<1>1. CASE UNCHANGED Billing!vars
  <2>1. UNCHANGED <<customerKey, keys, sub, auths, used, refused, rekeyed, posts, bAsked, bCalls, at, url, submitted,
                    bShown, waiting, pending, reloads, stale>>
    BY <1>1 DEF Billing!vars, Billing!group, Billing!toss, Billing!past, Billing!page
  <2>2. GroupTypes' /\ CallTypes' /\ TabTypes'
    BY <2>1 DEF BillInv, BillTypes, GroupTypes, CallTypes, CallOK, HasKey, TabTypes
  <2>3. PostInv' /\ KeyInv' /\ StatusInv'
    BY <2>1 DEF BillInv, PostInv, KeyInv, StatusInv
  <2> QED BY <2>2, <2>3 DEF BillInv, BillTypes
<1>2. ASSUME NEW t \in Tab, Billing!PageStep(t)
      PROVE  BillInv'
  BY <1>2, OpenTabKeeps, ReloadTabKeeps, RefocusKeeps, StartBillingAuthKeeps, SubmitKeeps,
      ReturnKeeps, TapKeeps DEF Billing!PageStep
<1>3. ASSUME NEW r \in bAsked, Billing!ServerStep(r)
      PROVE  BillInv'
  BY <1>3, StatusGroupKeeps, StatusActiveKeeps, WriteKeyKeeps, SubscribeGroupKeeps,
      IssueBillingKeyKeeps,
     SetCancelKeeps, PersistKeeps DEF Billing!ServerStep
<1>4. ASSUME NEW r \in bAsked, Billing!AnswerStep(r)
      PROVE  BillInv'
  BY <1>4, DropKeeps, StatusAnswerKeeps, MutationAnswerKeeps DEF Billing!AnswerStep
<1> QED BY <1>1, <1>2, <1>3, <1>4, LapseKeeps DEF Billing!Next

\* An authorisation is sent once, and a tab whose requests are answered shows the
\* subscription of the group, unless another changed it since (the subscription page).
THEOREM BillingPagesAgree ==
    BillBounds => (Billing!Spec => [](Billing!TypeOK /\ Billing!BillingPageAgrees))
<1> SUFFICES ASSUME BillBounds PROVE Billing!Spec => [](Billing!TypeOK /\ Billing!BillingPageAgrees)
  OBVIOUS
<1>1. Billing!Init => BillInv
  BY BillBegins
<1>2. BillInv /\ [Billing!Next]_Billing!vars => BillInv'
  BY BillKeeps
<1>3. BillInv => Billing!TypeOK /\ Billing!BillingPageAgrees
  BY BillShows
<1> QED BY <1>1, <1>2, <1>3, PTL DEF Billing!Spec

-----------------------------------------------------------------------------
(* The pages of a season                                                   *)

SeasonAsked == [n : Nat, part : SeasonPage!Parts \cup {"seasons"}, selection : SeasonPage!Selections, listed : SUBSET Season,
          current : Season \cup {NoSeason}, stored : SeasonPage!Selections \cup {NoSeason}, first : BOOLEAN]

SeasonTypes == live \subseteq Season /\ current \in live \cup {NoSeason} /\ changes \in 0..MaxChanges
SeasonAskedTypes  == asked \subseteq SeasonAsked /\ \A r \in asked : r.n <= sent
PageTypes ==
    /\ stored \in SeasonPage!Selections \cup {NoSeason} /\ page \in SeasonPage!Pages \cup {"none"}
    /\ listed \subseteq Season /\ listedCurrent \in Season \cup {NoSeason}
    /\ shown \in [SeasonPage!Parts -> SeasonPage!Selections \cup {NoSeason}]
    /\ ready \in BOOLEAN /\ failed \in BOOLEAN /\ overtaken \in BOOLEAN
SentTypes ==
    /\ sent \in 0..MaxRequests
    /\ answered \in [SeasonPage!Parts \cup {"seasons"} -> Nat] /\ \A p \in SeasonPage!Parts \cup {"seasons"} : answered[p] <= sent
SelectorTypes == SeasonTypes /\ SeasonAskedTypes /\ PageTypes /\ SentTypes

SelectorInv == selection \in listed \cup {"all"}

\* The last request that was sent for a part is under way, for what is selected; or it
\* was answered, and any other that is under way will be late.
Coming(p) == \E r \in asked : /\ r.part = p /\ r.selection = selection /\ answered[p] < r.n
                              /\ \A q \in asked : q.part = p /\ q # r => q.n < r.n
Came(p, values) == shown[p] \in values /\ \A q \in asked : q.part = p => q.n < answered[p]

Shows ==
    \/ Coming("board")
    \/ /\ Came("board", {selection})
       /\ \A p \in {"ability", "impact"} : Coming(p) \/ Came(p, {selection, NoSeason})
    \/ page = "player" /\ ~ready /\ \E r \in asked : r.part = "seasons" /\ r.first

ViewInv ==
    /\ SelectorTypes /\ SelectorInv
    /\ page = "rankings" => /\ \A p \in {"ability", "impact"} : shown[p] = NoSeason
                            /\ \A r \in asked : r.part \in {"board", "seasons"}
    /\ page # "none" /\ ~overtaken /\ ~failed => Shows

-----------------------------------------------------------------------------
\* What is to be shown follows from the invariant.
LEMMA ViewShows ==
    ASSUME ViewBounds, ViewInv
    PROVE  SeasonPage!TypeOK /\ SeasonPage!ShownIsSelected
<1> USE DEF ViewInv
<1>1. selection \in SeasonPage!Selections
  BY DEF SelectorInv, SelectorTypes, PageTypes, SeasonPage!Selections
<1>2. SeasonPage!TypeOK
  BY <1>1 DEF SeasonPage!TypeOK, SelectorTypes, SeasonTypes, PageTypes, SentTypes
<1>3. ASSUME page # "none", asked = {}, ~overtaken, ~failed
      PROVE  /\ shown["board"] = selection
             /\ shown["ability"] \in {selection, NoSeason} /\ shown["impact"] \in {selection, NoSeason}
  <2>1. Shows /\ \A p : ~Coming(p)
    BY <1>3 DEF Coming
  <2>2. Came("board", {selection}) /\ Came("ability", {selection, NoSeason}) /\ Came("impact", {selection, NoSeason})
    BY <1>3, <2>1 DEF Shows
  <2> QED BY <2>2 DEF Came
<1> QED BY <1>2, <1>3 DEF SeasonPage!ShownIsSelected, SelectorInv

\* No page is open.
LEMMA ViewBegins == ViewBounds /\ SeasonPage!Init => ViewInv
<1> SUFFICES ASSUME ViewBounds, SeasonPage!Init PROVE ViewInv
  OBVIOUS
<1>1. SeasonTypes /\ SeasonAskedTypes /\ SentTypes
  BY DEF SeasonPage!Init, SeasonTypes, SeasonAskedTypes, SentTypes, ViewBounds
<1>2. PageTypes
  BY DEF SeasonPage!Init, PageTypes, SeasonPage!Nothing
<1>3. SelectorInv /\ page = "none"
  BY DEF SeasonPage!Init, SelectorInv
<1> QED BY <1>1, <1>2, <1>3 DEF ViewInv, SelectorTypes

\* A request that is made is one of a kind.
LEMMA RequestIsOfSeason ==
    ASSUME ViewInv, NEW n \in Nat, NEW half \in SeasonPage!Parts \cup {"seasons"}, NEW sel \in SeasonPage!Selections
    PROVE  /\ SeasonPage!Request(n, half, sel) \in SeasonAsked /\ SeasonPage!Request(n, half, sel).n = n
           /\ SeasonPage!Request(n, half, sel).part = half /\ SeasonPage!Request(n, half, sel).selection = sel
           /\ SeasonPage!Request(n, half, sel).first = FALSE
<1>1. live \in SUBSET Season /\ current \in Season \cup {NoSeason} /\ stored \in SeasonPage!Selections \cup {NoSeason}
  BY DEF ViewInv, SelectorTypes, SeasonTypes, PageTypes
<1> QED BY <1>1 DEF SeasonPage!Request, SeasonAsked

\* The request of a selector is one.
LEMMA SeasonsRequestIsAsked ==
    ASSUME ViewInv, NEW n \in Nat, NEW first \in BOOLEAN
    PROVE  /\ SeasonPage!SeasonsRequest(n, first) \in SeasonAsked /\ SeasonPage!SeasonsRequest(n, first).n = n
           /\ SeasonPage!SeasonsRequest(n, first).part = "seasons" /\ SeasonPage!SeasonsRequest(n, first).first = first
<1>1. live \in SUBSET Season /\ current \in Season \cup {NoSeason} /\ stored \in SeasonPage!Selections \cup {NoSeason}
  BY DEF ViewInv, SelectorTypes, SeasonTypes, PageTypes
<1>2. "all" \in SeasonPage!Selections
  BY DEF SeasonPage!Selections
<1>3. SeasonPage!SeasonsRequest(n, first) = [n |-> n, part |-> "seasons", selection |-> "all", listed |-> live,
                                  current |-> current, stored |-> stored, first |-> first]
  BY DEF SeasonPage!SeasonsRequest, SeasonPage!Request
<1> QED BY <1>1, <1>2, <1>3 DEF SeasonAsked

\* An answer is of its part, the latest that came.
LEMMA ArrivePageKeeps ==
    ASSUME ViewInv, NEW r \in asked, SeasonPage!Arrive(r)
    PROVE  /\ answered' \in [SeasonPage!Parts \cup {"seasons"} -> Nat] /\ \A p \in SeasonPage!Parts \cup {"seasons"} : answered'[p] <= sent
           /\ \A p \in SeasonPage!Parts \cup {"seasons"} : p # r.part => answered'[p] = answered[p]
           /\ answered'[r.part] = IF r.n > answered[r.part] THEN r.n ELSE answered[r.part]
           /\ overtaken' \in BOOLEAN
           /\ ~overtaken' => ~overtaken /\ answered[r.part] <= r.n
<1>1. answered \in [SeasonPage!Parts \cup {"seasons"} -> Nat] /\ \A p \in SeasonPage!Parts \cup {"seasons"} : answered[p] <= sent
  BY DEF ViewInv, SelectorTypes, SentTypes
<1>2. r.n \in Nat /\ r.n <= sent /\ r.part \in SeasonPage!Parts \cup {"seasons"}
  BY DEF ViewInv, SelectorTypes, SeasonAskedTypes, SeasonAsked
<1>3. answered' = [answered EXCEPT ![r.part] = IF r.n > @ THEN r.n ELSE @]
      /\ overtaken' = (overtaken \/ r.n < answered[r.part])
  BY DEF SeasonPage!Arrive
<1>4. /\ answered' \in [SeasonPage!Parts \cup {"seasons"} -> Nat] /\ \A p \in SeasonPage!Parts \cup {"seasons"} : answered'[p] <= sent
      /\ \A p \in SeasonPage!Parts \cup {"seasons"} : p # r.part => answered'[p] = answered[p]
      /\ answered'[r.part] = IF r.n > answered[r.part] THEN r.n ELSE answered[r.part]
  BY <1>1, <1>2, <1>3
<1>5. overtaken' \in BOOLEAN
  BY <1>3
<1>6. answered[r.part] \in Nat
  BY <1>1, <1>2
<1>7. ~overtaken' => ~overtaken /\ ~(r.n < answered[r.part])
  BY <1>3
<1>8. ~(r.n < answered[r.part]) => answered[r.part] <= r.n
  BY <1>2, <1>6
<1> QED BY <1>4, <1>5, <1>7, <1>8

\* A part that a step leaves alone.
LEMMA PartStays ==
    ASSUME NEW p, selection' = selection, answered'[p] = answered[p],
           \A q : q.part = p => (q \in asked' <=> q \in asked)
    PROVE  /\ Coming(p)' <=> Coming(p)
           /\ shown'[p] = shown[p] => \A v : Came(p, v)' <=> Came(p, v)
<1>1. Coming(p)' <=> Coming(p)
  BY DEF Coming
<1>2. ASSUME shown'[p] = shown[p], NEW v PROVE Came(p, v)' <=> Came(p, v)
  BY <1>2 DEF Came
<1> QED BY <1>1, <1>2

\* A request that has just been made is the last of its part.
LEMMA AskMakes ==
    ASSUME ViewInv, ViewBounds, NEW half \in SeasonPage!Parts, NEW sel \in SeasonPage!Selections, NEW rest \in SUBSET asked, SeasonPage!Ask(rest, half, sel),
           selection' = sel, answered'[half] \in Nat, answered'[half] <= sent
    PROVE  Coming(half)' /\ SeasonAskedTypes' /\ sent' \in 0..MaxRequests /\ sent' = sent + 1 /\ sent \in Nat
           /\ \A r \in asked' : r \in asked \/ (r.part = half)
<1>1. sent < MaxRequests /\ asked' = rest \cup {SeasonPage!Request(sent + 1, half, sel)} /\ sent' = sent + 1
  BY DEF SeasonPage!Ask
<1>2. sent \in Nat /\ asked \subseteq SeasonAsked /\ \A r \in asked : r.n \in Nat /\ r.n <= sent
  BY DEF ViewInv, SelectorTypes, SentTypes, SeasonAskedTypes, SeasonAsked
<1>3. /\ SeasonPage!Request(sent + 1, half, sel) \in SeasonAsked /\ SeasonPage!Request(sent + 1, half, sel).n = sent + 1
      /\ SeasonPage!Request(sent + 1, half, sel).part = half /\ SeasonPage!Request(sent + 1, half, sel).selection = sel
  <2>1. sent + 1 \in Nat /\ half \in SeasonPage!Parts \cup {"seasons"}
    BY <1>2
  <2> QED BY <2>1, RequestIsOfSeason
<1>4. SeasonAskedTypes'
  BY <1>1, <1>2, <1>3 DEF SeasonAskedTypes
<1>5. Coming(half)'
  BY <1>1, <1>2, <1>3 DEF Coming
<1>6. sent' \in 0..MaxRequests
  BY <1>1, <1>2 DEF ViewBounds
<1> QED BY <1>1, <1>2, <1>3, <1>4, <1>5, <1>6

-----------------------------------------------------------------------------
\* A page is opened, and asks for the seasons.
LEMMA OpenPageKeeps ==
    ASSUME ViewBounds, ViewInv, NEW p \in SeasonPage!Pages, SeasonPage!Open(p)
    PROVE  ViewInv'
<1>1. /\ sent + 2 <= MaxRequests /\ page' = p /\ listed' = {} /\ listedCurrent' = NoSeason /\ selection' = "all"
      /\ ready' = FALSE /\ failed' = FALSE /\ shown' = SeasonPage!Nothing
      /\ asked' = {SeasonPage!SeasonsRequest(sent + 1, TRUE)}
                  \cup (IF p = "rankings" THEN {SeasonPage!Request(sent + 2, "board", "all")} ELSE {})
      /\ sent' = IF p = "rankings" THEN sent + 2 ELSE sent + 1
      /\ answered' = [x \in DOMAIN answered |-> 0] /\ overtaken' = FALSE
      /\ UNCHANGED <<live, current, changes, stored>>
  BY DEF SeasonPage!Open, SeasonPage!server
<1>2. sent \in Nat /\ DOMAIN answered = SeasonPage!Parts \cup {"seasons"}
  BY DEF ViewInv, SelectorTypes, SentTypes
<1>3. "all" \in SeasonPage!Selections /\ "board" \in SeasonPage!Parts
  BY DEF SeasonPage!Selections, SeasonPage!Parts
<1>4. /\ SeasonPage!Request(sent + 2, "board", "all") \in SeasonAsked /\ SeasonPage!Request(sent + 2, "board", "all").n = sent + 2
      /\ SeasonPage!Request(sent + 2, "board", "all").part = "board" /\ SeasonPage!Request(sent + 2, "board", "all").selection = "all"
  <2>1. sent + 2 \in Nat /\ "board" \in SeasonPage!Parts \cup {"seasons"}
    BY <1>2, <1>3
  <2> QED BY <1>3, <2>1, RequestIsOfSeason
<1>5. /\ SeasonPage!SeasonsRequest(sent + 1, TRUE) \in SeasonAsked /\ SeasonPage!SeasonsRequest(sent + 1, TRUE).n = sent + 1
      /\ SeasonPage!SeasonsRequest(sent + 1, TRUE).part = "seasons" /\ SeasonPage!SeasonsRequest(sent + 1, TRUE).first = TRUE
  <2>1. sent + 1 \in Nat /\ TRUE \in BOOLEAN
    BY <1>2
  <2> QED BY <2>1, SeasonsRequestIsAsked
<1>6. SeasonTypes'
  BY <1>1 DEF ViewInv, SelectorTypes, SeasonTypes
<1>7. SeasonAskedTypes'
  <2>1. sent' \in Nat /\ sent' >= sent + 1 /\ (p = "rankings" => sent' = sent + 2)
    BY <1>1, <1>2
  <2>2. \A r \in asked' : r = SeasonPage!SeasonsRequest(sent + 1, TRUE) \/ (p = "rankings" /\ r = SeasonPage!Request(sent + 2, "board", "all"))
    BY <1>1
  <2>3. \A r \in asked' : r \in SeasonAsked
    BY <1>4, <1>5, <2>2
  <2>4. \A r \in asked' : r.n = sent + 1 \/ (p = "rankings" /\ r.n = sent + 2)
    BY <1>4, <1>5, <2>2
  <2>5. \A r \in asked' : r.n <= sent'
    BY <1>2, <2>1, <2>4
  <2> QED BY <2>3, <2>5 DEF SeasonAskedTypes
<1>8. SentTypes'
  BY <1>1, <1>2 DEF SentTypes, ViewBounds
<1>9. PageTypes'
  BY <1>1 DEF ViewInv, SelectorTypes, PageTypes, SeasonPage!Nothing
<1>10. SelectorInv'
  BY <1>1 DEF SelectorInv
<1>11. page' = "rankings" => /\ \A x \in {"ability", "impact"} : shown'[x] = NoSeason
                            /\ \A r \in asked' : r.part \in {"board", "seasons"}
  BY <1>1, <1>4, <1>5 DEF SeasonPage!Nothing, SeasonPage!Parts
<1>12. Shows'
  <2>1. CASE p = "rankings"
    <3>1. Coming("board")'
      <4>1. answered'["board"] = 0 /\ SeasonPage!Request(sent + 2, "board", "all") \in asked'
        BY <1>1, <1>2, <1>3, <2>1
      <4>2. \A q \in asked' : q = SeasonPage!SeasonsRequest(sent + 1, TRUE) \/ q = SeasonPage!Request(sent + 2, "board", "all")
        BY <1>1
      <4>3. \A q \in asked' : q.part = "board" => q = SeasonPage!Request(sent + 2, "board", "all")
        BY <1>5, <4>2
      <4>4. 0 < sent + 2
        BY <1>2
      <4> QED BY <1>1, <1>4, <4>1, <4>3, <4>4 DEF Coming
    <3> QED BY <3>1 DEF Shows
  <2>2. CASE p # "rankings"
    <3>1. page' = "player" /\ ~ready' /\ \E r \in asked' : r.part = "seasons" /\ r.first
      BY <1>1, <1>5, <2>2 DEF SeasonPage!Pages
    <3> QED BY <3>1 DEF Shows
  <2> QED BY <2>1, <2>2
<1> QED BY <1>6, <1>7, <1>8, <1>9, <1>10, <1>11, <1>12 DEF ViewInv, SelectorTypes

\* The list, or the lack of it, and what is then asked for.
LEMMA SelectKeeps ==
    ASSUME ViewBounds, ViewInv, NEW r \in asked, r.part = "seasons", SeasonPage!Arrive(r),
           NEW sel \in SeasonPage!Selections, SeasonPage!Select(sel, asked \ {r}), sel \in listed' \cup {"all"},
           listed' \subseteq Season, listedCurrent' \in Season \cup {NoSeason},
           UNCHANGED <<live, current, changes, stored, page, shown>>
    PROVE  ViewInv'
<1> USE DEF ViewInv
<1>1. /\ selection' = sel /\ ready' = TRUE
      /\ \/ SeasonPage!Ask(asked \ {r}, "board", sel) /\ SeasonPage!ClearError
         \/ sel = selection /\ ~(page = "player" /\ ~ready) /\ asked' = asked \ {r} /\ UNCHANGED <<sent, failed>>
  BY DEF SeasonPage!Select
<1>2. /\ answered' \in [SeasonPage!Parts \cup {"seasons"} -> Nat] /\ \A p \in SeasonPage!Parts \cup {"seasons"} : answered'[p] <= sent
      /\ \A p \in SeasonPage!Parts \cup {"seasons"} : p # r.part => answered'[p] = answered[p]
      /\ overtaken' \in BOOLEAN
      /\ ~overtaken' => ~overtaken
  BY ArrivePageKeeps
<1>3. SeasonTypes' /\ SelectorInv'
  BY <1>1 DEF SelectorTypes, SeasonTypes, SelectorInv
<1>4. failed' \in BOOLEAN
  BY <1>1 DEF SeasonPage!ClearError, SelectorTypes, PageTypes
<1>5. PageTypes'
  BY <1>1, <1>2, <1>4 DEF SelectorTypes, PageTypes
<1>6. CASE SeasonPage!Ask(asked \ {r}, "board", sel)
  <2>1. "board" \in SeasonPage!Parts /\ asked \ {r} \in SUBSET asked /\ "board" # "seasons"
    BY DEF SeasonPage!Parts
  <2>2. answered'["board"] \in Nat /\ answered'["board"] <= sent
    BY <1>2, <2>1
  <2>3. /\ Coming("board")' /\ SeasonAskedTypes' /\ sent' \in 0..MaxRequests /\ sent' = sent + 1 /\ sent \in Nat
        /\ \A q \in asked' : q \in asked \/ (q.part = "board")
    BY <1>1, <1>6, <2>1, <2>2, AskMakes
  <2>4. SentTypes'
    BY <1>2, <2>3 DEF SentTypes
  <2>5. Shows'
    BY <2>3 DEF Shows
  <2>6. page' = "rankings" => /\ \A x \in {"ability", "impact"} : shown'[x] = NoSeason
                              /\ \A q \in asked' : q.part \in {"board", "seasons"}
    BY <2>3
  <2> QED BY <1>3, <1>5, <2>3, <2>4, <2>5, <2>6 DEF SelectorTypes
<1>7. CASE sel = selection /\ ~(page = "player" /\ ~ready) /\ asked' = asked \ {r} /\ UNCHANGED <<sent, failed>>
  <2>1. SeasonAskedTypes' /\ SentTypes'
    BY <1>2, <1>7 DEF SelectorTypes, SeasonAskedTypes, SentTypes
  <2>2. \A p \in SeasonPage!Parts : /\ Coming(p)' <=> Coming(p)
                                    /\ \A v : Came(p, v)' <=> Came(p, v)
    <3> SUFFICES ASSUME NEW p \in SeasonPage!Parts
                 PROVE  /\ Coming(p)' <=> Coming(p)
                        /\ \A v : Came(p, v)' <=> Came(p, v)
      OBVIOUS
    <3>1. p # "seasons"
      BY DEF SeasonPage!Parts
    <3>2. answered'[p] = answered[p] /\ selection' = selection /\ \A q : q.part = p => (q \in asked' <=> q \in asked)
      BY <1>1, <1>2, <1>7, <3>1
    <3> QED BY <3>2, PartStays
  <2>3. page' # "none" /\ ~overtaken' /\ ~failed' => Shows'
    <3>1. page' # "none" /\ ~overtaken' /\ ~failed' => Shows /\ ~(page = "player" /\ ~ready)
      BY <1>2, <1>7
    <3>2. selection' = selection
      BY <1>1, <1>7
    <3>3. \A p \in {"board", "ability", "impact"} : (Coming(p)' <=> Coming(p)) /\ \A v : Came(p, v)' <=> Came(p, v)
      BY <2>2 DEF SeasonPage!Parts
    <3>4. Shows /\ ~(page = "player" /\ ~ready) => Shows'
      BY <3>2, <3>3 DEF Shows
    <3> QED BY <3>1, <3>4
  <2>4. page' = "rankings" => /\ \A x \in {"ability", "impact"} : shown'[x] = NoSeason
                              /\ \A q \in asked' : q.part \in {"board", "seasons"}
    BY <1>7
  <2> QED BY <1>2, <1>3, <1>5, <1>7, <2>1, <2>3, <2>4 DEF SelectorTypes
<1> QED BY <1>1, <1>6, <1>7

\* The selector hears the seasons, and chooses one.
LEMMA SeasonsAnswerKeeps ==
    ASSUME ViewBounds, ViewInv, NEW r \in asked, SeasonPage!SeasonsAnswer(r)
    PROVE  ViewInv'
<1> DEFINE sel == SeasonPage!Resolve(r.stored, r.listed, r.current)
<1>1. /\ r.part = "seasons" /\ SeasonPage!Arrive(r) /\ listed' = r.listed /\ listedCurrent' = r.current
      /\ SeasonPage!Select(sel, asked \ {r})
      /\ UNCHANGED <<live, current, changes, stored, page, shown>>
  BY DEF SeasonPage!SeasonsAnswer, SeasonPage!server
<1>2. r.listed \in SUBSET Season /\ r.current \in Season \cup {NoSeason}
  BY DEF ViewInv, SelectorTypes, SeasonAskedTypes, SeasonAsked
<1>3. sel \in r.listed \cup {"all"}
  BY DEF SeasonPage!Resolve
<1>4. sel \in SeasonPage!Selections
  BY <1>2, <1>3 DEF SeasonPage!Selections
<1> HIDE DEF sel
<1> QED BY <1>1, <1>2, <1>3, <1>4, SelectKeeps

\* Nothing but a request for the list is over, and the page keeps what it has.
LEMMA ListLostKeeps ==
    ASSUME ViewBounds, ViewInv, NEW r \in asked, r.part = "seasons", SeasonPage!Arrive(r), asked' = asked \ {r},
           failed' = TRUE \/ (failed' = failed /\ ~r.first),
           UNCHANGED <<live, current, changes, stored, page, listed, listedCurrent, selection, ready, shown, sent>>
    PROVE  ViewInv'
<1> USE DEF ViewInv
<1>1. /\ answered' \in [SeasonPage!Parts \cup {"seasons"} -> Nat] /\ \A p \in SeasonPage!Parts \cup {"seasons"} : answered'[p] <= sent
      /\ \A p \in SeasonPage!Parts \cup {"seasons"} : p # r.part => answered'[p] = answered[p]
      /\ overtaken' \in BOOLEAN
      /\ ~overtaken' => ~overtaken
  BY ArrivePageKeeps
<1>2. SeasonTypes' /\ SelectorInv' /\ SeasonAskedTypes' /\ SentTypes'
  BY <1>1 DEF SelectorTypes, SeasonTypes, SelectorInv, SeasonAskedTypes, SentTypes
<1>3. PageTypes'
  BY <1>1 DEF SelectorTypes, PageTypes
<1>4. \A p \in SeasonPage!Parts : /\ Coming(p)' <=> Coming(p)
                                  /\ \A v : Came(p, v)' <=> Came(p, v)
  <2> SUFFICES ASSUME NEW p \in SeasonPage!Parts
               PROVE  /\ Coming(p)' <=> Coming(p)
                      /\ \A v : Came(p, v)' <=> Came(p, v)
    OBVIOUS
  <2>1. p # "seasons"
    BY DEF SeasonPage!Parts
  <2>2. answered'[p] = answered[p] /\ \A q : q.part = p => (q \in asked' <=> q \in asked)
    BY <1>1, <2>1
  <2> QED BY <2>2, PartStays
<1>5. page # "none" /\ ~overtaken' /\ ~failed' => Shows'
  BY <1>1, <1>4 DEF Shows, SeasonPage!Parts
<1> QED BY <1>2, <1>3, <1>5 DEF SelectorTypes

\* The seasons are not to be had.
LEMMA SeasonsFailKeeps ==
    ASSUME ViewBounds, ViewInv, NEW r \in asked, SeasonPage!SeasonsFail(r)
    PROVE  ViewInv'
<1>1. r.part = "seasons" /\ SeasonPage!Arrive(r) /\ UNCHANGED <<live, current, changes, stored, page, shown>>
  BY DEF SeasonPage!SeasonsFail, SeasonPage!server
<1>2. CASE listed' = {} /\ listedCurrent' = NoSeason /\ SeasonPage!Select("all", asked \ {r})
  <2>1. "all" \in SeasonPage!Selections
    BY DEF SeasonPage!Selections
  <2> QED BY <1>1, <1>2, <2>1, SelectKeeps
<1>3. CASE /\ ~r.first /\ asked' = asked \ {r}
           /\ UNCHANGED <<listed, listedCurrent, selection, ready, failed, sent>>
  BY <1>1, <1>3, ListLostKeeps
<1> QED BY <1>2, <1>3 DEF SeasonPage!SeasonsFail

\* A part of a player is not to be had.
LEMMA PlayerFailKeeps ==
    ASSUME ViewBounds, ViewInv, NEW r \in asked, SeasonPage!PlayerFail(r)
    PROVE  ViewInv'
<1>1. /\ r.part = "seasons" /\ SeasonPage!Arrive(r) /\ failed' = TRUE /\ asked' = asked \ {r}
      /\ UNCHANGED <<live, current, changes, stored, page, listed, listedCurrent, selection, ready, shown, sent>>
  BY DEF SeasonPage!PlayerFail, SeasonPage!server
<1> QED BY <1>1, ListLostKeeps

-----------------------------------------------------------------------------
\* The answer to the last request for the board shows the selection, and a player's page
\* then asks for the other parts of it; an earlier answer that comes first leaves the last
\* one to come; one that comes after the last one was overtaken.
LEMMA BoardAnswerKeeps ==
    ASSUME ViewBounds, ViewInv, NEW r \in asked, SeasonPage!BoardAnswer(r)
    PROVE  ViewInv'
<1>0. ASSUME NEW half \in SeasonPage!Parts \cup {"seasons"}, NEW i \in {1, 2}
      PROVE  /\ SeasonPage!Request(sent + i, half, r.selection) \in SeasonAsked /\ SeasonPage!Request(sent + i, half, r.selection).n = sent + i
             /\ SeasonPage!Request(sent + i, half, r.selection).part = half
             /\ SeasonPage!Request(sent + i, half, r.selection).selection = r.selection
  <2>1. r.selection \in SeasonPage!Selections /\ sent \in Nat
    BY DEF ViewInv, SelectorTypes, SeasonAskedTypes, SentTypes, SeasonAsked
  <2>2. sent + i \in Nat
    BY <2>1
  <2>3. live \in SUBSET Season /\ current \in Season \cup {NoSeason} /\ stored \in SeasonPage!Selections \cup {NoSeason}
    BY DEF ViewInv, SelectorTypes, SeasonTypes, PageTypes
  <2> QED BY <2>1, <2>2, <2>3 DEF SeasonPage!Request, SeasonAsked
<1> USE DEF ViewInv
<1>1. /\ r.part = "board" /\ SeasonPage!Arrive(r) /\ shown' = [shown EXCEPT !["board"] = r.selection]
      /\ UNCHANGED <<live, current, changes, stored, page, listed, listedCurrent, selection, ready, failed>>
  BY DEF SeasonPage!BoardAnswer, SeasonPage!server
<1>2. /\ answered' \in [SeasonPage!Parts \cup {"seasons"} -> Nat] /\ \A p \in SeasonPage!Parts \cup {"seasons"} : answered'[p] <= sent
      /\ \A p \in SeasonPage!Parts \cup {"seasons"} : p # r.part => answered'[p] = answered[p]
      /\ answered'[r.part] = IF r.n > answered[r.part] THEN r.n ELSE answered[r.part]
      /\ overtaken' \in BOOLEAN
      /\ ~overtaken' => ~overtaken /\ answered[r.part] <= r.n
  BY <1>1, ArrivePageKeeps
<1>3. /\ r \in SeasonAsked /\ sent \in Nat /\ answered \in [SeasonPage!Parts \cup {"seasons"} -> Nat]
      /\ asked \subseteq SeasonAsked /\ \A q \in asked : q.n \in Nat /\ q.n <= sent
      /\ r.selection \in SeasonPage!Selections /\ r.n \in Nat
  BY DEF SelectorTypes, SeasonAskedTypes, SentTypes, SeasonAsked
<1>4. /\ "board" \in SeasonPage!Parts /\ "ability" \in SeasonPage!Parts /\ "impact" \in SeasonPage!Parts /\ "seasons" \notin SeasonPage!Parts
      /\ SeasonPage!Parts = {"board", "ability", "impact"}
  BY DEF SeasonPage!Parts
<1>5. SeasonTypes' /\ SelectorInv'
  BY <1>1 DEF SelectorTypes, SeasonTypes, SelectorInv
<1>6. shown' \in [SeasonPage!Parts -> SeasonPage!Selections \cup {NoSeason}] /\ shown'["board"] = r.selection
      /\ shown'["ability"] = shown["ability"] /\ shown'["impact"] = shown["impact"]
  BY <1>1, <1>3, <1>4 DEF SelectorTypes, PageTypes
<1>7. PageTypes'
  BY <1>1, <1>2, <1>6 DEF SelectorTypes, PageTypes
<1>8. page # "none" /\ ~overtaken' /\ ~failed => Shows /\ answered'["board"] = r.n
  BY <1>1, <1>2, <1>3, <1>4
\* What becomes of the board, once the requests for it are those before without r.
<1>9. ASSUME Shows, answered'["board"] = r.n, \A q : q.part = "board" => (q \in asked' <=> q \in asked \ {r}),
             answered["board"] <= r.n
      PROVE  \/ Coming("board")'
             \/ Came("board", {selection})' /\ ((Coming("board") /\ r.selection = selection) \/ Came("board", {selection}))
             \/ page = "player" /\ ~ready /\ \E q \in asked : q.part = "seasons" /\ q.first
  <2>1. CASE Coming("board")
    <3>1. PICK x \in asked : /\ x.part = "board" /\ x.selection = selection /\ answered["board"] < x.n
                             /\ \A q \in asked : q.part = "board" /\ q # x => q.n < x.n
      BY <2>1 DEF Coming
    <3>2. CASE x = r
      <4>1. Came("board", {selection})'
        BY <1>1, <1>6, <1>9, <3>1, <3>2 DEF Came
      <4> QED BY <2>1, <3>1, <3>2, <4>1
    <3>3. CASE x # r
      <4>1. r.n < x.n /\ x \in asked'
        BY <1>1, <1>9, <3>1, <3>3
      <4>2. \A q \in asked' : q.part = "board" /\ q # x => q.n < x.n
        BY <1>9, <3>1
      <4>3. Coming("board")'
        BY <1>1, <1>9, <3>1, <4>1, <4>2 DEF Coming
      <4> QED BY <4>3
    <3> QED BY <3>2, <3>3
  <2>2. CASE Came("board", {selection})
    <3>1. r.n < answered["board"]
      BY <1>1, <2>2 DEF Came
    <3> QED BY <1>3, <1>4, <1>9, <3>1
  <2> QED BY <1>9, <2>1, <2>2 DEF Shows
<1>10. CASE page = "rankings"
  <2>1. asked' = asked \ {r} /\ UNCHANGED sent
    BY <1>10 DEF SeasonPage!BoardAnswer
  <2>2. SeasonAskedTypes' /\ SentTypes'
    BY <1>2, <2>1 DEF SelectorTypes, SeasonAskedTypes, SentTypes
  <2>3. page' = "rankings" => /\ \A x \in {"ability", "impact"} : shown'[x] = NoSeason
                              /\ \A q \in asked' : q.part \in {"board", "seasons"}
    BY <1>1, <1>6, <2>1
  <2>4. \A p \in {"ability", "impact"} : Came(p, {selection, NoSeason})'
    BY <1>1, <1>10, <2>3 DEF Came
  <2>5. page' # "none" /\ ~overtaken' /\ ~failed' => Shows'
    <3> SUFFICES ASSUME page' # "none", ~overtaken', ~failed' PROVE Shows'
      OBVIOUS
    <3>1. Shows /\ answered'["board"] = r.n /\ answered["board"] <= r.n
      BY <1>1, <1>2, <1>8
    <3>2. Coming("board")' \/ Came("board", {selection})'
      BY <1>9, <1>10, <2>1, <3>1
    <3> QED BY <1>10, <2>4, <3>2 DEF Shows
  <2> QED BY <1>5, <1>7, <2>2, <2>3, <2>5 DEF SelectorTypes
<1>11. CASE page # "rankings"
  <2> DEFINE a == SeasonPage!Request(sent + 1, "ability", r.selection)
             i == SeasonPage!Request(sent + 2, "impact", r.selection)
  <2>1. sent + 2 <= MaxRequests /\ asked' = (asked \ {r}) \cup {a, i} /\ sent' = sent + 2
    BY <1>11 DEF SeasonPage!BoardAnswer
  <2>2. sent + 1 \in Nat /\ sent + 2 \in Nat /\ "ability" \in SeasonPage!Parts \cup {"seasons"} /\ "impact" \in SeasonPage!Parts \cup {"seasons"}
    BY <1>3, <1>4
  <2>3. a \in SeasonAsked /\ a.n = sent + 1 /\ a.part = "ability" /\ a.selection = r.selection
    BY <1>0, <1>3, <2>2
  <2>4. i \in SeasonAsked /\ i.n = sent + 2 /\ i.part = "impact" /\ i.selection = r.selection
    BY <1>0, <1>3, <2>2
  <2> HIDE DEF a, i
  <2>5. \A q \in asked' : q \in asked \/ q = a \/ q = i
    BY <2>1
  <2>6. \A q \in asked' : q \in SeasonAsked
    BY <1>3, <2>3, <2>4, <2>5
  <2>7. \A q \in asked' : q.n <= sent'
    BY <1>3, <2>1, <2>3, <2>4, <2>5
  <2>8. SentTypes'
    BY <1>2, <1>3, <2>1 DEF SentTypes, ViewBounds
  <2>9. page' = page
    BY <1>1
  <2>10. page' # "none" /\ ~overtaken' /\ ~failed' => Shows'
    <3> SUFFICES ASSUME page' # "none", ~overtaken', ~failed' PROVE Shows'
      OBVIOUS
    <3>1. Shows /\ answered'["board"] = r.n /\ answered["board"] <= r.n
      BY <1>1, <1>2, <1>8
    <3>2. \A q : q.part = "board" => (q \in asked' <=> q \in asked \ {r})
      BY <2>1, <2>3, <2>4
    <3>3. \A q \in asked : q.part = "seasons" => q \in asked'
      BY <1>1, <2>1
    <3>4. CASE Coming("board")'
      BY <3>4 DEF Shows
    <3>5. CASE page = "player" /\ ~ready /\ \E q \in asked : q.part = "seasons" /\ q.first
      BY <1>1, <3>3, <3>5 DEF Shows
    <3>6. CASE r.selection = selection
      <4>1. \A q \in asked' : q.part = "ability" /\ q # a => q.n < a.n
        BY <1>3, <2>3, <2>4, <2>5
      <4>2. \A q \in asked' : q.part = "impact" /\ q # i => q.n < i.n
        BY <1>3, <2>3, <2>4, <2>5
      <4>3. answered'["ability"] < a.n /\ answered'["impact"] < i.n
        BY <1>2, <1>3, <1>4, <2>3, <2>4
      <4>4. Coming("ability")' /\ Coming("impact")'
        BY <1>1, <2>1, <2>3, <2>4, <3>6, <4>1, <4>2, <4>3 DEF Coming
      <4>5. Coming("board")' \/ Came("board", {selection})' \/ (page = "player" /\ ~ready /\ \E q \in asked : q.part = "seasons" /\ q.first)
        BY <1>9, <3>1, <3>2
      <4> QED BY <3>4, <3>5, <4>4, <4>5 DEF Shows
    <3>7. CASE Came("board", {selection})
      <4>1. r.n < answered["board"]
        BY <1>1, <3>7 DEF Came
      <4> QED BY <1>3, <1>4, <3>1, <4>1
    <3> QED BY <1>9, <3>1, <3>2, <3>4, <3>5, <3>6, <3>7
  <2> QED BY <1>5, <1>7, <1>11, <2>6, <2>7, <2>8, <2>9, <2>10 DEF SelectorTypes, SeasonAskedTypes
<1> QED BY <1>10, <1>11

\* The rankings are not to be had.
LEMMA BoardFailKeeps ==
    ASSUME ViewBounds, ViewInv, NEW r \in asked, SeasonPage!BoardFail(r)
    PROVE  ViewInv'
<1> USE DEF ViewInv
<1>1. /\ r.part = "board" /\ SeasonPage!Arrive(r) /\ failed' = TRUE /\ asked' = asked \ {r}
      /\ UNCHANGED <<live, current, changes, stored, page, listed, listedCurrent, selection, ready, shown, sent>>
  BY DEF SeasonPage!BoardFail, SeasonPage!server
<1>2. /\ answered' \in [SeasonPage!Parts \cup {"seasons"} -> Nat] /\ \A p \in SeasonPage!Parts \cup {"seasons"} : answered'[p] <= sent
      /\ overtaken' \in BOOLEAN
  BY <1>1, ArrivePageKeeps
<1>3. SeasonTypes' /\ SelectorInv' /\ SeasonAskedTypes' /\ SentTypes'
  BY <1>1, <1>2 DEF SelectorTypes, SeasonTypes, SelectorInv, SeasonAskedTypes, SentTypes
<1>4. PageTypes'
  BY <1>1, <1>2 DEF SelectorTypes, PageTypes
<1> QED BY <1>1, <1>3, <1>4 DEF SelectorTypes

\* A part hears its answer.
LEMMA PartAnswerKeeps ==
    ASSUME ViewBounds, ViewInv, NEW r \in asked, NEW value, SeasonPage!PartAnswer(r, value)
    PROVE  ViewInv'
<1> USE DEF ViewInv
<1> DEFINE x == r.part
<1>1. /\ x \in {"ability", "impact"} /\ SeasonPage!Arrive(r) /\ value \in {r.selection, NoSeason}
      /\ shown' = [shown EXCEPT ![x] = value] /\ asked' = asked \ {r}
      /\ UNCHANGED <<live, current, changes, stored, page, listed, listedCurrent, selection, ready, failed, sent>>
  BY DEF SeasonPage!PartAnswer, SeasonPage!server
<1>2. /\ answered' \in [SeasonPage!Parts \cup {"seasons"} -> Nat] /\ \A p \in SeasonPage!Parts \cup {"seasons"} : answered'[p] <= sent
      /\ \A p \in SeasonPage!Parts \cup {"seasons"} : p # x => answered'[p] = answered[p]
      /\ answered'[x] = IF r.n > answered[x] THEN r.n ELSE answered[x]
      /\ overtaken' \in BOOLEAN
      /\ ~overtaken' => ~overtaken /\ answered[x] <= r.n
  BY <1>1, ArrivePageKeeps
<1>3. /\ answered \in [SeasonPage!Parts \cup {"seasons"} -> Nat] /\ \A q \in asked : q.n \in Nat
      /\ r.selection \in SeasonPage!Selections /\ r.n \in Nat
  BY DEF SelectorTypes, SeasonAskedTypes, SentTypes, SeasonAsked
<1>4. /\ "board" \in SeasonPage!Parts /\ "ability" \in SeasonPage!Parts /\ "impact" \in SeasonPage!Parts /\ "seasons" \notin SeasonPage!Parts
      /\ SeasonPage!Parts = {"board", "ability", "impact"} /\ x \in SeasonPage!Parts /\ x # "board" /\ x # "seasons"
  BY <1>1 DEF SeasonPage!Parts
<1>5. SeasonTypes' /\ SelectorInv' /\ SeasonAskedTypes' /\ SentTypes'
  BY <1>1, <1>2 DEF SelectorTypes, SeasonTypes, SelectorInv, SeasonAskedTypes, SentTypes
<1>6. /\ shown' \in [SeasonPage!Parts -> SeasonPage!Selections \cup {NoSeason}] /\ shown'[x] = value
      /\ \A p \in SeasonPage!Parts : p # x => shown'[p] = shown[p]
  BY <1>1, <1>3, <1>4 DEF SelectorTypes, PageTypes
<1>7. PageTypes'
  BY <1>1, <1>2, <1>6 DEF SelectorTypes, PageTypes
<1> HIDE DEF x
<1>8. page' # "rankings"
  BY <1>1 DEF x
<1>9. \A p \in SeasonPage!Parts \ {x} : /\ Coming(p)' <=> Coming(p)
                                        /\ \A v : Came(p, v)' <=> Came(p, v)
  <2> SUFFICES ASSUME NEW p \in SeasonPage!Parts \ {x}
               PROVE  /\ Coming(p)' <=> Coming(p)
                      /\ \A v : Came(p, v)' <=> Came(p, v)
    OBVIOUS
  <2>1. answered'[p] = answered[p] /\ \A q : q.part = p => (q \in asked' <=> q \in asked)
    BY <1>1, <1>2 DEF x
  <2> QED BY <1>1, <1>6, <2>1, PartStays
\* The part itself.
<1>10. ASSUME ~overtaken', Coming(x) \/ Came(x, {selection, NoSeason})
       PROVE  Coming(x)' \/ Came(x, {selection, NoSeason})'
  <2>1. answered'[x] = r.n /\ answered[x] <= r.n
    BY <1>2, <1>3, <1>4, <1>10
  <2>2. CASE Coming(x)
    <3>1. PICK y \in asked : /\ y.part = x /\ y.selection = selection /\ answered[x] < y.n
                             /\ \A q \in asked : q.part = x /\ q # y => q.n < y.n
      BY <2>2 DEF Coming
    <3>2. CASE y = r
      <4>1. Came(x, {selection, NoSeason})'
        BY <1>1, <1>6, <2>1, <3>1, <3>2 DEF Came
      <4> QED BY <4>1
    <3>3. CASE y # r
      <4>1. r.n < y.n /\ y \in asked'
        BY <1>1, <3>1, <3>3 DEF x
      <4>2. Coming(x)'
        BY <1>1, <2>1, <3>1, <4>1 DEF Coming
      <4> QED BY <4>2
    <3> QED BY <3>2, <3>3
  <2>3. CASE Came(x, {selection, NoSeason})
    <3>1. r.n < answered[x]
      BY <2>3 DEF Came, x
    <3> QED BY <1>3, <1>4, <2>1, <3>1
  <2> QED BY <1>10, <2>2, <2>3
<1>11. page' # "none" /\ ~overtaken' /\ ~failed' => Shows'
  <2> SUFFICES ASSUME page' # "none", ~overtaken', ~failed' PROVE Shows'
    OBVIOUS
  <2>1. Shows
    BY <1>1, <1>2
  <2>2. CASE Coming("board")
    BY <1>4, <1>9, <2>2 DEF Shows
  <2>3. CASE Came("board", {selection}) /\ \A p \in {"ability", "impact"} : Coming(p) \/ Came(p, {selection, NoSeason})
    <3>1. Came("board", {selection})'
      <4>1. selection' = selection
        BY <1>1
      <4> QED BY <1>4, <1>9, <2>3, <4>1
    <3>2. \A p \in {"ability", "impact"} : Coming(p)' \/ Came(p, {selection, NoSeason})'
      <4> SUFFICES ASSUME NEW p \in {"ability", "impact"} PROVE Coming(p)' \/ Came(p, {selection, NoSeason})'
        OBVIOUS
      <4>1. CASE p = x
        BY <1>10, <2>3, <4>1
      <4>2. CASE p # x
        <5>1. selection' = selection /\ p \in SeasonPage!Parts \ {x}
          BY <1>1, <1>4, <4>2
        <5> QED BY <1>9, <2>3, <5>1
      <4> QED BY <4>1, <4>2
    <3> QED BY <3>1, <3>2 DEF Shows
  <2>4. CASE page = "player" /\ ~ready /\ \E q \in asked : q.part = "seasons" /\ q.first
    <3>1. \A q \in asked : q.part = "seasons" => q \in asked'
      BY <1>1 DEF x
    <3> QED BY <1>1, <2>4, <3>1 DEF Shows
  <2> QED BY <2>1, <2>2, <2>3, <2>4 DEF Shows
<1> QED BY <1>5, <1>7, <1>8, <1>11 DEF SelectorTypes

\* The user chooses a season.
LEMMA SeasonChangeKeeps ==
    ASSUME ViewBounds, ViewInv, NEW s, SeasonPage!SeasonChange(s)
    PROVE  ViewInv'
<1>1. /\ s \in {"all"} \cup listed /\ selection' = s /\ stored' = s
      /\ SeasonPage!Ask(asked, "board", s) /\ SeasonPage!ClearError
      /\ UNCHANGED <<live, current, changes, page, listed, listedCurrent, ready, shown, answered, overtaken>>
  BY DEF SeasonPage!SeasonChange, SeasonPage!server
<1>2. listed \subseteq Season /\ failed \in BOOLEAN /\ answered \in [SeasonPage!Parts \cup {"seasons"} -> Nat]
      /\ \A p \in SeasonPage!Parts \cup {"seasons"} : answered[p] <= sent
  BY DEF ViewInv, SelectorTypes, PageTypes, SentTypes
<1>3. s \in SeasonPage!Selections /\ failed' \in BOOLEAN
  BY <1>1, <1>2 DEF SeasonPage!Selections, SeasonPage!ClearError
<1>4. "board" \in SeasonPage!Parts /\ asked \in SUBSET asked /\ answered'["board"] \in Nat /\ answered'["board"] <= sent
  BY <1>1, <1>2 DEF SeasonPage!Parts
<1>5. /\ Coming("board")' /\ SeasonAskedTypes' /\ sent' \in 0..MaxRequests /\ sent' = sent + 1 /\ sent \in Nat
      /\ \A q \in asked' : q \in asked \/ (q.part = "board")
  BY <1>1, <1>3, <1>4, AskMakes
<1> USE DEF ViewInv
<1>6. SeasonTypes' /\ SelectorInv'
  BY <1>1 DEF SelectorTypes, SeasonTypes, SelectorInv
<1>7. PageTypes'
  BY <1>1, <1>3 DEF SelectorTypes, PageTypes
<1>8. SentTypes'
  BY <1>1, <1>2, <1>5 DEF SentTypes
<1>9. Shows'
  BY <1>5 DEF Shows
<1>10. page' = "rankings" => /\ \A x \in {"ability", "impact"} : shown'[x] = NoSeason
                             /\ \A q \in asked' : q.part \in {"board", "seasons"}
  BY <1>1, <1>5
<1> QED BY <1>5, <1>6, <1>7, <1>8, <1>9, <1>10 DEF SelectorTypes

\* What changes the seasons leaves them in their domain.
LEMMA EffectKeeps ==
    ASSUME SeasonTypes, ViewBounds, NEW kind, NEW s, SeasonPage!Change(kind, s)
    PROVE  SeasonTypes'
<1>1. changes' \in 0..MaxChanges
  BY DEF SeasonPage!Change, SeasonTypes, ViewBounds
<1>2. live' \subseteq Season /\ current' \in live' \cup {NoSeason}
  BY DEF SeasonPage!Change, SeasonPage!Effect, SeasonTypes
<1> QED BY <1>1, <1>2 DEF SeasonTypes

\* Another changes the seasons of the group.
LEMMA SeasonsKeep ==
    ASSUME ViewBounds, ViewInv, NEW kind, NEW s, SeasonPage!Change(kind, s), UNCHANGED <<SeasonPage!client, SeasonPage!net>>
    PROVE  ViewInv'
<1>1. SeasonTypes'
  BY EffectKeeps DEF ViewInv, SelectorTypes
<1>2. UNCHANGED <<stored, page, listed, listedCurrent, selection, ready, failed, shown, asked, sent, answered, overtaken>>
  BY DEF SeasonPage!client, SeasonPage!net
<1>3. PageTypes' /\ SeasonAskedTypes' /\ SentTypes' /\ SelectorInv'
  BY <1>2 DEF ViewInv, SelectorTypes, PageTypes, SeasonAskedTypes, SentTypes, SelectorInv
<1>4. Shows' <=> Shows
  BY <1>2 DEF Shows, Coming, Came
<1> QED BY <1>1, <1>2, <1>3, <1>4 DEF ViewInv, SelectorTypes

\* What the modal knows to be stored is a selection.
BusyInv == busy.stored \in SeasonPage!Selections \cup {NoSeason}

\* It is what was stored when a button was tapped.
LEMMA BusyKeeps ==
    ASSUME ViewInv, BusyInv, [SeasonPage!Next]_SeasonPage!vars
    PROVE  BusyInv'
<1>1. stored \in SeasonPage!Selections \cup {NoSeason}
  BY DEF ViewInv, SelectorTypes, PageTypes
<1>2. SeasonPage!NotBusy.stored = NoSeason
  BY DEF SeasonPage!NotBusy
<1>3. \/ busy' = busy \/ busy' = SeasonPage!NotBusy \/ busy'.stored = stored
  <2>1. ASSUME NEW kind, NEW s, SeasonPage!ChangeByModal(kind, s) PROVE busy'.stored = stored
    BY <2>1 DEF SeasonPage!ChangeByModal
  <2>2. CASE UNCHANGED SeasonPage!vars
    BY <2>2 DEF SeasonPage!vars
  <2>3. CASE SeasonPage!Next
    BY <2>1, <2>3 DEF SeasonPage!Next, SeasonPage!Open, SeasonPage!SeasonsAnswer, SeasonPage!SeasonsFail,
       SeasonPage!PlayerFail, SeasonPage!BoardAnswer, SeasonPage!BoardFail, SeasonPage!PartAnswer,
       SeasonPage!SeasonChange, SeasonPage!ChangeByOther, SeasonPage!ModalAnswer
  <2> QED BY <2>2, <2>3
<1> QED BY <1>1, <1>2, <1>3 DEF BusyInv

\* The season that the modal has changed is stored, or not.
LEMMA ModalAnswerKeeps ==
    ASSUME ViewBounds, ViewInv, BusyInv, NEW ok, SeasonPage!ModalAnswer(ok)
    PROVE  ViewInv'
<1>1. UNCHANGED <<live, current, changes, stored, page, listed, listedCurrent, selection, ready, failed, shown, answered, overtaken>>
  BY DEF SeasonPage!ModalAnswer, SeasonPage!server, SeasonPage!client
<1>2. CASE ok
  <2> DEFINE old == SeasonPage!SeasonsRequest(sent + 1, FALSE)
             new == SeasonPage!ReloadRequest(sent + 1)
  <2>1. sent < MaxRequests /\ asked' = asked \cup {new} /\ sent' = sent + 1
    BY <1>2 DEF SeasonPage!ModalAnswer
  <2>2. sent \in Nat /\ asked \subseteq SeasonAsked /\ \A r \in asked : r.n \in Nat /\ r.n <= sent
    BY DEF ViewInv, SelectorTypes, SentTypes, SeasonAskedTypes, SeasonAsked
  <2>3. sent + 1 \in Nat /\ FALSE \in BOOLEAN
    BY <2>2
  <2>4. new \in SeasonAsked /\ new.n = sent + 1 /\ new.part = "seasons"
    <3>1. old \in SeasonAsked /\ old.n = sent + 1 /\ old.part = "seasons"
      BY <2>3, SeasonsRequestIsAsked
    <3>2. new = [old EXCEPT !.stored = busy.stored]
      BY DEF SeasonPage!ReloadRequest
    <3>3. busy.stored \in SeasonPage!Selections \cup {NoSeason}
      BY DEF BusyInv
    <3> HIDE DEF old, new
    <3> QED BY <3>1, <3>2, <3>3 DEF SeasonAsked
  <2> HIDE DEF new
  <2> USE DEF ViewInv
  <2>5. SeasonAskedTypes' /\ SentTypes'
    BY <1>1, <2>1, <2>2, <2>4 DEF SeasonAskedTypes, SentTypes, SelectorTypes, ViewBounds
  <2>6. SeasonTypes' /\ PageTypes' /\ SelectorInv'
    BY <1>1 DEF SelectorTypes, SeasonTypes, PageTypes, SelectorInv
  <2>7. \A p \in SeasonPage!Parts : /\ Coming(p)' <=> Coming(p)
                                    /\ \A v : Came(p, v)' <=> Came(p, v)
    <3> SUFFICES ASSUME NEW p \in SeasonPage!Parts
                 PROVE  /\ Coming(p)' <=> Coming(p)
                        /\ \A v : Came(p, v)' <=> Came(p, v)
      OBVIOUS
    <3>1. p # "seasons"
      BY DEF SeasonPage!Parts
    <3>2. answered'[p] = answered[p] /\ \A q : q.part = p => (q \in asked' <=> q \in asked)
      BY <1>1, <2>1, <2>4, <3>1
    <3> QED BY <1>1, <3>2, PartStays
  <2>8. page # "none" /\ ~overtaken /\ ~failed => Shows'
    <3>1. \A p \in {"board", "ability", "impact"} : (Coming(p)' <=> Coming(p)) /\ \A v : Came(p, v)' <=> Came(p, v)
      BY <2>7 DEF SeasonPage!Parts
    <3> QED BY <1>1, <2>1, <3>1 DEF Shows
  <2>9. page' = "rankings" => /\ \A x \in {"ability", "impact"} : shown'[x] = NoSeason
                              /\ \A q \in asked' : q.part \in {"board", "seasons"}
    BY <1>1, <2>1, <2>4
  <2> QED BY <1>1, <2>5, <2>6, <2>8, <2>9 DEF SelectorTypes
<1>3. CASE ~ok
  <2>1. UNCHANGED <<asked, sent>>
    BY <1>3 DEF SeasonPage!ModalAnswer
  <2>2. SelectorTypes' /\ SelectorInv'
    BY <1>1, <2>1 DEF ViewInv, SelectorTypes, SeasonTypes, PageTypes, SeasonAskedTypes, SentTypes,
        SelectorInv
  <2>3. Shows' <=> Shows
    BY <1>1, <2>1 DEF Shows, Coming, Came
  <2> QED BY <1>1, <2>1, <2>2, <2>3 DEF ViewInv
<1> QED BY <1>2, <1>3

\* Every step keeps the invariant.
LEMMA ViewNextKeeps ==
    ViewBounds /\ ViewInv /\ BusyInv /\ [SeasonPage!Next]_SeasonPage!vars => ViewInv'
<1> SUFFICES ASSUME ViewBounds, ViewInv, BusyInv, [SeasonPage!Next]_SeasonPage!vars PROVE ViewInv'
  OBVIOUS
<1>1. ASSUME NEW p \in SeasonPage!Pages, SeasonPage!Open(p) PROVE ViewInv'
  BY <1>1, OpenPageKeeps
<1>2. ASSUME NEW r \in asked, SeasonPage!SeasonsAnswer(r) PROVE ViewInv'
  BY <1>2, SeasonsAnswerKeeps
<1>3. ASSUME NEW r \in asked, SeasonPage!SeasonsFail(r) PROVE ViewInv'
  BY <1>3, SeasonsFailKeeps
<1>4. ASSUME NEW r \in asked, SeasonPage!PlayerFail(r) PROVE ViewInv'
  BY <1>4, PlayerFailKeeps
<1>5. ASSUME NEW r \in asked, SeasonPage!BoardAnswer(r) PROVE ViewInv'
  BY <1>5, BoardAnswerKeeps
<1>6. ASSUME NEW r \in asked, SeasonPage!BoardFail(r) PROVE ViewInv'
  BY <1>6, BoardFailKeeps
<1>7. ASSUME NEW r \in asked, NEW v, SeasonPage!PartAnswer(r, v) PROVE ViewInv'
  BY <1>7, PartAnswerKeeps
<1>8. ASSUME NEW s, SeasonPage!SeasonChange(s) PROVE ViewInv'
  BY <1>8, SeasonChangeKeeps
<1>9. ASSUME NEW kind, NEW s, SeasonPage!ChangeByOther(kind, s) \/ SeasonPage!ChangeByModal(kind, s) PROVE ViewInv'
  <2>1. SeasonPage!Change(kind, s) /\ UNCHANGED <<SeasonPage!client, SeasonPage!net>>
    BY <1>9 DEF SeasonPage!ChangeByOther, SeasonPage!ChangeByModal
  <2> QED BY <2>1, SeasonsKeep
<1>10. ASSUME NEW ok, SeasonPage!ModalAnswer(ok) PROVE ViewInv'
  BY <1>10, ModalAnswerKeeps
<1>11. CASE UNCHANGED SeasonPage!vars
  <2>1. UNCHANGED <<live, current, changes, stored, page, listed, listedCurrent, selection, ready, failed, shown, asked, sent,
                    answered, overtaken>>
    BY <1>11 DEF SeasonPage!vars, SeasonPage!server, SeasonPage!client, SeasonPage!net
  <2>2. SelectorTypes' /\ SelectorInv'
    BY <2>1 DEF ViewInv, SelectorTypes, SeasonTypes, PageTypes, SeasonAskedTypes, SentTypes,
        SelectorInv
  <2>3. Shows' <=> Shows
    BY <2>1 DEF Shows, Coming, Came
  <2> QED BY <2>1, <2>2, <2>3 DEF ViewInv
<1>12. CASE SeasonPage!Next
  BY <1>1, <1>2, <1>3, <1>4, <1>5, <1>6, <1>7, <1>8, <1>9, <1>10, <1>12 DEF SeasonPage!Next
<1> QED BY <1>11, <1>12

\* A page that is not loading shows the season its selector stands on, whatever the order
\* in which answers come (the rankings, a player and SeasonSelector).
THEOREM PagesShowTheirSelection ==
    ViewBounds => (SeasonPage!Spec => [](SeasonPage!TypeOK /\ SeasonPage!ShownIsSelected))
<1> SUFFICES ASSUME ViewBounds PROVE SeasonPage!Spec => [](SeasonPage!TypeOK /\ SeasonPage!ShownIsSelected)
  OBVIOUS
<1>1. SeasonPage!Init => ViewInv /\ BusyInv
  BY ViewBegins DEF SeasonPage!Init, BusyInv, SeasonPage!NotBusy
<1>2. ViewInv /\ BusyInv /\ [SeasonPage!Next]_SeasonPage!vars => ViewInv' /\ BusyInv'
  BY ViewNextKeeps, BusyKeeps
<1>3. ViewInv => SeasonPage!TypeOK /\ SeasonPage!ShownIsSelected
  BY ViewShows
<1> QED BY <1>1, <1>2, <1>3, PTL DEF SeasonPage!Spec

-----------------------------------------------------------------------------
(* The page of a day                                                       *)

LoadTypes ==
    /\ \A r \in dAsked : r = [key |-> r.key, read |-> r.read]
    /\ \A r \in dAsked : r.key \in Daily!Keys /\ r.read \in [Day -> -1..MaxRecordChanges]
    /\ \A r \in dAsked, q \in dAsked : q.key = r.key => q = r
DayTypes ==
    /\ records \in [Group -> [Day -> 0..MaxRecordChanges]] /\ dChanges \in 1..MaxRecordChanges
    /\ dGroup \in Group /\ dDate \in Day \cup {0} /\ dMoves \in 0..MaxMoves
    /\ dData \in [Daily!Keys -> [Day -> -1..MaxRecordChanges]]
    /\ dFailed \subseteq Daily!Keys /\ dStale \subseteq Daily!Keys

\* A load under way brings what the server has, unless that changed since it was sent.
FreshInv == \A r \in dAsked : r.key \notin dStale => r.read = Daily!Read(r.key)

\* What the page observes and awaits no load of is what the server has.
ShownInv == \A k \in Daily!Observed : \/ k \in dStale \/ k \in dFailed \/ \E r \in dAsked : r.key = k
                                      \/ dData[k] = Daily!Read(k)

StandInv == Daily!Listed(dData, dGroup) # {} => dDate \in Daily!Listed(dData, dGroup)

DailyInv == DayTypes /\ LoadTypes /\ FreshInv /\ ShownInv /\ StandInv

-----------------------------------------------------------------------------
\* The newest of some days is one of them, and none is later.
LEMMA NewestDay ==
    ASSUME DayBounds, NEW S \in SUBSET Day, S # {}
    PROVE  Daily!Max(S) \in S /\ \A d \in S : d <= Daily!Max(S)
<1>1. PICK n \in Nat : Day \subseteq 1..n
  BY DEF DayBounds, Day
<1> DEFINE T == {n - d : d \in S}
<1>0. \A d \in S : d \in Nat /\ d <= n
  BY <1>1
<1>2. T \subseteq Nat /\ T # {}
  <2>1. \A d \in S : n - d \in Nat
    BY <1>0
  <2> QED BY <2>1
<1>3. PICK x \in T : \A y \in T : ~ (<<y, x>> \in OpToRel(<, Nat))
  <2> HIDE DEF T
  <2> QED BY <1>2, NatLessThanWellFounded, WFMin
<1>4. \A y \in T : ~ (y < x)
  BY <1>2, <1>3 DEF OpToRel
<1>5. PICK d \in S : x = n - d
  BY <1>3
<1>6. \A e \in S : d >= e
  <2>1. \A e \in S : ~ (n - e < n - d)
    BY <1>4, <1>5
  <2> QED BY <1>0, <2>1
<1>7. \E m \in S : \A e \in S : m >= e
  BY <1>6
<1>8. Daily!Max(S) \in S /\ \A e \in S : Daily!Max(S) >= e
  BY <1>7 DEF Daily!Max
<1>9. \A e \in S : e \in Int
  BY <1>1
<1> QED BY <1>8, <1>9

\* A count of one at most.
LEMMA OneOrNone ==
    \A n \in Nat : Daily!Min({1, n}) \in 0..1 /\ (Daily!Min({1, n}) > 0 <=> n > 0) /\ Daily!Min({1, n}) <= n
<1> SUFFICES ASSUME NEW n \in Nat PROVE Daily!Min({1, n}) \in 0..1 /\ (Daily!Min({1, n}) > 0 <=> n > 0) /\ Daily!Min({1, n}) <= n
  OBVIOUS
<1>1. \E m \in {1, n} : \A y \in {1, n} : m <= y
  OBVIOUS
<1>2. Daily!Min({1, n}) \in {1, n} /\ \A y \in {1, n} : Daily!Min({1, n}) <= y
  BY <1>1 DEF Daily!Min
<1> QED BY <1>2

\* A key is of the dates of a group, or of a day of it.
LEMMA KeyForms ==
    ASSUME DayBounds, NEW k \in Daily!Keys
    PROVE  /\ k.group \in Group /\ k.day \in Day \cup {0}
           /\ k.day = 0 => k = Daily!Dates(k.group)
           /\ k.day # 0 => k \in Daily!OfDay(k.group, k.day) /\ k.day \in Day
<1>1. CASE k \in {Daily!Dates(g) : g \in Group}
  BY <1>1 DEF Daily!Dates
<1>2. CASE k \in UNION {Daily!OfDay(g, d) : g \in Group, d \in Day}
  <2>1. PICK g \in Group, d \in Day : k \in Daily!OfDay(g, d)
    BY <1>2
  <2>2. d \in Nat /\ d # 0
    BY DEF DayBounds, Day
  <2>3. k.group = g /\ k.day = d
    BY <2>1, <2>2 DEF Daily!OfDay
  <2> QED BY <2>1, <2>2, <2>3
<1> QED BY <1>1, <1>2 DEF Daily!Keys

\* The keys that a page observes are those of its group and its day.
LEMMA ActiveForms ==
    ASSUME DayBounds, NEW g \in Group, NEW d \in Day \cup {0}
    PROVE  /\ Daily!Active(g, d) \subseteq Daily!Keys /\ Daily!Dates(g) \in Daily!Active(g, d)
           /\ Daily!Dates(g) \in Daily!Keys /\ Daily!Dates(g).group = g /\ Daily!Dates(g).day = 0
           /\ Daily!OfDay(g, d) \subseteq Daily!Active(g, d)
           /\ \A k \in Daily!OfDay(g, d) : k.group = g /\ k.day = d /\ d # 0
           /\ \A k \in Daily!Active(g, d) : k.group = g
<1>1. Daily!Dates(g) \in Daily!Keys /\ Daily!Dates(g).group = g /\ Daily!Dates(g).day = 0
  BY DEF Daily!Dates, Daily!Keys
<1>2. Daily!OfDay(g, d) \subseteq Daily!Keys
  <2>1. CASE d = 0
    BY <2>1 DEF Daily!OfDay
  <2>2. CASE d # 0
    BY <2>2 DEF Daily!Keys
  <2> QED BY <2>1, <2>2
<1>3. \A k \in Daily!OfDay(g, d) : k.group = g /\ k.day = d /\ d # 0
  BY DEF Daily!OfDay
<1> QED BY <1>1, <1>2, <1>3 DEF Daily!Active

\* What the server reads is of the domain.
LEMMA ReadTypes ==
    ASSUME DayBounds, DayTypes, NEW k \in Daily!Keys
    PROVE  Daily!Read(k) \in [Day -> -1..MaxRecordChanges]
<1>1. records[k.group] \in [Day -> 0..MaxRecordChanges]
  BY KeyForms DEF DayTypes
<1>2. MaxRecordChanges \in Nat /\ MaxRecordChanges >= 1
  BY DEF DayBounds
<1>3. ASSUME NEW d \in Day
      PROVE  (LET n == records[k.group][d] IN IF k.day = d THEN n ELSE IF k.day = 0 THEN Daily!Min({1, n}) ELSE 0) \in -1..MaxRecordChanges
  <2>1. PICK n : n = records[k.group][d]
    OBVIOUS
  <2>2. n \in Nat /\ n <= MaxRecordChanges
    BY <1>1, <1>2, <2>1
  <2>3. Daily!Min({1, n}) \in Nat /\ Daily!Min({1, n}) <= n
    BY <2>2, OneOrNone
  <2>4. (IF k.day = d THEN n ELSE IF k.day = 0 THEN Daily!Min({1, n}) ELSE 0) \in -1..MaxRecordChanges
    BY <1>2, <2>2, <2>3
  <2> QED BY <2>1, <2>4
<1> QED BY <1>3 DEF Daily!Read

\* A date that is settled is on the list that it is settled on, if there is one.
LEMMA SettledIsListed ==
    ASSUME DayBounds, NEW dt, NEW g \in Group, NEW d \in Day \cup {0}
    PROVE  /\ Daily!Settled(dt, g, d) \in Day \cup {0}
           /\ Daily!Listed(dt, g) # {} => Daily!Settled(dt, g, d) \in Daily!Listed(dt, g)
<1>1. Daily!Listed(dt, g) \in SUBSET Day
  BY DEF Daily!Listed
<1>2. Daily!Listed(dt, g) # {} => Daily!Max(Daily!Listed(dt, g)) \in Daily!Listed(dt, g)
  BY <1>1, NewestDay
<1> QED BY <1>1, <1>2 DEF Daily!Settled

-----------------------------------------------------------------------------
\* Loads of the keys ks are sent next to those in rest.
LEMMA LoadsKeep ==
    ASSUME DayBounds, DailyInv, NEW ks \in SUBSET Daily!Keys, NEW rest \in SUBSET dAsked,
           dAsked' = rest \cup {[key |-> k, read |-> Daily!Read(k)] : k \in ks},
           \A r \in rest : r.key \notin ks /\ (r.key \in dStale => r.key \in dStale'),
           records' = records
    PROVE  /\ LoadTypes' /\ FreshInv'
           /\ \A k \in ks : \E r \in dAsked' : r.key = k
<1>1. LoadTypes /\ FreshInv /\ DayTypes
  BY DEF DailyInv
<1>2. \A r \in dAsked' : r \in rest \/ (r.key \in ks /\ r = [key |-> r.key, read |-> Daily!Read(r.key)])
  OBVIOUS
<1>3. \A r \in dAsked' : r = [key |-> r.key, read |-> r.read]
  BY <1>1, <1>2 DEF LoadTypes
<1>4. \A r \in dAsked' : r.key \in Daily!Keys /\ r.read \in [Day -> -1..MaxRecordChanges]
  <2> SUFFICES ASSUME NEW r \in dAsked' PROVE r.key \in Daily!Keys /\ r.read \in [Day -> -1..MaxRecordChanges]
    OBVIOUS
  <2>1. CASE r \in rest
    BY <1>1, <2>1 DEF LoadTypes
  <2>2. CASE r.key \in ks /\ r = [key |-> r.key, read |-> Daily!Read(r.key)]
    <3>1. r.read = Daily!Read(r.key) /\ r.key \in Daily!Keys
      BY <2>2
    <3> QED BY <1>1, <3>1, ReadTypes
  <2> QED BY <1>2, <2>1, <2>2
<1>5. \A r \in dAsked', q \in dAsked' : q.key = r.key => q = r
  BY <1>1, <1>2 DEF LoadTypes
<1>6. \A k : Daily!Read(k)' = Daily!Read(k)
  BY DEF Daily!Read
<1>7. FreshInv'
  BY <1>1, <1>2, <1>6 DEF FreshInv
<1>8. \A k \in ks : [key |-> k, read |-> Daily!Read(k)] \in dAsked'
  OBVIOUS
<1> QED BY <1>3, <1>4, <1>5, <1>7, <1>8 DEF LoadTypes

\* The page is rendered for a group and a day, and asks for what it has not.
LEMMA RenderKeeps ==
    ASSUME DayBounds, DailyInv, NEW g \in Group, NEW d \in Day \cup {0}, NEW seen \in {{}, Daily!Observed},
           Daily!Render(dData, g, d, seen), Daily!Move, UNCHANGED Daily!server
    PROVE  DailyInv'
<1>1. PICK date : date = Daily!Settled(dData, g, d)
  OBVIOUS
<1>2. PICK new : new = (Daily!Active(g, d) \cup Daily!Active(g, date)) \ seen
  OBVIOUS
<1>3. /\ dGroup' = g /\ dDate' = date /\ dData' = dData
      /\ dAsked' = dAsked \cup {[key |-> k, read |-> Daily!Read(k)] : k \in Daily!Idle(new)}
      /\ dFailed' = dFailed \ {k \in Daily!Idle(new) : dData[k] = Daily!NoData}
      /\ dStale' = dStale \ Daily!Idle(new) /\ UNCHANGED <<records, dChanges>>
  BY <1>1, <1>2 DEF Daily!Render, Daily!Load, Daily!Fetch, Daily!server
<1>4. date \in Day \cup {0} /\ (Daily!Listed(dData, g) # {} => date \in Daily!Listed(dData, g))
  BY <1>1, SettledIsListed
<1>5. Daily!Idle(new) \in SUBSET Daily!Keys /\ Daily!Idle(new) \subseteq new /\ \A r \in dAsked : r.key \notin Daily!Idle(new)
  <2>1. Daily!Active(g, d) \subseteq Daily!Keys /\ Daily!Active(g, date) \subseteq Daily!Keys
    BY <1>4, ActiveForms
  <2> QED BY <1>2, <2>1 DEF Daily!Idle
<1>6. /\ LoadTypes' /\ FreshInv'
      /\ \A k \in Daily!Idle(new) : \E r \in dAsked' : r.key = k
  <2>1. dAsked \in SUBSET dAsked /\ \A r \in dAsked : r.key \notin Daily!Idle(new) /\ (r.key \in dStale => r.key \in dStale')
    BY <1>3, <1>5
  <2> QED BY <1>3, <1>5, <2>1, LoadsKeep
<1>7. DayTypes'
  <2>1. dMoves' \in 0..MaxMoves
    BY DEF DailyInv, DayTypes, Daily!Move, DayBounds
  <2> QED BY <1>3, <1>4, <2>1 DEF DailyInv, DayTypes
<1>8. StandInv'
  BY <1>3, <1>4 DEF StandInv, Daily!Listed
<1>9. ShownInv'
  <2> SUFFICES ASSUME NEW k \in Daily!Active(g, date)
               PROVE  \/ k \in dStale' \/ k \in dFailed' \/ \E r \in dAsked' : r.key = k
                      \/ dData'[k] = Daily!Read(k)'
    BY <1>3 DEF ShownInv, Daily!Observed
  <2>1. Daily!Read(k)' = Daily!Read(k)
    BY <1>3 DEF Daily!Read
  <2>2. CASE k \in Daily!Idle(new)
    BY <1>6, <2>2
  <2>3. CASE k \in new /\ k \notin Daily!Idle(new)
    <3>1. \E r \in dAsked : r.key = k
      BY <2>3 DEF Daily!Idle
    <3> QED BY <1>3, <3>1
  <2>4. CASE k \notin new
    <3>1. k \in Daily!Observed
      BY <1>1, <1>2, <2>4
    <3>2. \/ k \in dStale \/ k \in dFailed \/ \E r \in dAsked : r.key = k
          \/ dData[k] = Daily!Read(k)
      BY <3>1 DEF DailyInv, ShownInv
    <3>3. k \notin Daily!Idle(new)
      BY <1>5, <2>4
    <3> QED BY <1>3, <2>1, <3>2, <3>3
  <2> QED BY <2>2, <2>3, <2>4
<1> QED BY <1>6, <1>7, <1>8, <1>9 DEF DailyInv

-----------------------------------------------------------------------------
\* The page begins with the dates of its group.
LEMMA DailyBegins == DayBounds /\ Daily!Init => DailyInv
<1> SUFFICES ASSUME DayBounds, Daily!Init PROVE DailyInv
  OBVIOUS
<1>1. \A k \in Daily!Keys : dData[k] = Daily!NoData
  BY DEF Daily!Init, Daily!Empty
<1>2. MaxRecordChanges \in Nat /\ MaxRecordChanges >= 1 /\ MaxMoves \in Nat
  BY DEF DayBounds
<1>3. DayTypes
  <2>1. records \in [Group -> [Day -> 0..MaxRecordChanges]]
    BY <1>2 DEF Daily!Init, DayBounds
  <2>2. dData \in [Daily!Keys -> [Day -> -1..MaxRecordChanges]]
    BY <1>2 DEF Daily!Init, Daily!Empty, Daily!NoData
  <2> QED BY <1>2, <2>1, <2>2 DEF Daily!Init, DayTypes
<1>4. dGroup \in Group /\ dDate = 0
  BY DEF Daily!Init
<1>5. Daily!Dates(dGroup) \in Daily!Keys
  BY <1>4, ActiveForms
<1>6. \A r \in dAsked : r = [key |-> Daily!Dates(dGroup), read |-> Daily!Read(Daily!Dates(dGroup))]
  BY DEF Daily!Init
<1>7. Daily!Read(Daily!Dates(dGroup)) \in [Day -> -1..MaxRecordChanges]
  BY <1>3, <1>5, ReadTypes
<1>8. LoadTypes /\ FreshInv
  BY <1>5, <1>6, <1>7 DEF LoadTypes, FreshInv
<1>9. StandInv
  <2>1. \A d \in Day : ~ (dData[Daily!Dates(dGroup)][d] > 0)
    BY <1>1, <1>5 DEF Daily!NoData
  <2> QED BY <2>1 DEF StandInv, Daily!Listed
<1>10. ShownInv
  <2>1. Daily!Observed = {Daily!Dates(dGroup)}
    BY <1>4 DEF Daily!Observed, Daily!Active, Daily!OfDay
  <2> QED BY <2>1 DEF ShownInv, Daily!Init
<1> QED BY <1>3, <1>8, <1>9, <1>10 DEF DailyInv

\* Only what is read of the day and the list of days changes by a record of the day.
LEMMA RecordKeeps ==
    ASSUME DayBounds, DailyInv, NEW g \in Group, NEW d \in Day, NEW last \in BOOLEAN, Daily!Record(g, d, last)
    PROVE  DailyInv'
<1>1. /\ dChanges < MaxRecordChanges /\ dChanges' = dChanges + 1
      /\ records' = [records EXCEPT ![g][d] = IF last THEN 0 ELSE dChanges + 1]
      /\ dStale' = dStale \cup Daily!OfDay(g, d) \cup {Daily!Dates(g)}
      /\ UNCHANGED <<dGroup, dDate, dMoves, dData, dFailed, dAsked>>
  BY DEF Daily!Record, Daily!place, Daily!cache
<1>2. DayTypes /\ LoadTypes /\ FreshInv /\ ShownInv /\ StandInv
  BY DEF DailyInv
<1>3. MaxRecordChanges \in Nat /\ dChanges \in Nat
  BY <1>2 DEF DayBounds, DayTypes
<1>4. records' \in [Group -> [Day -> 0..MaxRecordChanges]]
  <2>1. (IF last THEN 0 ELSE dChanges + 1) \in 0..MaxRecordChanges
    BY <1>1, <1>3
  <2>2. records \in [Group -> [Day -> 0..MaxRecordChanges]]
    BY <1>2 DEF DayTypes
  <2> QED BY <1>1, <2>1, <2>2
<1>5. DayTypes'
  <2>1. dChanges' \in 1..MaxRecordChanges
    BY <1>1, <1>3
  <2>2. dStale' \subseteq Daily!Keys
    BY <1>1, <1>2, ActiveForms DEF DayTypes
  <2> QED BY <1>1, <1>2, <1>4, <2>1, <2>2 DEF DayTypes
<1>6. \A k \in Daily!Keys : k \notin dStale' => k \notin dStale /\ Daily!Read(k)' = Daily!Read(k)
  <2> SUFFICES ASSUME NEW k \in Daily!Keys, k \notin dStale' PROVE k \notin dStale /\ Daily!Read(k)' = Daily!Read(k)
    OBVIOUS
  <2>1. k \notin dStale /\ k \notin Daily!OfDay(g, d) /\ k # Daily!Dates(g)
    BY <1>1
  <2>2. records \in [Group -> [Day -> 0..MaxRecordChanges]]
    BY <1>2 DEF DayTypes
  <2>3. CASE k.group # g
    <3>1. records'[k.group] = records[k.group]
      BY <1>1, <2>2, <2>3, KeyForms
    <3> QED BY <2>1, <3>1 DEF Daily!Read
  <2>4. CASE k.group = g
    <3>1. k.day # 0 /\ k.day # d
      BY <2>1, <2>4, KeyForms
    <3>2. \A e \in Day : e # d => records'[g][e] = records[g][e]
      BY <1>1, <2>2
    <3>3. Daily!Read(k) = [e \in Day |-> IF k.day = e THEN records[g][e] ELSE 0]
      BY <2>4, <3>1 DEF Daily!Read
    <3>4. Daily!Read(k)' = [e \in Day |-> IF k.day = e THEN records'[g][e] ELSE 0]
      BY <2>4, <3>1 DEF Daily!Read
    <3>5. \A e \in Day : (IF k.day = e THEN records'[g][e] ELSE 0) = (IF k.day = e THEN records[g][e] ELSE 0)
      BY <3>1, <3>2
    <3> QED BY <2>1, <3>3, <3>4, <3>5
  <2> QED BY <2>3, <2>4
<1>7. LoadTypes' /\ StandInv'
  BY <1>1, <1>2 DEF LoadTypes, StandInv, Daily!Listed
<1>8. FreshInv'
  <2>1. \A r \in dAsked : r.key \in Daily!Keys
    BY <1>2 DEF LoadTypes
  <2> QED BY <1>1, <1>2, <1>6, <2>1 DEF FreshInv
<1>9. ShownInv'
  <2>1. Daily!Observed' = Daily!Observed
    BY <1>1 DEF Daily!Observed
  <2>2. Daily!Observed \subseteq Daily!Keys
    BY <1>2, ActiveForms DEF Daily!Observed, DayTypes
  <2> QED BY <1>1, <1>2, <1>6, <2>1, <2>2 DEF ShownInv
<1> QED BY <1>5, <1>7, <1>8, <1>9 DEF DailyInv

\* All is dropped: the page has nothing and awaits all that it observes.
LEMMA SwitchGroupKeeps ==
    ASSUME DayBounds, DailyInv, NEW g \in Group, Daily!SwitchGroup(g)
    PROVE  DailyInv'
<1>1. /\ dGroup' = g /\ dDate' = dDate
      /\ UNCHANGED <<records, dChanges>>
      /\ dData' = Daily!Empty /\ dFailed' = {} /\ dStale' = {}
      /\ dAsked' = {} \cup {[key |-> k, read |-> Daily!Read(k)] : k \in Daily!Active(g, dDate)}
  BY DEF Daily!SwitchGroup, Daily!server
<1>2. dDate \in Day \cup {0} /\ dMoves \in 0..MaxMoves
  BY DEF DailyInv, DayTypes
<1>3. Daily!Active(g, dDate) \in SUBSET Daily!Keys /\ Daily!Dates(g) \in Daily!Keys
  BY <1>2, ActiveForms
<1>4. LoadTypes' /\ FreshInv' /\ \A k \in Daily!Active(g, dDate) : \E r \in dAsked' : r.key = k
  <2>1. {} \in SUBSET dAsked /\ \A r \in {} : r.key \notin Daily!Active(g, dDate) /\ (r.key \in dStale => r.key \in dStale')
    OBVIOUS
  <2>2. records' = records
    BY <1>1
  <2> QED BY <1>1, <1>3, <2>1, <2>2, LoadsKeep
<1>5. MaxRecordChanges \in Nat /\ MaxMoves \in Nat
  BY DEF DayBounds
<1>6. DayTypes'
  <2>1. dMoves' \in 0..MaxMoves
    BY <1>2, <1>5 DEF Daily!SwitchGroup, Daily!Move
  <2>2. dData' \in [Daily!Keys -> [Day -> -1..MaxRecordChanges]]
    BY <1>1, <1>5 DEF Daily!Empty, Daily!NoData
  <2> QED BY <1>1, <1>2, <2>1, <2>2 DEF DailyInv, DayTypes
<1>7. StandInv'
  <2>1. \A d \in Day : dData'[Daily!Dates(g)][d] = -1
    BY <1>1, <1>3 DEF Daily!Empty, Daily!NoData
  <2> QED BY <1>1, <2>1 DEF StandInv, Daily!Listed
<1>8. ShownInv'
  <2>1. Daily!Observed' = Daily!Active(g, dDate)
    BY <1>1 DEF Daily!Observed
  <2> QED BY <1>4, <2>1 DEF ShownInv
<1> QED BY <1>4, <1>6, <1>7, <1>8 DEF DailyInv

\* The cache takes an answer under its key.
LEMMA AnswerKeeps ==
    ASSUME DayBounds, DailyInv, NEW r \in dAsked, Daily!Answer(r)
    PROVE  DailyInv'
<1>1. DayTypes /\ LoadTypes /\ FreshInv /\ ShownInv /\ StandInv
  BY DEF DailyInv
<1>2. PICK date : date = IF r.key = Daily!Dates(dGroup)
                         THEN Daily!Settled(dData', dGroup, dDate) ELSE dDate
  OBVIOUS
<1>3. PICK new : new = Daily!Active(dGroup, date) \ Daily!Observed
  OBVIOUS
<1>4. /\ dData' = [dData EXCEPT ![r.key] = r.read] /\ dDate' = date
      /\ dAsked' = (dAsked \ {r}) \cup {[key |-> k, read |-> Daily!Read(k)] : k \in Daily!Idle(new)}
      /\ dFailed' = dFailed \ ({r.key} \cup {k \in Daily!Idle(new) : dData[k] = Daily!NoData})
      /\ dStale' = dStale \ Daily!Idle(new)
      /\ UNCHANGED <<records, dChanges, dGroup, dMoves>>
  BY <1>2, <1>3 DEF Daily!Answer, Daily!Fetch, Daily!server
<1>5. dGroup \in Group /\ dDate \in Day \cup {0} /\ r.key \in Daily!Keys /\ r.read \in [Day -> -1..MaxRecordChanges]
  BY <1>1 DEF DayTypes, LoadTypes
<1>6. date \in Day \cup {0}
  BY <1>2, <1>5, SettledIsListed
<1>7. /\ dData' \in [Daily!Keys -> [Day -> -1..MaxRecordChanges]] /\ dData'[r.key] = r.read
      /\ \A k \in Daily!Keys : k # r.key => dData'[k] = dData[k]
  BY <1>1, <1>4, <1>5 DEF DayTypes
<1>8. StandInv'
  <2>1. CASE r.key = Daily!Dates(dGroup)
    <3>1. PICK now : now = dData'
      OBVIOUS
    <3>2. date = Daily!Settled(now, dGroup, dDate)
      BY <1>2, <2>1, <3>1
    <3>3. Daily!Listed(now, dGroup) # {} => date \in Daily!Listed(now, dGroup)
      BY <1>5, <3>2, SettledIsListed
    <3>4. Daily!Listed(dData, dGroup)' = Daily!Listed(now, dGroup)
      BY <1>4, <3>1 DEF Daily!Listed, Daily!Dates
    <3> QED BY <1>4, <3>3, <3>4 DEF StandInv
  <2>2. CASE r.key # Daily!Dates(dGroup)
    <3>1. Daily!Dates(dGroup) \in Daily!Keys
      BY <1>5, ActiveForms
    <3>2. dData'[Daily!Dates(dGroup)] = dData[Daily!Dates(dGroup)]
      BY <1>7, <2>2, <3>1
    <3>3. Daily!Listed(dData, dGroup)' = Daily!Listed(dData, dGroup)
      BY <1>4, <3>2 DEF Daily!Listed, Daily!Dates
    <3>4. dDate' = dDate
      BY <1>2, <1>4, <2>2
    <3> QED BY <1>1, <3>3, <3>4 DEF StandInv
  <2> QED BY <2>1, <2>2
<1>9. Daily!Idle(new) \in SUBSET Daily!Keys /\ \A q \in dAsked : q.key \notin Daily!Idle(new)
  <2>1. Daily!Active(dGroup, date) \subseteq Daily!Keys
    BY <1>5, <1>6, ActiveForms
  <2> QED BY <1>3, <2>1 DEF Daily!Idle
<1>10. LoadTypes' /\ FreshInv' /\ \A k \in Daily!Idle(new) : \E q \in dAsked' : q.key = k
  <2>1. dAsked \ {r} \in SUBSET dAsked
        /\ \A q \in dAsked \ {r} : q.key \notin Daily!Idle(new) /\ (q.key \in dStale => q.key \in dStale')
    BY <1>4, <1>9
  <2>2. records' = records
    BY <1>4
  <2> QED BY <1>4, <1>9, <2>1, <2>2, LoadsKeep
<1>11. DayTypes'
  BY <1>1, <1>4, <1>6, <1>7 DEF DayTypes
<1>12. ShownInv'
  <2>1. Daily!Observed' = Daily!Active(dGroup, date)
    BY <1>4 DEF Daily!Observed
  <2> SUFFICES ASSUME NEW k \in Daily!Active(dGroup, date)
               PROVE  \/ k \in dStale' \/ k \in dFailed' \/ \E q \in dAsked' : q.key = k
                      \/ dData'[k] = Daily!Read(k)'
    BY <2>1 DEF ShownInv
  <2>2. Daily!Read(k)' = Daily!Read(k) /\ k \in Daily!Keys
    BY <1>4, <1>5, <1>6, ActiveForms DEF Daily!Read
  <2>3. CASE k \in Daily!Idle(new)
    BY <1>10, <2>3
  <2>4. CASE k = r.key /\ k \notin Daily!Idle(new)
    <3>1. k \notin dStale' => dData'[k] = Daily!Read(k)
      BY <1>1, <1>4, <1>7, <2>4 DEF FreshInv
    <3> QED BY <2>2, <3>1
  <2>5. CASE k # r.key /\ k \in new /\ k \notin Daily!Idle(new)
    <3>1. \E q \in dAsked : q.key = k
      BY <2>5 DEF Daily!Idle
    <3> QED BY <1>4, <2>5, <3>1
  <2>6. CASE k # r.key /\ k \notin new
    <3>1. k \in Daily!Observed
      BY <1>3, <2>6
    <3>2. k \in dStale \/ k \in dFailed \/ (\E q \in dAsked : q.key = k) \/ dData[k] = Daily!Read(k)
      BY <1>1, <3>1 DEF ShownInv
    <3>3. k \notin Daily!Idle(new)
      BY <2>6 DEF Daily!Idle
    <3> QED BY <1>4, <1>7, <2>2, <2>6, <3>2, <3>3
  <2> QED BY <2>3, <2>4, <2>5, <2>6
<1> QED BY <1>8, <1>10, <1>11, <1>12 DEF DailyInv

\* A key is not to be had.
LEMMA FailKeeps ==
    ASSUME DayBounds, DailyInv, NEW r \in dAsked, Daily!Fail(r)
    PROVE  DailyInv'
<1>1. /\ dAsked' = dAsked \ {r} /\ dFailed' = dFailed \cup {r.key}
      /\ UNCHANGED <<records, dChanges, dGroup, dDate, dData, dStale>>
  BY DEF Daily!Fail, Daily!server
<1>2. DayTypes /\ LoadTypes /\ FreshInv /\ ShownInv /\ StandInv
  BY DEF DailyInv
<1>3. \A k : Daily!Read(k)' = Daily!Read(k)
  BY <1>1 DEF Daily!Read
<1>4. DayTypes'
  <2>1. dMoves' \in 0..MaxMoves
    BY <1>2 DEF DayTypes, Daily!Fail, Daily!Move, DayBounds
  <2> QED BY <1>1, <1>2, <2>1 DEF DayTypes, LoadTypes
<1>5. LoadTypes' /\ FreshInv' /\ StandInv'
  BY <1>1, <1>2, <1>3 DEF LoadTypes, FreshInv, StandInv, Daily!Listed
<1>6. ShownInv'
  <2>1. Daily!Observed' = Daily!Observed
    BY <1>1 DEF Daily!Observed
  <2> QED BY <1>1, <1>2, <1>3, <2>1 DEF ShownInv
<1> QED BY <1>4, <1>5, <1>6 DEF DailyInv

\* Keys of the page are loaded again, next to the loads of others.
LEMMA ReloadKeeps ==
    ASSUME DayBounds, DailyInv, NEW ks \in SUBSET Daily!Observed, NEW rest \in SUBSET dAsked,
           Daily!Load(dData, ks, rest), dStale' = dStale \ ks,
           \A r \in dAsked : r.key \notin ks => r \in rest,
           \A r \in rest : r.key \notin ks,
           UNCHANGED <<Daily!server, Daily!place, dData>>
    PROVE  DailyInv'
<1>1. /\ dAsked' = rest \cup {[key |-> k, read |-> Daily!Read(k)] : k \in ks}
      /\ dFailed' = dFailed \ {k \in ks : dData[k] = Daily!NoData}
      /\ UNCHANGED <<records, dChanges, dGroup, dDate, dMoves, dData>>
  BY DEF Daily!Load, Daily!server, Daily!place
<1>2. DayTypes /\ LoadTypes /\ FreshInv /\ ShownInv /\ StandInv
  BY DEF DailyInv
<1>3. ks \in SUBSET Daily!Keys
  BY <1>2, ActiveForms DEF Daily!Observed, DayTypes
<1>4. LoadTypes' /\ FreshInv' /\ \A k \in ks : \E r \in dAsked' : r.key = k
  BY <1>1, <1>3, LoadsKeep
<1>5. DayTypes' /\ StandInv'
  BY <1>1, <1>2 DEF DayTypes, StandInv, Daily!Listed
<1>6. ShownInv'
  <2>1. Daily!Observed' = Daily!Observed /\ \A k : Daily!Read(k)' = Daily!Read(k)
    BY <1>1 DEF Daily!Observed, Daily!Read
  <2>2. \A k : k \notin ks /\ (\E r \in dAsked : r.key = k) => \E r \in dAsked' : r.key = k
    BY <1>1
  <2> QED BY <1>1, <1>2, <1>4, <2>1, <2>2 DEF ShownInv
<1> QED BY <1>4, <1>5, <1>6 DEF DailyInv

\* Every step keeps the invariant.
LEMMA DailyNextKeeps == DayBounds /\ DailyInv /\ [Daily!Next]_Daily!vars => DailyInv'
<1> SUFFICES ASSUME DayBounds, DailyInv, [Daily!Next]_Daily!vars PROVE DailyInv'
  OBVIOUS
<1>1. dGroup \in Group /\ dDate \in Day \cup {0}
  BY DEF DailyInv, DayTypes
<1>2. ASSUME NEW g \in Group, NEW d \in Day, NEW last \in BOOLEAN, Daily!Record(g, d, last) PROVE DailyInv'
  BY <1>2, RecordKeeps
<1>3. ASSUME NEW g \in Group, Daily!Open(g) PROVE DailyInv'
  <2>1. 0 \in Day \cup {0} /\ {} \in {{}, Daily!Observed}
    OBVIOUS
  <2> QED BY <1>3, <2>1, RenderKeeps DEF Daily!Open
<1>4. ASSUME NEW g \in Group, Daily!SelectGroup(g) PROVE DailyInv'
  <2>1. Daily!Observed \in {{}, Daily!Observed}
    OBVIOUS
  <2> QED BY <1>1, <1>4, <2>1, RenderKeeps DEF Daily!SelectGroup
<1>5. ASSUME NEW g \in Group, Daily!SwitchGroup(g) PROVE DailyInv'
  BY <1>5, SwitchGroupKeeps
<1>6. ASSUME NEW d \in Day, Daily!Navigate(d) PROVE DailyInv'
  <2>1. Daily!Observed \in {{}, Daily!Observed} /\ d \in Day \cup {0}
    OBVIOUS
  <2> QED BY <1>1, <1>6, <2>1, RenderKeeps DEF Daily!Navigate
<1>7. ASSUME NEW r \in dAsked, Daily!Answer(r) PROVE DailyInv'
  BY <1>7, AnswerKeeps
<1>8. ASSUME NEW r \in dAsked, Daily!Fail(r) PROVE DailyInv'
  BY <1>8, FailKeeps
<1>9. ASSUME NEW k \in Daily!Keys, Daily!Retry(k) PROVE DailyInv'
  <2>1. /\ {k} \in SUBSET Daily!Observed /\ {r \in dAsked : r.key # k} \in SUBSET dAsked
        /\ \A r \in dAsked : r.key \notin {k} => r \in {q \in dAsked : q.key # k}
        /\ \A r \in {q \in dAsked : q.key # k} : r.key \notin {k}
    BY <1>9 DEF Daily!Retry
  <2>2. /\ Daily!Load(dData, {k}, {r \in dAsked : r.key # k}) /\ dStale' = dStale \ {k}
        /\ UNCHANGED <<Daily!server, Daily!place, dData>>
    BY <1>9 DEF Daily!Retry
  <2> QED BY <2>1, <2>2, ReloadKeeps
<1>10. CASE Daily!Focus
  <2>1. /\ Daily!Idle(Daily!Observed) \in SUBSET Daily!Observed /\ dAsked \in SUBSET dAsked
        /\ \A r \in dAsked : r.key \notin Daily!Idle(Daily!Observed) => r \in dAsked
        /\ \A r \in dAsked : r.key \notin Daily!Idle(Daily!Observed)
    BY DEF Daily!Idle
  <2>2. /\ Daily!Load(dData, Daily!Idle(Daily!Observed), dAsked) /\ dStale' = dStale \ Daily!Idle(Daily!Observed)
        /\ UNCHANGED <<Daily!server, Daily!place, dData>>
    BY <1>10 DEF Daily!Focus
  <2> QED BY <2>1, <2>2, ReloadKeeps
<1>11. CASE UNCHANGED Daily!vars
  <2>1. UNCHANGED <<records, dChanges, dGroup, dDate, dMoves, dData, dFailed, dAsked, dStale>>
    BY <1>11 DEF Daily!vars, Daily!server, Daily!place, Daily!cache
  <2>2. Daily!Observed' = Daily!Observed /\ \A k : Daily!Read(k)' = Daily!Read(k)
    BY <2>1 DEF Daily!Observed, Daily!Read
  <2> QED BY <2>1, <2>2 DEF DailyInv, DayTypes, LoadTypes, FreshInv, ShownInv, StandInv,
      Daily!Listed
<1>12. CASE Daily!Next
  BY <1>2, <1>3, <1>4, <1>5, <1>6, <1>7, <1>8, <1>9, <1>10, <1>12 DEF Daily!Next
<1> QED BY <1>11, <1>12

\* What is to be shown follows from the invariant.
LEMMA DailyShows == DayBounds /\ DailyInv => Daily!TypeOK /\ Daily!DayIsShown
<1> SUFFICES ASSUME DayBounds, DailyInv PROVE Daily!TypeOK /\ Daily!DayIsShown
  OBVIOUS
<1>1. DayTypes /\ LoadTypes /\ FreshInv /\ ShownInv /\ StandInv
  BY DEF DailyInv
<1>2. Daily!TypeOK
  <2>1. \A k \in Daily!Keys : dData[k] \in [Day -> -1..MaxRecordChanges]
    BY <1>1 DEF DayTypes
  <2> QED BY <1>1, <2>1 DEF Daily!TypeOK, DayTypes, LoadTypes
<1>3. ASSUME \A r \in dAsked : r.key \notin Daily!Observed, Daily!Observed \cap (dFailed \cup dStale) = {}
      PROVE  /\ Daily!Listed(dData, dGroup) = {d \in Day : records[dGroup][d] > 0}
             /\ \A k \in Daily!OfDay(dGroup, dDate) :
                   dData[k][dDate] = records[dGroup][dDate]
  <2>1. \A k \in Daily!Observed : dData[k] = Daily!Read(k)
    BY <1>1, <1>3 DEF ShownInv
  <2>2. dGroup \in Group /\ dDate \in Day \cup {0} /\ records[dGroup] \in [Day -> 0..MaxRecordChanges]
    BY <1>1 DEF DayTypes
  <2>3. \A d \in Day : d # 0
    BY DEF DayBounds, Day
  <2>4. MaxRecordChanges \in Nat
    BY DEF DayBounds, Day
  <2>5. Daily!Listed(dData, dGroup) = {d \in Day : records[dGroup][d] > 0}
    <3>1. dData[Daily!Dates(dGroup)] = Daily!Read(Daily!Dates(dGroup))
      BY <2>1, <2>2, ActiveForms DEF Daily!Observed
    <3>2. Daily!Dates(dGroup).group = dGroup /\ Daily!Dates(dGroup).day = 0
      BY DEF Daily!Dates
    <3>3. Daily!Read(Daily!Dates(dGroup)) = [d \in Day |-> Daily!Min({1, records[dGroup][d]})]
      BY <2>3, <3>2 DEF Daily!Read
    <3>4. ASSUME NEW d \in Day PROVE dData[Daily!Dates(dGroup)][d] > 0 <=> records[dGroup][d] > 0
      <4>1. records[dGroup][d] \in Nat
        BY <2>2, <2>4
      <4>2. dData[Daily!Dates(dGroup)][d] = Daily!Min({1, records[dGroup][d]})
        BY <3>1, <3>3
      <4> QED BY <4>1, <4>2, OneOrNone
    <3> QED BY <3>4 DEF Daily!Listed
  <2>6. \A k \in Daily!OfDay(dGroup, dDate) :
           dData[k][dDate] = records[dGroup][dDate]
    <3> SUFFICES ASSUME NEW k \in Daily!OfDay(dGroup, dDate)
                 PROVE  dData[k][dDate] = records[dGroup][dDate]
      OBVIOUS
    <3>1. k.group = dGroup /\ k.day = dDate /\ dDate # 0 /\ k \in Daily!Observed
      BY <2>2, ActiveForms DEF Daily!Observed
    <3>2. dData[k] = Daily!Read(k) /\ dDate \in Day
      BY <2>1, <2>2, <3>1
    <3>3. Daily!Read(k)[dDate] = records[dGroup][dDate]
      BY <3>1, <3>2 DEF Daily!Read
    <3> QED BY <3>2, <3>3
  <2> QED BY <2>5, <2>6
<1> QED BY <1>1, <1>2, <1>3 DEF Daily!DayIsShown, StandInv

\* What the page of a day shows is of the group and the day it stands on, and what the
\* server had once nothing changes (the daily page and its queries).
THEOREM DaysAreShown ==
    DayBounds => (Daily!Spec => [](Daily!TypeOK /\ Daily!DayIsShown))
<1> SUFFICES ASSUME DayBounds PROVE Daily!Spec => [](Daily!TypeOK /\ Daily!DayIsShown)
  OBVIOUS
<1>1. Daily!Init => DailyInv
  BY DailyBegins
<1>2. DailyInv /\ [Daily!Next]_Daily!vars => DailyInv'
  BY DailyNextKeeps
<1>3. DailyInv => Daily!TypeOK /\ Daily!DayIsShown
  BY DailyShows
<1> QED BY <1>1, <1>2, <1>3, PTL DEF Daily!Spec

-----------------------------------------------------------------------------
(* The first page                                                          *)

\* Finite sets of an instance are those of the library.
LEMMA HomeFiniteSets ==
    \A S : /\ Home!IsFiniteSet(S) <=> IsFiniteSet(S)
           /\ Home!Cardinality(S) = Cardinality(S)
  BY DEF Home!IsFiniteSet, IsFiniteSet, Home!Cardinality, Cardinality

\* A fact of the library about finite sets, for those of the instance.
LEMMA HomeCardinalityType ==
    ASSUME NEW S, Home!IsFiniteSet(S)
    PROVE  Home!Cardinality(S) \in Nat
  BY FS_CardinalityType, HomeFiniteSets

\* A fact of the library about finite sets, for those of the instance.
LEMMA HomeSubset ==
    ASSUME NEW S, Home!IsFiniteSet(S), NEW T \in SUBSET S
    PROVE  /\ Home!IsFiniteSet(T)
           /\ Home!Cardinality(T) <= Home!Cardinality(S)
           /\ Home!Cardinality(S) = Home!Cardinality(T) => S = T
  BY FS_Subset, HomeFiniteSets

\* A fact of the library about finite sets, for those of the instance.
LEMMA HomeInterval ==
    ASSUME NEW a \in Int, NEW b \in Int
    PROVE  /\ Home!IsFiniteSet(a..b)
           /\ Home!Cardinality(a..b) = IF a > b THEN 0 ELSE b - a + 1
  BY FS_Interval, HomeFiniteSets

\* A fact of the library about finite sets, for those of the instance.
LEMMA HomeEmptySet ==
    /\ Home!IsFiniteSet({}) /\ Home!Cardinality({}) = 0
    /\ \A S : Home!IsFiniteSet(S) => (Home!Cardinality(S) = 0 <=> S = {})
  BY FS_EmptySet, HomeFiniteSets

\* A fact of the library about finite sets, for those of the instance.
LEMMA HomeAddElement ==
    ASSUME NEW S, NEW x, Home!IsFiniteSet(S)
    PROVE  /\ Home!IsFiniteSet(S \cup {x})
           /\ Home!Cardinality(S \cup {x}) = IF x \in S THEN Home!Cardinality(S) ELSE Home!Cardinality(S) + 1
  BY FS_AddElement, HomeFiniteSets

Status == {"IN_PROGRESS", "FINISHED", "DELETED"}


HomeAsked == [kind : {"first", "more", "inProgress"}, group : Group, page : 1..(MaxMore + 1), at : 0..MaxSelects,
          pc : {"sent", "ok"}, games : Seq(Home!Game), more : BOOLEAN, running : SUBSET Home!Game]

GamesTypes == hGames \in [Group -> Seq(Status)] /\ \A g \in Group : Len(hGames[g]) <= MaxHomeGames
CountTypes ==
    /\ hLoaded \in 0..(MaxMore + 1) /\ hSelects \in 0..MaxSelects /\ hMores \in 0..MaxMore
    /\ hLoaded <= hMores + 1
HomeAskedTypes == \A r \in hAsked : r \in HomeAsked /\ r.at <= hSelects /\ r.page <= hMores + 1
ViewTypes ==
    /\ hGroup \in Group \cup {"none"}
    /\ hList \in Seq(Home!Game) /\ hInProgress \subseteq Home!Game
    /\ hMore \in BOOLEAN /\ hBusy \in BOOLEAN /\ hLoading \in BOOLEAN /\ hError \in BOOLEAN
    /\ hLate \in BOOLEAN /\ hShifted \in BOOLEAN
HomeTypes == GamesTypes /\ CountTypes /\ HomeAskedTypes /\ ViewTypes

\* An answer holds games of the group it was asked for; and those that the server has, if
\* it was asked for since the selection and no game changed since then.
AnswersInv ==
    /\ \A r \in hAsked : r.at = hSelects => r.group = hGroup
    /\ \A r \in hAsked : \A k \in 1..Len(r.games) : r.games[k].group = r.group
    /\ ~hShifted => \A r \in hAsked : r.at = hSelects /\ r.pc = "ok" =>
          IF r.kind = "inProgress" THEN r.running = Home!Running(r.group)
          ELSE r.games = Home!GamesOfPage(r.group, r.page) /\ r.more = Home!More(r.group, r.page)

Awaited(r) == r.at = hSelects /\ r.kind # "inProgress"

\* As long as no late answer was taken, the page awaits one answer at a time, the first page
\* while it is loading and then the page after those it has.
OneAtATime ==
    ~hLate =>
      /\ \A r \in hAsked, q \in hAsked : Awaited(r) /\ Awaited(q) => r = q
      /\ hBusy <=> \E r \in hAsked : Awaited(r)
      /\ hLoading <=> \E r \in hAsked : r.at = hSelects /\ r.kind = "first"
      /\ \A r \in hAsked : /\ r.at = hSelects /\ r.kind = "first" => r.page = 1
                           /\ r.at = hSelects /\ r.kind = "more" => r.page = hLoaded + 1

ListInv ==
    ~hLate =>
      /\ \A k \in 1..Len(hList) : hList[k].group = hGroup
      /\ Home!Rendered /\ ~hShifted => hList = Home!Upto(hGroup, hLoaded) /\ hMore = Home!More(hGroup, hLoaded)

\* The banner of one's own group: its games, or an answer is awaited.
BannerInv ==
    ~hLate /\ ~hShifted /\ hGroup # "none" /\ Home!canManage =>
                    \/ hInProgress = Home!Running(hGroup)
                    \/ \E r \in hAsked : r.at = hSelects /\ r.kind = "inProgress"

HomeInv == HomeTypes /\ AnswersInv /\ OneAtATime /\ ListInv /\ BannerInv

-----------------------------------------------------------------------------
(* The games of a group, the newest first.                                 *)

\* The lesser of two.
LEMMA MinOfTwo ==
    ASSUME NEW a \in Int, NEW b \in Int
    PROVE  Home!Min({a, b}) = IF a <= b THEN a ELSE b
  BY DEF Home!Min

\* Some numbers up to n have a greatest.
LEMMA GreatestOf ==
    ASSUME NEW n \in Nat, NEW S \in SUBSET (1..n), S # {}
    PROVE  \E m \in S : \A e \in S : m >= e
<1> DEFINE T == {n - d : d \in S}
<1>0. \A d \in S : d \in Nat /\ d <= n
  OBVIOUS
<1>1. T \subseteq Nat /\ T # {}
  <2>1. \A d \in S : n - d \in Nat
    BY <1>0
  <2> QED BY <2>1
<1>2. PICK x \in T : \A y \in T : ~ (<<y, x>> \in OpToRel(<, Nat))
  <2> HIDE DEF T
  <2> QED BY <1>1, NatLessThanWellFounded, WFMin
<1>3. \A y \in T : ~ (y < x)
  BY <1>1, <1>2 DEF OpToRel
<1>4. PICK d \in S : x = n - d
  BY <1>2
<1>5. \A e \in S : d >= e
  <2>1. \A e \in S : ~ (n - e < n - d)
    BY <1>3, <1>4
  <2> QED BY <1>0, <2>1
<1> QED BY <1>5

\* A finite set of numbers has a k-th largest one, for each k up to its size.
LEMMA KthLargest ==
    ASSUME NEW n \in Nat, NEW S \in SUBSET (1..n)
    PROVE  /\ Home!IsFiniteSet(S) /\ Home!Cardinality(S) \in Nat
           /\ \A k \in 1..Home!Cardinality(S) : \E m \in S : Home!Cardinality({e \in S : e >= m}) = k
<1> DEFINE Above(m) == {e \in S : e >= m}
           Missing == {k \in 1..Home!Cardinality(S) : \A m \in S : Home!Cardinality(Above(m)) # k}
<1>1. Home!IsFiniteSet(S) /\ Home!Cardinality(S) \in Nat
  <2>1. Home!IsFiniteSet(1..n)
    BY HomeInterval
  <2>2. Home!IsFiniteSet(S)
    BY <2>1, HomeSubset
  <2> QED BY <2>2, HomeCardinalityType
<1>2. \A e \in S : e \in Nat
  OBVIOUS
<1>3. ASSUME Missing # {} PROVE FALSE
  <2>1. Missing \subseteq Nat
    BY <1>1
  <2>2. PICK k \in Missing : \A y \in Missing : ~ (<<y, k>> \in OpToRel(<, Nat))
    <3> HIDE DEF Missing
    <3> QED BY <1>3, <2>1, NatLessThanWellFounded, WFMin
  <2>3. \A y \in Missing : ~ (y < k)
    BY <2>1, <2>2 DEF OpToRel
  <2>4. k \in 1..Home!Cardinality(S) /\ k \in Nat /\ k >= 1 /\ \A m \in S : Home!Cardinality(Above(m)) # k
    <3>1. k \in 1..Home!Cardinality(S)
      BY <2>2
    <3>2. \A m \in S : Home!Cardinality(Above(m)) # k
      BY <2>2
    <3>3. k \in Nat /\ k >= 1
      BY <1>1, <3>1
    <3> QED BY <3>1, <3>2, <3>3
  \* All that are above the number before the k-th.
  <2>5. PICK T \in SUBSET S : /\ Home!IsFiniteSet(T) /\ Home!Cardinality(T) = k - 1
                              /\ \A e \in S, m \in T : e >= m => e \in T
    <3>1. CASE k = 1
      <4>1. Home!IsFiniteSet({}) /\ Home!Cardinality({}) = k - 1
        BY <3>1, HomeEmptySet
      <4> QED BY <4>1
    <3>2. CASE k # 1
      <4>1. k - 1 \in 1..Home!Cardinality(S) /\ k - 1 < k
        BY <1>1, <2>4, <3>2
      <4>2. k - 1 \notin Missing
        BY <2>3, <4>1
      <4>3. PICK m \in S : Home!Cardinality(Above(m)) = k - 1
        BY <4>1, <4>2
      <4>4. Above(m) \in SUBSET S /\ Home!IsFiniteSet(Above(m))
        BY <1>1, HomeSubset
      <4>5. \A e \in S, x \in Above(m) : e >= x => e \in Above(m)
        BY <1>2
      <4> QED BY <4>3, <4>4, <4>5
    <3> QED BY <3>1, <3>2
  <2>6. S \ T # {}
    <3>1. Home!Cardinality(T) # Home!Cardinality(S)
      BY <1>1, <2>4, <2>5
    <3>2. T # S
      BY <3>1
    <3> QED BY <2>5, <3>2
  <2>7. PICK m \in S \ T : \A e \in S \ T : m >= e
    <3>1. S \ T \in SUBSET (1..n)
      OBVIOUS
    <3> QED BY <2>6, <3>1, GreatestOf
  <2>8. Above(m) = T \cup {m}
    <3>1. \A e \in T : e >= m
      BY <1>2, <2>5, <2>7
    <3>2. \A e \in S : e >= m => e \in T \/ e = m
      BY <1>2, <2>7
    <3>3. m >= m
      BY <1>2, <2>7
    <3> QED BY <2>5, <2>7, <3>1, <3>2, <3>3
  <2>9. Home!Cardinality(Above(m)) = k
    <3>1. Home!Cardinality(T \cup {m}) = Home!Cardinality(T) + 1
      BY <2>5, <2>7, HomeAddElement
    <3> QED BY <2>4, <2>5, <2>8, <3>1
  <2> QED BY <2>4, <2>7, <2>9
<1> QED BY <1>1, <1>3

\* The games of a group, as a list: the newest first.
LEMMA NewestIsSeq ==
    ASSUME HomeBounds, GamesTypes, NEW g \in Group
    PROVE  /\ Home!Newest(g) \in Seq(Home!Game) /\ Len(Home!Newest(g)) = Home!Cardinality(Home!There(g)) /\ Home!Cardinality(Home!There(g)) \in Nat
           /\ \A k \in 1..Home!Cardinality(Home!There(g)) : Home!Newest(g)[k].group = g
           /\ Home!Running(g) \subseteq Home!Game
<1>1. hGames[g] \in Seq(Status) /\ Len(hGames[g]) <= MaxHomeGames /\ MaxHomeGames \in Nat /\ Len(hGames[g]) \in Nat
  BY LenProperties DEF GamesTypes, HomeBounds
<1>2. Home!There(g) \in SUBSET (1..MaxHomeGames)
  BY <1>1, LenProperties DEF Home!There
<1>3. PICK T \in SUBSET (1..MaxHomeGames) : T = Home!There(g)
  BY <1>2
<1>4. /\ Home!Cardinality(T) \in Nat
      /\ \A k \in 1..Home!Cardinality(T) : \E m \in T : Home!Cardinality({e \in T : e >= m}) = k
  BY <1>1, KthLargest
<1>5. \A k \in 1..Home!Cardinality(T) :
        [group |-> g, id |-> CHOOSE n \in T : Home!Cardinality({m \in T : m >= n}) = k] \in Home!Game
  BY <1>4 DEF Home!Game
<1>6. Home!Newest(g) = [k \in 1..Home!Cardinality(T) |->
                     [group |-> g, id |-> CHOOSE n \in T : Home!Cardinality({m \in T : m >= n}) = k]]
  BY <1>3 DEF Home!Newest
<1>7. Home!Running(g) \subseteq Home!Game
  BY <1>2 DEF Home!Running, Home!Game
<1>8. Home!Newest(g) \in Seq(Home!Game) /\ Len(Home!Newest(g)) = Home!Cardinality(T)
  <2>1. Home!Newest(g) \in [1..Home!Cardinality(T) -> Home!Game]
    BY <1>5, <1>6
  <2> QED BY <1>4, <2>1
<1>9. \A k \in 1..Home!Cardinality(T) : Home!Newest(g)[k].group = g
  BY <1>6
<1> QED BY <1>3, <1>4, <1>7, <1>8, <1>9

\* A page of the games, and the pages up to it.
LEMMA GamesOfPages ==
    ASSUME HomeBounds, GamesTypes, NEW g \in Group, NEW k \in Nat
    PROVE  /\ Home!Upto(g, k) \in Seq(Home!Game) /\ Home!GamesOfPage(g, k + 1) \in Seq(Home!Game)
           /\ Home!Upto(g, k) \o Home!GamesOfPage(g, k + 1) = Home!Upto(g, k + 1)
           /\ Home!Upto(g, 1) = Home!GamesOfPage(g, 1)
           /\ \A i \in 1..Len(Home!GamesOfPage(g, k + 1)) : Home!GamesOfPage(g, k + 1)[i].group = g
<1> DEFINE c == Home!Cardinality(Home!There(g))
           N == Home!Newest(g)
           a == k * PAGE_SIZE
           b == (k + 1) * PAGE_SIZE
           u == IF c <= a THEN c ELSE a
           v == IF c <= b THEN c ELSE b
<1>1. /\ N \in Seq(Home!Game) /\ Len(N) = c /\ c \in Nat
      /\ \A j \in 1..c : N[j].group = g
  BY NewestIsSeq
<1>2. a \in Nat /\ b \in Nat /\ b = a + PAGE_SIZE /\ PAGE_SIZE \in Nat \ {0}
  BY DEF HomeBounds
<1>3. u \in 0..c /\ v \in 0..c /\ u <= v /\ (u < v => u = a) /\ (u = v => c <= a)
  BY <1>1, <1>2
<1>4. Home!Upto(g, k) = SubSeq(N, 1, u) /\ Home!Upto(g, k + 1) = SubSeq(N, 1, v)
  <2>1. Home!Min({c, a}) = u /\ Home!Min({c, b}) = v
    BY <1>1, <1>2, MinOfTwo
  <2> QED BY <2>1 DEF Home!Upto
<1>5. Home!GamesOfPage(g, k + 1) = SubSeq(N, a + 1, v)
  <2>1. Home!Min({c, b}) = v
    BY <1>1, <1>2, MinOfTwo
  <2>2. PICK j \in Nat : j = k + 1
    OBVIOUS
  <2>3. Home!GamesOfPage(g, j) = SubSeq(N, (j - 1) * PAGE_SIZE + 1, Home!Min({c, j * PAGE_SIZE}))
    BY DEF Home!GamesOfPage
  <2>4. j - 1 = k
    BY <2>2
  <2> QED BY <2>1, <2>2, <2>3, <2>4
<1>6. Home!Upto(g, 1) = Home!GamesOfPage(g, 1)
  <2>1. (1 - 1) * PAGE_SIZE + 1 = 1
    BY <1>2
  <2> QED BY <2>1 DEF Home!Upto, Home!GamesOfPage
<1> HIDE DEF c, N, a, b, u, v
<1>7. \A i \in 1..c : N[i] \in Home!Game
  BY <1>1, ElementOfSeq
<1>8. SubSeq(N, 1, u) \in Seq(Home!Game)
  <2>1. u \in Int /\ 1 \in Int /\ \A i \in 1..u : N[i] \in Home!Game
    BY <1>1, <1>3, <1>7
  <2> QED BY <2>1, SubSeqProperties
<1>9. CASE u = v
  <2>1. v < a + 1 /\ a + 1 \in Int /\ v \in Int
    BY <1>1, <1>2, <1>3, <1>9
  <2>2. Home!GamesOfPage(g, k + 1) = <<>>
    BY <1>5, <2>1, SubSeqEmpty
  <2>3. <<>> \in Seq(Home!Game) /\ Len(<<>>) = 0
    OBVIOUS
  <2>4. Home!Upto(g, k) \o <<>> = Home!Upto(g, k)
    BY <1>4, <1>8, ConcatEmptySeq
  <2>5. Home!Upto(g, k + 1) = Home!Upto(g, k)
    BY <1>4, <1>9
  <2>6. \A i \in 1..Len(Home!GamesOfPage(g, k + 1)) : Home!GamesOfPage(g, k + 1)[i].group = g
    <3>1. Len(Home!GamesOfPage(g, k + 1)) = 0
      BY <2>2, <2>3
    <3> QED BY <3>1
  <2>7. Home!Upto(g, k) \o Home!GamesOfPage(g, k + 1) = Home!Upto(g, k + 1)
    BY <2>2, <2>4, <2>5
  <2>8. Home!Upto(g, k) \in Seq(Home!Game) /\ Home!GamesOfPage(g, k + 1) \in Seq(Home!Game)
    BY <1>4, <1>8, <2>2, <2>3
  <2> QED BY <1>6, <2>6, <2>7, <2>8
<1>10. CASE u # v
  <2>1. u = a /\ a + 1 <= v
    BY <1>1, <1>2, <1>3, <1>10
  <2>2. /\ SubSeq(N, a + 1, v) \in Seq(Home!Game) /\ Len(SubSeq(N, a + 1, v)) = v - (a + 1) + 1
        /\ \A i \in 1..(v - (a + 1) + 1) : SubSeq(N, a + 1, v)[i] = N[a + 1 + i - 1]
    <3>1. a + 1 \in Int /\ v \in Int /\ \A i \in (a + 1)..v : N[i] \in Home!Game
      BY <1>1, <1>2, <1>3, <1>7
    <3> QED BY <2>1, <3>1, SubSeqProperties
  <2>3. \A i \in 1..(v - (a + 1) + 1) : N[a + 1 + i - 1].group = g
    BY <1>1, <1>2, <1>3
  <2>4. SubSeq(N, 1, u) \o SubSeq(N, u + 1, v) = SubSeq(N, 1, v)
    <3>1. 1 \in 1..(Len(N) + 1) /\ u \in (1 - 1)..Len(N) /\ v \in u..Len(N)
      BY <1>1, <1>3
    <3> QED BY <1>1, <3>1, ConcatAdjacentSubSeq
  <2> QED BY <1>4, <1>5, <1>6, <1>8, <2>1, <2>2, <2>3, <2>4
<1> QED BY <1>9, <1>10

-----------------------------------------------------------------------------
(* The steps.                                                              *)

\* The page begins to load the first games of its group.
LEMMA HomeBegins == HomeBounds /\ Home!Init => HomeInv
<1> SUFFICES ASSUME HomeBounds, Home!Init PROVE HomeInv
  OBVIOUS
<1>1. GamesTypes /\ CountTypes /\ HomeAskedTypes
  BY DEF Home!Init, HomeBounds, Status, GamesTypes, CountTypes, HomeAskedTypes
<1>2. ViewTypes
  <2>1. <<>> \in Seq(Home!Game)
    OBVIOUS
  <2> QED BY <2>1 DEF Home!Init, ViewTypes
<1>3. AnswersInv /\ OneAtATime /\ BannerInv
  BY DEF Home!Init, AnswersInv, OneAtATime, BannerInv
<1>4. ListInv
  <2>1. Len(hList) = 0 /\ ~Home!Rendered
    BY DEF Home!Init, Home!Rendered
  <2> QED BY <2>1 DEF ListInv
<1> QED BY <1>1, <1>2, <1>3, <1>4 DEF HomeInv, HomeTypes

\* A request that is made is one.
LEMMA RequestIsAsked ==
    ASSUME HomeBounds, NEW kind \in {"first", "more", "inProgress"}, NEW k \in 1..(MaxMore + 1),
           hGroup' \in Group, hSelects' \in 0..MaxSelects
    PROVE  /\ Home!Request(kind, k) \in HomeAsked /\ Home!Request(kind, k).kind = kind /\ Home!Request(kind, k).page = k
           /\ Home!Request(kind, k).at = hSelects' /\ Home!Request(kind, k).group = hGroup'
           /\ Home!Request(kind, k).pc = "sent" /\ Home!Request(kind, k).games = <<>>
<1>1. <<>> \in Seq(Home!Game)
  OBVIOUS
<1> QED BY <1>1 DEF Home!Request, HomeAsked

\* What the server answers when its games stay as they are.
LEMMA SameGames ==
    ASSUME hGames' = hGames
    PROVE  \A g, k : /\ Home!GamesOfPage(g, k)' = Home!GamesOfPage(g, k) /\ Home!More(g, k)' = Home!More(g, k)
                     /\ Home!Upto(g, k)' = Home!Upto(g, k) /\ Home!Running(g)' = Home!Running(g)
  BY DEF Home!GamesOfPage, Home!More, Home!Upto, Home!Running, Home!Newest, Home!There

\* An answer is taken.
LEMMA ArriveKeeps ==
    ASSUME HomeBounds, HomeInv, NEW r \in hAsked, Home!Arrive(r), UNCHANGED <<Home!server, hGroup, hSelects, hMores>>
    PROVE  /\ HomeAskedTypes' /\ AnswersInv' /\ GamesTypes' /\ hLate' \in BOOLEAN
           /\ ~hLate' => ~hLate /\ r.at = hSelects
           /\ r \in HomeAsked /\ hAsked' = hAsked \ {r} /\ r.pc = "ok"
<1>1. /\ hAsked' = hAsked \ {r} /\ hLate' = (hLate \/ r.at # hSelects) /\ r.pc = "ok"
      /\ UNCHANGED <<hGames, hShifted, hGroup, hSelects, hMores>>
  BY DEF Home!Arrive, Home!server
<1>2. HomeAskedTypes /\ AnswersInv /\ GamesTypes
  BY DEF HomeInv, HomeTypes
<1>3. HomeAskedTypes' /\ GamesTypes' /\ r \in HomeAsked
  BY <1>1, <1>2 DEF HomeAskedTypes, GamesTypes
<1>4. AnswersInv'
  BY <1>1, <1>2, SameGames DEF AnswersInv
<1>5. hLate' \in BOOLEAN /\ (~hLate' => ~hLate /\ r.at = hSelects)
  BY <1>1
<1> QED BY <1>1, <1>3, <1>4, <1>5

\* Another group is selected, and its games are asked for.
LEMMA SelectGroupKeeps ==
    ASSUME HomeBounds, HomeInv, NEW g \in Group, Home!SelectGroup(g)
    PROVE  HomeInv'
<1> DEFINE f == Home!Request("first", 1)
           i == Home!Request("inProgress", 1)
<1>1. /\ hSelects < MaxSelects /\ hSelects' = hSelects + 1 /\ hGroup' = g
      /\ hList' = <<>> /\ hMore' = FALSE /\ hLoaded' = 0 /\ hBusy' = TRUE
      /\ hLoading' = TRUE /\ hError' = FALSE
      /\ hAsked' = hAsked \cup {f} \cup (IF Home!canManage' THEN {i} ELSE {})
      /\ hInProgress' = IF Home!canManage' THEN hInProgress ELSE {}
      /\ hLate' = FALSE /\ hShifted' = FALSE /\ hGames' = hGames /\ hMores' = hMores
  BY DEF Home!SelectGroup
<1>2. GamesTypes /\ CountTypes /\ HomeAskedTypes /\ ViewTypes /\ AnswersInv
  BY DEF HomeInv, HomeTypes
<1>3. hSelects \in Nat /\ hSelects' \in 0..MaxSelects /\ hMores \in Nat /\ MaxMore \in Nat /\ 1 \in 1..(MaxMore + 1)
  BY <1>1, <1>2 DEF CountTypes, HomeBounds
<1>4. f \in HomeAsked /\ f.kind = "first" /\ f.page = 1 /\ f.at = hSelects' /\ f.group = g /\ f.pc = "sent" /\ f.games = <<>>
  BY <1>1, <1>3, RequestIsAsked
<1>5. i \in HomeAsked /\ i.kind = "inProgress" /\ i.page = 1 /\ i.at = hSelects' /\ i.group = g /\ i.pc = "sent" /\ i.games = <<>>
  BY <1>1, <1>3, RequestIsAsked
<1> HIDE DEF f, i
<1>6. \A r \in hAsked' : r \in hAsked \/ r = f \/ (r = i /\ Home!canManage')
  BY <1>1
<1>7. \A r \in hAsked : r \in HomeAsked /\ r.at \in Nat /\ r.at <= hSelects /\ r.page <= hMores + 1
  BY <1>2 DEF HomeAskedTypes, HomeAsked
<1>8. \A r \in hAsked : r.at # hSelects' /\ r.at <= hSelects'
  BY <1>1, <1>3, <1>7
<1>9. GamesTypes' /\ CountTypes' /\ ViewTypes'
  <2>1. <<>> \in Seq(Home!Game)
    OBVIOUS
  <2>2. GamesTypes' /\ CountTypes'
    BY <1>1, <1>2, <1>3 DEF GamesTypes, CountTypes, HomeBounds
  <2> QED BY <1>1, <1>2, <2>1, <2>2 DEF ViewTypes
<1>10. HomeAskedTypes'
  <2> SUFFICES ASSUME NEW r \in hAsked' PROVE r \in HomeAsked /\ r.at <= hSelects' /\ r.page <= hMores' + 1
    BY DEF HomeAskedTypes
  <2>1. CASE r \in hAsked
    BY <1>1, <1>7, <1>8, <2>1
  <2>2. CASE r = f \/ r = i
    BY <1>1, <1>3, <1>4, <1>5, <2>2
  <2> QED BY <1>6, <2>1, <2>2
<1>11. AnswersInv'
  <2>1. \A r \in hAsked' : r.at = hSelects' => r.group = hGroup' /\ r.pc # "ok"
    BY <1>1, <1>4, <1>5, <1>6, <1>8
  <2>2. \A r \in hAsked' : \A k \in 1..Len(r.games) : r.games[k].group = r.group
    <3>1. Len(<<>>) = 0
      OBVIOUS
    <3> QED BY <1>2, <1>4, <1>5, <1>6, <3>1 DEF AnswersInv
  <2> QED BY <2>1, <2>2 DEF AnswersInv
<1>12. OneAtATime'
  <2>1. \A r \in hAsked' : r.at = hSelects' => r = f \/ r = i
    BY <1>6, <1>8
  <2>2. \A r \in hAsked' : r.at = hSelects' /\ r.kind # "inProgress" => r = f
    BY <1>5, <2>1
  <2>3. f \in hAsked'
    BY <1>1
  <2> QED BY <1>1, <1>4, <2>2, <2>3 DEF OneAtATime, Awaited
<1>13. ListInv'
  <2>1. Len(hList') = 0 /\ ~Home!Rendered'
    BY <1>1 DEF Home!Rendered
  <2> QED BY <2>1 DEF ListInv
<1>14. BannerInv'
  BY <1>1, <1>5 DEF BannerInv
<1> QED BY <1>9, <1>10, <1>11, <1>12, <1>13, <1>14 DEF HomeInv, HomeTypes

\* The server answers what there is.
LEMMA ServeKeeps ==
    ASSUME HomeBounds, HomeInv, NEW r \in hAsked, Home!Serve(r)
    PROVE  HomeInv'
<1>1. PICK s : s = IF r.kind = "inProgress" THEN [r EXCEPT !.pc = "ok", !.running = Home!Running(r.group)]
                   ELSE [r EXCEPT !.pc = "ok", !.games = Home!GamesOfPage(r.group, r.page), !.more = Home!More(r.group, r.page)]
  OBVIOUS
<1>2. /\ r.pc = "sent" /\ hAsked' = (hAsked \ {r}) \cup {s}
      /\ UNCHANGED <<hGames, hShifted, hGroup, hList, hMore, hLoaded, hBusy, hLoading, hError, hInProgress,
                     hSelects, hMores, hLate>>
  BY <1>1 DEF Home!Serve, Home!server, Home!view
<1>3. HomeTypes /\ GamesTypes /\ CountTypes /\ HomeAskedTypes /\ ViewTypes /\ AnswersInv /\ OneAtATime /\ ListInv /\ BannerInv
  BY DEF HomeInv, HomeTypes
<1>4. r \in HomeAsked
  BY <1>3 DEF HomeAskedTypes
<1>5. PICK k \in Nat : r.page = k + 1
  <2>1. r.page \in 1..(MaxMore + 1) /\ MaxMore \in Nat
    BY <1>4 DEF HomeAsked, HomeBounds
  <2>2. r.page - 1 \in Nat /\ r.page = (r.page - 1) + 1
    BY <2>1
  <2> QED BY <2>2
<1>6. /\ Home!GamesOfPage(r.group, r.page) \in Seq(Home!Game) /\ Home!Running(r.group) \subseteq Home!Game
      /\ \A i \in 1..Len(Home!GamesOfPage(r.group, r.page)) : Home!GamesOfPage(r.group, r.page)[i].group = r.group
      /\ Home!More(r.group, r.page) \in BOOLEAN
  <2>1. r.group \in Group
    BY <1>4 DEF HomeAsked
  <2>2. /\ Home!GamesOfPage(r.group, k + 1) \in Seq(Home!Game)
        /\ \A i \in 1..Len(Home!GamesOfPage(r.group, k + 1)) : Home!GamesOfPage(r.group, k + 1)[i].group = r.group
    BY <1>3, <2>1, GamesOfPages
  <2>3. Home!Running(r.group) \subseteq Home!Game
    BY <1>3, <2>1, NewestIsSeq
  <2>4. Home!More(r.group, r.page) \in BOOLEAN
    BY DEF Home!More
  <2> QED BY <1>5, <2>2, <2>3, <2>4
<1>7. /\ s \in HomeAsked /\ s.kind = r.kind /\ s.group = r.group /\ s.page = r.page /\ s.at = r.at /\ s.pc = "ok"
  BY <1>1, <1>4, <1>6 DEF HomeAsked
<1>8. /\ r.kind = "inProgress" => s.running = Home!Running(r.group) /\ s.games = r.games
      /\ r.kind # "inProgress" => s.games = Home!GamesOfPage(r.group, r.page) /\ s.more = Home!More(r.group, r.page)
  BY <1>1, <1>4 DEF HomeAsked
<1>9. \A q \in hAsked' : (q \in hAsked /\ q # r) \/ q = s
  BY <1>2
<1>10. HomeTypes'
  <2>1. HomeAskedTypes'
    BY <1>2, <1>3, <1>7, <1>9 DEF HomeAskedTypes
  <2>2. GamesTypes' /\ CountTypes' /\ ViewTypes'
    BY <1>2, <1>3 DEF GamesTypes, CountTypes, ViewTypes
  <2> QED BY <2>1, <2>2 DEF HomeTypes
<1>11. AnswersInv'
  <2>1. \A q \in hAsked' : q.at = hSelects' => q.group = hGroup'
    BY <1>2, <1>3, <1>7, <1>9 DEF AnswersInv
  <2>2. \A q \in hAsked' : \A i \in 1..Len(q.games) : q.games[i].group = q.group
    <3>1. \A i \in 1..Len(s.games) : s.games[i].group = s.group
      <4>1. CASE r.kind = "inProgress"
        BY <1>3, <1>7, <1>8, <4>1 DEF AnswersInv
      <4>2. CASE r.kind # "inProgress"
        BY <1>6, <1>7, <1>8, <4>2
      <4> QED BY <4>1, <4>2
    <3> QED BY <1>3, <1>9, <3>1 DEF AnswersInv
  <2>3. ASSUME ~hShifted, NEW q \in hAsked', q.at = hSelects, q.pc = "ok"
        PROVE  IF q.kind = "inProgress" THEN q.running = Home!Running(q.group)
               ELSE q.games = Home!GamesOfPage(q.group, q.page) /\ q.more = Home!More(q.group, q.page)
    <3>1. CASE q \in hAsked /\ q # r
      BY <1>3, <2>3, <3>1 DEF AnswersInv
    <3>2. CASE q = s
      BY <1>7, <1>8, <3>2
    <3> QED BY <1>9, <3>1, <3>2
  <2> QED BY <1>2, <2>1, <2>2, <2>3, SameGames DEF AnswersInv
<1>12. OneAtATime'
  <2> SUFFICES ASSUME ~hLate PROVE OneAtATime'
    BY <1>2 DEF OneAtATime
  <2> DEFINE old(q) == IF q = s THEN r ELSE q
  <2>1. \A q \in hAsked' : old(q) \in hAsked /\ old(q).at = q.at /\ old(q).kind = q.kind /\ old(q).page = q.page
    BY <1>7, <1>9
  <2>2. \A q \in hAsked : (\E x \in hAsked' : x.at = q.at /\ x.kind = q.kind)
    BY <1>2, <1>7
  <2>3. \A x \in hAsked', y \in hAsked' : (x.at = hSelects /\ x.kind # "inProgress") /\ (y.at = hSelects /\ y.kind # "inProgress") => x = y
    <3> SUFFICES ASSUME NEW x \in hAsked', NEW y \in hAsked', x.at = hSelects, x.kind # "inProgress",
                        y.at = hSelects, y.kind # "inProgress"
                 PROVE  x = y
      OBVIOUS
    <3>1. old(x) = old(y)
      BY <1>3, <2>1 DEF OneAtATime, Awaited
    <3> QED BY <1>9, <3>1
  <2>4. (\E q \in hAsked' : q.at = hSelects /\ q.kind # "inProgress") <=> \E q \in hAsked : q.at = hSelects /\ q.kind # "inProgress"
    BY <2>1, <2>2
  <2>5. (\E q \in hAsked' : q.at = hSelects /\ q.kind = "first") <=> \E q \in hAsked : q.at = hSelects /\ q.kind = "first"
    BY <2>1, <2>2
  <2>6. \A q \in hAsked' : /\ q.at = hSelects /\ q.kind = "first" => q.page = 1
                           /\ q.at = hSelects /\ q.kind = "more" => q.page = hLoaded + 1
    BY <1>3, <2>1 DEF OneAtATime
  <2> HIDE DEF old
  <2> QED BY <1>2, <1>3, <2>3, <2>4, <2>5, <2>6 DEF OneAtATime, Awaited
<1>13. ListInv'
  <2>1. Home!Rendered' = Home!Rendered
    BY <1>2 DEF Home!Rendered
  <2> QED BY <1>2, <1>3, <2>1, SameGames DEF ListInv
<1>14. BannerInv'
  <2>1. Home!canManage' = Home!canManage
    BY <1>2 DEF Home!canManage
  <2>2. (\E q \in hAsked : q.at = hSelects /\ q.kind = "inProgress") => \E q \in hAsked' : q.at = hSelects' /\ q.kind = "inProgress"
    BY <1>2, <1>7
  <2> QED BY <1>2, <1>3, <2>1, <2>2, SameGames DEF BannerInv
<1> QED BY <1>10, <1>11, <1>12, <1>13, <1>14 DEF HomeInv

\* A game is created, finished or deleted.
LEMMA ChangeKeeps ==
    ASSUME HomeBounds, HomeInv, NEW g \in Group, NEW n \in 1..MaxHomeGames, NEW s \in Status, Home!Change(g, n, s)
    PROVE  HomeInv'
<1>1. /\ hGames = GamesOf /\ hShifted' = TRUE
      /\ UNCHANGED <<hGroup, hList, hMore, hLoaded, hBusy, hLoading, hError, hInProgress, hAsked, hSelects, hMores, hLate>>
  BY DEF Home!Change, Home!view
<1>2. HomeTypes /\ GamesTypes /\ CountTypes /\ HomeAskedTypes /\ ViewTypes /\ AnswersInv /\ OneAtATime /\ ListInv /\ BannerInv
  BY DEF HomeInv, HomeTypes
<1>3. hGames[g] \in Seq(Status) /\ Len(hGames[g]) \in Nat /\ Len(hGames[g]) <= MaxHomeGames /\ MaxHomeGames \in Nat
      /\ hGames \in [Group -> Seq(Status)] /\ \A x \in Group : Len(hGames[x]) <= MaxHomeGames
  BY <1>2, LenProperties DEF GamesTypes, HomeBounds
<1>4. GamesTypes'
  <2>1. PICK new : /\ hGames' = [hGames EXCEPT ![g] = new]
                   /\ new \in Seq(Status) /\ Len(new) <= MaxHomeGames
    <3>1. CASE n = Len(hGames[g]) + 1 /\ n <= MaxHomeGames /\ hGames' = [hGames EXCEPT ![g] = Append(@, s)]
      <4>1. Append(hGames[g], s) \in Seq(Status) /\ Len(Append(hGames[g], s)) <= MaxHomeGames
        BY <1>3, <3>1, AppendProperties
      <4> QED BY <3>1, <4>1
    <3>2. CASE n \in Home!There(g) /\ hGames' = [hGames EXCEPT ![g][n] = s]
      <4>1. n \in 1..Len(hGames[g])
        BY <1>3, <3>2, LenProperties DEF Home!There
      <4>2. [hGames[g] EXCEPT ![n] = s] \in Seq(Status) /\ Len([hGames[g] EXCEPT ![n] = s]) = Len(hGames[g])
        BY <1>3, <4>1, ExceptSeq
      <4>3. hGames' = [hGames EXCEPT ![g] = [hGames[g] EXCEPT ![n] = s]]
        BY <1>3, <3>2
      <4> QED BY <1>3, <4>2, <4>3
    <3> QED BY <3>1, <3>2 DEF Home!Change
  <2>2. hGames' \in [Group -> Seq(Status)] /\ \A x \in Group : hGames'[x] = IF x = g THEN new ELSE hGames[x]
    BY <1>3, <2>1
  <2> QED BY <1>3, <2>1, <2>2 DEF GamesTypes
<1>5. CountTypes' /\ HomeAskedTypes' /\ ViewTypes'
  BY <1>1, <1>2 DEF CountTypes, HomeAskedTypes, ViewTypes
<1>6. AnswersInv' /\ OneAtATime' /\ ListInv' /\ BannerInv'
  BY <1>1, <1>2 DEF AnswersInv, OneAtATime, Awaited, ListInv, BannerInv
<1> QED BY <1>4, <1>5, <1>6 DEF HomeInv, HomeTypes

\* The first games come, unless another group was selected since.
LEMMA FirstAnswerKeeps ==
    ASSUME HomeBounds, HomeInv, NEW r \in hAsked, Home!FirstAnswer(r)
    PROVE  HomeInv'
<1>1. /\ r.kind = "first" /\ Home!Arrive(r) /\ hList' = r.games /\ hMore' = r.more /\ hLoaded' = 1 /\ hBusy' = FALSE
      /\ hLoading' = FALSE /\ UNCHANGED <<hGames, hShifted, hGroup, hError, hInProgress, hSelects, hMores>>
  BY DEF Home!FirstAnswer, Home!server
<1>2. /\ HomeAskedTypes' /\ AnswersInv' /\ GamesTypes' /\ hLate' \in BOOLEAN
      /\ ~hLate' => ~hLate /\ r.at = hSelects
      /\ r \in HomeAsked /\ hAsked' = hAsked \ {r} /\ r.pc = "ok"
  BY <1>1, ArriveKeeps DEF Home!server
<1>3. HomeTypes /\ GamesTypes /\ CountTypes /\ HomeAskedTypes /\ ViewTypes /\ AnswersInv /\ OneAtATime /\ ListInv /\ BannerInv
  BY DEF HomeInv, HomeTypes
<1>4. CountTypes'
  BY <1>1, <1>3 DEF CountTypes, HomeBounds
<1>5. ViewTypes'
  <2>1. r.games \in Seq(Home!Game) /\ r.more \in BOOLEAN
    BY <1>2 DEF HomeAsked
  <2> QED BY <1>1, <1>2, <1>3, <2>1 DEF ViewTypes
<1>6. OneAtATime'
  <2>1. ASSUME ~hLate' PROVE ~ \E q \in hAsked' : q.at = hSelects /\ q.kind # "inProgress"
    BY <1>1, <1>2, <1>3, <2>1 DEF OneAtATime, Awaited
  <2> QED BY <1>1, <1>2, <2>1 DEF OneAtATime, Awaited
<1>7. ListInv'
  <2> SUFFICES ASSUME ~hLate'
               PROVE  /\ \A k \in 1..Len(hList') : hList'[k].group = hGroup'
                      /\ ~hShifted' => hList' = Home!Upto(hGroup, 1)' /\ hMore' = Home!More(hGroup, 1)'
    BY <1>1 DEF ListInv
  <2>1. ~hLate /\ r.at = hSelects /\ r.page = 1 /\ r.group = hGroup
    BY <1>1, <1>2, <1>3 DEF OneAtATime, AnswersInv
  <2>2. \A k \in 1..Len(r.games) : r.games[k].group = r.group
    BY <1>3 DEF AnswersInv
  <2>3. ~hShifted => r.games = Home!GamesOfPage(r.group, 1) /\ r.more = Home!More(r.group, 1)
    BY <1>1, <1>2, <1>3, <2>1 DEF AnswersInv
  <2>4. Home!Upto(hGroup, 1) = Home!GamesOfPage(hGroup, 1)
    <3>1. hGroup \in Group /\ 0 \in Nat
      BY <1>2, <2>1 DEF HomeAsked
    <3> QED BY <1>3, <3>1, GamesOfPages
  <2>5. Home!Upto(hGroup, 1)' = Home!Upto(hGroup, 1) /\ Home!More(hGroup, 1)' = Home!More(hGroup, 1)
    BY <1>1, SameGames
  <2> QED BY <1>1, <2>1, <2>2, <2>3, <2>4, <2>5
<1>8. BannerInv'
  <2>1. Home!canManage' = Home!canManage /\ Home!Running(hGroup)' = Home!Running(hGroup)
    BY <1>1, SameGames DEF Home!canManage
  <2> QED BY <1>1, <1>2, <1>3, <2>1 DEF BannerInv
<1> QED BY <1>2, <1>4, <1>5, <1>6, <1>7, <1>8 DEF HomeInv, HomeTypes

\* The first games are not to be had.
LEMMA FirstFailsKeeps ==
    ASSUME HomeBounds, HomeInv, NEW r \in hAsked, Home!FirstFails(r)
    PROVE  HomeInv'
<1>1. /\ r.kind = "first" /\ Home!Arrive(r) /\ hError' = TRUE /\ hBusy' = FALSE /\ hLoading' = FALSE
      /\ UNCHANGED <<hGames, hShifted, hGroup, hList, hMore, hLoaded, hInProgress, hSelects, hMores>>
  BY DEF Home!FirstFails, Home!server
<1>2. /\ HomeAskedTypes' /\ AnswersInv' /\ GamesTypes' /\ hLate' \in BOOLEAN
      /\ ~hLate' => ~hLate /\ r.at = hSelects
      /\ r \in HomeAsked /\ hAsked' = hAsked \ {r} /\ r.pc = "ok"
  BY <1>1, ArriveKeeps DEF Home!server
<1>3. HomeTypes /\ GamesTypes /\ CountTypes /\ HomeAskedTypes /\ ViewTypes /\ AnswersInv /\ OneAtATime /\ ListInv /\ BannerInv
  BY DEF HomeInv, HomeTypes
<1>4. CountTypes' /\ ViewTypes'
  BY <1>1, <1>2, <1>3 DEF CountTypes, ViewTypes
<1>5. OneAtATime'
  <2>1. ASSUME ~hLate' PROVE ~ \E q \in hAsked' : q.at = hSelects /\ q.kind # "inProgress"
    BY <1>1, <1>2, <1>3, <2>1 DEF OneAtATime, Awaited
  <2> QED BY <1>1, <1>2, <2>1 DEF OneAtATime, Awaited
<1>6. ListInv'
  BY <1>1, <1>2, <1>3 DEF ListInv, Home!Rendered
<1>7. BannerInv'
  <2>1. Home!canManage' = Home!canManage /\ Home!Running(hGroup)' = Home!Running(hGroup)
    BY <1>1, SameGames DEF Home!canManage
  <2> QED BY <1>1, <1>2, <1>3, <2>1 DEF BannerInv
<1> QED BY <1>2, <1>4, <1>5, <1>6, <1>7 DEF HomeInv, HomeTypes

\* The banner hears of the games in progress.
LEMMA InProgressAnswerKeeps ==
    ASSUME HomeBounds, HomeInv, NEW r \in hAsked, Home!InProgressAnswer(r)
    PROVE  HomeInv'
<1>1. /\ r.kind = "inProgress" /\ Home!Arrive(r) /\ hInProgress' = r.running
      /\ UNCHANGED <<hGames, hShifted, hGroup, hList, hMore, hLoaded, hBusy, hLoading, hError, hSelects, hMores>>
  BY DEF Home!InProgressAnswer, Home!server, Home!view
<1>2. /\ HomeAskedTypes' /\ AnswersInv' /\ GamesTypes' /\ hLate' \in BOOLEAN
      /\ ~hLate' => ~hLate /\ r.at = hSelects
      /\ r \in HomeAsked /\ hAsked' = hAsked \ {r} /\ r.pc = "ok"
  BY <1>1, ArriveKeeps DEF Home!server
<1>3. HomeTypes /\ GamesTypes /\ CountTypes /\ HomeAskedTypes /\ ViewTypes /\ AnswersInv /\ OneAtATime /\ ListInv /\ BannerInv
  BY DEF HomeInv, HomeTypes
<1>4. CountTypes' /\ ViewTypes'
  <2>1. r.running \subseteq Home!Game
    BY <1>2 DEF HomeAsked
  <2> QED BY <1>1, <1>2, <1>3, <2>1 DEF CountTypes, ViewTypes
<1>5. OneAtATime'
  <2> SUFFICES ASSUME ~hLate' PROVE OneAtATime'
    BY DEF OneAtATime
  <2>1. \A q \in hAsked : q.kind # "inProgress" => q \in hAsked'
    BY <1>1, <1>2
  <2>2. (\E q \in hAsked' : q.at = hSelects /\ q.kind # "inProgress") <=> \E q \in hAsked : q.at = hSelects /\ q.kind # "inProgress"
    BY <1>2, <2>1
  <2>3. (\E q \in hAsked' : q.at = hSelects /\ q.kind = "first") <=> \E q \in hAsked : q.at = hSelects /\ q.kind = "first"
    BY <1>2, <2>1
  <2> QED BY <1>1, <1>2, <1>3, <2>2, <2>3 DEF OneAtATime, Awaited
<1>6. ListInv'
  <2>1. Home!Rendered' = Home!Rendered
    BY <1>1 DEF Home!Rendered
  <2> QED BY <1>1, <1>2, <1>3, <2>1, SameGames DEF ListInv
<1>7. BannerInv'
  <2> SUFFICES ASSUME ~hLate', ~hShifted' PROVE hInProgress' = Home!Running(hGroup)'
    BY DEF BannerInv
  <2>1. r.at = hSelects /\ ~hShifted
    BY <1>1, <1>2
  <2>2. r.group = hGroup /\ r.running = Home!Running(r.group)
    BY <1>1, <1>2, <1>3, <2>1 DEF AnswersInv
  <2>3. Home!Running(hGroup)' = Home!Running(hGroup)
    BY <1>1, SameGames
  <2> QED BY <1>1, <2>2, <2>3
<1> QED BY <1>2, <1>4, <1>5, <1>6, <1>7 DEF HomeInv, HomeTypes

\* The user scrolls, and more games are asked for, once at a time.
LEMMA LoadMoreKeeps ==
    ASSUME HomeBounds, HomeInv, Home!LoadMore
    PROVE  HomeInv'
<1> DEFINE m == Home!Request("more", hLoaded + 1)
<1>1. /\ Home!Rendered /\ hMore /\ ~hBusy /\ hMores < MaxMore /\ hMores' = hMores + 1 /\ hBusy' = TRUE
      /\ hAsked' = hAsked \cup {m}
      /\ UNCHANGED <<hGames, hShifted, hGroup, hSelects, hList, hMore, hLoaded, hLoading, hError, hInProgress, hLate>>
  BY DEF Home!LoadMore, Home!MayLoad, Home!server
<1>2. GamesTypes /\ CountTypes /\ HomeAskedTypes /\ ViewTypes /\ AnswersInv /\ OneAtATime /\ ListInv /\ BannerInv
  BY DEF HomeInv, HomeTypes
<1>3. /\ hMores \in Nat /\ MaxMore \in Nat /\ hLoaded \in Nat /\ hLoaded <= hMores + 1 /\ hLoaded + 1 \in 1..(MaxMore + 1)
      /\ hSelects \in 0..MaxSelects /\ MaxSelects \in Nat
  BY <1>1, <1>2 DEF CountTypes, HomeBounds
<1>4. hGroup \in Group
  BY <1>1, <1>2 DEF ViewTypes, Home!Rendered
<1>5. m \in HomeAsked /\ m.kind = "more" /\ m.page = hLoaded + 1 /\ m.at = hSelects /\ m.group = hGroup
      /\ m.pc = "sent" /\ m.games = <<>>
  <2>1. hSelects' \in 0..MaxSelects /\ hGroup' \in Group /\ "more" \in {"first", "more", "inProgress"}
    BY <1>1, <1>3, <1>4
  <2> QED BY <1>1, <1>3, <2>1, RequestIsAsked
<1> HIDE DEF m
<1>6. \A q \in hAsked' : q \in hAsked \/ q = m
  BY <1>1
<1>7. CountTypes'
  BY <1>1, <1>2, <1>3 DEF CountTypes
<1>8. HomeAskedTypes'
  <2> SUFFICES ASSUME NEW q \in hAsked' PROVE q \in HomeAsked /\ q.at <= hSelects' /\ q.page <= hMores' + 1
    BY DEF HomeAskedTypes
  <2>1. CASE q \in hAsked
    <3>1. q \in HomeAsked /\ q.at <= hSelects /\ q.page <= hMores + 1
      BY <1>2, <2>1 DEF HomeAskedTypes
    <3>2. q.page \in 1..(MaxMore + 1)
      BY <3>1 DEF HomeAsked
    <3> QED BY <1>1, <1>3, <3>1, <3>2
  <2>2. CASE q = m
    BY <1>1, <1>3, <1>5, <2>2
  <2> QED BY <1>6, <2>1, <2>2
<1>9. GamesTypes' /\ ViewTypes'
  BY <1>1, <1>2 DEF GamesTypes, ViewTypes
<1>10. AnswersInv'
  <2>1. \A q \in hAsked' : q.at = hSelects' => q.group = hGroup'
    BY <1>1, <1>2, <1>5, <1>6 DEF AnswersInv
  <2>2. \A q \in hAsked' : \A k \in 1..Len(q.games) : q.games[k].group = q.group
    <3>1. Len(<<>>) = 0
      OBVIOUS
    <3> QED BY <1>2, <1>5, <1>6, <3>1 DEF AnswersInv
  <2>3. \A q \in hAsked' : q.pc = "ok" => q \in hAsked
    BY <1>5, <1>6
  <2> QED BY <1>1, <1>2, <2>1, <2>2, <2>3, SameGames DEF AnswersInv
<1>11. OneAtATime'
  <2> SUFFICES ASSUME ~hLate PROVE OneAtATime'
    BY <1>1 DEF OneAtATime
  <2>1. ~ \E q \in hAsked : q.at = hSelects /\ q.kind # "inProgress"
    BY <1>1, <1>2 DEF OneAtATime, Awaited
  <2>2. \A q \in hAsked' : q.at = hSelects /\ q.kind # "inProgress" => q = m
    BY <1>6, <2>1
  <2>3. ~ \E q \in hAsked' : q.at = hSelects /\ q.kind = "first"
    BY <1>5, <2>2
  <2>4. m \in hAsked'
    BY <1>1
  <2>5. ~hLoading
    BY <1>1 DEF Home!Rendered
  <2> QED BY <1>1, <1>5, <2>2, <2>3, <2>4, <2>5 DEF OneAtATime, Awaited
<1>12. ListInv'
  <2>1. Home!Rendered' = Home!Rendered
    BY <1>1 DEF Home!Rendered
  <2> QED BY <1>1, <1>2, <2>1, SameGames DEF ListInv
<1>13. BannerInv'
  <2>1. Home!canManage' = Home!canManage /\ Home!Running(hGroup)' = Home!Running(hGroup)
    BY <1>1, SameGames DEF Home!canManage
  <2> QED BY <1>1, <1>2, <2>1 DEF BannerInv
<1> QED BY <1>7, <1>8, <1>9, <1>10, <1>11, <1>12, <1>13 DEF HomeInv, HomeTypes

\* More games come, and those that are shown are left out.
LEMMA MoreAnswerKeeps ==
    ASSUME HomeBounds, HomeInv, NEW r \in hAsked, Home!MoreAnswer(r)
    PROVE  HomeInv'
<1>1. /\ r.kind = "more" /\ Home!Arrive(r) /\ hList' = hList \o r.games /\ hMore' = r.more /\ hLoaded' = r.page /\ hBusy' = FALSE
      /\ UNCHANGED <<hGames, hShifted, hGroup, hLoading, hError, hInProgress, hSelects, hMores>>
  BY DEF Home!MoreAnswer, Home!server
<1>2. /\ HomeAskedTypes' /\ AnswersInv' /\ GamesTypes' /\ hLate' \in BOOLEAN
      /\ ~hLate' => ~hLate /\ r.at = hSelects
      /\ r \in HomeAsked /\ hAsked' = hAsked \ {r} /\ r.pc = "ok"
  BY <1>1, ArriveKeeps DEF Home!server
<1>3. HomeTypes /\ GamesTypes /\ CountTypes /\ HomeAskedTypes /\ ViewTypes /\ AnswersInv /\ OneAtATime /\ ListInv /\ BannerInv
  BY DEF HomeInv, HomeTypes
<1>4. CountTypes'
  <2>1. r.page \in 1..(MaxMore + 1) /\ r.page <= hMores + 1 /\ MaxMore \in Nat
    BY <1>2, <1>3 DEF HomeAsked, HomeAskedTypes, HomeBounds
  <2> QED BY <1>1, <1>3, <2>1 DEF CountTypes
<1>5. hList \in Seq(Home!Game) /\ r.games \in Seq(Home!Game)
  BY <1>2, <1>3 DEF HomeAsked, ViewTypes
<1>6. /\ hList' \in Seq(Home!Game) /\ Len(hList') = Len(hList) + Len(r.games) /\ Len(hList) \in Nat /\ Len(r.games) \in Nat
      /\ \A i \in 1..(Len(hList) + Len(r.games)) :
            hList'[i] = IF i <= Len(hList) THEN hList[i] ELSE r.games[i - Len(hList)]
  BY <1>1, <1>5, ConcatProperties, LenProperties
<1>7. ViewTypes'
  <2>1. r.more \in BOOLEAN
    BY <1>2 DEF HomeAsked
  <2> QED BY <1>1, <1>2, <1>3, <1>6, <2>1 DEF ViewTypes
<1>8. OneAtATime'
  <2>1. ASSUME ~hLate' PROVE /\ ~ \E q \in hAsked' : q.at = hSelects /\ q.kind # "inProgress"
                             /\ ~ \E q \in hAsked : q.at = hSelects /\ q.kind = "first"
    BY <1>1, <1>2, <1>3, <2>1 DEF OneAtATime, Awaited
  <2> QED BY <1>1, <1>2, <1>3, <2>1 DEF OneAtATime, Awaited
<1>9. ListInv'
  <2> SUFFICES ASSUME ~hLate'
               PROVE  /\ \A k \in 1..Len(hList') : hList'[k].group = hGroup'
                      /\ Home!Rendered' /\ ~hShifted' =>
                           hList' = Home!Upto(hGroup, r.page)' /\ hMore' = Home!More(hGroup, r.page)'
    BY <1>1 DEF ListInv
  <2>1. ~hLate /\ r.at = hSelects /\ r.page = hLoaded + 1 /\ r.group = hGroup
    BY <1>1, <1>2, <1>3 DEF OneAtATime, AnswersInv
  <2>2. \A k \in 1..Len(hList') : hList'[k].group = hGroup'
    <3> SUFFICES ASSUME NEW k \in 1..Len(hList') PROVE hList'[k].group = hGroup
      BY <1>1
    <3>1. \A i \in 1..Len(r.games) : r.games[i].group = hGroup
      BY <1>3, <2>1 DEF AnswersInv
    <3>2. \A i \in 1..Len(hList) : hList[i].group = hGroup
      BY <1>3, <2>1 DEF ListInv
    <3>3. CASE k <= Len(hList)
      BY <1>6, <3>2, <3>3
    <3>4. CASE k > Len(hList)
      <4>1. k - Len(hList) \in 1..Len(r.games)
        BY <1>6, <3>4
      <4> QED BY <1>6, <3>1, <3>4, <4>1
    <3> QED BY <1>6, <3>3, <3>4
  <2>3. ASSUME Home!Rendered', ~hShifted'
        PROVE  hList' = Home!Upto(hGroup, r.page)' /\ hMore' = Home!More(hGroup, r.page)'
    <3>1. Home!Rendered /\ ~hShifted
      BY <1>1, <2>3 DEF Home!Rendered
    <3>2. hList = Home!Upto(hGroup, hLoaded)
      BY <1>3, <2>1, <3>1 DEF ListInv
    <3>3. r.games = Home!GamesOfPage(hGroup, hLoaded + 1) /\ r.more = Home!More(hGroup, r.page)
      BY <1>1, <1>2, <1>3, <2>1, <3>1 DEF AnswersInv
    <3>4. hGroup \in Group /\ hLoaded \in Nat
      BY <1>2, <1>3, <2>1 DEF HomeAsked, CountTypes
    <3>5. Home!Upto(hGroup, hLoaded) \o Home!GamesOfPage(hGroup, hLoaded + 1) = Home!Upto(hGroup, hLoaded + 1)
      BY <1>3, <3>4, GamesOfPages
    <3>6. Home!Upto(hGroup, r.page)' = Home!Upto(hGroup, r.page) /\ Home!More(hGroup, r.page)' = Home!More(hGroup, r.page)
      BY <1>1, SameGames
    <3> QED BY <1>1, <2>1, <3>2, <3>3, <3>5, <3>6
  <2> QED BY <2>2, <2>3
<1>10. BannerInv'
  <2>1. Home!canManage' = Home!canManage /\ Home!Running(hGroup)' = Home!Running(hGroup)
    BY <1>1, SameGames DEF Home!canManage
  <2> QED BY <1>1, <1>2, <1>3, <2>1 DEF BannerInv
<1> QED BY <1>2, <1>4, <1>7, <1>8, <1>9, <1>10 DEF HomeInv, HomeTypes

\* More games are not to be had.
LEMMA MoreFailsKeeps ==
    ASSUME HomeBounds, HomeInv, NEW r \in hAsked, Home!MoreFails(r)
    PROVE  HomeInv'
<1>1. /\ r.kind = "more" /\ Home!Arrive(r) /\ hBusy' = FALSE
      /\ UNCHANGED <<hGames, hShifted, hGroup, hList, hMore, hLoaded, hLoading, hError, hInProgress, hSelects, hMores>>
  BY DEF Home!MoreFails, Home!server
<1>2. /\ HomeAskedTypes' /\ AnswersInv' /\ GamesTypes' /\ hLate' \in BOOLEAN
      /\ ~hLate' => ~hLate /\ r.at = hSelects
      /\ r \in HomeAsked /\ hAsked' = hAsked \ {r} /\ r.pc = "ok"
  BY <1>1, ArriveKeeps DEF Home!server
<1>3. HomeTypes /\ GamesTypes /\ CountTypes /\ HomeAskedTypes /\ ViewTypes /\ AnswersInv /\ OneAtATime /\ ListInv /\ BannerInv
  BY DEF HomeInv, HomeTypes
<1>4. CountTypes' /\ ViewTypes'
  BY <1>1, <1>2, <1>3 DEF CountTypes, ViewTypes
<1>5. OneAtATime'
  <2>1. ASSUME ~hLate' PROVE /\ ~ \E q \in hAsked' : q.at = hSelects /\ q.kind # "inProgress"
                             /\ ~ \E q \in hAsked : q.at = hSelects /\ q.kind = "first"
    BY <1>1, <1>2, <1>3, <2>1 DEF OneAtATime, Awaited
  <2> QED BY <1>1, <1>2, <1>3, <2>1 DEF OneAtATime, Awaited
<1>6. ListInv'
  <2>1. Home!Rendered' = Home!Rendered
    BY <1>1 DEF Home!Rendered
  <2> QED BY <1>1, <1>2, <1>3, <2>1, SameGames DEF ListInv
<1>7. BannerInv'
  <2>1. Home!canManage' = Home!canManage /\ Home!Running(hGroup)' = Home!Running(hGroup)
    BY <1>1, SameGames DEF Home!canManage
  <2> QED BY <1>1, <1>2, <1>3, <2>1 DEF BannerInv
<1> QED BY <1>2, <1>4, <1>5, <1>6, <1>7 DEF HomeInv, HomeTypes

\* Every step keeps the invariant.
LEMMA HomeNextKeeps == HomeBounds /\ HomeInv /\ [Home!Next]_Home!vars => HomeInv'
<1> SUFFICES ASSUME HomeBounds, HomeInv, [Home!Next]_Home!vars PROVE HomeInv'
  OBVIOUS
<1>1. ASSUME NEW g \in Group, Home!SelectGroup(g) PROVE HomeInv'
  BY <1>1, SelectGroupKeeps
<1>2. CASE Home!LoadMore
  BY <1>2, LoadMoreKeeps
<1>3. ASSUME NEW g \in Group, NEW n \in 1..MaxHomeGames, NEW s \in {"IN_PROGRESS", "FINISHED", "DELETED"}, Home!Change(g, n, s)
      PROVE  HomeInv'
  <2>1. s \in Status
    BY DEF Status
  <2> QED BY <1>3, <2>1, ChangeKeeps
<1>4. ASSUME NEW r \in hAsked, Home!Serve(r) PROVE HomeInv'
  BY <1>4, ServeKeeps
<1>5. ASSUME NEW r \in hAsked, Home!FirstAnswer(r) PROVE HomeInv'
  BY <1>5, FirstAnswerKeeps
<1>6. ASSUME NEW r \in hAsked, Home!FirstFails(r) PROVE HomeInv'
  BY <1>6, FirstFailsKeeps
<1>7. ASSUME NEW r \in hAsked, Home!InProgressAnswer(r) PROVE HomeInv'
  BY <1>7, InProgressAnswerKeeps
<1>8. ASSUME NEW r \in hAsked, Home!MoreAnswer(r) PROVE HomeInv'
  BY <1>8, MoreAnswerKeeps
<1>9. ASSUME NEW r \in hAsked, Home!MoreFails(r) PROVE HomeInv'
  BY <1>9, MoreFailsKeeps
<1>10. CASE UNCHANGED Home!vars
  <2>1. UNCHANGED <<hGames, hShifted, hGroup, hList, hMore, hLoaded, hBusy, hLoading, hError, hInProgress, hAsked, hSelects, hMores, hLate>>
    BY <1>10 DEF Home!vars, Home!server, Home!view
  <2>2. Home!Rendered' = Home!Rendered /\ Home!canManage' = Home!canManage
    BY <2>1 DEF Home!Rendered, Home!canManage
  <2>3. HomeTypes'
    BY <2>1 DEF HomeInv, HomeTypes, GamesTypes, CountTypes, HomeAskedTypes, ViewTypes
  <2>4. AnswersInv' /\ OneAtATime'
    BY <2>1, SameGames DEF HomeInv, AnswersInv, OneAtATime, Awaited
  <2>5. ListInv' /\ BannerInv'
    BY <2>1, <2>2, SameGames DEF HomeInv, ListInv, BannerInv
  <2> QED BY <2>3, <2>4, <2>5 DEF HomeInv
<1>11. CASE Home!Next
  BY <1>1, <1>2, <1>3, <1>4, <1>5, <1>6, <1>7, <1>8, <1>9, <1>11 DEF Home!Next
<1> QED BY <1>10, <1>11

\* What is to be shown follows from the invariant.
LEMMA HomeShows == HomeBounds /\ HomeInv => Home!TypeOK /\ Home!HomeListAgrees
<1> SUFFICES ASSUME HomeBounds, HomeInv PROVE Home!TypeOK /\ Home!HomeListAgrees
  OBVIOUS
<1>1. GamesTypes /\ CountTypes /\ ViewTypes /\ OneAtATime /\ ListInv /\ BannerInv
  BY DEF HomeInv, HomeTypes
<1>2. Home!TypeOK
  BY <1>1 DEF Home!TypeOK, GamesTypes, CountTypes, ViewTypes, Status, Home!Banner
<1>3. DOMAIN hList = 1..Len(hList)
  BY <1>1, LenProperties DEF ViewTypes
<1>4. ASSUME ~hLate
      PROVE  /\ hBusy <=> \E r \in hAsked : r.at = hSelects /\ r.kind # "inProgress"
             /\ \A k \in DOMAIN hList : hList[k].group = hGroup
             /\ Home!Rendered /\ ~hShifted => hList = Home!Upto(hGroup, hLoaded) /\ hMore = Home!More(hGroup, hLoaded)
  BY <1>1, <1>3, <1>4 DEF OneAtATime, Awaited, ListInv
<1>5. ASSUME ~hLate, Home!Rendered, ~hShifted, ~ \E r \in hAsked : r.at = hSelects /\ r.kind = "inProgress"
      PROVE  Home!Banner = IF Home!canManage THEN Home!Running(hGroup) ELSE {}
  <2>1. Home!canManage => hInProgress = Home!Running(hGroup)
    BY <1>1, <1>5 DEF BannerInv, Home!Rendered
  <2> QED BY <1>5, <2>1 DEF Home!Banner
<1> QED BY <1>2, <1>4, <1>5 DEF Home!HomeListAgrees

\* The list of the first page is that of the group that is selected, each game once, and so
\* is its banner, unless games change (the first page and its infinite scroll).
THEOREM HomeListsAgree ==
    HomeBounds => (Home!Spec => [](Home!TypeOK /\ Home!HomeListAgrees))
<1> SUFFICES ASSUME HomeBounds PROVE Home!Spec => [](Home!TypeOK /\ Home!HomeListAgrees)
  OBVIOUS
<1>1. Home!Init => HomeInv
  BY HomeBegins
<1>2. HomeInv /\ [Home!Next]_Home!vars => HomeInv'
  BY HomeNextKeeps
<1>3. HomeInv => Home!TypeOK /\ Home!HomeListAgrees
  BY HomeShows
<1> QED BY <1>1, <1>2, <1>3, PTL DEF Home!Spec

-----------------------------------------------------------------------------
(* Dates                                                                   *)

\* The leap years up to a year, and the days of a year.
LEMMA LeapYears ==
    ASSUME NEW y \in Nat
    PROVE  /\ Dates!LeapsTo(y) \in Int
           /\ Dates!LeapsTo(y + 1) = Dates!LeapsTo(y) + (IF Dates!Leap(y + 1) THEN 1 ELSE 0)
  BY DEF Dates!LeapsTo, Dates!Leap

\* A later year has no fewer leap years before it.
LEMMA MoreLeapYears ==
    ASSUME NEW y \in Nat, NEW z \in Nat, y <= z
    PROVE  Dates!LeapsTo(y) <= Dates!LeapsTo(z)
  BY DEF Dates!LeapsTo

\* A year begins on the day after the one before it ends.
LEMMA YearsBegin ==
    ASSUME DateBounds, NEW y \in Nat, y >= FirstYear
    PROVE  /\ Dates!YearDay(y) \in Nat /\ Dates!YearDay(FirstYear) = 0
           /\ Dates!YearDay(y) >= 365 * (y - FirstYear)
           /\ Dates!YearDay(y + 1) = Dates!YearDay(y) + 365 + (IF Dates!Leap(y) THEN 1 ELSE 0)
<1>1. y - 1 \in Nat /\ FirstYear - 1 \in Nat /\ FirstYear \in Nat
  BY DEF DateBounds
<1>2. Dates!LeapsTo(y - 1) \in Int /\ Dates!LeapsTo(FirstYear - 1) \in Int
  BY <1>1, LeapYears
<1>3. Dates!LeapsTo(FirstYear - 1) <= Dates!LeapsTo(y - 1)
  BY <1>1, MoreLeapYears
<1>4. Dates!LeapsTo((y - 1) + 1) = Dates!LeapsTo(y - 1) + (IF Dates!Leap((y - 1) + 1) THEN 1 ELSE 0)
  BY <1>1, LeapYears
<1>5. (y - 1) + 1 = y /\ (y + 1) - 1 = y
  OBVIOUS
<1> QED  BY <1>1, <1>2, <1>3, <1>4, <1>5 DEF Dates!YearDay

\* A later year begins later, by 365 days for each at least.
LEMMA LaterYears ==
    ASSUME DateBounds, NEW y \in Nat, NEW z \in Nat, FirstYear <= y, y <= z
    PROVE  Dates!YearDay(y) <= Dates!YearDay(z) /\ Dates!YearDay(z) - Dates!YearDay(y) >= 365 * (z - y)
<1>1. y - 1 \in Nat /\ z - 1 \in Nat /\ FirstYear - 1 \in Nat /\ FirstYear \in Nat
  BY DEF DateBounds
<1>2. Dates!LeapsTo(y - 1) \in Int /\ Dates!LeapsTo(z - 1) \in Int /\ Dates!LeapsTo(FirstYear - 1) \in Int
  BY <1>1, LeapYears
<1>3. Dates!LeapsTo(y - 1) <= Dates!LeapsTo(z - 1)
  BY <1>1, MoreLeapYears
<1> QED  BY <1>1, <1>2, <1>3 DEF Dates!YearDay

\* A day is of one year.
LEMMA YearOfDay ==
    ASSUME DateBounds, NEW n \in Nat
    PROVE  /\ \E x \in FirstYear..(FirstYear + n \div 365) : Dates!YearDay(x) <= n /\ n < Dates!YearDay(x + 1)
           /\ \A x, z \in FirstYear..(FirstYear + n \div 365) :
                 Dates!YearDay(x) <= n /\ n < Dates!YearDay(x + 1) /\ Dates!YearDay(z) <= n /\ n < Dates!YearDay(z + 1) => x = z
<1> USE DEF DateBounds
<1>1. n \div 365 \in Nat /\ 365 * (n \div 365 + 1) > n /\ FirstYear \in Nat
  OBVIOUS
<1>2. PICK T : T = {k \in Nat : n < Dates!YearDay(FirstYear + k + 1)}
  OBVIOUS
<1>3. n \div 365 \in T
  BY <1>1, <1>2, YearsBegin
<1>4. PICK k \in T : \A j \in T : k <= j
  BY <1>2, <1>3, LeastOf
<1>5. k \in Nat /\ k <= n \div 365 /\ n < Dates!YearDay(FirstYear + k + 1)
  BY <1>2, <1>3, <1>4
<1>6. Dates!YearDay(FirstYear + k) <= n
  <2>1. CASE k = 0
    BY <2>1, <1>1, YearsBegin
  <2>2. CASE k > 0
    <3>1. k - 1 \in Nat /\ k - 1 \notin T /\ FirstYear + (k - 1) + 1 = FirstYear + k
      BY <2>2, <1>1, <1>4, <1>5
    <3>2. ~ (n < Dates!YearDay(FirstYear + k))
      BY <3>1, <1>2
    <3>3. Dates!YearDay(FirstYear + k) \in Nat
      BY <1>1, <1>5, YearsBegin
    <3> QED BY <3>2, <3>3
  <2> QED BY <2>1, <2>2, <1>5
<1>7. ASSUME NEW x \in FirstYear..(FirstYear + n \div 365), NEW z \in FirstYear..(FirstYear + n \div 365),
             Dates!YearDay(x) <= n, n < Dates!YearDay(x + 1), Dates!YearDay(z) <= n, n < Dates!YearDay(z + 1), x < z
      PROVE FALSE
  <2>1. x \in Nat /\ z \in Nat /\ x + 1 \in Nat /\ FirstYear <= x + 1 /\ x + 1 <= z
    BY <1>1, <1>7
  <2>2. Dates!YearDay(x + 1) <= Dates!YearDay(z)
    BY <2>1, LaterYears
  <2>3. Dates!YearDay(x + 1) \in Nat /\ Dates!YearDay(z) \in Nat
    BY <2>1, YearsBegin
  <2> QED BY <2>2, <2>3, <1>7
<1> QED  BY <1>1, <1>5, <1>6, <1>7

\* Months are counted from the first of a year.
FirstDayOf(y, m) == Dates!MakeDay(y, m, 1)
DaysOf(y, m)     == FirstDayOf(y, m + 1) - FirstDayOf(y, m)

\* A month and those of the year before it.
LEMMA DaysBeforeMonths ==
    /\ \A m \in 0..11 : Dates!Cumulated[m] \in Nat
    /\ Dates!Cumulated[0] = 0
    /\ \A m \in 0..10 : Dates!Cumulated[m + 1] = Dates!Cumulated[m] + Dates!LengthOf(1, m)
    /\ Dates!Cumulated[11] = 365 - 31
<1>1. \A m \in 0..11 : Dates!Cumulated[m] = <<0, 31, 59, 90, 120, 151, 181, 212, 243, 273, 304, 334>>[m + 1]
  BY DEF Dates!Cumulated
<1>2. /\ Dates!Cumulated[0] = 0 /\ Dates!Cumulated[1] = 31 /\ Dates!Cumulated[2] = 59 /\ Dates!Cumulated[3] = 90
      /\ Dates!Cumulated[4] = 120 /\ Dates!Cumulated[5] = 151 /\ Dates!Cumulated[6] = 181 /\ Dates!Cumulated[7] = 212
      /\ Dates!Cumulated[8] = 243 /\ Dates!Cumulated[9] = 273 /\ Dates!Cumulated[10] = 304 /\ Dates!Cumulated[11] = 334
  BY <1>1
<1>3. \A m \in 0..11 : m \in {0, 1, 2, 3, 4, 5, 6, 7, 8, 9, 10, 11}
  OBVIOUS
<1>4. ~Dates!Leap(1)
  BY DEF Dates!Leap
<1> QED  BY <1>2, <1>3, <1>4 DEF Dates!LengthOf

\* The days of a month, whatever the year it is counted from.
LEMMA MonthLength ==
    ASSUME DateBounds, NEW y \in Nat, y >= FirstYear, NEW m \in Nat
    PROVE  /\ FirstDayOf(y, m) \in Nat /\ y + m \div 12 \in Nat /\ y + m \div 12 >= FirstYear
           /\ m % 12 \in 0..11
           /\ DaysOf(y, m) = Dates!LengthOf(y + m \div 12, m % 12)
           /\ Dates!LengthOf(y + m \div 12, m % 12) \in 28..31
<1> DEFINE z == y + m \div 12  k == m % 12
<1>1. z \in Nat /\ z >= FirstYear /\ k \in 0..11 /\ FirstYear \in Nat
  BY DEF DateBounds
<1>2. /\ k < 11 => y + (m + 1) \div 12 = z /\ (m + 1) % 12 = k + 1
      /\ k = 11 => y + (m + 1) \div 12 = z + 1 /\ (m + 1) % 12 = 0
  OBVIOUS
<1>3. /\ Dates!YearDay(z) \in Nat /\ Dates!YearDay(z + 1) = Dates!YearDay(z) + 365 + (IF Dates!Leap(z) THEN 1 ELSE 0)
  BY <1>1, YearsBegin
<1>4. FirstDayOf(y, m) = Dates!YearDay(z) + Dates!Cumulated[k] + (IF k > 1 /\ Dates!Leap(z) THEN 1 ELSE 0)
  <2>1. Dates!Cumulated[k] \in Nat
    BY <1>1, DaysBeforeMonths
  <2> QED BY <1>3, <2>1 DEF FirstDayOf, Dates!MakeDay
<1>5. CASE k < 11
  <2>1. FirstDayOf(y, m + 1) = Dates!YearDay(z) + Dates!Cumulated[k + 1] + (IF k + 1 > 1 /\ Dates!Leap(z) THEN 1 ELSE 0)
    <3>1. k + 1 \in 0..11 /\ Dates!Cumulated[k + 1] \in Nat
      BY <1>1, <1>5, DaysBeforeMonths
    <3> QED BY <1>2, <1>3, <1>5, <3>1 DEF FirstDayOf, Dates!MakeDay
  <2>2. k \in 0..10 /\ Dates!Cumulated[k] \in Nat /\ Dates!Cumulated[k + 1] = Dates!Cumulated[k] + Dates!LengthOf(1, k)
    BY <1>1, <1>5, DaysBeforeMonths
  <2>3. ~Dates!Leap(1)
    BY DEF Dates!Leap
  <2> HIDE DEF z, k
  <2>4. Dates!LengthOf(z, k) = Dates!LengthOf(1, k) + (IF k = 1 /\ Dates!Leap(z) THEN 1 ELSE 0) /\ Dates!LengthOf(1, k) \in 28..31
        /\ (k # 1 => Dates!LengthOf(1, k) >= 30) /\ (k = 1 => Dates!LengthOf(1, k) = 28)
    BY <2>3 DEF Dates!LengthOf
  <2>5. DaysOf(y, m) = Dates!LengthOf(z, k) /\ Dates!LengthOf(z, k) \in 28..31
    <3>1. CASE Dates!Leap(z)
      BY <1>1, <1>3, <1>4, <2>1, <2>2, <2>4, <3>1 DEF DaysOf
    <3>2. CASE ~Dates!Leap(z)
      BY <1>1, <1>3, <1>4, <2>1, <2>2, <2>4, <3>2 DEF DaysOf
    <3> QED BY <3>1, <3>2
  <2>6. FirstDayOf(y, m) \in Nat
    BY <1>3, <1>4, <2>2
  <2> QED BY <1>1, <2>5, <2>6 DEF z, k
<1>6. CASE k = 11
  <2>1. FirstDayOf(y, m + 1) = Dates!YearDay(z + 1)
    BY <1>1, <1>2, <1>3, <1>6, DaysBeforeMonths DEF FirstDayOf, Dates!MakeDay
  <2>2. Dates!Cumulated[k] = 334 /\ Dates!LengthOf(z, k) = 31
    BY <1>6, DaysBeforeMonths DEF Dates!LengthOf
  <2> HIDE DEF z, k
  <2> QED BY <1>1, <1>3, <1>4, <1>6, <2>1, <2>2 DEF DaysOf, z, k
<1> QED  BY <1>1, <1>5, <1>6

\* A day is counted from the first of its month.
LEMMA InMonth ==
    ASSUME DateBounds, NEW y \in Nat, y >= FirstYear, NEW m \in Nat, NEW d \in Int
    PROVE  Dates!MakeDay(y, m, d) = FirstDayOf(y, m) + d - 1
<1>1. Dates!YearDay(y + m \div 12) \in Nat /\ m % 12 \in 0..11 /\ Dates!Cumulated[m % 12] \in Nat
  <2>1. y + m \div 12 \in Nat /\ y + m \div 12 >= FirstYear
    BY DEF DateBounds
  <2> QED BY <2>1, YearsBegin, DaysBeforeMonths
<1> QED  BY <1>1 DEF Dates!MakeDay, FirstDayOf

\* A month is counted from any year before.
LEMMA Carry ==
    ASSUME NEW y \in Nat, NEW m \in Nat, NEW d \in Int, NEW j \in Nat
    PROVE  Dates!MakeDay(y + m \div 12, (m % 12) + j, d) = Dates!MakeDay(y, m + j, d)
<1>1. /\ y + m \div 12 + ((m % 12) + j) \div 12 = y + (m + j) \div 12
      /\ ((m % 12) + j) % 12 = (m + j) % 12
  OBVIOUS
<1> QED  BY <1>1 DEF Dates!MakeDay

\* A year begins with its first month, and ends where the next begins.
LEMMA FirstMonth ==
    ASSUME DateBounds, NEW y \in Nat, y >= FirstYear
    PROVE  FirstDayOf(y, 0) = Dates!YearDay(y) /\ FirstDayOf(y, 12) = Dates!YearDay(y + 1)
<1>1. Dates!YearDay(y) \in Nat /\ Dates!YearDay(y + 1) \in Nat
  <2>1. y + 1 \in Nat /\ y + 1 >= FirstYear
    BY DEF DateBounds
  <2> QED BY <2>1, YearsBegin
<1>2. 0 \div 12 = 0 /\ 0 % 12 = 0 /\ 12 \div 12 = 1 /\ 12 % 12 = 0
  OBVIOUS
<1> QED  BY <1>1, <1>2, DaysBeforeMonths DEF FirstDayOf, Dates!MakeDay

-----------------------------------------------------------------------------
(* The fields of a day.                                                    *)

\* The months of a year follow each other.
LEMMA LaterMonths ==
    ASSUME DateBounds, NEW y \in Nat, y >= FirstYear
    PROVE  /\ FirstDayOf(y, 0) = Dates!YearDay(y) /\ FirstDayOf(y, 12) = Dates!YearDay(y + 1)
           /\ \A m \in 0..12 : FirstDayOf(y, m) \in Nat
           /\ \A m, k \in 0..12 : m < k => FirstDayOf(y, m) < FirstDayOf(y, k)
<1>1. FirstDayOf(y, 0) = Dates!YearDay(y) /\ FirstDayOf(y, 12) = Dates!YearDay(y + 1)
  BY FirstMonth
<1>2. \A m \in Nat : FirstDayOf(y, m) \in Nat /\ FirstDayOf(y, m) < FirstDayOf(y, m + 1)
  <2> SUFFICES ASSUME NEW m \in Nat PROVE FirstDayOf(y, m) \in Nat /\ FirstDayOf(y, m) < FirstDayOf(y, m + 1)
    OBVIOUS
  <2>0. m + 1 \in Nat
    OBVIOUS
  <2>1. FirstDayOf(y, m) \in Nat /\ FirstDayOf(y, m + 1) \in Nat
    BY <2>0, MonthLength
  <2>2. DaysOf(y, m) \in 28..31
    BY MonthLength
  <2> QED BY <2>1, <2>2 DEF DaysOf
<1>3. /\ FirstDayOf(y, 0) < FirstDayOf(y, 1) /\ FirstDayOf(y, 1) < FirstDayOf(y, 2) /\ FirstDayOf(y, 2) < FirstDayOf(y, 3)
      /\ FirstDayOf(y, 3) < FirstDayOf(y, 4) /\ FirstDayOf(y, 4) < FirstDayOf(y, 5) /\ FirstDayOf(y, 5) < FirstDayOf(y, 6)
      /\ FirstDayOf(y, 6) < FirstDayOf(y, 7) /\ FirstDayOf(y, 7) < FirstDayOf(y, 8) /\ FirstDayOf(y, 8) < FirstDayOf(y, 9)
      /\ FirstDayOf(y, 9) < FirstDayOf(y, 10) /\ FirstDayOf(y, 10) < FirstDayOf(y, 11) /\ FirstDayOf(y, 11) < FirstDayOf(y, 12)
  BY <1>2
<1>4. \A m \in 0..12 : m \in {0, 1, 2, 3, 4, 5, 6, 7, 8, 9, 10, 11, 12}
  OBVIOUS
<1>5. \A m \in 0..12 : FirstDayOf(y, m) \in Nat
  BY <1>2
<1>6. \A m, k \in 0..12 : m < k => FirstDayOf(y, m) < FirstDayOf(y, k)
  BY <1>3, <1>4, <1>5
<1> QED  BY <1>1, <1>5, <1>6

\* A day of a year is of one of its months.
LEMMA MonthOfDay ==
    ASSUME DateBounds, NEW y \in Nat, y >= FirstYear, NEW n \in Nat,
           Dates!YearDay(y) <= n, n < Dates!YearDay(y + 1)
    PROVE  /\ \E m \in 0..11 : FirstDayOf(y, m) <= n /\ n < FirstDayOf(y, m + 1)
           /\ \A m, k \in 0..11 :
                 FirstDayOf(y, m) <= n /\ n < FirstDayOf(y, m + 1) /\ FirstDayOf(y, k) <= n /\ n < FirstDayOf(y, k + 1) => m = k
<1>1. /\ FirstDayOf(y, 0) = Dates!YearDay(y) /\ FirstDayOf(y, 12) = Dates!YearDay(y + 1)
      /\ \A m \in 0..12 : FirstDayOf(y, m) \in Nat
      /\ \A m, k \in 0..12 : m < k => FirstDayOf(y, m) < FirstDayOf(y, k)
  BY LaterMonths
<1>2. PICK T : T = {m \in Nat : m <= 11 /\ n < FirstDayOf(y, m + 1)}
  OBVIOUS
<1>3. 11 \in T
  BY <1>1, <1>2
<1>4. PICK m \in T : \A j \in T : m <= j
  BY <1>2, <1>3, LeastOf
<1>5. m \in 0..11 /\ n < FirstDayOf(y, m + 1)
  BY <1>2, <1>4
<1>6. FirstDayOf(y, m) <= n
  <2>1. CASE m = 0
    BY <2>1, <1>1
  <2>2. CASE m > 0
    <3>1. m - 1 \in Nat /\ m - 1 \notin T /\ m - 1 <= 11 /\ (m - 1) + 1 = m
      BY <2>2, <1>4, <1>5
    <3>2. ~ (n < FirstDayOf(y, m))
      BY <3>1, <1>2
    <3>3. FirstDayOf(y, m) \in Nat
      BY <1>1, <1>5
    <3> QED BY <3>2, <3>3
  <2> QED BY <2>1, <2>2, <1>5
<1>7. ASSUME NEW j \in 0..11, NEW k \in 0..11, FirstDayOf(y, j) <= n, n < FirstDayOf(y, j + 1),
             FirstDayOf(y, k) <= n, n < FirstDayOf(y, k + 1), j < k
      PROVE  FALSE
  <2>1. j + 1 \in 0..12 /\ k \in 0..12 /\ (j + 1 < k \/ j + 1 = k)
    BY <1>7
  <2>2. FirstDayOf(y, j + 1) \in Nat /\ FirstDayOf(y, k) \in Nat /\ (j + 1 < k => FirstDayOf(y, j + 1) < FirstDayOf(y, k))
    BY <1>1, <2>1
  <2> QED BY <2>1, <2>2, <1>7
<1>8. \A j, k \in 0..11 :
        FirstDayOf(y, j) <= n /\ n < FirstDayOf(y, j + 1) /\ FirstDayOf(y, k) <= n /\ n < FirstDayOf(y, k + 1) => j = k
  BY <1>7
<1> QED  BY <1>5, <1>6, <1>8

\* The fields of a day are those it was made of, and a day is made of its fields.
LEMMA FieldsOfDay ==
    ASSUME DateBounds, NEW n \in Nat
    PROVE  /\ Dates!Fields(n) = [year |-> Dates!Fields(n).year, month |-> Dates!Fields(n).month, date |-> Dates!Fields(n).date]
           /\ Dates!Fields(n).year \in Nat /\ Dates!Fields(n).year >= FirstYear /\ Dates!Fields(n).month \in 0..11
           /\ n = Dates!MakeDay(Dates!Fields(n).year, Dates!Fields(n).month, Dates!Fields(n).date)
           /\ Dates!Fields(n).date \in 1..DaysOf(Dates!Fields(n).year, Dates!Fields(n).month)
           /\ Dates!YearDay(Dates!Fields(n).year) <= n /\ n < Dates!YearDay(Dates!Fields(n).year + 1)
<1> DEFINE y == CHOOSE x \in FirstYear..(FirstYear + n \div 365) : Dates!YearDay(x) <= n /\ n < Dates!YearDay(x + 1)
           m == CHOOSE x \in 0..11 : Dates!MakeDay(y, x, 1) <= n /\ n < Dates!MakeDay(y, x + 1, 1)
<1>1. Dates!Fields(n) = [year |-> y, month |-> m, date |-> n - Dates!MakeDay(y, m, 1) + 1]
  BY DEF Dates!Fields
<1>2. y \in FirstYear..(FirstYear + n \div 365) /\ Dates!YearDay(y) <= n /\ n < Dates!YearDay(y + 1)
  BY YearOfDay
<1>3. y \in Nat /\ y >= FirstYear
  BY <1>2 DEF DateBounds
<1>4. m \in 0..11 /\ FirstDayOf(y, m) <= n /\ n < FirstDayOf(y, m + 1)
  <2> HIDE DEF y
  <2>1. \E x \in 0..11 : FirstDayOf(y, x) <= n /\ n < FirstDayOf(y, x + 1)
    BY <1>2, <1>3, MonthOfDay
  <2> QED BY <2>1 DEF FirstDayOf
<1> HIDE DEF m, y
<1>5. FirstDayOf(y, m) \in Nat /\ FirstDayOf(y, m + 1) \in Nat
  <2>1. m \in Nat /\ m + 1 \in Nat
    BY <1>4
  <2> QED BY <1>3, <2>1, MonthLength
<1>6. n - FirstDayOf(y, m) + 1 \in 1..DaysOf(y, m)
  BY <1>4, <1>5 DEF DaysOf
<1>7. n = Dates!MakeDay(y, m, n - FirstDayOf(y, m) + 1)
  <2>1. n - FirstDayOf(y, m) + 1 \in Int /\ m \in Nat
    BY <1>4, <1>5
  <2>2. Dates!MakeDay(y, m, n - FirstDayOf(y, m) + 1) = FirstDayOf(y, m) + (n - FirstDayOf(y, m) + 1) - 1
    BY <1>3, <2>1, InMonth
  <2> QED BY <1>5, <2>2
<1> QED  BY <1>1, <1>2, <1>3, <1>4, <1>6, <1>7 DEF FirstDayOf

\* The fields of a day of a month, whatever the year the month is counted from.
LEMMA DayOfFields ==
    ASSUME DateBounds, NEW y \in Nat, y >= FirstYear, NEW m \in Nat, NEW d \in 1..DaysOf(y, m)
    PROVE  /\ Dates!MakeDay(y, m, d) \in Nat
           /\ Dates!Fields(Dates!MakeDay(y, m, d)) = [year |-> y + m \div 12, month |-> m % 12, date |-> d]
<1> DEFINE z == y + m \div 12  k == m % 12
<1>1. z \in Nat /\ z >= FirstYear /\ k \in 0..11 /\ FirstDayOf(y, m) \in Nat
  BY MonthLength
<1>2. DaysOf(y, m) \in 28..31
  BY MonthLength
<1>3. FirstDayOf(y, m + 1) \in Nat
  <2>1. m + 1 \in Nat
    OBVIOUS
  <2> QED BY <2>1, MonthLength
<1>4. FirstDayOf(z, k) = FirstDayOf(y, m) /\ FirstDayOf(z, k + 1) = FirstDayOf(y, m + 1)
  <2>1. k + 0 = k /\ m + 0 = m /\ 0 \in Nat /\ 1 \in Nat /\ 1 \in Int
    BY <1>1
  <2>2. Dates!MakeDay(z, k + 0, 1) = Dates!MakeDay(y, m + 0, 1)
    BY <2>1, Carry
  <2>3. Dates!MakeDay(z, k + 1, 1) = Dates!MakeDay(y, m + 1, 1)
    BY <2>1, Carry
  <2> QED BY <2>1, <2>2, <2>3 DEF FirstDayOf
<1> HIDE DEF z, k
<1>5. PICK n : n = Dates!MakeDay(y, m, d)
  OBVIOUS
<1>6. n = FirstDayOf(y, m) + d - 1 /\ d \in Nat /\ d >= 1
  <2>1. d \in Nat /\ d >= 1 /\ d \in Int
    BY <1>2
  <2>2. Dates!MakeDay(y, m, d) = FirstDayOf(y, m) + d - 1
    BY <2>1, InMonth
  <2> QED BY <1>5, <2>1, <2>2
<1>7. n \in Nat /\ FirstDayOf(z, k) <= n /\ n < FirstDayOf(z, k + 1)
  BY <1>1, <1>2, <1>3, <1>4, <1>6 DEF DaysOf
<1>8. Dates!YearDay(z) <= n /\ n < Dates!YearDay(z + 1)
  <2>1. /\ FirstDayOf(z, 0) = Dates!YearDay(z) /\ FirstDayOf(z, 12) = Dates!YearDay(z + 1)
        /\ \A i \in 0..12 : FirstDayOf(z, i) \in Nat
        /\ \A i, j \in 0..12 : i < j => FirstDayOf(z, i) < FirstDayOf(z, j)
    BY <1>1, LaterMonths
  <2>2. FirstDayOf(z, 0) <= FirstDayOf(z, k) /\ FirstDayOf(z, k + 1) <= FirstDayOf(z, 12)
    <3>1. FirstDayOf(z, 0) \in Nat /\ FirstDayOf(z, k) \in Nat /\ FirstDayOf(z, k + 1) \in Nat /\ FirstDayOf(z, 12) \in Nat
      BY <1>1, <2>1
    <3>2. (k = 0 \/ 0 < k) /\ (k + 1 = 12 \/ k + 1 < 12) /\ k \in 0..12 /\ k + 1 \in 0..12 /\ 0 \in 0..12 /\ 12 \in 0..12
      BY <1>1
    <3>3. (0 < k => FirstDayOf(z, 0) < FirstDayOf(z, k)) /\ (k + 1 < 12 => FirstDayOf(z, k + 1) < FirstDayOf(z, 12))
      BY <2>1, <3>2
    <3> QED BY <3>1, <3>2, <3>3
  <2>3. FirstDayOf(z, 0) \in Nat /\ FirstDayOf(z, k) \in Nat /\ FirstDayOf(z, k + 1) \in Nat /\ FirstDayOf(z, 12) \in Nat
    BY <1>1, <2>1
  <2> QED BY <1>7, <2>1, <2>2, <2>3
<1>9. z \in FirstYear..(FirstYear + n \div 365)
  <2>1. Dates!YearDay(z) \in Nat /\ Dates!YearDay(z) >= 365 * (z - FirstYear)
    BY <1>1, YearsBegin
  <2>2. 365 * (z - FirstYear) <= n
    BY <1>1, <1>7, <1>8, <2>1 DEF DateBounds
  <2> QED BY <1>1, <1>7, <2>2 DEF DateBounds
<1> DEFINE yy == CHOOSE x \in FirstYear..(FirstYear + n \div 365) : Dates!YearDay(x) <= n /\ n < Dates!YearDay(x + 1)
           mm == CHOOSE x \in 0..11 : Dates!MakeDay(yy, x, 1) <= n /\ n < Dates!MakeDay(yy, x + 1, 1)
<1>10. Dates!Fields(n) = [year |-> yy, month |-> mm, date |-> n - Dates!MakeDay(yy, mm, 1) + 1]
  BY DEF Dates!Fields
<1>11. yy = z
  BY <1>7, <1>8, <1>9, YearOfDay
<1>12. \A j, i \in 0..11 :
         FirstDayOf(z, j) <= n /\ n < FirstDayOf(z, j + 1) /\ FirstDayOf(z, i) <= n /\ n < FirstDayOf(z, i + 1) => j = i
  BY <1>1, <1>7, <1>8, MonthOfDay
<1>13. mm = k
  <2>1. mm = CHOOSE x \in 0..11 : FirstDayOf(z, x) <= n /\ n < FirstDayOf(z, x + 1)
    BY <1>11 DEF FirstDayOf
  <2> HIDE DEF yy, mm
  <2> QED BY <1>1, <1>7, <1>12, <2>1
<1> HIDE DEF yy, mm
<1>14. n - Dates!MakeDay(yy, mm, 1) + 1 = d
  BY <1>1, <1>4, <1>6, <1>11, <1>13 DEF FirstDayOf
<1> QED  BY <1>5, <1>7, <1>10, <1>11, <1>13, <1>14 DEF z, k

\* A month or a year later it is the same day, if there is such a day, and else one of
\* the next month.
LEMMA PeriodLater ==
    ASSUME DateBounds, NEW y \in Nat, y >= FirstYear, NEW m \in Nat, NEW d \in 1..DaysOf(y, m)
    PROVE  /\ Dates!addBillingPeriod(Dates!MakeDay(y, m, d), "monthly") = Dates!MakeDay(y, m + 1, d)
           /\ Dates!addBillingPeriod(Dates!MakeDay(y, m, d), "yearly") = Dates!MakeDay(y, m + 12, d)
<1>1. Dates!Fields(Dates!MakeDay(y, m, d)) = [year |-> y + m \div 12, month |-> m % 12, date |-> d]
  BY DayOfFields
<1>2. d \in Int /\ 1 \in Nat
  <2>1. DaysOf(y, m) \in 28..31
    BY MonthLength
  <2> QED BY <2>1
<1>3. Dates!MakeDay(y + m \div 12, (m % 12) + 1, d) = Dates!MakeDay(y, m + 1, d)
  BY <1>2, Carry
<1>4. Dates!MakeDay((y + m \div 12) + 1, m % 12, d) = Dates!MakeDay(y, m + 12, d)
  <2>1. /\ ((y + m \div 12) + 1) + (m % 12) \div 12 = y + (m + 12) \div 12
        /\ (m % 12) % 12 = (m + 12) % 12
    OBVIOUS
  <2> QED BY <2>1 DEF Dates!MakeDay
<1> QED  BY <1>1, <1>3, <1>4 DEF Dates!addBillingPeriod

\* A day past the end of a month is one of the next.
LEMMA RunsOver ==
    ASSUME DateBounds, NEW y \in Nat, y >= FirstYear, NEW m \in Nat, NEW d \in Int
    PROVE  Dates!MakeDay(y, m, d) = Dates!MakeDay(y, m + 1, d - DaysOf(y, m))
<1>1. m + 1 \in Nat
  OBVIOUS
<1>2. FirstDayOf(y, m) \in Nat /\ FirstDayOf(y, m + 1) \in Nat
  BY <1>1, MonthLength
<1>3. d - DaysOf(y, m) \in Int
  BY <1>2 DEF DaysOf
<1>4. Dates!MakeDay(y, m, d) = FirstDayOf(y, m) + d - 1
  BY InMonth
<1>5. Dates!MakeDay(y, m + 1, d - DaysOf(y, m)) = FirstDayOf(y, m + 1) + (d - DaysOf(y, m)) - 1
  BY <1>1, <1>3, InMonth
<1> QED  BY <1>2, <1>4, <1>5 DEF DaysOf

\* After n months: on the day on which the subscription began, or at the start of the
\* next month, as far as the day lies behind the 28th.
MonthsLater(n, p) ==
    LET f == Dates!Fields(today) IN
    \/ f.date <= DaysOf(f.year, f.month + n) /\ p = Dates!MakeDay(f.year, f.month + n, f.date)
    \/ \E e \in 1..3 : e + 28 <= f.date /\ p = Dates!MakeDay(f.year, f.month + n + 1, e)

\* After n years: on that day, or on the first of March.
YearsLater(n, p) ==
    LET f == Dates!Fields(today) IN
    IF f.month = 1 /\ f.date = 29
    THEN p = Dates!MakeDay(f.year, f.month + 12 * n + 1, 1)
    ELSE f.date <= DaysOf(f.year, f.month + 12 * n) /\ p = Dates!MakeDay(f.year, f.month + 12 * n, f.date)

DatesInv ==
    /\ today \in 0..(Dates!YearDay(LastYear + 1) - 1) /\ cycle \in {"none", "monthly", "yearly"}
    /\ renewals \in 0..MaxRenewals
    /\ cycle = "none" => end = 0 /\ renewals = 0
    /\ cycle = "monthly" => MonthsLater(renewals + 1, end)
    /\ cycle = "yearly" => YearsLater(renewals + 1, end)

\* A period more.
LEMMA MonthMore ==
    ASSUME DateBounds, today \in Nat, NEW n \in Nat, NEW p,
           MonthsLater(n, p) \/ (n = 0 /\ p = today)
    PROVE  MonthsLater(n + 1, Dates!addBillingPeriod(p, "monthly"))
<1> DEFINE f == Dates!Fields(today)
<1>1. /\ f.year \in Nat /\ f.year >= FirstYear /\ f.month \in 0..11 /\ f.month \in Nat
      /\ today = Dates!MakeDay(f.year, f.month, f.date) /\ f.date \in 1..DaysOf(f.year, f.month)
  BY FieldsOfDay
<1>2. PICK q : q = Dates!addBillingPeriod(p, "monthly")
  OBVIOUS
<1>3. DaysOf(f.year, f.month) \in 28..31
  BY <1>1, MonthLength
<1>4. f.date \in 1..31
  BY <1>1, <1>3
<1> HIDE DEF f
<1>5. PICK m \in Nat : m = f.month + n
  BY <1>1
<1>6. m + 1 \in Nat /\ m + 1 = f.month + (n + 1) /\ m + 2 = f.month + (n + 1) + 1 /\ (m + 1) + 1 = m + 2
  BY <1>1, <1>5
<1>7. DaysOf(f.year, m) \in 28..31 /\ DaysOf(f.year, m + 1) \in 28..31
  <2>1. f.year \in Nat /\ f.year >= FirstYear
    BY <1>1
  <2> DEFINE y == f.year
  <2>2. y \in Nat /\ y >= FirstYear
    BY <2>1
  <2> HIDE DEF y
  <2>3. ASSUME NEW k \in Nat PROVE DaysOf(y, k) \in 28..31
    BY <2>2, MonthLength
  <2>4. DaysOf(y, m) \in 28..31 /\ DaysOf(y, m + 1) \in 28..31
    BY <2>3, <1>6
  <2> QED BY <2>4 DEF y
<1>8. SUFFICES \/ f.date <= DaysOf(f.year, m + 1) /\ q = Dates!MakeDay(f.year, m + 1, f.date)
               \/ \E e \in 1..3 : e + 28 <= f.date /\ q = Dates!MakeDay(f.year, m + 2, e)
  BY <1>2, <1>6 DEF MonthsLater, f
<1>9. CASE f.date <= DaysOf(f.year, m) /\ p = Dates!MakeDay(f.year, m, f.date)
  <2>0. f.date \in Int /\ 1 <= f.date /\ DaysOf(f.year, m) \in Int
    BY <1>4, <1>7
  <2>1. f.date \in 1..DaysOf(f.year, m) /\ f.date \in Int
    BY <2>0, <1>9
  <2>2. q = Dates!MakeDay(f.year, m + 1, f.date)
    BY <1>1, <1>9, <2>1, <1>2, PeriodLater
  <2>3. CASE f.date <= DaysOf(f.year, m + 1)
    BY <2>2, <2>3
  <2>4. CASE ~(f.date <= DaysOf(f.year, m + 1))
    <3>1. f.date - DaysOf(f.year, m + 1) \in 1..3 /\ f.date - DaysOf(f.year, m + 1) + 28 <= f.date
      BY <1>4, <1>7, <2>4
    <3>2. q = Dates!MakeDay(f.year, m + 2, f.date - DaysOf(f.year, m + 1))
      BY <1>1, <1>6, <2>1, <2>2, RunsOver
    <3> QED BY <3>1, <3>2
  <2> QED BY <2>3, <2>4
<1>10. ASSUME NEW e \in 1..3, e + 28 <= f.date, p = Dates!MakeDay(f.year, m + 1, e)
       PROVE  q = Dates!MakeDay(f.year, m + 2, e)
  <2>1. e \in 1..DaysOf(f.year, m + 1)
    BY <1>7
  <2> QED BY <1>1, <1>6, <1>10, <2>1, <1>2, PeriodLater
<1>11. CASE n = 0 /\ p = today
  <2>1. m = f.month
    BY <1>1, <1>5, <1>11
  <2> QED BY <1>1, <1>3, <1>4, <1>9, <1>11, <2>1
<1>12. CASE MonthsLater(n, p)
  BY <1>5, <1>6, <1>9, <1>10, <1>12 DEF MonthsLater, f
<1> QED  BY <1>11, <1>12

\* Of a month that is not February, or that has no 29th in the one year and has it in another.
LEMMA SameMonth ==
    ASSUME DateBounds, NEW y \in Nat, y >= FirstYear, NEW m \in 0..11, NEW n \in Nat
    PROVE  /\ m + 12 * n \in Nat
           /\ m # 1 => DaysOf(y, m + 12 * n) = DaysOf(y, m)
           /\ m = 1 => DaysOf(y, m + 12 * n) = IF Dates!Leap(y + n) THEN 29 ELSE 28
<1>1. m + 12 * n \in Nat /\ m \in Nat
  OBVIOUS
<1>2. (m + 12 * n) \div 12 = n /\ (m + 12 * n) % 12 = m /\ m \div 12 = 0 /\ m % 12 = m
  OBVIOUS
<1>3. DaysOf(y, m + 12 * n) = Dates!LengthOf(y + n, m)
  BY <1>1, <1>2, MonthLength
<1>4. DaysOf(y, m) = Dates!LengthOf(y, m)
  <2>1. y + m \div 12 = y
    BY <1>2
  <2>2. DaysOf(y, m) = Dates!LengthOf(y + m \div 12, m % 12)
    BY <1>1, MonthLength
  <2> QED BY <1>2, <2>1, <2>2
<1>5. m # 1 => Dates!LengthOf(y + n, m) = Dates!LengthOf(y, m)
  BY DEF Dates!LengthOf
<1>6. m = 1 => Dates!LengthOf(y + n, m) = IF Dates!Leap(y + n) THEN 29 ELSE 28
  BY DEF Dates!LengthOf
<1> QED  BY <1>1, <1>3, <1>4, <1>5, <1>6

\* A year more.
LEMMA YearMore ==
    ASSUME DateBounds, today \in Nat, NEW n \in Nat, NEW p,
           (n > 0 /\ YearsLater(n, p)) \/ (n = 0 /\ p = today)
    PROVE  YearsLater(n + 1, Dates!addBillingPeriod(p, "yearly"))
<1> DEFINE f == Dates!Fields(today)
<1>1. /\ f.year \in Nat /\ f.year >= FirstYear /\ f.month \in 0..11 /\ f.month \in Nat
      /\ today = Dates!MakeDay(f.year, f.month, f.date) /\ f.date \in 1..DaysOf(f.year, f.month)
  BY FieldsOfDay
<1>2. PICK q : q = Dates!addBillingPeriod(p, "yearly")
  OBVIOUS
<1> HIDE DEF f
<1>3. PICK m \in Nat : m = f.month + 12 * n
  BY <1>1, SameMonth
<1>4. /\ m + 1 \in Nat /\ m + 12 \in Nat /\ m + 12 = f.month + 12 * (n + 1)
      /\ (m + 1) + 12 = f.month + 12 * (n + 1) + 1 /\ (m + 12) + 1 = (m + 1) + 12 /\ n + 1 \in Nat
  BY <1>1, <1>3
<1>5. DaysOf(f.year, m) \in 28..31 /\ DaysOf(f.year, m + 1) \in 28..31 /\ DaysOf(f.year, m + 12) \in 28..31
  <2>1. \A k \in Nat : DaysOf(f.year, k) \in 28..31
    BY <1>1, MonthLength
  <2> QED BY <1>4, <2>1
<1>6. n = 0 => m = f.month
  BY <1>1, <1>3
<1>7. f.date \in 1..31
  <2>1. DaysOf(f.year, f.month) \in 28..31
    BY <1>1, MonthLength
  <2> QED BY <1>1, <2>1
<1>8. SUFFICES IF f.month = 1 /\ f.date = 29
               THEN q = Dates!MakeDay(f.year, (m + 1) + 12, 1)
               ELSE f.date <= DaysOf(f.year, m + 12) /\ q = Dates!MakeDay(f.year, m + 12, f.date)
  BY <1>2, <1>4 DEF YearsLater, f
<1>9. ASSUME f.date <= DaysOf(f.year, m), p = Dates!MakeDay(f.year, m, f.date)
      PROVE  q = Dates!MakeDay(f.year, m + 12, f.date)
  <2>1. f.date \in 1..DaysOf(f.year, m)
    BY <1>5, <1>7, <1>9
  <2> QED BY <1>1, <1>9, <2>1, <1>2, PeriodLater
<1>10. CASE f.month = 1 /\ f.date = 29 /\ n = 0
  <2>1. q = Dates!MakeDay(f.year, m + 12, 29)
    BY <1>1, <1>6, <1>9, <1>10
  <2>2. DaysOf(f.year, f.month + 12 * 0) = (IF Dates!Leap(f.year + 0) THEN 29 ELSE 28)
    BY <1>1, <1>10, SameMonth
  <2>3. f.month + 12 * 0 = f.month /\ f.year + 0 = f.year
    BY <1>1
  <2>4. Dates!Leap(f.year)
    BY <1>1, <1>10, <2>2, <2>3
  <2>5. ~Dates!Leap(f.year + 1)
    BY <1>1, <2>4 DEF Dates!Leap
  <2>6. DaysOf(f.year, m + 12) = 28
    <3>1. 1 \in Nat /\ m + 12 = f.month + 12 * 1
      BY <1>1, <1>3, <1>10
    <3> QED BY <1>1, <1>10, <2>5, <3>1, SameMonth
  <2>7. Dates!MakeDay(f.year, m + 12, 29) = Dates!MakeDay(f.year, (m + 12) + 1, 29 - 28)
    BY <1>1, <1>4, <2>6, RunsOver
  <2> QED BY <1>4, <1>10, <2>1, <2>7
<1>11. CASE f.month = 1 /\ f.date = 29 /\ n > 0
  <2>1. p = Dates!MakeDay(f.year, m + 1, 1)
    BY <1>3, <1>11 DEF YearsLater, f
  <2>2. 1 \in 1..DaysOf(f.year, m + 1)
    BY <1>5
  <2> QED BY <1>1, <1>4, <1>11, <2>1, <2>2, <1>2, PeriodLater
<1>12. CASE ~(f.month = 1 /\ f.date = 29)
  <2>1. f.date <= DaysOf(f.year, m) /\ p = Dates!MakeDay(f.year, m, f.date)
    BY <1>1, <1>3, <1>6, <1>12 DEF YearsLater, f
  <2>2. DaysOf(f.year, m + 12) = DaysOf(f.year, f.month) \/ f.month = 1
    <3>1. \A k \in Nat : f.month # 1 => DaysOf(f.year, f.month + 12 * k) = DaysOf(f.year, f.month)
      BY <1>1, SameMonth
    <3>2. f.month # 1 => DaysOf(f.year, f.month + 12 * (n + 1)) = DaysOf(f.year, f.month)
      BY <1>4, <3>1
    <3> QED BY <1>4, <3>2
  <2>3. f.month = 1 => f.date <= 28
    <3>1. f.month = 1 => DaysOf(f.year, f.month) <= 29
      <4>1. f.month = 1 => DaysOf(f.year, f.month + 12 * 0) = (IF Dates!Leap(f.year + 0) THEN 29 ELSE 28)
        <5>1. 0 \in Nat
          OBVIOUS
        <5> QED BY <1>1, <5>1, SameMonth
      <4>2. f.month + 12 * 0 = f.month
        BY <1>1
      <4> QED BY <4>1, <4>2
    <3>2. DaysOf(f.year, f.month) \in 28..31
      BY <1>1, MonthLength
    <3> QED BY <1>1, <1>7, <1>12, <3>1, <3>2
  <2>4. f.date <= DaysOf(f.year, m + 12)
    BY <1>1, <1>5, <1>7, <2>2, <2>3
  <2> QED BY <1>9, <1>12, <2>1, <2>4
<1> QED  BY <1>7, <1>10, <1>11, <1>12

\* Nothing was paid yet.
LEMMA DatesBegin == ASSUME DateBounds, Dates!Init PROVE DatesInv
  BY DEF Dates!Init, DatesInv, DateBounds

\* Every step keeps the invariant.
LEMMA DatesKeep == ASSUME DateBounds, DatesInv, [Dates!Next]_Dates!vars PROVE DatesInv'
<1>1. today \in Nat
  BY DEF DatesInv
<1>2. CASE UNCHANGED Dates!vars
  BY <1>2 DEF Dates!vars, DatesInv, MonthsLater, YearsLater
<1>3. ASSUME NEW n \in Nat, today' = today, cycle' \in {"monthly", "yearly"}, renewals' \in 0..MaxRenewals,
             renewals' = n, NEW p, end' = Dates!addBillingPeriod(p, cycle'),
             \/ n = 0 /\ p = today
             \/ n > 0 /\ IF cycle' = "monthly" THEN MonthsLater(n, p) ELSE YearsLater(n, p)
      PROVE  DatesInv'
  <2>1. CASE cycle' = "monthly"
    <3>1. MonthsLater(n + 1, Dates!addBillingPeriod(p, "monthly"))
      BY <1>1, <1>3, <2>1, MonthMore
    <3>2. MonthsLater(renewals + 1, end)'
      BY <1>3, <2>1, <3>1 DEF MonthsLater
    <3> QED BY <1>3, <2>1, <3>2 DEF DatesInv
  <2>2. CASE cycle' = "yearly"
    <3>1. YearsLater(n + 1, Dates!addBillingPeriod(p, "yearly"))
      BY <1>1, <1>3, <2>2, YearMore
    <3>2. YearsLater(renewals + 1, end)'
      BY <1>3, <2>2, <3>1 DEF YearsLater
    <3> QED BY <1>3, <2>2, <3>2 DEF DatesInv
  <2> QED BY <1>3, <2>1, <2>2
<1>4. ASSUME NEW c \in {"monthly", "yearly"}, Dates!Subscribe(c) PROVE DatesInv'
  BY <1>3, <1>4 DEF Dates!Subscribe, DatesInv
<1>5. CASE Dates!Renew
  <2>1. /\ today' = today /\ cycle' = cycle /\ renewals' = renewals + 1 /\ renewals' \in 0..MaxRenewals
        /\ renewals \in Nat /\ end' = Dates!addBillingPeriod(end, cycle') /\ cycle \in {"monthly", "yearly"}
    BY <1>5 DEF Dates!Renew, DatesInv, DateBounds
  <2>2. renewals + 1 \in Nat /\ renewals + 1 > 0
    BY <2>1
  <2>3. IF cycle' = "monthly" THEN MonthsLater(renewals + 1, end) ELSE YearsLater(renewals + 1, end)
    BY <2>1 DEF DatesInv
  <2> QED BY <1>3, <2>1, <2>2, <2>3
<1> QED  BY <1>2, <1>4, <1>5 DEF Dates!Next

-----------------------------------------------------------------------------
(* What is to be shown follows from the invariant.                         *)

\* The year of a day is before that of a later one.
LEMMA DayBound ==
    ASSUME DateBounds, NEW y \in Nat, y >= FirstYear, NEW m \in Nat, NEW d \in 1..DaysOf(y, m),
           NEW k \in Nat, m < 12 * k
    PROVE  Dates!MakeDay(y, m, d) \in 0..Dates!YearDay(y + k)
<1>1. Dates!MakeDay(y, m, d) \in Nat /\ Dates!Fields(Dates!MakeDay(y, m, d)).year = y + m \div 12
  BY DayOfFields
<1>2. Dates!MakeDay(y, m, d) < Dates!YearDay((y + m \div 12) + 1)
  BY <1>1, FieldsOfDay
<1>3. (y + m \div 12) + 1 \in Nat /\ (y + m \div 12) + 1 <= y + k /\ y + k \in Nat
      /\ FirstYear <= (y + m \div 12) + 1
  BY DEF DateBounds
<1>4. Dates!YearDay((y + m \div 12) + 1) <= Dates!YearDay(y + k)
  BY <1>3, LaterYears
<1>5. Dates!YearDay((y + m \div 12) + 1) \in Nat /\ Dates!YearDay(y + k) \in Nat
  BY <1>3, YearsBegin DEF DateBounds
<1> QED  BY <1>1, <1>2, <1>4, <1>5

\* The first day, and its month.
LEMMA FirstDay ==
    ASSUME DateBounds, DatesInv
    PROVE  LET f == Dates!Fields(today) IN
           /\ today \in Nat /\ f.year \in Nat /\ f.year >= FirstYear /\ f.year <= LastYear
           /\ f.month \in 0..11 /\ f.month \in Nat
           /\ today = Dates!MakeDay(f.year, f.month, f.date)
           /\ f.date \in 1..DaysOf(f.year, f.month) /\ f.date \in 1..31
<1> DEFINE f == Dates!Fields(today)
<1>1. today \in Nat
  BY DEF DatesInv
<1>2. /\ f.year \in Nat /\ f.year >= FirstYear /\ f.month \in 0..11 /\ f.month \in Nat
      /\ today = Dates!MakeDay(f.year, f.month, f.date)
      /\ f.date \in 1..DaysOf(f.year, f.month)
      /\ Dates!YearDay(f.year) <= today /\ today < Dates!YearDay(f.year + 1)
  BY <1>1, FieldsOfDay
<1> HIDE DEF f
<1>3. DaysOf(f.year, f.month) \in 28..31
  BY <1>2, MonthLength
<1>4. f.year <= LastYear
  <2>1. SUFFICES ASSUME LastYear + 1 <= f.year PROVE FALSE
    BY <1>2 DEF DateBounds
  <2>2. LastYear + 1 \in Nat /\ FirstYear <= LastYear + 1
    BY DEF DateBounds
  <2>3. Dates!YearDay(LastYear + 1) <= Dates!YearDay(f.year)
    BY <1>2, <2>1, <2>2, LaterYears
  <2>4. Dates!YearDay(LastYear + 1) \in Nat /\ Dates!YearDay(f.year) \in Nat
    BY <1>2, <2>2, YearsBegin
  <2> QED BY <1>1, <1>2, <2>3, <2>4 DEF DatesInv
<1> QED  BY <1>1, <1>2, <1>3, <1>4 DEF f

\* Where the periods end.
LEMMA EndOfMonths ==
    ASSUME DateBounds, DatesInv, cycle = "monthly"
    PROVE  LET n == renewals + 1
               f == Dates!Fields(today)
               first(k) == FirstDayOf(f.year, f.month + k)
               due(k) == IF first(k) + f.date - 1 < first(k + 1) THEN first(k) + f.date - 1
                                                                 ELSE first(k + 1) - 1
           IN  /\ end \in Nat /\ end - due(n) \in 0..3
               /\ f.date <= 28 => end = due(n)
               /\ Dates!Fields(end).date \in {f.date, 1, 2, 3}
               /\ end \in 0..Dates!YearDay(f.year + MaxRenewals + 3)
<1> DEFINE f == Dates!Fields(today)
<1>1. /\ f.year \in Nat /\ f.year >= FirstYear /\ f.month \in 0..11 /\ f.date \in 1..31
  BY FirstDay
<1>2. renewals \in Nat /\ renewals <= MaxRenewals /\ MaxRenewals \in Nat /\ MonthsLater(renewals + 1, end)
  BY DEF DatesInv, DateBounds
<1>3. PICK m : m = f.month + (renewals + 1)
  OBVIOUS
<1>4. \/ f.date <= DaysOf(f.year, m) /\ end = Dates!MakeDay(f.year, m, f.date)
      \/ \E e \in 1..3 : e + 28 <= f.date /\ end = Dates!MakeDay(f.year, m + 1, e)
  <2>1. f.month + (renewals + 1) + 1 = m + 1
    BY <1>3
  <2> QED BY <1>2, <1>3, <2>1 DEF MonthsLater
<1>5. PICK k : k = MaxRenewals + 3
  OBVIOUS
<1> HIDE DEF f
<1>6. m \in Nat /\ m + 1 \in Nat /\ f.month + ((renewals + 1) + 1) = m + 1 /\ m + 1 < 12 * k /\ m < 12 * k /\ k \in Nat
      /\ f.year + MaxRenewals + 3 = f.year + k
  BY <1>1, <1>2, <1>3, <1>5
<1>7. PICK a, b : a = FirstDayOf(f.year, m) /\ b = FirstDayOf(f.year, m + 1)
  OBVIOUS
<1>8. a \in Nat /\ b \in Nat /\ b - a = DaysOf(f.year, m) /\ DaysOf(f.year, m) \in 28..31 /\ DaysOf(f.year, m + 1) \in 28..31
  <2>1. \A i \in Nat : FirstDayOf(f.year, i) \in Nat /\ DaysOf(f.year, i) \in 28..31
    BY <1>1, MonthLength
  <2> QED BY <1>6, <1>7, <2>1 DEF DaysOf
<1>9. SUFFICES /\ end \in Nat /\ end - (IF a + f.date - 1 < b THEN a + f.date - 1 ELSE b - 1) \in 0..3
               /\ f.date <= 28 => end = (IF a + f.date - 1 < b THEN a + f.date - 1 ELSE b - 1)
               /\ Dates!Fields(end).date \in {f.date, 1, 2, 3}
               /\ end \in 0..Dates!YearDay(f.year + k)
  BY <1>3, <1>6, <1>7 DEF f
<1>10. CASE f.date <= DaysOf(f.year, m) /\ end = Dates!MakeDay(f.year, m, f.date)
  <2>1. f.date \in 1..DaysOf(f.year, m) /\ f.date \in Int
    BY <1>1, <1>8, <1>10
  <2>2. end = a + f.date - 1
    BY <1>1, <1>6, <1>7, <1>10, <2>1, InMonth
  <2>3. end \in 0..Dates!YearDay(f.year + k)
    BY <1>1, <1>6, <1>10, <2>1, DayBound
  <2>4. Dates!Fields(end).date = f.date
    BY <1>1, <1>6, <1>10, <2>1, DayOfFields
  <2>5. a + f.date - 1 < b
    BY <1>8, <2>1, <1>10, <1>1
  <2> QED BY <1>1, <1>8, <2>2, <2>3, <2>4, <2>5
<1>11. ASSUME NEW e \in 1..3, e + 28 <= f.date, end = Dates!MakeDay(f.year, m + 1, e)
       PROVE  /\ end \in Nat /\ end - (IF a + f.date - 1 < b THEN a + f.date - 1 ELSE b - 1) \in 0..3
              /\ f.date <= 28 => end = (IF a + f.date - 1 < b THEN a + f.date - 1 ELSE b - 1)
              /\ Dates!Fields(end).date \in {f.date, 1, 2, 3}
              /\ end \in 0..Dates!YearDay(f.year + k)
  <2>1. e \in 1..DaysOf(f.year, m + 1) /\ e \in Int
    BY <1>8
  <2>2. end = b + e - 1
    BY <1>1, <1>6, <1>7, <1>11, <2>1, InMonth
  <2>3. end \in 0..Dates!YearDay(f.year + k)
    BY <1>1, <1>6, <1>11, <2>1, DayBound
  <2>4. Dates!Fields(end).date = e
    BY <1>1, <1>6, <1>11, <2>1, DayOfFields
  <2> QED BY <1>1, <1>8, <1>11, <2>2, <2>3, <2>4
<1> QED  BY <1>4, <1>10, <1>11

\* The end of n years lies on the day that is due, or one behind it.
LEMMA EndOfYears ==
    ASSUME DateBounds, DatesInv, cycle = "yearly"
    PROVE  LET n == renewals + 1
               f == Dates!Fields(today)
               first(k) == FirstDayOf(f.year, f.month + k)
               due(k) == IF first(k) + f.date - 1 < first(k + 1) THEN first(k) + f.date - 1
                                                                 ELSE first(k + 1) - 1
           IN  /\ end \in Nat
               /\ end - due(12 * n) \in (IF f.month = 1 /\ f.date = 29 THEN {0, 1} ELSE {0})
               /\ end \in 0..Dates!YearDay(f.year + MaxRenewals + 3)
<1> DEFINE f == Dates!Fields(today)
<1>1. /\ f.year \in Nat /\ f.year >= FirstYear /\ f.month \in 0..11 /\ f.date \in 1..31
  BY FirstDay
<1>2. renewals \in Nat /\ renewals <= MaxRenewals /\ MaxRenewals \in Nat /\ YearsLater(renewals + 1, end)
  BY DEF DatesInv, DateBounds
<1>3. PICK m : m = f.month + 12 * (renewals + 1)
  OBVIOUS
<1>4. IF f.month = 1 /\ f.date = 29
      THEN end = Dates!MakeDay(f.year, m + 1, 1)
      ELSE f.date <= DaysOf(f.year, m) /\ end = Dates!MakeDay(f.year, m, f.date)
  <2>1. f.month + 12 * (renewals + 1) + 1 = m + 1
    BY <1>3
  <2> QED BY <1>2, <1>3, <2>1 DEF YearsLater
<1>5. PICK k : k = MaxRenewals + 3
  OBVIOUS
<1> HIDE DEF f
<1>6. m \in Nat /\ m + 1 \in Nat /\ f.month + (12 * (renewals + 1) + 1) = m + 1 /\ m + 1 < 12 * k /\ m < 12 * k /\ k \in Nat
      /\ f.year + MaxRenewals + 3 = f.year + k
  BY <1>1, <1>2, <1>3, <1>5
<1>7. PICK a, b : a = FirstDayOf(f.year, m) /\ b = FirstDayOf(f.year, m + 1)
  OBVIOUS
<1>8. a \in Nat /\ b \in Nat /\ b - a = DaysOf(f.year, m) /\ DaysOf(f.year, m) \in 28..31 /\ DaysOf(f.year, m + 1) \in 28..31
  <2>1. \A i \in Nat : FirstDayOf(f.year, i) \in Nat /\ DaysOf(f.year, i) \in 28..31
    BY <1>1, MonthLength
  <2> QED BY <1>6, <1>7, <2>1 DEF DaysOf
<1>9. SUFFICES /\ end \in Nat
               /\ end - (IF a + f.date - 1 < b THEN a + f.date - 1 ELSE b - 1)
                    \in (IF f.month = 1 /\ f.date = 29 THEN {0, 1} ELSE {0})
               /\ end \in 0..Dates!YearDay(f.year + k)
  BY <1>3, <1>6, <1>7 DEF f
<1>10. CASE ~(f.month = 1 /\ f.date = 29)
  <2>1. f.date \in 1..DaysOf(f.year, m) /\ f.date \in Int /\ end = Dates!MakeDay(f.year, m, f.date)
    BY <1>1, <1>4, <1>8, <1>10
  <2>2. end = a + f.date - 1
    BY <1>1, <1>6, <1>7, <2>1, InMonth
  <2>3. end \in 0..Dates!YearDay(f.year + k)
    BY <1>1, <1>6, <2>1, DayBound
  <2>4. a + f.date - 1 < b
    BY <1>8, <2>1, <1>1
  <2> QED BY <1>1, <1>8, <1>10, <2>2, <2>3, <2>4
<1>11. CASE f.month = 1 /\ f.date = 29
  <2>1. 1 \in 1..DaysOf(f.year, m + 1) /\ 1 \in Int /\ end = Dates!MakeDay(f.year, m + 1, 1)
    BY <1>4, <1>8, <1>11
  <2>2. end = b + 1 - 1
    BY <1>1, <1>6, <1>7, <2>1, InMonth
  <2>3. end \in 0..Dates!YearDay(f.year + k)
    BY <1>1, <1>6, <2>1, DayBound
  <2>4. b - a \in {28, 29}
    <3>1. \A i \in Nat : DaysOf(f.year, f.month + 12 * i) \in {28, 29}
      BY <1>1, <1>11, SameMonth
    <3>2. renewals + 1 \in Nat
      BY <1>2
    <3>3. DaysOf(f.year, f.month + 12 * (renewals + 1)) \in {28, 29}
      BY <3>1, <3>2
    <3>4. f.month + 12 * (renewals + 1) = m
      BY <1>6, <1>1, <3>2
    <3> QED BY <1>8, <3>3, <3>4
  <2>5. end - (IF a + f.date - 1 < b THEN a + f.date - 1 ELSE b - 1) = 1
    BY <1>8, <1>11, <2>2, <2>4
  <2> QED BY <1>8, <1>11, <2>2, <2>3, <2>5
<1> QED  BY <1>10, <1>11

\* The grace period is as many days.
LEMMA GraceIsDays ==
    ASSUME DateBounds, NEW n \in Nat
    PROVE  Dates!computeGraceEnd(n) = n + GRACE_DAYS
<1> DEFINE f == Dates!Fields(n)
<1>1. /\ f.year \in Nat /\ f.year >= FirstYear /\ f.month \in 0..11 /\ f.month \in Nat
      /\ n = Dates!MakeDay(f.year, f.month, f.date) /\ f.date \in 1..DaysOf(f.year, f.month)
  BY FieldsOfDay
<1>2. Dates!computeGraceEnd(n) = Dates!MakeDay(f.year, f.month, f.date + GRACE_DAYS)
  BY DEF Dates!computeGraceEnd
<1> HIDE DEF f
<1>3. DaysOf(f.year, f.month) \in 28..31 /\ FirstDayOf(f.year, f.month) \in Nat
  BY <1>1, MonthLength
<1>4. f.date \in Int /\ f.date + GRACE_DAYS \in Int /\ GRACE_DAYS \in Int
  BY <1>1, <1>3 DEF DateBounds
<1>5. n = FirstDayOf(f.year, f.month) + f.date - 1
  BY <1>1, <1>4, InMonth
<1>6. Dates!MakeDay(f.year, f.month, f.date + GRACE_DAYS) = FirstDayOf(f.year, f.month) + (f.date + GRACE_DAYS) - 1
  BY <1>1, <1>4, InMonth
<1> QED  BY <1>2, <1>3, <1>4, <1>5, <1>6

\* That periods are whole follows from the invariant.
LEMMA PeriodsShow ==
    ASSUME DateBounds, DatesInv
    PROVE  Dates!TypeOK /\ Dates!PeriodsAreWhole
<1>1. /\ Dates!Fields(today).year \in Nat /\ Dates!Fields(today).year >= FirstYear /\ Dates!Fields(today).year <= LastYear
  BY FirstDay
<1>2. renewals \in 0..MaxRenewals /\ cycle \in {"none", "monthly", "yearly"} /\ today \in 0..Dates!YearDay(LastYear + 1)
  <2>1. LastYear + 1 \in Nat /\ LastYear + 1 >= FirstYear
    BY DEF DateBounds
  <2>2. Dates!YearDay(LastYear + 1) \in Nat
    BY <2>1, YearsBegin
  <2> QED BY <2>2 DEF DatesInv
<1>3. end \in Nat /\ end \in 0..Dates!YearDay(LastYear + MaxRenewals + 3)
  <2>1. PICK u, v : u = Dates!Fields(today).year + MaxRenewals + 3 /\ v = LastYear + MaxRenewals + 3
    OBVIOUS
  <2>2. u \in Nat /\ v \in Nat /\ FirstYear <= u /\ u <= v /\ FirstYear <= v
    BY <1>1, <2>1 DEF DateBounds
  <2>3. Dates!YearDay(u) <= Dates!YearDay(v) /\ Dates!YearDay(u) \in Nat /\ Dates!YearDay(v) \in Nat
    BY <2>2, LaterYears, YearsBegin
  <2>4. CASE cycle = "none"
    BY <2>1, <2>3, <2>4 DEF DatesInv
  <2>5. CASE cycle = "monthly"
    <3>1. end \in 0..Dates!YearDay(u)
      BY <2>1, <2>5, EndOfMonths
    <3> QED BY <2>1, <2>3, <3>1
  <2>6. CASE cycle = "yearly"
    <3>1. end \in 0..Dates!YearDay(u)
      BY <2>1, <2>6, EndOfYears
    <3> QED BY <2>1, <2>3, <3>1
  <2> QED BY <1>2, <2>4, <2>5, <2>6
<1>4. Dates!TypeOK
  BY <1>2, <1>3 DEF Dates!TypeOK
<1>5. Dates!computeGraceEnd(end) = end + GRACE_DAYS
  BY <1>3, GraceIsDays
<1> QED  BY <1>4, <1>5, EndOfMonths, EndOfYears DEF Dates!PeriodsAreWhole, FirstDayOf

\* A later day has later fields.
LEMMA LaterFields ==
    ASSUME DateBounds, NEW n \in Nat, NEW k \in Nat, k > 31
    PROVE  LET f == Dates!Fields(n)  g == Dates!Fields(n + k) IN
           f.year < g.year \/ (f.year = g.year /\ f.month < g.month)
<1> DEFINE f == Dates!Fields(n)  g == Dates!Fields(n + k)
<1>0. n + k \in Nat
  OBVIOUS
<1>1. /\ f.year \in Nat /\ f.year >= FirstYear /\ f.month \in 0..11 /\ f.month \in Nat
      /\ n = Dates!MakeDay(f.year, f.month, f.date) /\ f.date \in 1..DaysOf(f.year, f.month)
      /\ Dates!YearDay(f.year) <= n /\ n < Dates!YearDay(f.year + 1)
  BY FieldsOfDay
<1>2. /\ g.year \in Nat /\ g.year >= FirstYear /\ g.month \in 0..11 /\ g.month \in Nat
      /\ n + k = Dates!MakeDay(g.year, g.month, g.date) /\ g.date \in 1..DaysOf(g.year, g.month)
      /\ Dates!YearDay(g.year) <= n + k /\ n + k < Dates!YearDay(g.year + 1)
  BY <1>0, FieldsOfDay
<1> HIDE DEF f, g
<1>3. SUFFICES ASSUME g.year < f.year \/ (g.year = f.year /\ g.month <= f.month) PROVE FALSE
  BY <1>1, <1>2 DEF f, g
<1>4. CASE g.year < f.year
  <2>1. g.year + 1 \in Nat /\ g.year + 1 <= f.year /\ FirstYear <= g.year + 1
    BY <1>1, <1>2, <1>4 DEF DateBounds
  <2>2. Dates!YearDay(g.year + 1) <= Dates!YearDay(f.year)
    BY <1>1, <2>1, LaterYears
  <2>3. Dates!YearDay(g.year + 1) \in Nat /\ Dates!YearDay(f.year) \in Nat
    BY <1>1, <2>1, YearsBegin
  <2> QED BY <1>0, <1>1, <1>2, <2>2, <2>3
<1>5. CASE g.year = f.year /\ g.month <= f.month
  <2>1. /\ FirstDayOf(f.year, f.month) \in Nat /\ DaysOf(f.year, f.month) \in 28..31
        /\ FirstDayOf(f.year, g.month) \in Nat /\ DaysOf(f.year, g.month) \in 28..31
    <3>1. f.year \in Nat /\ f.year >= FirstYear /\ f.month \in Nat /\ g.month \in Nat
      BY <1>1, <1>2
    <3>2. \A y \in Nat, m \in Nat : y >= FirstYear => FirstDayOf(y, m) \in Nat /\ DaysOf(y, m) \in 28..31
      <4>1. \A y \in Nat, m \in Nat : y >= FirstYear => FirstDayOf(y, m) \in Nat
        BY MonthLength
      <4>2. \A y \in Nat, m \in Nat : y >= FirstYear => DaysOf(y, m) \in 28..31
        BY MonthLength
      <4> QED BY <4>1, <4>2
    <3> QED BY <3>1, <3>2
  <2>2. f.date \in 1..31 /\ g.date \in 1..31
    <3>1. f.date \in 1..DaysOf(f.year, f.month)
      BY <1>1
    <3>2. g.date \in 1..DaysOf(f.year, g.month)
      BY <1>2, <1>5
    <3>3. \A m \in 28..31 : 1..m \subseteq 1..31
      OBVIOUS
    <3> QED BY <2>1, <3>1, <3>2, <3>3
  <2>3. n = FirstDayOf(f.year, f.month) + f.date - 1 /\ n + k = FirstDayOf(f.year, g.month) + g.date - 1
    BY <1>1, <1>2, <1>5, <2>2, InMonth
  <2>4. FirstDayOf(f.year, g.month) <= FirstDayOf(f.year, f.month)
    <3>1. g.month < f.month => FirstDayOf(f.year, g.month) < FirstDayOf(f.year, f.month)
      <4>1. \A i, j \in 0..12 : i < j => FirstDayOf(f.year, i) < FirstDayOf(f.year, j)
        BY <1>1, LaterMonths
      <4>2. f.month \in 0..12 /\ g.month \in 0..12
        BY <1>1, <1>2
      <4> QED BY <4>1, <4>2
    <3> QED BY <1>1, <1>2, <1>5, <2>1, <3>1
  <2> QED BY <2>1, <2>2, <2>3, <2>4
<1> QED  BY <1>3, <1>4, <1>5

\* The dates that are taken are those of the month.
LEMMA RealDates ==
    ASSUME DateBounds, NEW y \in Nat, y >= FirstYear, NEW m \in 0..11, NEW d \in Int
    PROVE  Dates!isRealCalendarDate(y, m + 1, d) <=> d \in 1..DaysOf(y, m)
<1>1. m \in Nat /\ m + 1 \in 1..12 /\ m + 1 \in Nat /\ m \div 12 = 0 /\ m % 12 = m /\ y + 0 = y
  OBVIOUS
<1>2. FirstDayOf(y, m) \in Nat /\ FirstDayOf(y, m + 1) \in Nat /\ DaysOf(y, m) \in 28..31
  BY <1>1, MonthLength
<1>3. Dates!MakeDay(y, m + 1, 0) = FirstDayOf(y, m + 1) + 0 - 1 /\ Dates!MakeDay(y, m, DaysOf(y, m)) = FirstDayOf(y, m) + DaysOf(y, m) - 1
  BY <1>1, <1>2, InMonth
<1>4. Dates!MakeDay(y, m + 1, 0) = Dates!MakeDay(y, m, DaysOf(y, m))
  BY <1>2, <1>3 DEF DaysOf
<1>5. DaysOf(y, m) \in 1..DaysOf(y, m)
  BY <1>2
<1>6. Dates!Fields(Dates!MakeDay(y, m, DaysOf(y, m))).date = DaysOf(y, m)
  BY <1>1, <1>5, DayOfFields
<1> QED  BY <1>1, <1>2, <1>4, <1>6 DEF Dates!isRealCalendarDate

\* A range takes the days there are, and is taken the way they lie.
LEMMA RangesShow ==
    ASSUME DateBounds, DatesInv
    PROVE  Dates!RangeTakesRealDays
<1> DEFINE f == Dates!Fields(today)  g == Dates!Fields(today + 45)
           human(h) == [h EXCEPT !.month = @ + 1]
<1>1. /\ today \in Nat /\ f.year \in Nat /\ f.year >= FirstYear /\ f.month \in 0..11 /\ f.month \in Nat
      /\ today = Dates!MakeDay(f.year, f.month, f.date) /\ f.date \in 1..DaysOf(f.year, f.month) /\ f.date \in 1..31
  BY FirstDay
<1>2. today + 45 \in Nat
  BY <1>1
<1>3. /\ g.year \in Nat /\ g.year >= FirstYear /\ g.month \in 0..11 /\ g.month \in Nat
      /\ g.date \in 1..DaysOf(g.year, g.month)
  BY <1>2, FieldsOfDay
<1>4. f.year < g.year \/ (f.year = g.year /\ f.month < g.month)
  <2>1. 45 \in Nat /\ 45 > 31
    OBVIOUS
  <2> QED BY <1>1, <2>1, LaterFields
<1>5. /\ human(f).year = f.year /\ human(f).month = f.month + 1 /\ human(f).date = f.date
      /\ human(g).year = g.year /\ human(g).month = g.month + 1 /\ human(g).date = g.date
  <2>1. /\ f = [year |-> f.year, month |-> f.month, date |-> f.date]
        /\ g = [year |-> g.year, month |-> g.month, date |-> g.date]
    BY <1>1, <1>2, FieldsOfDay
  <2> HIDE DEF f, g
  <2>2. PICK a, b, c : f = [year |-> a, month |-> b, date |-> c]
    BY <2>1
  <2>3. PICK x, z, w : g = [year |-> x, month |-> z, date |-> w]
    BY <2>1
  <2> QED BY <2>2, <2>3
<1> HIDE DEF f, g
<1>6. DaysOf(f.year, f.month) \in 28..31 /\ DaysOf(g.year, g.month) \in 28..31 /\ FirstDayOf(f.year, f.month) \in Nat
      /\ DaysOf(f.year, f.month + 1) \in 28..31 /\ f.month + 1 \in Nat
  <2>1. f.month + 1 \in Nat
    BY <1>1
  <2>2. \A i \in Nat : DaysOf(f.year, i) \in 28..31 /\ FirstDayOf(f.year, i) \in Nat
    BY <1>1, MonthLength
  <2>3. \A i \in Nat : DaysOf(g.year, i) \in 28..31
    BY <1>3, MonthLength
  <2>4. f.month \in Nat /\ g.month \in Nat
    BY <1>1, <1>3
  <2> QED BY <2>1, <2>2, <2>3, <2>4
<1>7. /\ Dates!isRealCalendarDate(f.year, f.month + 1, f.date) /\ Dates!isRealCalendarDate(g.year, g.month + 1, g.date)
  <2>1. f.date \in Int /\ g.date \in Int
    BY <1>1, <1>3, <1>6
  <2> QED BY <1>1, <1>3, <2>1, RealDates
<1>8. Dates!assertValidDateRange(human(f), human(g)) /\ ~Dates!assertValidDateRange(human(g), human(f))
  <2> HIDE DEF human
  <2> QED BY <1>1, <1>3, <1>4, <1>5, <1>7 DEF Dates!assertValidDateRange
<1>9. PICK L : L = DaysOf(f.year, f.month)
  OBVIOUS
<1>10. {d \in 0..32 : Dates!isRealCalendarDate(f.year, f.month + 1, d)} = 1..L
  <2>1. \A d \in 0..32 : Dates!isRealCalendarDate(f.year, f.month + 1, d) <=> d \in 1..L
    BY <1>1, <1>9, RealDates
  <2> QED BY <1>6, <1>9, <2>1
<1>11. today = FirstDayOf(f.year, f.month) + f.date - 1
  <2>1. f.date \in Int
    BY <1>1
  <2> QED BY <1>1, <2>1, InMonth
<1>12. PICK a : a = FirstDayOf(f.year, f.month)
  OBVIOUS
<1>13. today - f.date + 1 = a /\ today - f.date + 31 = a + 30 /\ a \in Nat
  BY <1>1, <1>6, <1>11, <1>12
<1>14. \A d \in 1..L : a + d - 1 \in a..(a + 30) /\ a + d - 1 >= 0
                       /\ Dates!Fields(a + d - 1).month = f.month /\ Dates!Fields(a + d - 1).date = d
  <2> SUFFICES ASSUME NEW d \in 1..L
               PROVE  a + d - 1 \in a..(a + 30) /\ a + d - 1 >= 0
                      /\ Dates!Fields(a + d - 1).month = f.month /\ Dates!Fields(a + d - 1).date = d
    OBVIOUS
  <2>1. d \in 1..31 /\ d \in Int /\ d \in 1..DaysOf(f.year, f.month)
    BY <1>6, <1>9
  <2>2. Dates!MakeDay(f.year, f.month, d) = a + d - 1
    BY <1>1, <1>12, <2>1, InMonth
  <2>3. Dates!Fields(a + d - 1) = [year |-> f.year + f.month \div 12, month |-> f.month % 12, date |-> d]
    BY <1>1, <2>1, <2>2, DayOfFields
  <2>4. f.month % 12 = f.month
    BY <1>1
  <2> QED BY <1>13, <2>1, <2>3, <2>4
<1>15. \A x \in a..(a + 30) : Dates!Fields(x).month = f.month => \E d \in 1..L : x = a + d - 1
  <2> SUFFICES ASSUME NEW x \in a..(a + 30), x >= a + L PROVE Dates!Fields(x).month # f.month
    <3>1. \A x \in a..(a + 30) : ~(x >= a + L) => x - a + 1 \in 1..L /\ x = a + (x - a + 1) - 1
      BY <1>6, <1>9, <1>13
    <3> QED BY <3>1
  <2>1. PICK e \in 1..3 : x = a + L + e - 1
    <3>1. x - a - L + 1 \in 1..3 /\ x = a + L + (x - a - L + 1) - 1
      BY <1>6, <1>9, <1>13
    <3> QED BY <3>1
  <2>2. e \in 1..DaysOf(f.year, f.month + 1) /\ e \in Int
    BY <1>6
  <2>3. Dates!MakeDay(f.year, f.month + 1, e) = FirstDayOf(f.year, f.month + 1) + e - 1
    BY <1>1, <1>6, <2>2, InMonth
  <2>4. FirstDayOf(f.year, f.month + 1) \in Nat /\ FirstDayOf(f.year, f.month + 1) = a + L
    <3>1. FirstDayOf(f.year, f.month + 1) \in Nat
      BY <1>1, <1>6, MonthLength
    <3> QED BY <1>9, <1>12, <1>13, <3>1 DEF DaysOf
  <2>5. Dates!Fields(x) = [year |-> f.year + (f.month + 1) \div 12, month |-> (f.month + 1) % 12, date |-> e]
    <3>1. x = Dates!MakeDay(f.year, f.month + 1, e)
      BY <1>13, <1>6, <1>9, <2>1, <2>2, <2>3, <2>4
    <3>2. PICK k \in Nat : k = f.month + 1
      BY <1>6
    <3>3. Dates!Fields(Dates!MakeDay(f.year, k, e)) = [year |-> f.year + k \div 12, month |-> k % 12, date |-> e]
      BY <1>1, <2>2, <3>2, DayOfFields
    <3> QED BY <3>1, <3>2, <3>3
  <2>6. (f.month + 1) % 12 # f.month
    BY <1>1
  <2> QED BY <2>5, <2>6
<1>16. {Dates!Fields(x).date : x \in {x \in a..(a + 30) : x >= 0 /\ Dates!Fields(x).month = f.month}} = 1..L
  BY <1>14, <1>15
<1> QED  BY <1>8, <1>10, <1>13, <1>16 DEF Dates!RangeTakesRealDays, f, g

\* n periods end n months or n years after the subscription began, as the calendar counts
\* them, and a range of games takes every day there is and no other, whatever the years
\* (addBillingPeriod, computeGraceEnd, assertValidDateRange).
THEOREM PeriodsAndRangesAgree == DateBounds => (Dates!Spec => [](Dates!TypeOK /\ Dates!DatesAgree))
<1> SUFFICES ASSUME DateBounds PROVE Dates!Spec => [](Dates!TypeOK /\ Dates!DatesAgree)
  OBVIOUS
<1>1. Dates!Init => DatesInv
  BY DatesBegin
<1>2. DatesInv /\ [Dates!Next]_Dates!vars => DatesInv'
  BY DatesKeep
<1>3. DatesInv => Dates!TypeOK /\ Dates!DatesAgree
  BY PeriodsShow, RangesShow DEF Dates!DatesAgree
<1> QED BY <1>1, <1>2, <1>3, PTL DEF Dates!Spec

-----------------------------------------------------------------------------
(* GroupPages.                                                             *)

pagesVars == <<part, vars, statVars, calVars, gamesVars, seasonVars, homeVars, billVars, dailyVars>>

\* A step of GroupPages is a step of one part, and the others stutter.
LEMMA PagesMove ==
    [PagesNext]_pagesVars =>
      /\ [GamePage!Next]_(GamePage!vars) /\ [SeasonPage!Next]_(SeasonPage!vars)
      /\ [Home!Next]_(Home!vars) /\ [Billing!Next]_(Billing!vars) /\ [Daily!Next]_(Daily!vars)
      /\ [Dates!Next]_(Dates!vars) /\ [Next]_vars /\ [Stats!Next]_(Stats!vars)
<1>1. UNCHANGED gamesVars => UNCHANGED GamePage!vars
  BY DEF gamesVars, GamePage!vars, GamePage!lists, GamePage!refs, GamePage!mode
<1>2. UNCHANGED seasonVars => UNCHANGED SeasonPage!vars
  BY DEF seasonVars, SeasonPage!vars, SeasonPage!server, SeasonPage!client, SeasonPage!net
<1>3. UNCHANGED homeVars => UNCHANGED Home!vars
  BY DEF homeVars, Home!vars, Home!server, Home!view
<1>4. UNCHANGED billVars => UNCHANGED Billing!vars
  BY DEF billVars, Billing!vars, Billing!group, Billing!toss, Billing!past, Billing!page
<1>5. UNCHANGED dailyVars => UNCHANGED Daily!vars
  BY DEF dailyVars, Daily!vars, Daily!server, Daily!place, Daily!cache
<1>8. UNCHANGED calVars => UNCHANGED Dates!vars
  BY DEF calVars, Dates!vars
<1>9. UNCHANGED statVars => UNCHANGED Stats!vars
  BY DEF statVars, Stats!vars
<1>6. CASE UNCHANGED pagesVars
  <2>1. /\ UNCHANGED gamesVars /\ UNCHANGED seasonVars /\ UNCHANGED homeVars
        /\ UNCHANGED billVars /\ UNCHANGED dailyVars /\ UNCHANGED calVars
        /\ UNCHANGED vars /\ UNCHANGED statVars
    BY <1>6 DEF pagesVars
  <2> QED  BY <1>1, <1>2, <1>3, <1>4, <1>5, <1>8, <1>9, <2>1
<1>7. CASE PagesNext
  <2>1. /\ GamePage!Next \/ UNCHANGED gamesVars
        /\ SeasonPage!Next \/ UNCHANGED seasonVars
        /\ Home!Next \/ UNCHANGED homeVars
        /\ Billing!Next \/ UNCHANGED billVars
        /\ Daily!Next \/ UNCHANGED dailyVars
        /\ Dates!Next \/ UNCHANGED calVars
        /\ Next \/ UNCHANGED vars
        /\ Stats!Next \/ UNCHANGED statVars
    BY <1>7 DEF PagesNext
  <2> QED  BY <1>1, <1>2, <1>3, <1>4, <1>5, <1>8, <1>9, <2>1
<1> QED  BY <1>6, <1>7

\* So what a page does in GroupPages is what it does on its own.
LEMMA PagesAreParts ==
    PagesSpec => /\ GamePage!Spec /\ SeasonPage!Spec /\ Home!Spec /\ Billing!Spec /\ Daily!Spec
                 /\ Dates!Spec /\ Spec /\ Stats!Spec
<1>1. PagesInit => /\ GamePage!Init /\ SeasonPage!Init /\ Home!Init /\ Billing!Init /\ Daily!Init
                   /\ Dates!Init /\ Init /\ Stats!Init
  BY DEF PagesInit
<1> QED  BY <1>1, PagesMove, PTL
         DEF PagesSpec, pagesVars, GamePage!Spec, SeasonPage!Spec, Home!Spec, Billing!Spec,
             Daily!Spec, Dates!Spec, Spec, Stats!Spec

\* An authorisation is sent once, and a tab shows the status of the group unless it is
\* older than another's change (the subscription page).
THEOREM BillingPageShowsTheGroup == PagesSpec => []BillingPageAgrees
<1>1. Billing!BillingPageAgrees => BillingPageAgrees
  BY DEF BillingPageAgrees
<1> QED  BY <1>1, PagesAreParts, BillingPagesAgree, BillingAssumption, PTL

\* A page shows the season its selector stands on, and the page of a day the records of the
\* day it stands on, whatever the order of the answers (the pages of a season, the daily page).
THEOREM PagesShowWhatIsSelected == PagesSpec => []ShownIsSelected
<1>1. SeasonPage!ShownIsSelected /\ Daily!DayIsShown => ShownIsSelected
  BY DEF ShownIsSelected
<1> QED  BY <1>1, PagesAreParts, PagesShowTheirSelection, DaysAreShown, SeasonAssumption,
            DailyAssumption, PTL

\* The lists of games are those of the server, each game once (the games page, the first page).
THEOREM ListsOfGamesAgree == PagesSpec => []ListsAgree
<1>1. GamePage!ListsAgree /\ Home!HomeListAgrees => ListsAgree
  BY DEF ListsAgree
<1> QED  BY <1>1, PagesAreParts, GamesAreShown, HomeListsAgree, GamesAssumption, HomeAssumption, PTL

\* Only games that are shown are selected (the games page).
THEOREM SelectedGamesAreShown == PagesSpec => []SelectionIsShown
<1>1. GamePage!SelectionIsShown => SelectionIsShown
  BY DEF SelectionIsShown
<1> QED  BY <1>1, PagesAreParts, GamesAreShown, GamesAssumption, PTL

\* Periods that are paid for hold together, and a range of games takes real days only, of
\* every year (addBillingPeriod and computeGraceEnd, the ranges of the games page).
THEOREM DatesAlwaysAgree == PagesSpec => []DatesAgree
<1>1. Dates!DatesAgree => DatesAgree
  BY DEF DatesAgree
<1> QED  BY <1>1, PagesAreParts, PeriodsAndRangesAgree, DateAssumption, PTL

\* A page of the record of a game that is on its own, and waits for one call before the
\* next, shows the game (GameLog).
THEOREM RecordPagesAgree == PagesSpec => []QuietPageAgrees
<1> QED  BY PagesAreParts, QuietPagesShowTheGame, PTL

\* Rows are counted.
LEMMA StatsStayTyped == Stats!Spec => []Stats!TypeOK
<1>1. Stats!Init => Stats!TypeOK
  BY DEF Stats!Init, Stats!TypeOK
<1>2. Stats!TypeOK /\ [Stats!Next]_(Stats!vars) => Stats!TypeOK'
  <2> SUFFICES ASSUME Stats!TypeOK, [Stats!Next]_(Stats!vars) PROVE Stats!TypeOK'
    OBVIOUS
  <2>1. CASE UNCHANGED Stats!vars
    BY <2>1 DEF Stats!vars, Stats!TypeOK
  <2>2. ASSUME NEW g \in Games, NEW p \in Players, NEW i \in Items, Stats!RecordLog(g, p, i)
        PROVE  Stats!TypeOK'
    <3>1. count' = [count EXCEPT ![g][p][i] = @ + 1] /\ UNCHANGED <<gameStatus, deleted>>
      BY <2>2 DEF Stats!RecordLog
    <3>2. count \in [Games -> [Players -> [Items -> Nat]]]
      BY DEF Stats!TypeOK
    <3>3. count' \in [Games -> [Players -> [Items -> Nat]]]
      BY <3>1, <3>2
    <3> QED  BY <3>1, <3>3 DEF Stats!TypeOK
  <2>3. ASSUME NEW g \in Games, NEW s \in {"IN_PROGRESS", "FINISHED", "DELETED"}, Stats!UpdateGameStatus(g, s)
        PROVE  Stats!TypeOK'
    BY <2>3 DEF Stats!UpdateGameStatus, Stats!TypeOK
  <2>4. ASSUME NEW p \in Players, Stats!DeletePlayer(p) PROVE Stats!TypeOK'
    BY <2>4 DEF Stats!DeletePlayer, Stats!TypeOK
  <2> QED  BY <2>1, <2>2, <2>3, <2>4 DEF Stats!Next
<1> QED  BY <1>1, <1>2, PTL DEF Stats!Spec

\* Every part of GroupPages stays in its domain.
THEOREM PagesStayTyped == PagesSpec => []TypesOK
<1>1. /\ TypeOK /\ Stats!TypeOK /\ Dates!TypeOK /\ GamePage!TypeOK /\ SeasonPage!TypeOK
      /\ Home!TypeOK /\ Billing!TypeOK /\ Daily!TypeOK /\ part \in PartNames
      => TypesOK
  BY ZenonT(60) DEF TypesOK, PartNames
<1>2. PagesSpec => [](part \in PartNames)
  <2>1. PagesInit => part \in PartNames
    BY DEF PagesInit
  <2>2. part \in PartNames /\ [PagesNext]_pagesVars => (part \in PartNames)'
    BY DEF PagesNext, pagesVars, PartNames
  <2> QED  BY <2>1, <2>2, PTL DEF PagesSpec, pagesVars
<1> QED  BY <1>1, <1>2, PagesAreParts, GamesStayTyped, StatsStayTyped, PeriodsAndRangesAgree, DateAssumption,
            GamesAreShown, GamesAssumption, PagesShowTheirSelection, SeasonAssumption,
            HomeListsAgree, HomeAssumption, BillingPagesAgree, BillingAssumption,
            DaysAreShown, DailyAssumption, PTL
=============================================================================
