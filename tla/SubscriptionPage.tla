-------------------------- MODULE SubscriptionPage --------------------------
(***************************************************************************)
(* The page on which a group subscribes, cancels and resumes, in several   *)
(* tabs, and the calls it makes: getStatus, which makes the customer key   *)
(* of the group when it has none, and the redirect to Toss, which comes    *)
(* back with an authorisation of the card for that key.                    *)
(*                                                                         *)
(* The steps and faults of subscribe, cancel and the renewals are those of *)
(* Subscription.tla: here they are as long as a page can tell.  Prices,    *)
(* cycles and the list of payments, which is loaded like the status, are   *)
(* left out.  The queries are those of TanStack Query.                     *)
(***************************************************************************)
EXTENDS Integers, Sequences, FiniteSets

CONSTANTS
    Tab,
    MaxAuths, MaxCalls, MaxReloads, MaxLapses  \* bounds

VARIABLES
    customerKey, keys, \* Group.customerKey, 0 for none, and the keys that were drawn
    sub,               \* none, active or canceling: active with cancelAtPeriodEnd
    auths, used,       \* at Toss: the customer key of each authorisation, and those used
    refused, rekeyed,  \* history: refused authorisations; a key took the place of another
    posts,             \* history: how often each authorisation was sent
    asked, calls,      \* requests and answers that are under way
    at,                \* where a tab is: on the page, or at Toss
    url, submitted,    \* the authKey in its address, and submittedAuthKeyRef; 0 for none
    shown,             \* the status it shows, NoStatus while it has none
    waiting,           \* the tabs that wait for the status
    pending,           \* its mutations that are pending
    lapses, reloads,   \* bounds: subscriptions that ended, and reloads by the user
    stale              \* history: tabs whose status changed after they began to load it

group  == <<customerKey, keys, sub>>
toss   == <<auths, used>>
past   == <<refused, rekeyed, posts>>
page   == <<at, url, submitted, shown, waiting, pending>>
vars   == <<group, toss, past, asked, calls, page, lapses, reloads, stale>>

NoStatus == [sub |-> "none", key |-> 0]
Auth == 1..MaxAuths

Init ==
    /\ sub \in {"none", "active"} /\ customerKey = (IF sub = "none" THEN 0 ELSE 1) /\ keys = customerKey
    /\ auths = <<>> /\ used = {} /\ refused = {} /\ rekeyed = FALSE /\ posts = [a \in Auth |-> 0]
    /\ asked = {} /\ calls = 0
    /\ at = [t \in Tab |-> "closed"] /\ url = [t \in Tab |-> 0] /\ submitted = [t \in Tab |-> 0]
    /\ shown = [t \in Tab |-> NoStatus] /\ waiting = {}
    /\ pending = [t \in Tab |-> {}]
    /\ lapses = 0 /\ reloads = 0 /\ stale = {}

-----------------------------------------------------------------------------
(* SubscriptionController and SubscriptionService                          *)

Swap(r, q) == r \in asked /\ asked' = (asked \ {r}) \cup {q}
To(r, pc)  == Swap(r, [r EXCEPT !.pc = pc])

\* ensureCustomerKey: the key of the group, or a new one that is then written.
EnsureCustomerKey(r, next) ==
    IF customerKey # 0
    THEN Swap(r, [r EXCEPT !.pc = next, !.key = customerKey]) /\ UNCHANGED keys
    ELSE Swap(r, [r EXCEPT !.pc = "key", !.key = keys + 1]) /\ keys' = keys + 1

WriteKey(r) ==
    /\ r.pc = "key"
    /\ customerKey' = r.key /\ rekeyed' = (rekeyed \/ customerKey # 0)
    /\ To(r, IF r.kind = "status" THEN "active" ELSE "issue")
    /\ stale' = Tab
    /\ UNCHANGED <<keys, sub, toss, refused, posts, calls, page, lapses, reloads>>

\* getStatus: the group, then its subscription.
StatusGroup(r) ==
    /\ r.kind = "status" /\ r.pc = "sent"
    /\ EnsureCustomerKey(r, "active")
    /\ UNCHANGED <<customerKey, sub, toss, past, calls, page, lapses, reloads, stale>>

StatusActive(r) ==
    /\ r.kind = "status" /\ r.pc = "active"
    /\ Swap(r, [r EXCEPT !.pc = "ok", !.sub = sub])
    /\ UNCHANGED <<group, toss, past, calls, page, lapses, reloads, stale>>

\* subscribe, up to the key; a group that is subscribed is refused.
SubscribeGroup(r) ==
    /\ r.kind = "subscribe" /\ r.pc = "sent"
    /\ IF sub # "none" THEN To(r, "failed") /\ UNCHANGED keys ELSE EnsureCustomerKey(r, "issue")
    /\ UNCHANGED <<customerKey, sub, toss, past, calls, page, lapses, reloads, stale>>

\* Toss takes an authorisation once, and for the key it was given to.
IssueBillingKey(r) ==
    /\ r.kind = "subscribe" /\ r.pc = "issue"
    /\ IF r.auth \notin used /\ auths[r.auth] = r.key
       THEN used' = used \cup {r.auth} /\ To(r, "pay") /\ UNCHANGED refused
       ELSE refused' = refused \cup {r.auth} /\ To(r, "failed") /\ UNCHANGED used
    /\ UNCHANGED <<group, auths, rekeyed, posts, calls, page, lapses, reloads, stale>>

\* The payment and the row; another subscription may have been there first.
Persist(r, paid) ==
    /\ r.kind = "subscribe" /\ r.pc = "pay"
    /\ IF paid /\ sub = "none"
       THEN sub' = "active" /\ To(r, "ok") /\ stale' = Tab
       ELSE To(r, "failed") /\ UNCHANGED <<sub, stale>>
    /\ UNCHANGED <<customerKey, keys, toss, past, calls, page, lapses, reloads>>

\* cancel and resume.
SetCancel(r) ==
    /\ r.kind \in {"cancel", "resume"} /\ r.pc = "sent"
    /\ IF sub = "none" THEN To(r, "failed") /\ UNCHANGED <<sub, stale>>
       ELSE /\ sub' = IF r.kind = "cancel" THEN "canceling" ELSE "active"
            /\ To(r, "ok") /\ stale' = IF sub' = sub THEN stale ELSE Tab
    /\ UNCHANGED <<customerKey, keys, toss, past, calls, page, lapses, reloads>>

\* The renewals end a subscription.
Lapse ==
    /\ sub # "none" /\ sub' = "none" /\ stale' = Tab
    /\ lapses < MaxLapses /\ lapses' = lapses + 1
    /\ UNCHANGED <<customerKey, keys, toss, past, asked, calls, page, reloads>>

-----------------------------------------------------------------------------
(* The page                                                                *)

\* Two requests that are alike in all of this are one.
Request(t, kind) == [tab |-> t, gone |-> FALSE, kind |-> kind, pc |-> "sent", key |-> 0, sub |-> "none",
                     auth |-> IF kind = "subscribe" THEN url[t] ELSE 0]
Send(t, kind) == calls < MaxCalls /\ calls' = calls + 1 /\ asked' = asked \cup {Request(t, kind)}

\* A new request for the status, next to those in rest, takes the place of one that is
\* under way.  The mutant waits for that one.
JoinFetch(t, rest) ==
    /\ calls < MaxCalls /\ stale' = stale \ {t} /\ waiting' = waiting \cup {t}
    /\ IF t \in waiting THEN asked' = rest /\ UNCHANGED calls
       ELSE calls' = calls + 1 /\ asked' = rest \cup {Request(t, "status")}
Fetch(t, rest) ==
    /\ calls < MaxCalls /\ stale' = stale \ {t} /\ waiting' = waiting \cup {t}
    /\ calls' = calls + 1 /\ asked' = {Request(t, "status")} \cup
         {IF r.tab = t /\ r.kind = "status" THEN [r EXCEPT !.gone = TRUE] ELSE r : r \in rest}

\* A page is loaded, with an address; what it asked for before is lost on it.
Load(t, a) ==
    /\ at' = [at EXCEPT ![t] = "page"]
    /\ url' = [url EXCEPT ![t] = a] /\ submitted' = [submitted EXCEPT ![t] = 0]
    /\ shown' = [shown EXCEPT ![t] = NoStatus] /\ pending' = [pending EXCEPT ![t] = {}]
    /\ calls < MaxCalls /\ calls' = calls + 1 /\ waiting' = waiting \cup {t} /\ stale' = stale \ {t}
    /\ asked' = {IF r.tab = t THEN [r EXCEPT !.gone = TRUE] ELSE r : r \in asked} \cup {Request(t, "status")}

Open(t) ==
    /\ at[t] = "closed" /\ Load(t, 0)
    /\ UNCHANGED <<group, toss, past, lapses, reloads>>

\* The browser loads the page again, with the address it has.
Reload(t) ==
    /\ at[t] = "page" /\ reloads < MaxReloads /\ Load(t, url[t])
    /\ reloads' = reloads + 1
    /\ UNCHANGED <<group, toss, past, lapses>>

\* The window has the focus again.
Refocus(t) ==
    /\ at[t] = "page" /\ t \in stale \ waiting
    /\ Fetch(t, asked)
    /\ UNCHANGED <<group, toss, past, at, url, submitted, shown, pending, lapses, reloads>>

\* startBillingAuth, with the key of the status: the tab leaves for Toss.
StartBillingAuth(t) ==
    /\ at[t] = "page" /\ shown[t].key # 0 /\ shown[t].sub = "none" /\ "subscribe" \notin pending[t]
    /\ Len(auths) < MaxAuths
    /\ at' = [at EXCEPT ![t] = "toss"]
    /\ UNCHANGED <<group, toss, past, asked, calls, url, submitted, shown, waiting, pending, lapses, reloads, stale>>

\* Toss sends it to successUrl with an authKey, or to failUrl.
Return(t, ok) ==
    /\ at[t] = "toss"
    /\ ok => Len(auths) < MaxAuths
    /\ auths' = IF ok THEN Append(auths, shown[t].key) ELSE auths
    /\ Load(t, IF ok THEN Len(auths') ELSE 0)
    /\ UNCHANGED <<group, used, past, lapses, reloads>>

\* The effect on the address, which may run again.
Submit(t) ==
    /\ at[t] = "page" /\ url[t] # 0 /\ submitted[t] # url[t]
    /\ submitted' = [submitted EXCEPT ![t] = url[t]]
    /\ Send(t, "subscribe")
    /\ posts' = [posts EXCEPT ![url[t]] = @ + 1]
    /\ pending' = [pending EXCEPT ![t] = @ \cup {"subscribe"}]
    /\ UNCHANGED <<group, toss, refused, rekeyed, at, url, shown, waiting, lapses, reloads, stale>>

\* The button that is there for the status, unless its own mutation is pending.
Tap(t, kind) ==
    /\ at[t] = "page"
    /\ shown[t].sub = IF kind = "cancel" THEN "active" ELSE "canceling"
    /\ kind \notin pending[t]
    /\ Send(t, kind)
    /\ pending' = [pending EXCEPT ![t] = @ \cup {kind}]
    /\ UNCHANGED <<group, toss, past, at, url, submitted, shown, waiting, lapses, reloads, stale>>

\* Answers to a page that was left, or to a request that another took the place of.
Drop(r) ==
    /\ r.gone /\ r.pc \in {"ok", "failed"}
    /\ asked' = asked \ {r}
    /\ UNCHANGED <<group, toss, past, calls, page, lapses, reloads, stale>>

StatusAnswer(r, lost) ==
    /\ r.kind = "status" /\ r.pc = "ok" /\ ~r.gone /\ at[r.tab] = "page"
    /\ asked' = asked \ {r} /\ waiting' = waiting \ {r.tab}
    /\ shown' = IF lost THEN shown ELSE [shown EXCEPT ![r.tab] = [sub |-> r.sub, key |-> r.key]]
    /\ stale' = IF lost THEN stale \cup {r.tab} ELSE stale
    /\ UNCHANGED <<group, toss, past, calls, at, url, submitted, pending, lapses, reloads>>

\* onSuccess: the status is loaded anew; onError: it is not.  subscribe clears the
\* address whatever came of it.
MutationAnswer(r, lost) ==
    /\ r.kind # "status" /\ r.pc \in {"ok", "failed"} /\ ~r.gone /\ at[r.tab] = "page"
    /\ pending' = [pending EXCEPT ![r.tab] = @ \ {r.kind}]
    /\ url' = IF r.kind = "subscribe" THEN [url EXCEPT ![r.tab] = 0] ELSE url
    /\ IF r.pc = "ok" /\ ~lost
       THEN Fetch(r.tab, asked \ {r})
       ELSE asked' = asked \ {r} /\ UNCHANGED <<calls, waiting, stale>>
    /\ UNCHANGED <<group, toss, past, at, submitted, shown, lapses, reloads>>

ServerStep(r) ==
    \/ StatusGroup(r) \/ StatusActive(r) \/ WriteKey(r)
    \/ SubscribeGroup(r) \/ IssueBillingKey(r) \/ SetCancel(r)
    \/ \E paid \in BOOLEAN : Persist(r, paid)

PageStep(t) ==
    \/ Open(t) \/ Reload(t) \/ Refocus(t) \/ StartBillingAuth(t) \/ Submit(t)
    \/ \E ok \in BOOLEAN : Return(t, ok)
    \/ \E kind \in {"cancel", "resume"} : Tap(t, kind)

AnswerStep(r) == \/ Drop(r)
                 \/ \E lost \in BOOLEAN : StatusAnswer(r, lost) \/ MutationAnswer(r, lost)

Next == \/ Lapse
        \/ \E t \in Tab : PageStep(t)
        \/ \E r \in asked : ServerStep(r) \/ AnswerStep(r)

Spec == Init /\ [][Next]_vars

-----------------------------------------------------------------------------
TypeOK ==
    /\ customerKey \in 0..keys /\ sub \in {"none", "active", "canceling"}
    /\ auths \in Seq(1..keys) /\ used \subseteq DOMAIN auths /\ refused \subseteq DOMAIN auths
    /\ at \in [Tab -> {"closed", "page", "toss"}] /\ url \in [Tab -> 0..MaxAuths]
    /\ shown \in [Tab -> [sub : {"none", "active", "canceling"}, key : 0..keys]]
    /\ pending \in [Tab -> SUBSET {"subscribe", "cancel", "resume"}]
    /\ calls \in 0..MaxCalls /\ waiting \subseteq Tab /\ stale \subseteq Tab

\* "authKey is submitted exactly once" (subscription/page.tsx:75): once for each time
\* its page is loaded.  Toss refuses one that was not used yet only if two first calls
\* of getStatus each stored a customer key.  And a tab that waits for no status shows
\* that of the group, after its own changes too, unless it changed since by another
\* hand, or an answer was lost.
BillingPageAgrees ==
    /\ \A a \in Auth : posts[a] <= 1 + reloads
    /\ \A a \in refused : a \in used \/ rekeyed
    /\ \A t \in Tab : at[t] = "page" /\ shown[t] # NoStatus /\ t \notin waiting \cup stale
                      => shown[t].sub = sub /\ shown[t].key = customerKey
=============================================================================
