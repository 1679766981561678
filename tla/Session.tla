------------------------------- MODULE Session -------------------------------
(***************************************************************************)
(* Who is logged in, and which group is selected: two stores in each tab   *)
(* of the browser, and three entries of the storage that all tabs share.   *)
(* A tab reads the storage when it loads; after that it only writes it,    *)
(* except for the token, which every request reads when it is sent.        *)
(*                                                                         *)
(* The server reads nothing but the token: it holds a user and the group   *)
(* that user may write to.  An admin gets another token for another group. *)
(* Email and name are left out, and so is what other pages ask for, except *)
(* that the answer may be 401.                                             *)
(***************************************************************************)
EXTENDS Integers, FiniteSets

CONSTANTS
    Tab,
    Group,
    None,        \* null
    MaxTokens,   \* bound: tokens that are signed
    MaxAsked     \* bound: requests

VARIABLES
    signed,      \* the tokens the server signed: user and group of each
    expired,     \* those that are no longer valid
    alive,       \* groups that are not deleted
    token, storedUser, storedGroup,  \* the storage: token, auth-storage, selectedGroupId
    user, selected,   \* the stores of each tab
    asked, sent,      \* requests in flight, and how many there were
    foreign,     \* history: tabs behind which another tab changed the storage
    torn         \* history: the storage has parts of two sessions

server  == <<signed, expired, alive>>
storage == <<token, storedUser, storedGroup>>
stores  == <<user, selected>>
net     == <<asked, sent>>
vars    == <<server, storage, stores, net, foreign, torn>>

User    == {"member", "admin"}
Home    == [u \in User |-> CHOOSE g \in Group : TRUE]
Token   == 1..MaxTokens
\* The user a store holds: an id, and the token and the group it came with.
LoggedIn == [id : User, token : Token, group : Group]

Init ==
    /\ signed = [n \in {} |-> None] /\ expired = {} /\ alive = Group
    /\ token = 0 /\ storedUser = None /\ storedGroup = None
    /\ user = [t \in Tab |-> None] /\ selected = [t \in Tab |-> None]
    /\ asked = {} /\ sent = 0 /\ foreign = {} /\ torn = FALSE

IsAdmin(t)   == user[t] # None /\ user[t].id = "admin"
CanManage(t) == user[t] # None /\ user[t].group = selected[t]

\* The interceptor puts the stored token on every request, over the one its caller has.
Header(t) == IF token # 0 THEN token ELSE IF user[t] = None THEN 0 ELSE user[t].token
Valid(n)  == n \in DOMAIN signed \ expired

Ask(t, kind, header, x) ==
    /\ sent < MaxAsked /\ sent' = sent + 1
    /\ asked' = asked \cup {[n |-> sent + 1, tab |-> t, kind |-> kind, token |-> header,
                             user |-> user[t], about |-> x]}
Arrive(r) == r \in asked /\ asked' = asked \ {r} /\ UNCHANGED sent

-----------------------------------------------------------------------------
(* setUser, logout and setSelectedGroup write a store and the storage      *)

SetUser(t, u)   == user' = [user EXCEPT ![t] = u] /\ storedUser' = u
SetSelectedGroup(t, g) == selected' = [selected EXCEPT ![t] = g] /\ storedGroup' = g
\* History: other tabs fall behind; all three entries are those of one session.
Behind(t)       == foreign \cup (Tab \ {t})
Whole(t)        == foreign' = Tab \ {t} /\ torn' = FALSE

Enter(t, u, g) == token' = u.token /\ SetUser(t, u) /\ SetSelectedGroup(t, g) /\ Whole(t)
\* The mutant leaves the token.
LogoutOfStore(t) == UNCHANGED token /\ SetUser(t, None) /\ SetSelectedGroup(t, None) /\ Whole(t)
Logout(t) == token' = 0 /\ SetUser(t, None) /\ SetSelectedGroup(t, None) /\ Whole(t)

Sign(u, g) == /\ Cardinality(DOMAIN signed) < MaxTokens
              /\ signed' = [n \in 1..(Cardinality(DOMAIN signed) + 1) |->
                              IF n \in DOMAIN signed THEN signed[n] ELSE [id |-> u, group |-> g]]
New(u, g)  == [id |-> u, token |-> Cardinality(DOMAIN signed) + 1, group |-> g]

-----------------------------------------------------------------------------
(* Login and logout.  A login has no use for the header it may carry.      *)

LoginTap(t, u) ==
    /\ user[t] = None
    /\ Ask(t, "login", Header(t), u)
    /\ UNCHANGED <<server, storage, stores, foreign, torn>>

LoginAnswer(r) ==
    /\ r.kind = "login" /\ Arrive(r)
    /\ Sign(r.about, Home[r.about])
    /\ Enter(r.tab, New(r.about, Home[r.about]), Home[r.about])
    /\ UNCHANGED <<expired, alive>>

LogoutTap(t) ==
    /\ user[t] # None
    /\ Logout(t)
    /\ UNCHANGED <<server, net>>

-----------------------------------------------------------------------------
(* The group: an admin gets a token for it first.                          *)

\* The header offers the groups it loaded once, deleted ones too; its empty option is None.
ChangeGroup(t, g) ==
    /\ g # selected[t]
    /\ IsAdmin(t) => g \in {None, user[t].group}
    /\ SetSelectedGroup(t, g)
    /\ foreign' = Behind(t)
    /\ UNCHANGED <<server, token, storedUser, user, net, torn>>

SwitchTap(t, g) ==
    /\ IsAdmin(t) /\ g # user[t].group
    /\ Ask(t, "switch", Header(t), g)
    /\ UNCHANGED <<server, storage, stores, foreign, torn>>

\* The store keeps the user the tab had when it was asked.
SwitchAnswer(r) ==
    /\ r.kind = "switch" /\ Valid(r.token) /\ signed[r.token].id = "admin" /\ r.about \in alive
    /\ Arrive(r)
    /\ Sign("admin", r.about)
    /\ Enter(r.tab, [New("admin", r.about) EXCEPT !.id = r.user.id], r.about)
    /\ UNCHANGED <<expired, alive>>

-----------------------------------------------------------------------------
(* The settings page                                                       *)

DeleteGroupTap(t) ==
    /\ user[t] # None /\ user[t].group \in alive
    /\ Ask(t, "delete", Header(t), user[t].group)
    /\ UNCHANGED <<server, storage, stores, foreign, torn>>

\* assertSameGroup: the group of the token is deleted and no other.
DeleteGroupAnswer(r) ==
    /\ r.kind = "delete" /\ Valid(r.token) /\ signed[r.token].group = r.about
    /\ Arrive(r)
    /\ alive' = alive \ {r.about}
    /\ IF selected[r.tab] = r.about
       THEN SetSelectedGroup(r.tab, None) /\ foreign' = Behind(r.tab)
       ELSE UNCHANGED <<selected, storedGroup, foreign>>
    /\ UNCHANGED <<signed, expired, token, storedUser, user, torn>>

SaveNameTap(t) ==
    /\ user[t] # None
    /\ Ask(t, "name", Header(t), user[t].group)
    /\ UNCHANGED <<server, storage, stores, foreign, torn>>

\* The user of the tap is stored again, whoever is logged in by now.
SaveNameAnswer(r) ==
    /\ r.kind = "name" /\ Valid(r.token) /\ Arrive(r)
    /\ SetUser(r.tab, r.user)
    /\ torn' = (torn \/ user[r.tab] # r.user \/ r.tab \in foreign)
    /\ foreign' = Behind(r.tab)
    /\ UNCHANGED <<server, token, storedGroup, selected>>

-----------------------------------------------------------------------------
(* Any request of any page; refusals and reloads                           *)

OtherTap(t) ==
    /\ Ask(t, "other", Header(t), None)
    /\ UNCHANGED <<server, storage, stores, foreign, torn>>

\* A refusal, or an answer that is of no interest here, or is lost.
Refused(r) ==
    /\ Arrive(r)
    /\ UNCHANGED <<server, storage, stores, foreign, torn>>

Expire(n) ==
    /\ Valid(n) /\ expired' = expired \cup {n}
    /\ UNCHANGED <<signed, alive, storage, stores, net, foreign, torn>>

Dropped(t) == {r \in asked : r.tab = t}

\* A request that carried a token is answered 401, as a wrong password is: the tab logs out,
\* whoever is logged in by now, and loads the settings page, unless it shows it.
Unauthorized(r, reload) ==
    /\ r \in asked /\ r.token # 0
    /\ r.kind \in {"switch", "delete", "name"} => ~Valid(r.token)
    /\ asked' = asked \ (IF reload THEN Dropped(r.tab) ELSE {r}) /\ UNCHANGED sent
    /\ Logout(r.tab)
    /\ UNCHANGED server

\* The tab loads: its stores begin with what is stored.
Reload(t) ==
    /\ user' = [user EXCEPT ![t] = storedUser] /\ selected' = [selected EXCEPT ![t] = storedGroup]
    /\ foreign' = foreign \ {t}
    /\ asked' = asked \ Dropped(t) /\ UNCHANGED sent
    /\ UNCHANGED <<server, storage, torn>>

Next ==
    \/ \E t \in Tab :
         \/ \E u \in User : LoginTap(t, u)
         \/ \E g \in Group \cup {None} : ChangeGroup(t, g)
         \/ \E g \in Group : SwitchTap(t, g)
         \/ LogoutTap(t) \/ DeleteGroupTap(t) \/ SaveNameTap(t) \/ OtherTap(t) \/ Reload(t)
    \/ \E n \in Token : Expire(n)
    \/ \E r \in asked :
         \/ LoginAnswer(r) \/ SwitchAnswer(r) \/ DeleteGroupAnswer(r) \/ SaveNameAnswer(r) \/ Refused(r)
         \/ \E reload \in BOOLEAN : Unauthorized(r, reload)

Spec == Init /\ [][Next]_vars

-----------------------------------------------------------------------------
TypeOK ==
    /\ DOMAIN signed \subseteq Token /\ expired \subseteq DOMAIN signed /\ alive \subseteq Group
    /\ token \in {0} \cup DOMAIN signed /\ storedUser \in LoggedIn \cup {None}
    /\ storedGroup \in Group \cup {None}
    /\ user \in [Tab -> LoggedIn \cup {None}] /\ selected \in [Tab -> Group \cup {None}]
    /\ \A r \in asked : r.n \in 1..sent /\ r.tab \in Tab

\* Unless another tab changed the session after a tab loaded, or the answer to a name was
\* overtaken: what the tab shows, what it finds when it loads again and what its requests
\* carry are one session, and a tab that offers to manage a group sends a token for it.
SessionIsWhole ==
    ~torn => \A t \in Tab \ foreign :
        /\ user[t] = storedUser /\ selected[t] = storedGroup
        /\ IF user[t] = None THEN token = 0 ELSE token = user[t].token
        /\ CanManage(t) => signed[token].group = selected[t]
=============================================================================
