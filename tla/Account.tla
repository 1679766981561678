------------------------------- MODULE Account -------------------------------
(***************************************************************************)
(* How an account comes to be: the code that is mailed to an address       *)
(* (EmailVerificationService), the signup, which makes a group with its    *)
(* items, the reset of a password (UserService), a group of its own        *)
(* (GroupService.createGroup) and the template of items that a server      *)
(* stores when it starts (onModuleInit).                                   *)
(*                                                                         *)
(* There is one address.  Names, passwords and hashes are left out, and of *)
(* a code only whether it is the one of the row it is compared with.       *)
(***************************************************************************)
EXTENDS Integers, FiniteSets

CONSTANTS
    Slot,        \* calls at a time
    GroupName,
    RESEND_COOLDOWN, CODE_TTL, TOKEN_TTL, DAY,  \* in ticks of the clock
    DAILY_SEND_LIMIT, MAX_CONFIRM_ATTEMPTS,
    MaxTime, MaxCalls  \* bounds: ticks, and calls

VARIABLES
    now,
    codes, lastId,   \* the rows of EmailVerification, and its serial
    mailed,          \* the codes that are in the mail box
    kept,            \* history: rows that a failure has left without a mail
    tokens,          \* the tokens that were signed
    user,            \* the group of the user with the address, "none" without one
    groups,          \* the rows of Group, with the copies of its items
    template,        \* copies of the template's items
    call, calls      \* where each call stands, and how many there were

data == <<codes, lastId, mailed, kept, tokens, user, groups, template>>
vars == <<now, data, call, calls>>

Purpose == {"signup", "password_reset"}
\* History in a row: the newest id its request looked at, the wrong codes and the calls
\* it served, and whether two of these overlapped.
Idle == [pc |-> "idle", purpose |-> "signup", since |-> 0, seen |-> 0, row |-> 0,
         read |-> 0, name |-> "none"]

Init ==
    /\ now = 0 /\ codes = {} /\ lastId = 0 /\ mailed = {} /\ kept = {} /\ tokens = {}
    /\ user \in {"none", CHOOSE n \in GroupName : TRUE}
    /\ groups = IF user = "none" THEN {} ELSE {[name |-> user, signup |-> TRUE, items |-> 1]}
    /\ template = 0
    /\ call = [s \in Slot |-> Idle] /\ calls = 0

Tick == now < MaxTime /\ now' = now + 1 /\ UNCHANGED <<data, call, calls>>

Start(s, c) == /\ call[s].pc = "idle" /\ calls < MaxCalls
               /\ call' = [call EXCEPT ![s] = c] /\ calls' = calls + 1
To(s, pc)   == call' = [call EXCEPT ![s].pc = pc]
End(s)      == call' = [call EXCEPT ![s] = Idle]
Row(id)     == CHOOSE r \in codes : r.id = id
Exists(id)  == \E r \in codes : r.id = id
SetRow(id, f(_)) == codes' = {IF r.id = id THEN f(r) ELSE r : r \in codes}
\* The rows of the last moment at which a code was requested: any of them is the latest.
Latest(p)   == {r \in codes : r.purpose = p /\ \A x \in codes : x.purpose = p => x.at <= r.at}
Others(s, kinds) == {x \in Slot \ {s} : call[x].pc \in kinds}

-----------------------------------------------------------------------------
(* EmailVerificationService                                                *)

\* requestCode for an address it mails to; any other is answered without a step.
RequestCode(s, p) ==
    /\ p = "signup" <=> user = "none"
    /\ Start(s, [Idle EXCEPT !.pc = "latest", !.purpose = p, !.since = now])
    /\ UNCHANGED <<now, data>>

ReadLatest(s) ==
    /\ call[s].pc = "latest"
    /\ IF \E r \in Latest(call[s].purpose) : call[s].since - r.at < RESEND_COOLDOWN
       THEN End(s)
       ELSE call' = [call EXCEPT ![s].pc = "count", ![s].seen = lastId]
    /\ UNCHANGED <<now, data, calls>>

\* The mutant looks back no further than the wait.
SentInCooldown(s) == {r \in codes : r.purpose = call[s].purpose /\ r.at > call[s].since - RESEND_COOLDOWN}
SentInLastDay(s) == {r \in codes : r.purpose = call[s].purpose /\ r.at > call[s].since - DAY}
CountDay(s) ==
    /\ call[s].pc = "count"
    /\ IF Cardinality(SentInLastDay(s)) >= DAILY_SEND_LIMIT THEN End(s) ELSE To(s, "save")
    /\ UNCHANGED <<now, data, calls>>

SaveCode(s) ==
    /\ call[s].pc = "save"
    /\ lastId' = lastId + 1
    /\ codes' = codes \cup {[id |-> lastId + 1, purpose |-> call[s].purpose, at |-> now,
                             expires |-> call[s].since + CODE_TTL, attempts |-> 0,
                             verified |-> FALSE, consumed |-> FALSE, seen |-> call[s].seen,
                             tries |-> 0, uses |-> 0, overlapped |-> FALSE]}
    /\ call' = [call EXCEPT ![s].pc = "mail", ![s].row = lastId + 1]
    /\ UNCHANGED <<now, mailed, kept, tokens, user, groups, template, calls>>

\* The mail is sent, or the service fails: it may have been sent all the same.
SendMail(s, ok) ==
    /\ call[s].pc = "mail"
    /\ \/ mailed' = mailed \cup {call[s].row}
       \/ ~ok /\ UNCHANGED mailed
    /\ IF ok THEN End(s) ELSE To(s, "undo")
    /\ UNCHANGED <<now, codes, lastId, kept, tokens, user, groups, template, calls>>

\* The row is deleted again.
UndoCode(s) ==
    /\ call[s].pc = "undo"
    /\ codes' = {r \in codes : r.id # call[s].row}
    /\ End(s)
    /\ UNCHANGED <<now, lastId, mailed, kept, tokens, user, groups, template, calls>>

\* The mutant allows one more.
MayTryOnceMore(r) == r.attempts <= MAX_CONFIRM_ATTEMPTS
MayTry(r)         == r.attempts < MAX_CONFIRM_ATTEMPTS

\* confirmCode with the code of the latest row, or another; one that is refused at once
\* changes nothing.
ConfirmCode(s, p, right) ==
    \E r \in Latest(p) :
        /\ r.expires >= now /\ MayTry(r)
        /\ right => r.id \in mailed
        /\ Start(s, [Idle EXCEPT !.pc = IF right THEN "verify" ELSE "bump", !.row = r.id,
                                 !.read = r.attempts])
        /\ SetRow(r.id, LAMBDA x : [x EXCEPT !.overlapped = @ \/ \E o \in Others(s, {"bump"}) : call[o].row = x.id])
        /\ UNCHANGED <<now, lastId, mailed, kept, tokens, user, groups, template>>

BumpAttempts(s) ==
    /\ call[s].pc = "bump"
    /\ SetRow(call[s].row, LAMBDA r : [r EXCEPT !.attempts = call[s].read + 1, !.tries = @ + 1])
    /\ End(s)
    /\ UNCHANGED <<now, lastId, mailed, kept, tokens, user, groups, template, calls>>

\* A code that is confirmed may be confirmed again.
VerifyCode(s) ==
    /\ call[s].pc = "verify"
    /\ SetRow(call[s].row, LAMBDA r : [r EXCEPT !.verified = TRUE])
    /\ tokens' = tokens \cup {[row |-> call[s].row, until |-> now + TOKEN_TTL]}
    /\ End(s)
    /\ UNCHANGED <<now, lastId, mailed, kept, user, groups, template, calls>>

\* assertVerified.  Nothing is locked: what it saw may be spent when it is used.  The
\* mutant does not look whether it is spent.
VerifiedBefore(t, p) == /\ now < t.until /\ Exists(t.row)
                        /\ Row(t.row).purpose = p /\ Row(t.row).verified
Verified(t, p) == /\ now < t.until /\ Exists(t.row)
                  /\ Row(t.row).purpose = p /\ Row(t.row).verified /\ ~Row(t.row).consumed
Serve(s, pcs)  == SetRow(call[s].row, LAMBDA r : [r EXCEPT !.consumed = TRUE, !.uses = @ + 1,
                    !.overlapped = @ \/ \E o \in Others(s, pcs) : call[o].row = r.id])

-----------------------------------------------------------------------------
(* UserService: one transaction each                                       *)

CreateUser(s, t, n) ==
    /\ Verified(t, "signup")
    /\ Start(s, [Idle EXCEPT !.pc = "group", !.row = t.row, !.name = n])
    /\ UNCHANGED <<now, data>>

\* A name that another transaction has stored makes it wait; one that is there, fail.
Named(n)    == \E g \in groups : g.name = n
InsertGroup(s) ==
    /\ call[s].pc = "group" /\ \A o \in Others(s, {"user", "commit"}) : call[o].name # call[s].name
    /\ IF Named(call[s].name) THEN End(s) ELSE To(s, "user")
    /\ UNCHANGED <<now, data, calls>>

InsertUser(s) ==
    /\ call[s].pc = "user" /\ Others(s, {"commit"}) = {}
    /\ IF user # "none" THEN End(s) ELSE To(s, "commit")
    /\ UNCHANGED <<now, data, calls>>

\* seedLogitemsForGroup: the template's items, or the default ones.
Seeded == IF template = 0 THEN 1 ELSE template

\* seedLogitemsForGroup, markConsumed and the commit.
CommitUser(s) ==
    /\ call[s].pc = "commit"
    /\ groups' = groups \cup {[name |-> call[s].name, signup |-> TRUE, items |-> Seeded]}
    /\ user' = call[s].name
    /\ Serve(s, {"group", "user"}) /\ End(s)
    /\ UNCHANGED <<now, lastId, mailed, kept, tokens, template, calls>>

\* resetPassword: the user is found before the transaction, whose update waits for
\* another of the same row.
ResetPassword(s, t) ==
    /\ Verified(t, "password_reset")
    /\ Start(s, [Idle EXCEPT !.pc = "find", !.row = t.row])
    /\ UNCHANGED <<now, data>>

FindUser(s) ==
    /\ call[s].pc = "find"
    /\ IF user = "none" THEN End(s) ELSE To(s, "password")
    /\ UNCHANGED <<now, data, calls>>

CommitPassword(s) ==
    /\ call[s].pc = "password"
    /\ Serve(s, {"find", "password"}) /\ End(s)
    /\ UNCHANGED <<now, lastId, mailed, kept, tokens, user, groups, template, calls>>

\* The group of a user that is deleted stays.
DeleteUser ==
    /\ user # "none" /\ calls < MaxCalls /\ calls' = calls + 1
    /\ user' = "none"
    /\ UNCHANGED <<now, codes, lastId, mailed, kept, tokens, groups, template, call>>

-----------------------------------------------------------------------------
(* GroupService                                                            *)

\* createGroup: two transactions.
CreateGroup(s, n) ==
    /\ ~Named(n) /\ \A o \in Others(s, {"user", "commit"}) : call[o].name # n
    /\ Start(s, [Idle EXCEPT !.pc = "seed", !.name = n])
    /\ groups' = groups \cup {[name |-> n, signup |-> FALSE, items |-> 0]}
    /\ UNCHANGED <<now, codes, lastId, mailed, kept, tokens, user, template>>

SeedGroup(s) ==
    /\ call[s].pc = "seed"
    /\ groups' = {IF g.name = call[s].name THEN [g EXCEPT !.items = Seeded] ELSE g : g \in groups}
    /\ End(s)
    /\ UNCHANGED <<now, codes, lastId, mailed, kept, tokens, user, template, calls>>

\* onModuleInit: the lock is taken, the items are counted and stored; the lock is let
\* go with the transaction.  The mutant takes no lock.
Unlocked(s) == FALSE
Locked(s) == Others(s, {"template", "empty"}) # {}

Boot(s) ==
    /\ ~Locked(s)
    /\ Start(s, [Idle EXCEPT !.pc = "template"])
    /\ UNCHANGED <<now, data>>

CountTemplate(s) ==
    /\ call[s].pc = "template"
    /\ IF template > 0 THEN End(s) ELSE To(s, "empty")
    /\ UNCHANGED <<now, data, calls>>

SeedTemplate(s) ==
    /\ call[s].pc = "empty"
    /\ template' = template + 1 /\ End(s)
    /\ UNCHANGED <<now, codes, lastId, mailed, kept, tokens, user, groups, calls>>

\* A statement throws, and its transaction is rolled back; or the server stops.  When it
\* is the deletion of a row, only the log has it.
Fail(s) ==
    /\ call[s].pc # "idle"
    /\ kept' = IF call[s].pc \in {"mail", "undo"} THEN kept \cup {call[s].row} ELSE kept
    /\ End(s)
    /\ UNCHANGED <<now, codes, lastId, mailed, tokens, user, groups, template, calls>>

Step(s) ==
    \/ \E p \in Purpose : RequestCode(s, p) \/ \E right \in BOOLEAN : ConfirmCode(s, p, right)
    \/ ReadLatest(s) \/ CountDay(s) \/ SaveCode(s)
    \/ \E ok \in BOOLEAN : SendMail(s, ok)
    \/ UndoCode(s) \/ BumpAttempts(s) \/ VerifyCode(s)
    \/ \E t \in tokens : ResetPassword(s, t) \/ \E n \in GroupName : CreateUser(s, t, n)
    \/ InsertGroup(s) \/ InsertUser(s) \/ CommitUser(s) \/ FindUser(s) \/ CommitPassword(s)
    \/ \E n \in GroupName : CreateGroup(s, n)
    \/ SeedGroup(s) \/ Boot(s) \/ CountTemplate(s) \/ SeedTemplate(s) \/ Fail(s)

Next == Tick \/ DeleteUser \/ \E s \in Slot : Step(s)

Spec == Init /\ [][Next]_vars

-----------------------------------------------------------------------------
TypeOK ==
    /\ now \in 0..MaxTime /\ mailed \cup kept \subseteq 1..lastId /\ calls \in 0..MaxCalls
    /\ \A r \in codes : r.id \in 1..lastId /\ r.purpose \in Purpose /\ r.attempts \in 0..MAX_CONFIRM_ATTEMPTS
    /\ \A t \in tokens : t.row \in 1..lastId
    /\ user \in GroupName \cup {"none"} /\ \A g \in groups : g.name \in GroupName

\* A code is requested again only after the wait, and the day's limit holds, unless two
\* requests overlap; a mail that failed costs neither, unless its row could not be
\* deleted or the server stopped: every other row that is left is of a mail that was sent.
CodesAreSpaced ==
    /\ \A r, x \in codes : r.purpose = x.purpose /\ r.id <= x.seen => x.at - r.at >= RESEND_COOLDOWN
    /\ \A x \in codes : Cardinality({r \in codes : r.purpose = x.purpose /\ r.id <= x.seen
                                                   /\ r.at > x.at - DAY}) < DAILY_SEND_LIMIT
    /\ \A r \in codes : r.id \in mailed \cup kept \/ \E s \in Slot : call[s].row = r.id

\* Unless two of its calls overlap, every wrong code counts, and what was confirmed
\* serves one signup or one reset: it is consumed if and only if that was stored.
VerificationsServeOnce ==
    \A r \in codes :
        /\ r.consumed <=> r.uses > 0
        /\ ~r.overlapped => r.uses <= 1 /\ r.attempts = r.tries

\* A user has a group, and the group of a signup has every item once: never none, which
\* would leave nothing to record with; nor two, as the template has, however many
\* servers start at once.
GroupsStartWhole ==
    /\ user # "none" => \E g \in groups : g.name = user /\ g.signup
    /\ \A g \in groups : g.signup => g.items = 1
    /\ \A g, h \in groups : g.name = h.name => g = h
    /\ template <= 1
=============================================================================
