------------------------------ MODULE AuthForms ------------------------------
(***************************************************************************)
(* The forms of someone who is not logged in: Signup and PasswordReset,    *)
(* each a step with a code (EmailCodeVerification) and a step with the     *)
(* token it brings.  A resend is offered again when the seconds that the   *)
(* form counts down are over; the address may be edited until the form     *)
(* knows that a code was sent.                                             *)
(*                                                                         *)
(* The services are those of Account.tla: here each call to them is one    *)
(* step, and limits of attempts and of mails a day, names and passwords    *)
(* are left out.                                                           *)
(***************************************************************************)
EXTENDS Integers, FiniteSets, FiniteSetsExt

CONSTANTS
    Email,
    SECOND, COOLDOWN, CODE_TTL,  \* in ticks of the clock; COOLDOWN in seconds of the form
    MaxTime, MaxCalls, MaxForms  \* bounds: ticks, calls, and forms that are opened

VARIABLES
    now,
    codes,        \* the server: rows of EmailVerification
    accounts,     \* the addresses with an account
    asked, calls, \* requests and answers that are under way
    view, visit,  \* what is open, and how often that was changed
    form,         \* how many steps with a code were begun
    email, codeSent, cooldown, phase, busy,  \* EmailCodeVerification and its interval
    verifiedEmail, token,                    \* Signup, PasswordReset: what was verified
    edited, lost, unmailed, \* history of the form: the address was edited while a code was
                  \* asked for; an answer was lost, or a mail; a code was asked for nobody
    missing       \* history: the ticks that a resend came too early, and the codes that the form
                  \* had asked for then

server == <<codes, accounts>>
fields == <<email, codeSent, cooldown, phase, busy>>
step   == <<verifiedEmail, token>>
past   == <<edited, lost, unmailed>>
vars   == <<now, server, asked, calls, view, visit, form, fields, step, past, missing>>

Purpose == {"signup", "password_reset"}
NoToken == 0

Init ==
    /\ now = 0 /\ codes = {} /\ accounts \in {{}, Email}
    /\ asked = {} /\ calls = 0 /\ view = "login" /\ visit = 0 /\ form = 0
    /\ email = "none" /\ codeSent = FALSE /\ cooldown = 0 /\ phase = 0 /\ busy = FALSE
    /\ verifiedEmail = "none" /\ token = NoToken
    /\ edited = FALSE /\ lost = FALSE /\ unmailed = FALSE /\ missing = [ticks |-> 0, codes |-> 0]

-----------------------------------------------------------------------------
(* The services                                                            *)

Rows(r)   == {c \in codes : c.email = r.email /\ c.purpose = r.purpose}
Latest(r) == {c \in Rows(r) : \A d \in Rows(r) : d.id <= c.id}
Answer(r, pc) == asked' = (asked \ {r}) \cup {[r EXCEPT !.pc = pc]}

\* requestCode.  Where nobody has an account nothing is mailed, and the answer the
\* same; a mail that fails may leave its row.
TooSoon(r) == {c \in Latest(r) : now - c.at < COOLDOWN * SECOND}
ServeCode(r, outcome) ==
    /\ r.kind = "code" /\ r.pc = "sent"
    /\ CASE r.purpose = "signup" /\ r.email \in accounts ->
              outcome = "refused" /\ Answer(r, "failed") /\ UNCHANGED <<codes, lost, unmailed, missing>>
         [] r.purpose = "password_reset" /\ r.email \notin accounts ->
              outcome = "mailed" /\ Answer(r, "ok") /\ UNCHANGED <<codes, lost, missing>>
              /\ unmailed' = (unmailed \/ r.form = form)
         [] OTHER ->
              IF TooSoon(r) # {}
              THEN /\ outcome = "refused" /\ Answer(r, "failed")
                   /\ missing' = IF \A c \in TooSoon(r) : c.form = form /\ form = r.form /\ ~lost
                                 THEN [ticks |-> Max({COOLDOWN * SECOND - (now - c.at) : c \in TooSoon(r)}),
                                       codes |-> Cardinality({c \in codes : c.form = form}) + IF unmailed THEN 1 ELSE 0]
                                 ELSE missing
                   /\ UNCHANGED <<codes, lost, unmailed>>
              ELSE /\ outcome \in {"mailed", "left", "failed"}
                   /\ codes' = IF outcome = "failed" THEN codes
                               ELSE codes \cup {[id |-> Cardinality(codes) + 1, email |-> r.email,
                                                 purpose |-> r.purpose, form |-> r.form, at |-> now,
                                                 mailed |-> outcome = "mailed", verified |-> FALSE,
                                                 consumed |-> FALSE]}
                   /\ lost' = (lost \/ outcome = "left")
                   /\ Answer(r, IF outcome = "mailed" THEN "ok" ELSE "failed")
                   /\ UNCHANGED <<unmailed, missing>>
    /\ UNCHANGED <<now, accounts, calls, view, visit, form, fields, step, edited>>

\* confirmCode: the latest code, while it is valid.
ServeConfirm(r) ==
    /\ r.kind = "confirm" /\ r.pc = "sent"
    /\ LET right == {c \in Latest(r) : c.id = r.code /\ now <= c.at + CODE_TTL} IN
       /\ codes' = (codes \ right) \cup {[c EXCEPT !.verified = TRUE] : c \in right}
       /\ Answer(r, IF right = {} THEN "failed" ELSE "ok")
    /\ UNCHANGED <<now, accounts, calls, view, visit, form, fields, step, past, missing>>

\* createUser and resetPassword: a token that is spent or has expired is unauthorized.
Valid(r) == \E c \in codes : c.id = r.code /\ c.verified /\ ~c.consumed
                             /\ c.email = r.email /\ c.purpose = r.purpose
ServeSubmit(r, outcome) ==
    /\ r.kind = "submit" /\ r.pc = "sent"
    /\ Answer(r, outcome)
    /\ IF outcome = "ok"
       THEN /\ Valid(r) /\ (r.purpose = "signup" <=> r.email \notin accounts)
            /\ codes' = {IF c.id = r.code THEN [c EXCEPT !.consumed = TRUE] ELSE c : c \in codes}
            /\ accounts' = accounts \cup {r.email}
       ELSE outcome \in {"failed", "unauthorized"} /\ UNCHANGED server
    /\ UNCHANGED <<now, calls, view, visit, form, fields, step, past, missing>>

-----------------------------------------------------------------------------
(* The forms                                                               *)

\* A step with a code begins anew.
Fresh == email' = "none" /\ codeSent' = FALSE /\ cooldown' = 0 /\ phase' = 0 /\ busy' = FALSE
Begin == /\ Fresh /\ form' = form + 1
         /\ verifiedEmail' = "none" /\ token' = NoToken
         /\ edited' = FALSE /\ lost' = FALSE /\ unmailed' = FALSE

\* setView, from the login form to another or back.
SetView(v) == view' = v /\ visit' = visit + 1 /\ Begin
Open(v) ==
    /\ v # view /\ "login" \in {v, view}
    /\ visit < MaxForms /\ SetView(v)
    /\ UNCHANGED <<now, server, asked, calls, missing>>

\* The interval runs since the first code was sent, and a browser may skip a beat.
Tick(skipped) ==
    /\ now < MaxTime /\ now' = now + 1
    /\ phase' = IF codeSent THEN (phase + 1) % SECOND ELSE phase
    /\ skipped => codeSent /\ phase' = 0 /\ cooldown > 0
    /\ cooldown' = IF codeSent /\ phase' = 0 /\ ~skipped /\ cooldown > 0 THEN cooldown - 1 ELSE cooldown
    /\ UNCHANGED <<server, asked, calls, view, visit, form, email, codeSent, busy, step, past, missing>>

Coding == view \in Purpose /\ token = NoToken
Edit(e) ==
    /\ Coding /\ ~codeSent /\ email # e
    /\ email' = e /\ edited' = (edited \/ busy)
    /\ UNCHANGED <<now, server, asked, calls, view, visit, form, codeSent, cooldown, phase, busy,
                   step, lost, unmailed, missing>>

Send(kind, e, c) ==
    /\ calls < MaxCalls /\ calls' = calls + 1
    /\ asked' = asked \cup {[kind |-> kind, visit |-> visit, form |-> form, purpose |-> view,
                            email |-> e, code |-> c, pc |-> "sent"]}

\* requestCode: the first code, or a resend.
RequestCode ==
    /\ Coding /\ ~busy /\ email # "none" /\ (codeSent => cooldown = 0)
    /\ Send("code", email, 0)
    /\ busy' = TRUE
    /\ UNCHANGED <<now, server, view, visit, form, email, codeSent, cooldown, phase, step, past, missing>>

\* Whatever of the mailed codes is typed, or a wrong one.
Confirm(c) ==
    /\ Coding /\ ~busy /\ codeSent
    /\ c = 0 \/ \E m \in codes : m.id = c /\ m.mailed
    /\ Send("confirm", email, c)
    /\ busy' = TRUE
    /\ UNCHANGED <<now, server, view, visit, form, email, codeSent, cooldown, phase, step, past, missing>>

\* handleSignup and handleReset, which may be sent twice.
Submit ==
    /\ view \in Purpose /\ token # NoToken
    /\ Send("submit", verifiedEmail, token)
    /\ UNCHANGED <<now, server, view, visit, form, fields, step, past, missing>>

Arrive(r, good) ==
    /\ r \in asked /\ r.pc # "sent" /\ (good => r.pc = "ok")
    /\ asked' = asked \ {r}
    /\ UNCHANGED <<now, server, calls, missing>>

\* A step that is over takes no answer.
Drop(r) == /\ r.kind # "submit" /\ r.form # form /\ Arrive(r, r.pc = "ok")
           /\ UNCHANGED <<view, visit, form, fields, step, past>>

\* The mutant counts from one second less.
Sooner == COOLDOWN - 1
Wait   == COOLDOWN
CodeAnswer(r, good) ==
    /\ r.kind = "code" /\ r.form = form /\ Arrive(r, good)
    /\ busy' = FALSE
    /\ codeSent' = (codeSent \/ good)
    /\ cooldown' = IF good THEN Wait ELSE cooldown
    /\ lost' = (lost \/ (r.pc = "ok" /\ ~good))
    /\ UNCHANGED <<view, visit, form, email, phase, step, edited, unmailed>>

\* onVerified, with the address that the call was made with, ends the step.
ConfirmAnswer(r, good) ==
    /\ r.kind = "confirm" /\ r.form = form /\ Arrive(r, good)
    /\ IF good THEN Fresh /\ verifiedEmail' = r.email /\ token' = r.code
       ELSE busy' = FALSE /\ UNCHANGED <<email, codeSent, cooldown, phase, step>>
    /\ UNCHANGED <<view, visit, form, past>>

\* Success opens the login form, whatever is open by then.  Signup starts over when its
\* token is refused, with another one too; PasswordReset stays where it is.
SubmitAnswer(r, good) ==
    /\ r.kind = "submit" /\ Arrive(r, good)
    /\ CASE good /\ view # "login" -> SetView("login")
         [] r.pc = "unauthorized" /\ r.purpose = "signup" /\ r.visit = visit /\ token # NoToken ->
              Begin /\ UNCHANGED <<view, visit>>
         [] OTHER -> UNCHANGED <<view, visit, form, fields, step, past>>

Next ==
    \/ \E skipped \in BOOLEAN : Tick(skipped)
    \/ \E v \in Purpose \cup {"login"} : Open(v)
    \/ \E e \in Email : Edit(e)
    \/ RequestCode \/ Submit
    \/ \E c \in 0..Cardinality(codes) : Confirm(c)
    \/ \E r \in asked :
         \/ \E outcome \in {"mailed", "left", "failed", "refused"} : ServeCode(r, outcome)
         \/ \E outcome \in {"ok", "failed", "unauthorized"} : ServeSubmit(r, outcome)
         \/ ServeConfirm(r) \/ Drop(r)
         \/ \E good \in BOOLEAN : CodeAnswer(r, good) \/ ConfirmAnswer(r, good) \/ SubmitAnswer(r, good)

Spec == Init /\ [][Next]_vars

-----------------------------------------------------------------------------
TypeOK ==
    /\ now \in 0..MaxTime /\ accounts \subseteq Email /\ calls \in 0..MaxCalls
    /\ \A c \in codes : c.id \in 1..Cardinality(codes) /\ c.email \in Email /\ c.at \in 0..now
    /\ view \in Purpose \cup {"login"} /\ email \in Email \cup {"none"}
    /\ cooldown \in 0..COOLDOWN /\ phase \in 0..(SECOND - 1) /\ busy \in BOOLEAN
    /\ token \in 0..Cardinality(codes) /\ verifiedEmail \in Email \cup {"none"}

\* The form speaks the truth: it says that a code was mailed to the address it shows,
\* unless that was edited meanwhile (or nobody has an account there); it hands on a
\* token of the address and the purpose it was verified for; and a resend that it
\* offers is not too early for the server, but that from the third code on it may be by
\* a part of a second, as the interval goes on beating when a code is sent again.
FormSpeaksTrue ==
    /\ codeSent /\ ~edited => \/ \E c \in codes : c.form = form /\ c.mailed /\ c.email = email /\ c.purpose = view
                              \/ view = "password_reset" /\ unmailed
    /\ token # NoToken => \E c \in codes : c.id = token /\ c.verified /\ c.email = verifiedEmail /\ c.purpose = view
    /\ missing.ticks < SECOND /\ (missing.ticks > 0 => missing.codes > 1)
=============================================================================
