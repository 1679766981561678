------------------------------ MODULE Members ------------------------------
(***************************************************************************)
(* Who belongs to a group and who is logged in: teams and players, the     *)
(* accounts and the forms in front of them, the session of a browser,      *)
(* inquiries and the form they are written in.  They share nothing but the *)
(* run: one of them moves, the others stay as they begin.                  *)
(***************************************************************************)
EXTENDS Team

CONSTANTS
    Slot, GroupName,                            \* Account
    RESEND_COOLDOWN, CODE_TTL, TOKEN_TTL, DAY, DAILY_SEND_LIMIT, MAX_CONFIRM_ATTEMPTS,
    MaxTime, MaxSlotCalls,
    Text, PageSize, MaxInquiries, MaxAnswers,   \* Inquiry
    Tab, Group, None, MaxTokens, MaxAsked,      \* Session
    Email, SECOND, COOLDOWN, FORM_CODE_TTL, MaxFormTime, MaxFormCalls, MaxForms,   \* AuthForms
    MaxVisits, MaxSends                         \* InquiryForm

\* Waits are ticks of the clock, limits are numbers, and there is a name to give a group.
CodeBounds ==
    /\ RESEND_COOLDOWN \in Nat /\ DAY \in Nat
    /\ DAILY_SEND_LIMIT \in Nat /\ MAX_CONFIRM_ATTEMPTS \in Nat
    /\ GroupName # {} /\ MaxTime \in Nat /\ MaxSlotCalls \in Nat
ASSUME CodeAssumption == CodeBounds

\* Rows are shown in pages, and an answer is not what a row has without one.
InquiryBounds ==
    /\ PageSize \in Nat \ {0} /\ MaxInquiries \in Nat /\ MaxAnswers \in Nat
    /\ "none" \notin Text
ASSUME InquiryAssumption == InquiryBounds

\* Everyone who logs in has a group.
SessionBounds == Group # {} /\ MaxTokens \in Nat
ASSUME SessionAssumption == SessionBounds

\* The clock ticks once a second at least, and the form counts whole seconds.
FormBounds ==
    /\ "none" \notin Email
    /\ SECOND \in Nat \ {0} /\ COOLDOWN \in Nat /\ FORM_CODE_TTL \in Nat
    /\ MaxFormTime \in Nat /\ MaxFormCalls \in Nat /\ MaxForms \in Nat
ASSUME FormAssumption == FormBounds

\* Forms are counted, and so is what they send.
WritingBounds == MaxVisits \in Nat /\ MaxSends \in Nat
ASSUME WritingAssumption == WritingBounds

VARIABLES
    part,
    now, codes, lastId, mailed, kept, tokens, account, groups, template, aCall, calls,
    inquiries, mails, rolledBack, iCall, answers, list, pages, total, count, failed, fetch,
    counting, opened, inFlight, stale,
    signed, expired, liveGroups, token, storedUser, storedGroup, user, selected, asked,
    sSent, foreign, torn,
    fNow, fCodes, accounts, fAsked, fCalls, view, visit, form, email, codeSent, cooldown, phase,
    fBusy, verifiedEmail, fToken, edited, lost, unmailed, missing,
    written, wOpen, isSending, wAsked, wSends, stored, told, abandoned

accountVars == <<now, codes, lastId, mailed, kept, tokens, account, groups, template, aCall, calls>>
inquiryVars == <<inquiries, mails, rolledBack, iCall, answers, list, pages, total, count, failed,
                 fetch, counting, opened, inFlight, stale>>
sessionVars == <<signed, expired, liveGroups, token, storedUser, storedGroup, user, selected, asked,
                 sSent, foreign, torn>>
formVars    == <<fNow, fCodes, accounts, fAsked, fCalls, view, visit, form, email, codeSent, cooldown, phase,
                 fBusy, verifiedEmail, fToken, edited, lost, unmailed, missing>>
writeVars   == <<written, wOpen, isSending, wAsked, wSends, stored, told, abandoned>>

Accounts == INSTANCE Account WITH user <- account, call <- aCall, MaxCalls <- MaxSlotCalls

Inquiries == INSTANCE Inquiry WITH rows <- inquiries, torn <- rolledBack, call <- iCall

Browser == INSTANCE Session WITH alive <- liveGroups, sent <- sSent

Forms == INSTANCE AuthForms WITH
    now <- fNow, codes <- fCodes, asked <- fAsked, calls <- fCalls, busy <- fBusy, token <- fToken,
    CODE_TTL <- FORM_CODE_TTL, MaxTime <- MaxFormTime, MaxCalls <- MaxFormCalls

Writing == INSTANCE InquiryForm WITH visit <- written, open <- wOpen, asked <- wAsked, sends <- wSends

Parts == {"team", "account", "inquiry", "session", "forms", "writing"}

MembersInit ==
    /\ part \in Parts
    /\ Init /\ Accounts!Init /\ Inquiries!Init /\ Browser!Init /\ Forms!Init /\ Writing!Init

MembersNext ==
    /\ UNCHANGED part
    /\ IF part = "team" THEN Next ELSE UNCHANGED vars
    /\ IF part = "account" THEN Accounts!Next ELSE UNCHANGED accountVars
    /\ IF part = "inquiry" THEN Inquiries!Next ELSE UNCHANGED inquiryVars
    /\ IF part = "session" THEN Browser!Next ELSE UNCHANGED sessionVars
    /\ IF part = "forms" THEN Forms!Next ELSE UNCHANGED formVars
    /\ IF part = "writing" THEN Writing!Next ELSE UNCHANGED writeVars

MembersSpec == MembersInit /\ [][MembersNext]_<<part, vars, accountVars, inquiryVars, sessionVars,
                                                  formVars, writeVars>>

-----------------------------------------------------------------------------
\* Every part stays in its domain.
TypesOK == CASE part = "team" -> TypeOK [] part = "account" -> Accounts!TypeOK
             [] part = "inquiry" -> Inquiries!TypeOK [] part = "session" -> Browser!TypeOK
             [] part = "forms" -> Forms!TypeOK [] part = "writing" -> Writing!TypeOK

\* Codes are not mailed too soon or too often, nor tried too often (Account.tla).
CodesAreSpaced == part = "account" => Accounts!CodesAreSpaced

\* A verification serves one call (Account.tla).
VerificationsServeOnce == part = "account" => Accounts!VerificationsServeOnce

\* A group begins with its items, once (Account.tla).
GroupsStartWhole == part = "account" => Accounts!GroupsStartWhole

\* A stored answer was mailed (Inquiry.tla).
AnsweredMeansMailed == part = "inquiry" => Inquiries!AnsweredMeansMailed

\* The page shows the inquiries there are, and answers each once at a time (Inquiry.tla).
PageShowsInquiries == part = "inquiry" => Inquiries!PageShowsInquiries

\* What a tab shows, stores and sends is one session (Session.tla).
SessionIsWhole == part = "session" => Browser!SessionIsWhole

\* The forms of someone who is not logged in speak the truth, and an inquiry is stored
\* once (AuthForms.tla, InquiryForm.tla).
FormSpeaksTrue == /\ part = "forms" => Forms!FormSpeaksTrue
                  /\ part = "writing" => Writing!SentOnce
=============================================================================
