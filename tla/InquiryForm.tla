----------------------------- MODULE InquiryForm -----------------------------
(***************************************************************************)
(* The form that an inquiry is written in.  Its button is off while one is *)
(* sent; the form closes when it was stored, and stays, with what was      *)
(* written, when it was not, or when the answer is lost.  What the admin   *)
(* makes of the inquiries is in Inquiry.tla.                               *)
(*                                                                         *)
(* A form that is left does not take back what it has sent: an answer that *)
(* comes then still leads away from whatever page is open.                 *)
(***************************************************************************)
EXTENDS Integers, FiniteSets

CONSTANTS MaxVisits, MaxSends   \* bounds: forms that are opened, and times one is sent

VARIABLES
    visit, open,    \* the number of the form, and whether it is the page that is open
    isSending,
    asked, sends,   \* requests and answers under way, and how many were sent
    stored,         \* the inquiries, by the form they were written in
    told,           \* the messages: for each form, those of success and of failure
    abandoned       \* history: a form was left before its answer

vars == <<visit, open, isSending, asked, sends, stored, told, abandoned>>

Visit == 1..MaxVisits

Init ==
    /\ visit = 0 /\ open = FALSE /\ isSending = FALSE
    /\ asked = {} /\ sends = 0
    /\ stored = [v \in Visit |-> 0]
    /\ told = [v \in Visit |-> [success |-> 0, error |-> 0]]
    /\ abandoned = FALSE

Open ==
    /\ ~open /\ visit < MaxVisits
    /\ open' = TRUE /\ visit' = visit + 1 /\ isSending' = FALSE
    /\ UNCHANGED <<asked, sends, stored, told, abandoned>>

\* handleSubmit.  The mutant sends while another is under way.
AnyTime == open
MaySend == open /\ ~isSending
Submit ==
    /\ MaySend /\ sends < MaxSends
    /\ isSending' = TRUE /\ sends' = sends + 1
    /\ asked' = asked \cup {[n |-> sends + 1, visit |-> visit, pc |-> "sent"]}
    /\ UNCHANGED <<visit, open, stored, told, abandoned>>

\* The button to cancel, or another page of the application.
Leave ==
    /\ open /\ open' = FALSE
    /\ abandoned' = (abandoned \/ \E r \in asked : r.visit = visit)
    /\ UNCHANGED <<visit, isSending, asked, sends, stored, told>>

\* POST /inquiry stores it, or refuses it; a request that is lost is refused.
Serve(r, ok) ==
    /\ r \in asked /\ r.pc = "sent"
    /\ asked' = (asked \ {r}) \cup {[r EXCEPT !.pc = IF ok THEN "stored" ELSE "refused"]}
    /\ stored' = IF ok THEN [stored EXCEPT ![r.visit] = @ + 1] ELSE stored
    /\ UNCHANGED <<visit, open, isSending, sends, told, abandoned>>

Stored(r) ==
    /\ r \in asked /\ r.pc = "stored" /\ asked' = asked \ {r}
    /\ told' = [told EXCEPT ![r.visit].success = @ + 1]
    /\ open' = FALSE
    /\ UNCHANGED <<visit, isSending, sends, stored, abandoned>>

\* Of a form that is gone, only the message is seen.
Fails(r) ==
    /\ r \in asked /\ r.pc \in {"stored", "refused"} /\ asked' = asked \ {r}
    /\ told' = [told EXCEPT ![r.visit].error = @ + 1]
    /\ isSending' = (isSending /\ r.visit # visit)
    /\ UNCHANGED <<visit, open, sends, stored, abandoned>>

Next ==
    \/ Open \/ Submit \/ Leave
    \/ \E r \in asked : Stored(r) \/ Fails(r) \/ \E ok \in BOOLEAN : Serve(r, ok)

Spec == Init /\ [][Next]_vars

-----------------------------------------------------------------------------
TypeOK ==
    /\ visit \in 0..MaxVisits /\ open \in BOOLEAN /\ isSending \in BOOLEAN
    /\ asked \subseteq [n : 1..MaxSends, visit : Visit, pc : {"sent", "stored", "refused"}]
    /\ sends \in 0..MaxSends /\ stored \in [Visit -> 0..MaxSends]

\* What is written in one form is stored once, but for the times it was told that it had
\* failed; and as long as no form was left before its answer, the form that is open
\* waits if and only if an answer is to come, and has not been told that it was stored.
SentOnce ==
    /\ \A v \in Visit : stored[v] <= 1 + told[v].error
    /\ ~abandoned /\ open =>
         /\ isSending <=> asked # {}
         /\ told[visit].success = 0
=============================================================================
