------------------------------- MODULE Inquiry -------------------------------
(***************************************************************************)
(* Inquiries: InquiryService and the page of the admin.  An answer is      *)
(* stored, mailed and committed in one transaction that holds the row;     *)
(* the page then loads its list, page by page, and the number of the       *)
(* unanswered again.                                                       *)
(*                                                                         *)
(* Types, authors, what they wrote and drafts are left out.  The queries   *)
(* of the page are those of TanStack Query: a new fetch takes the place of *)
(* one that is running, and its pages are asked for one after the other.   *)
(***************************************************************************)
EXTENDS Integers, Sequences, SequencesExt, FiniteSets, FiniteSetsExt

CONSTANTS
    Text,       \* answers
    PageSize,   \* INQUIRY_PAGE_SIZE, 20
    MaxInquiries, MaxAnswers  \* bounds: rows, and calls that answer

VARIABLES
    rows,      \* for each inquiry its answer, "none" while it is pending
    mails,     \* the answers mailed to its author, in order
    torn,      \* history: inquiries with a mail whose transaction was not committed
    call,      \* the answer of the page, and of another admin, to each
    answers,   \* bound: calls so far
    list, pages, total,  \* the page: the rows and pages it shows, of how many,
    count, failed,       \* how many are pending (-1: not known), and an error
    fetch, counting,             \* its queries
    opened, inFlight,            \* its open row, and the rows it answers
    stale      \* history: the inquiries changed after the page began to load them

server == <<rows, mails, torn, call, answers>>
shown  == <<list, pages, total, count, failed, fetch, counting>>
form   == <<opened, inFlight>>
vars   == <<server, shown, form, stale>>

Id     == 1..MaxInquiries
Ids    == 1..Len(rows)
Source == {"page", "other"}
Idle   == [pc |-> "idle", text |-> "none"]
NoFetch == [pc |-> "idle", want |-> 0, got |-> <<>>, next |-> 0]

Init ==
    /\ rows = <<>> /\ mails = [i \in Id |-> <<>>] /\ torn = {}
    /\ call = [i \in Id |-> [s \in Source |-> Idle]] /\ answers = 0
    /\ list = <<>> /\ pages = 0 /\ total = 0 /\ count = -1 /\ failed = FALSE
    /\ fetch = [pc |-> "all", want |-> 1, got |-> <<>>, next |-> 1] /\ counting = TRUE
    /\ opened = 0 /\ inFlight = {}
    /\ stale = FALSE

\* list: the newest first, and the number of all.
Newest(n)  == [k \in 1..n |-> [id |-> Len(rows) - k + 1, answer |-> rows[Len(rows) - k + 1]]]
ListPage(k) == SubSeq(Newest(Len(rows)), (k - 1) * PageSize + 1, Min({Len(rows), k * PageSize}))
Pending    == {i \in Ids : rows[i] = "none"}

Create ==
    /\ Len(rows) < MaxInquiries
    /\ rows' = Append(rows, "none") /\ stale' = TRUE
    /\ UNCHANGED <<mails, torn, call, answers, shown, form>>

-----------------------------------------------------------------------------
(* answer                                                                  *)

Set(i, s, c)  == call' = [call EXCEPT ![i][s] = c]
To(i, s, pc)  == Set(i, s, [call[i][s] EXCEPT !.pc = pc])
Reply(i, s)   == IF s = "page" THEN [Idle EXCEPT !.pc = "answered"] ELSE Idle
Answer(i, s, x) ==
    /\ answers < MaxAnswers /\ answers' = answers + 1
    /\ Set(i, s, [pc |-> "sent", text |-> x])

\* The row is locked until the transaction ends.  The mutant reads it without a lock and
\* updates it after the mail, so that only the commit would wait.
UpdatedLast(i) == FALSE
Held(i) == \E o \in Source : call[i][o].pc \in {"update", "commit"}
Lock(i, s) ==
    /\ call[i][s].pc = "sent" /\ ~Held(i)
    /\ To(i, s, "update")
    /\ UNCHANGED <<rows, mails, torn, answers, shown, form, stale>>

\* The row is updated in the transaction, then mailed.
Mail(i, s) ==
    /\ call[i][s].pc = "update"
    /\ mails' = [mails EXCEPT ![i] = Append(@, call[i][s].text)]
    /\ To(i, s, "commit")
    /\ UNCHANGED <<rows, torn, answers, shown, form, stale>>

\* An answer that is given again takes the place of the one before.
Commit(i, s) ==
    /\ call[i][s].pc = "commit"
    /\ rows' = [rows EXCEPT ![i] = call[i][s].text] /\ torn' = torn \ {i}
    /\ Set(i, s, Reply(i, s)) /\ stale' = TRUE
    /\ UNCHANGED <<mails, answers, shown, form>>

\* A statement, the mail or the commit fails; the transaction is rolled back.
Fail(i, s) ==
    /\ call[i][s].pc \in {"sent", "update", "commit"}
    /\ torn' = IF call[i][s].pc = "commit" THEN torn \cup {i} ELSE torn
    /\ Set(i, s, IF s = "page" THEN [Idle EXCEPT !.pc = "failed"] ELSE Idle)
    /\ UNCHANGED <<rows, mails, answers, shown, form, stale>>

AnswerOfOther(i, x) ==
    /\ i \in Ids /\ call[i]["other"] = Idle /\ Answer(i, "other", x)
    /\ UNCHANGED <<rows, mails, torn, shown, form, stale>>

-----------------------------------------------------------------------------
(* The queries of the page                                                 *)

\* A query that starts to load everything anew.
Load == /\ fetch' = [pc |-> "all", want |-> Max({1, pages}), got |-> <<>>, next |-> 1]
        /\ counting' = TRUE /\ stale' = FALSE

\* getNextPageParam: another page is there while fewer rows are loaded than the last
\* page has counted.
FetchPage ==
    /\ fetch.pc # "idle"
    /\ LET got == fetch.got \o ListPage(fetch.next) IN
       IF fetch.next < fetch.want /\ Len(got) < Len(rows)
       THEN /\ fetch' = [fetch EXCEPT !.got = got, !.next = @ + 1]
            /\ UNCHANGED <<list, pages, total, failed>>
       ELSE /\ fetch' = NoFetch
            /\ list' = got /\ pages' = fetch.next /\ total' = Len(rows) /\ failed' = FALSE
    /\ UNCHANGED <<server, form, count, counting, stale>>

FetchFails ==
    /\ fetch.pc # "idle"
    /\ failed' = TRUE /\ fetch' = NoFetch
    /\ UNCHANGED <<server, form, list, pages, total, count, counting, stale>>

CountAnswer(ok) ==
    /\ counting /\ counting' = FALSE
    /\ count' = IF ok THEN Cardinality(Pending) ELSE -1
    /\ UNCHANGED <<server, form, list, pages, total, failed, fetch, stale>>

\* The button of a list that failed, or the window that has the focus again.
Reload ==
    /\ fetch.pc = "idle" /\ ~counting
    /\ failed \/ stale
    /\ Load
    /\ UNCHANGED <<server, form, list, pages, total, count, failed>>

\* History: a load of everything that this takes the place of is lost.
FetchMore ==
    /\ ~failed /\ Len(list) < total /\ fetch.pc # "more"
    /\ fetch' = [pc |-> "more", want |-> pages + 1, got |-> list, next |-> pages + 1]
    /\ stale' = (stale \/ fetch.pc = "all")
    /\ UNCHANGED <<server, form, list, pages, total, count, failed, counting>>

-----------------------------------------------------------------------------
(* The rows of the page, and their answers                                 *)

Listed == {list[k].id : k \in DOMAIN list}

\* handleToggleAnswer.
Toggle(i) ==
    /\ ~failed /\ i \in Listed
    /\ opened' = IF opened = i THEN 0 ELSE i
    /\ UNCHANGED <<server, shown, inFlight, stale>>

\* What was typed into the open row is sent.
Send(i, x) ==
    /\ ~failed /\ opened = i /\ i \in Listed \ inFlight
    /\ Answer(i, "page", x)
    /\ inFlight' = inFlight \cup {i}
    /\ UNCHANGED <<rows, mails, torn, shown, opened, stale>>

\* onSuccess, onError and onSettled; an answer that is lost is an error to the page.
\* The mutant releases all rows.
SettleAll(S, i) == {}
Settle(S, i) == S \ {i}
SendAnswer(i, lost) ==
    /\ call[i]["page"].pc \in {"answered", "failed"}
    /\ Set(i, "page", Idle)
    /\ inFlight' = Settle(inFlight, i)
    /\ IF call[i]["page"].pc = "answered" /\ ~lost
       THEN opened' = IF opened = i THEN 0 ELSE opened
       ELSE UNCHANGED opened
    /\ Load
    /\ UNCHANGED <<rows, mails, torn, answers, list, pages, total, count, failed>>

Next ==
    \/ Create \/ FetchPage \/ FetchFails \/ Reload \/ FetchMore
    \/ \E ok \in BOOLEAN : CountAnswer(ok)
    \/ \E i \in Id :
         \/ \E s \in Source : Lock(i, s) \/ Mail(i, s) \/ Commit(i, s) \/ Fail(i, s)
         \/ Toggle(i)
         \/ \E x \in Text : AnswerOfOther(i, x) \/ Send(i, x)
         \/ \E lost \in BOOLEAN : SendAnswer(i, lost)

Spec == Init /\ [][Next]_vars

-----------------------------------------------------------------------------
TypeOK ==
    /\ rows \in Seq(Text \cup {"none"}) /\ Len(rows) <= MaxInquiries
    /\ mails \in [Id -> Seq(Text)] /\ torn \subseteq Id /\ answers \in 0..MaxAnswers
    /\ \A i \in Id, s \in Source : call[i][s].text \in Text \cup {"none"}
    /\ list \in Seq([id : Id, answer : Text \cup {"none"}]) /\ pages \in 0..(MaxInquiries + 1)
    /\ opened \in 0..MaxInquiries /\ inFlight \subseteq Id

\* "If status is answered, the reply was in fact mailed" (inquiry.service.ts:99): the
\* stored answer is among the mails of its author, and is the last of them unless a
\* transaction was rolled back, or is about to end, after its mail.
AnsweredMeansMailed ==
    \A i \in Ids : rows[i] # "none" =>
        /\ Contains(mails[i], rows[i])
        /\ \/ Last(mails[i]) = rows[i]
           \/ i \in torn \/ \E s \in Source : call[i][s].pc = "commit"

\* The page never answers one inquiry twice at a time, and once its queries have ended,
\* it shows the newest inquiries, each once, with their answers, and the number of the
\* unanswered, unless there was a change, or a load was given up, after it last loaded.
PageShowsInquiries ==
    /\ \A i \in Id : i \in inFlight <=> call[i]["page"] # Idle
    /\ fetch.pc = "idle" /\ ~counting /\ ~stale /\ ~failed /\ inFlight = {} =>
         /\ list = Newest(Min({Len(rows), pages * PageSize})) /\ total = Len(rows)
         /\ count \in {-1, Cardinality(Pending)}
=============================================================================
