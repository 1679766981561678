---------------------------- MODULE Subscription ----------------------------
(***************************************************************************)
(* Subscription billing: the request handlers of SubscriptionService       *)
(* (subscribe, cancel, resume), the deletion of a group, the daily renewal *)
(* cron, and the Toss payment API they call (external, modelled from how   *)
(* TossBillingClient uses it: an Idempotency-Key replays the first answer).*)
(*                                                                         *)
(* A handler is one process that stops at every await; a transaction and a *)
(* single SQL statement are atomic.  A subscription row has the id of the  *)
(* request that inserts it.  Time is counted in fractions of a day: the    *)
(* cron fires at the multiples of DayLength, handlers run at any time.     *)
(***************************************************************************)
EXTENDS Integers, FiniteSets

CONSTANTS
    Group,      \* tenants; each has at most one live subscription
    Request,    \* HTTP requests, each handled once
    GroupOf,    \* the group in the JWT of each request
    DayLength,  \* units of time between two runs of the cron
    Period,     \* a billing period, in units of time
    Grace,      \* GRACE_DAYS, in units of time
    MaxTime,    \* bound: the last moment that is modelled
    Faults,     \* the kinds of fault that may happen
    MaxFaults   \* bound: how many faults may happen

ASSUME GroupOfAssumption == GroupOf \in [Request -> Group]
ASSUME PeriodAssumption  == DayLength \in Nat \ {0} /\ Period \in Nat \ {0} /\ Grace \in Nat
ASSUME BoundAssumption   == MaxTime \in Nat \ {0} /\ MaxFaults \in Nat
ASSUME FaultsAssumption  == Faults \subseteq {"lost", "db", "crash", "down"}

VARIABLES
    now,       \* the present
    ran,       \* has the renewal run of this moment started
    deleted,   \* the groups with isDeleted set
    sub,       \* the Subscription table
    payment,   \* the Payment table: payment[s][end], 0 is the first payment
    approved,  \* Toss: idempotency keys whose charge was approved
    rejected,  \* Toss: idempotency keys whose charge was rejected
    pc,        \* where the handler of each request stands
    target,    \* the row a cancel or resume handler read
    cronPc,    \* where the renewal run stands
    due,       \* snapshots, read at the start, still to be handled
    handling,  \* the snapshot being handled
    faults     \* faults so far

vars == <<now, ran, deleted, sub, payment, approved, rejected, pc, target,
          cronPc, due, handling, faults>>
dbVars   == <<deleted, sub, payment>>
tossVars == <<approved, rejected>>
cronVars == <<cronPc, due, handling>>
clock    == <<now, ran>>

CronTime == now % DayLength = 0

Time == 1..MaxTime
End == 0..(MaxTime + Period)

ActiveStatuses == {"active", "past_due"}
SubRow     == [status : {"none", "active", "past_due", "canceled", "expired"},
               start : End, end : End, cancelAtPeriodEnd : BOOLEAN]
PaymentRow == [status : {"none", "failed", "success"}, attemptCount : Nat,
               failReason : {"none", "declined", "refund", "check"}]
Snapshot   == [sub : Request, end : End, cancel : BOOLEAN]
Key        == [sub : Request, end : End, try : Nat]

NoSub     == [status |-> "none", start |-> 0, end |-> 0, cancelAtPeriodEnd |-> FALSE]
NoPayment == [status |-> "none", attemptCount |-> 0, failReason |-> "none"]
KeyOf(s, e, n) == [sub |-> s, end |-> e, try |-> n]

Active(s) == sub[s].status \in ActiveStatuses
ActiveOf(g) == {s \in Request : GroupOf[s] = g /\ Active(s)}
\* The partial unique index uq_active_subscription_per_group lets row s be live.
IndexAllows(s) == ActiveOf(GroupOf[s]) \subseteq {s}

Fault(kind) == kind \in Faults /\ faults < MaxFaults /\ faults' = faults + 1

Init ==
    /\ now = 1 /\ ran = FALSE
    /\ deleted = {}
    /\ sub = [s \in Request |-> NoSub]
    /\ payment = [s \in Request |-> [e \in End |-> NoPayment]]
    /\ approved = {} /\ rejected = {}
    /\ pc = [r \in Request |-> "idle"]
    /\ target = [r \in Request |-> {}]
    /\ cronPc = "idle" /\ due = {} /\ handling = {}
    /\ faults = 0

-----------------------------------------------------------------------------
(* Toss.  A key already answered is answered the same way again; a fresh   *)
(* one is approved or rejected.                                            *)

TossApproves(k) ==
    /\ k \notin rejected
    /\ approved' = approved \cup {k} /\ UNCHANGED rejected

TossRejects(k) ==
    /\ k \notin approved
    /\ rejected' = rejected \cup {k} /\ UNCHANGED approved

\* fetch() throws although Toss may have charged the card, or never heard of it.
AnswerLost(k) ==
    /\ Fault("lost")
    /\ TossApproves(k) \/ TossRejects(k) \/ UNCHANGED tossVars

-----------------------------------------------------------------------------
(* subscribe(groupId)                                                      *)

Goto(r, label) == pc' = [pc EXCEPT ![r] = label]

Subscribe(r) ==
    /\ pc[r] = "idle"
    /\ Goto(r, IF ActiveOf(GroupOf[r]) = {} THEN "issue" ELSE "done")
    /\ UNCHANGED <<clock, dbVars, tossVars, target, cronVars, faults>>

\* Issuing the billing key fails on a used authKey: 400, nothing is stored.
IssueBillingKey(r) ==
    /\ pc[r] = "issue"
    /\ Goto(r, "charge") \/ Goto(r, "done")
    /\ UNCHANGED <<clock, dbVars, tossVars, target, cronVars, faults>>

ChargeFirst(r) ==
    LET key == KeyOf(r, 0, 0) IN
    /\ pc[r] = "charge"
    /\ \/ TossApproves(key) /\ Goto(r, "persist") /\ UNCHANGED faults
       \/ TossRejects(key) /\ Goto(r, "declined") /\ UNCHANGED faults
       \/ AnswerLost(key) /\ Goto(r, "declined")
    /\ UNCHANGED <<clock, dbVars, target, cronVars>>

SetFirstPayment(r, status, reason) ==
    payment' = [payment EXCEPT ![r][0] =
        [status |-> status, attemptCount |-> 0, failReason |-> reason]]

RecordFirstDecline(r) ==
    /\ pc[r] = "declined"
    /\ \/ SetFirstPayment(r, "failed", "declined") /\ UNCHANGED faults
       \/ Fault("db") /\ UNCHANGED payment
    /\ Goto(r, "done")
    /\ UNCHANGED <<clock, deleted, sub, tossVars, target, cronVars>>

\* One transaction inserts the row and its payment; the index may refuse it.
Persist(r) ==
    /\ pc[r] = "persist"
    /\ \/ /\ IndexAllows(r)
          /\ sub' = [sub EXCEPT ![r] = [status |-> "active", start |-> now,
                         end |-> now + Period, cancelAtPeriodEnd |-> FALSE]]
          /\ SetFirstPayment(r, "success", "none")
          /\ Goto(r, "done")
          /\ UNCHANGED faults
       \/ /\ ~IndexAllows(r)
          /\ Goto(r, "refund")
          /\ UNCHANGED <<sub, payment, faults>>
       \/ /\ Fault("db")
          /\ Goto(r, "compensate")
          /\ UNCHANGED <<sub, payment>>
    /\ UNCHANGED <<clock, deleted, tossVars, target, cronVars>>

\* The charge went through but the row did not: keep a success Payment, marked
\* for a refund (index) or for a check (any other error).  The mutant answers the
\* lost race with 409 and keeps nothing.
CompensateSave(r, at, reason) ==
    /\ pc[r] = at
    /\ \/ SetFirstPayment(r, "success", reason) /\ UNCHANGED faults
       \/ Fault("db") /\ UNCHANGED payment
    /\ Goto(r, "done")
    /\ UNCHANGED <<clock, deleted, sub, tossVars, target, cronVars>>
AnswerConflict(r) ==
    /\ pc[r] = "refund" /\ Goto(r, "done")
    /\ UNCHANGED <<clock, dbVars, tossVars, target, cronVars, faults>>
RecordRefund(r) == CompensateSave(r, "refund", "refund")
RecordCheck(r)  == CompensateSave(r, "compensate", "check")

-----------------------------------------------------------------------------
(* cancel, resume: the row is read in one statement and updated by id in   *)
(* the next.  deleteGroup: cancelForGroup, then softDeleteById.            *)

FindActive(r, label) ==
    /\ pc[r] = "idle"
    /\ \/ /\ ActiveOf(GroupOf[r]) = {}
          /\ Goto(r, "done") /\ UNCHANGED target
       \/ \E s \in ActiveOf(GroupOf[r]) :
            /\ Goto(r, label) /\ target' = [target EXCEPT ![r] = {s}]
    /\ UNCHANGED <<clock, dbVars, tossVars, cronVars, faults>>

SetCancelAtPeriodEnd(r, label, flag) ==
    /\ pc[r] = label
    /\ sub' = [s \in Request |-> IF s \in target[r]
                 THEN [sub[s] EXCEPT !.cancelAtPeriodEnd = flag] ELSE sub[s]]
    /\ Goto(r, "done")
    /\ target' = [target EXCEPT ![r] = {}]
    /\ UNCHANGED <<clock, deleted, payment, tossVars, cronVars, faults>>

Cancel(r)      == FindActive(r, "cancel")
CancelWrite(r) == SetCancelAtPeriodEnd(r, "cancel", TRUE)
Resume(r)      == FindActive(r, "resume")
ResumeWrite(r) == SetCancelAtPeriodEnd(r, "resume", FALSE)

CancelForGroup(r) ==
    /\ pc[r] = "idle"
    /\ sub' = [s \in Request |-> IF s \in ActiveOf(GroupOf[r])
                 THEN [sub[s] EXCEPT !.status = "canceled", !.cancelAtPeriodEnd = TRUE]
                 ELSE sub[s]]
    /\ Goto(r, "softDelete")
    /\ UNCHANGED <<clock, deleted, payment, tossVars, target, cronVars, faults>>

SoftDelete(r) ==
    /\ pc[r] = "softDelete"
    /\ deleted' = deleted \cup {GroupOf[r]}
    /\ Goto(r, "done")
    /\ UNCHANGED <<clock, sub, payment, tossVars, target, cronVars, faults>>

-----------------------------------------------------------------------------
(* renewDueSubscriptions(now), run once a day.  The rows are read once; a  *)
(* snapshot keeps what was read while the loop handles the others.         *)

DueSubsAnyDate   == {s \in Request : Active(s)}                           \* mutant
DueSubsAnyStatus == {s \in Request : sub[s].status # "none" /\ sub[s].end <= now} \* mutant
DueSubs == {s \in Request : Active(s) /\ sub[s].end <= now}

CronStart ==
    /\ cronPc = "idle" /\ CronTime /\ ~ran
    /\ ran' = TRUE
    /\ due' = {[sub |-> s, end |-> sub[s].end, cancel |-> sub[s].cancelAtPeriodEnd] :
                 s \in DueSubs}
    /\ cronPc' = "loop"
    /\ UNCHANGED <<now, dbVars, tossVars, pc, target, handling, faults>>

CronEnd ==
    /\ cronPc = "loop" /\ due = {}
    /\ cronPc' = "idle"
    /\ UNCHANGED <<clock, dbVars, tossVars, pc, target, due, handling, faults>>

SetStatus(s, status) == sub' = [sub EXCEPT ![s].status = status]

\* A snapshot marked for cancellation ends without a charge.
CronCancel(d) ==
    /\ cronPc = "loop" /\ d.cancel
    /\ \/ SetStatus(d.sub, "canceled") /\ UNCHANGED faults
       \/ Fault("db") /\ UNCHANGED sub
    /\ due' = due \ {d}
    /\ UNCHANGED <<clock, deleted, payment, tossVars, pc, target, cronPc, handling>>

\* Mutant: a fresh key per run after a rejection, as the code once did.
DailyRenewalKey(s, e) ==
    KeyOf(s, e, IF payment[s][e].status = "failed" THEN now ELSE 0)

\* The Idempotency-Key: the orderId, or the orderId with the number of recorded
\* rejections.
RenewalKey(s, e) ==
    KeyOf(s, e, IF payment[s][e].status = "failed" THEN payment[s][e].attemptCount ELSE 0)

CronCharge(d) ==
    LET key == RenewalKey(d.sub, d.end) IN
    /\ cronPc = "loop" /\ ~d.cancel
    /\ due' = due \ {d} /\ handling' = {d}
    /\ \/ TossApproves(key) /\ cronPc' = "approved" /\ UNCHANGED faults
       \/ TossRejects(key) /\ cronPc' = "declined" /\ UNCHANGED faults
       \/ AnswerLost(key) /\ cronPc' = "declined"
    /\ UNCHANGED <<clock, dbVars, pc, target>>

\* The lookup of the previous failure throws: the subscription is skipped.
CronLookupFails(d) ==
    /\ cronPc = "loop" /\ ~d.cancel
    /\ Fault("db")
    /\ due' = due \ {d}
    /\ UNCHANGED <<clock, dbVars, tossVars, pc, target, cronPc, handling>>

Done == cronPc' = "loop" /\ handling' = {}

ExpireOnLastGraceDay(d) == IF now >= d.end + Grace THEN "expired" ELSE "past_due" \* mutant
NeverExpire(d)          == "past_due"                                           \* mutant
StatusAfterDecline(d) == IF now > d.end + Grace THEN "expired" ELSE "past_due"

\* The status is written by id, whatever it is by now; the index may refuse it.
CronDemote(d) ==
    LET status == StatusAfterDecline(d) IN
    /\ cronPc = "declined"
    /\ \/ /\ status \in ActiveStatuses => IndexAllows(d.sub)
          /\ SetStatus(d.sub, status)
          /\ cronPc' = "record" /\ UNCHANGED <<handling, faults>>
       \/ /\ status \in ActiveStatuses /\ ~IndexAllows(d.sub)
          /\ Done /\ UNCHANGED <<sub, faults>>
       \/ Fault("db") /\ Done /\ UNCHANGED sub
    /\ UNCHANGED <<clock, deleted, payment, tossVars, pc, target, due>>

CronRecordDecline(d) ==
    /\ cronPc = "record"
    /\ \/ /\ payment' = [payment EXCEPT ![d.sub][d.end] =
                [status |-> "failed", failReason |-> "declined",
                 attemptCount |-> payment[d.sub][d.end].attemptCount + 1]]
          /\ UNCHANGED faults
       \/ Fault("db") /\ UNCHANGED payment
    /\ Done
    /\ UNCHANGED <<clock, deleted, sub, tossVars, pc, target, due>>

\* Upsert by orderId: a failed row of an earlier attempt becomes the success row.
\* The mutant forgets the insert.
UpdateSuccessOnly(d) ==
    payment' = IF payment[d.sub][d.end].status = "none" THEN payment
               ELSE [payment EXCEPT ![d.sub][d.end] =
                        [@ EXCEPT !.status = "success", !.failReason = "none"]]
UpsertSuccess(d) ==
    payment' = [payment EXCEPT ![d.sub][d.end] =
                  [@ EXCEPT !.status = "success", !.failReason = "none"]]

\* The next period starts at the end that was read, not now (the mutant).
NextEndFromToday(d) == now + Period
NextEnd(d) == d.end + Period

\* The charge stands and nothing is changed: the next run replays the key.  The
\* mutant files the failure as a declined card.
NotPersisted(d) == (~IndexAllows(d.sub) /\ UNCHANGED faults) \/ Fault("db")
PersistFailsAsDecline(d) ==
    NotPersisted(d) /\ cronPc' = "declined" /\ UNCHANGED <<handling, sub, payment>>
PersistFails(d) ==
    NotPersisted(d) /\ Done /\ UNCHANGED <<sub, payment>>

\* One transaction moves the period and records the payment.
CronPersist(d) ==
    /\ cronPc = "approved"
    /\ \/ /\ IndexAllows(d.sub)
          /\ UpsertSuccess(d)
          /\ sub' = [sub EXCEPT ![d.sub] =
                [@ EXCEPT !.status = "active", !.start = d.end, !.end = NextEnd(d)]]
          /\ Done
          /\ UNCHANGED faults
       \/ PersistFails(d)
    /\ UNCHANGED <<clock, deleted, tossVars, pc, target, due>>

-----------------------------------------------------------------------------
(* Time passes 4 AM once the cron has run, or without a run when the       *)
(* server was down.  A crash kills every handler and the run in progress;  *)
(* nothing catches up before the next day.                                 *)

Tick ==
    /\ cronPc = "idle" /\ now < MaxTime
    /\ \/ (CronTime => ran) /\ UNCHANGED faults
       \/ CronTime /\ ~ran /\ Fault("down")
    /\ now' = now + 1 /\ ran' = FALSE
    /\ UNCHANGED <<dbVars, tossVars, pc, target, cronVars>>

Crash ==
    /\ Fault("crash")
    /\ pc' = [r \in Request |-> IF pc[r] = "idle" THEN "idle" ELSE "done"]
    /\ target' = [r \in Request |-> {}]
    /\ cronPc' = "idle" /\ due' = {} /\ handling' = {}
    /\ UNCHANGED <<clock, dbVars, tossVars>>

SubscribeStep(r) ==
    \/ Subscribe(r) \/ IssueBillingKey(r) \/ ChargeFirst(r)
    \/ RecordFirstDecline(r) \/ Persist(r) \/ RecordRefund(r) \/ RecordCheck(r)

AccountStep(r) ==
    \/ Cancel(r) \/ CancelWrite(r) \/ Resume(r) \/ ResumeWrite(r)
    \/ CancelForGroup(r) \/ SoftDelete(r)

CronStep ==
    \/ CronStart \/ CronEnd
    \/ \E d \in due : CronCancel(d) \/ CronCharge(d) \/ CronLookupFails(d)
    \/ \E d \in handling : CronDemote(d) \/ CronRecordDecline(d) \/ CronPersist(d)

Next ==
    \/ \E r \in Request : SubscribeStep(r) \/ AccountStep(r)
    \/ CronStep \/ Tick \/ Crash

Spec == Init /\ [][Next]_vars

\* The scheduler fires every day and the event loop runs what has been started.
FairSpec ==
    /\ Spec
    /\ WF_vars(CronStep) /\ WF_vars(Tick)
    /\ \A r \in Request : WF_vars(pc[r] # "idle" /\ (SubscribeStep(r) \/ AccountStep(r)))

-----------------------------------------------------------------------------
(* Invariants                                                              *)

\* Every row, key and program counter stays in its domain; only a run in
\* progress holds snapshots.
TypeOK ==
    /\ now \in Time /\ ran \in BOOLEAN
    /\ deleted \subseteq Group
    /\ sub \in [Request -> SubRow]
    /\ payment \in [Request -> [End -> PaymentRow]]
    /\ approved \subseteq Key /\ rejected \subseteq Key
    /\ pc \in [Request -> {"idle", "issue", "charge", "declined", "persist", "refund",
                           "compensate", "cancel", "resume", "softDelete", "done"}]
    /\ target \in [Request -> SUBSET Request]
    /\ cronPc \in {"idle", "loop", "approved", "declined", "record"}
    /\ due \subseteq Snapshot /\ handling \subseteq Snapshot
    /\ faults \in 0..MaxFaults

\* The customer is never charged twice for one order, whatever is retried and
\* whatever fails in between ("double payment is prevented",
\* subscription.service.ts:316).
NoDoubleCharge ==
    \A j, k \in approved : j.sub = k.sub /\ j.end = k.end => j = k

\* A renewal that Toss charged and that no success row shows.
Unrecorded(k) == k \in approved /\ k.end # 0 /\ payment[k.sub][k.end].status # "success"

\* What the next run does with a row: read it, find no mark, and ask Toss.
NextRunAsks(s) == s \in DueSubs /\ ~sub[s].cancelAtPeriodEnd

\* The group wants no further payment, or is gone.
Stopped(s) == sub[s].cancelAtPeriodEnd \/ sub[s].status = "canceled"

\* A renewal that was charged but not recorded stays the business of the next run,
\* which asks Toss under the very key that was charged: no failure in between lets
\* the row expire or leave the due rows, moves its period, or counts a rejection
\* there was not (subscription.service.ts:330, :386).  But the run asks only while
\* the group has not stopped the subscription: see RenewalsAreRecovered.
UnrecordedRenewalIsRetried ==
    \A k \in approved : Unrecorded(k) =>
        /\ NextRunAsks(k.sub) \/ Stopped(k.sub)
        /\ sub[k.sub].end = k.end
        /\ k = RenewalKey(k.sub, k.end)

\* The period a customer is in has been paid for and no later one has: the
\* period and its Payment row move in one transaction.
PeriodsArePaid ==
    \A s \in Request :
        LET paid == {e \in End : payment[s][e].status = "success"} IN
        /\ sub[s].status # "none" => /\ sub[s].end = sub[s].start + Period
                                     /\ 0 \in paid
                                     /\ sub[s].start \in paid \/ paid = {0}
        /\ \A e \in paid : e # 0 => sub[s].status # "none" /\ e <= sub[s].start

\* When subscribe has answered, its charge is in the Payment table, and it bought
\* a subscription unless it is marked for a refund or a check.  Only a fault can
\* lose it (subscription.service.ts:199-241).
FirstChargeIsRecorded ==
    \A r \in Request :
        /\ pc[r] = "done" /\ KeyOf(r, 0, 0) \in approved
             => payment[r][0].status = "success" \/ faults > 0
        /\ sub[r].status # "none"
             <=> payment[r][0].status = "success" /\ payment[r][0].failReason = "none"

-----------------------------------------------------------------------------
(* Action properties                                                       *)

\* A subscription that ran out of grace is never revived, not even by the
\* unconditional status updates of a later run.
ExpiredIsFinal ==
    [][\A s \in Request : sub[s].status = "expired" => sub'[s].status = "expired"]_vars

\* A live subscription stops only after its grace, or because the group asked:
\* it is marked for cancellation now or was when the run read it.
NoUnaskedLapse ==
    [][\A s \in Request :
          Active(s) /\ sub'[s].status \notin ActiveStatuses
              => \/ now > sub[s].end + Grace
                 \/ sub'[s].cancelAtPeriodEnd
                 \/ \E d \in due : d.sub = s /\ d.cancel]_vars

\* "A subscription reserved for cancellation ends at its period without a charge"
\* (subscription.service.ts:308): no renewal charge while the row says so.
CancelHonoured ==
    [][\A k \in approved' \ approved : 
          k.end # 0 => ~(Active(k.sub) /\ sub[k.sub].cancelAtPeriodEnd)]_vars

\* "Stop the automatic payment so that the cron does not keep charging a deleted
\* group" (group.service.ts:80): no renewal charge to a group that is deleted.
DeletedGroupNotBilled ==
    [][\A k \in approved' \ approved : k.end # 0 => GroupOf[k.sub] \notin deleted]_vars

-----------------------------------------------------------------------------
(* Refinement and liveness                                                 *)

\* The orders with a successful Payment row.
Recorded == {o \in [sub : Request, end : End] : payment[o.sub][o.end].status = "success"}

Ledger == INSTANCE PaymentLedger WITH charged <- approved, recorded <- Recorded

\* Billing implements the ledger: an order is charged once, only when everything
\* charged before for its subscription is in the books, and only money that was
\* taken is booked.
RefinesLedger == Ledger!LedgerSpec

\* A period may end at e, and the time is long enough to see what becomes of it: its
\* grace and a run per fault lie within it.
Observable(e) == e > Period /\ e + Grace + DayLength * (1 + MaxFaults) <= MaxTime

\* An overdue subscription does not stay overdue, whatever fails on the way: by the
\* first run after the grace, or a day later per fault, it is renewed or has ended.
Overdue(s, e) == Active(s) /\ sub[s].end = e /\ now >= e
OverdueIsSettled ==
    \A s \in Request : \A e \in End :
        Observable(e) => (Overdue(s, e) ~> (~Active(s) \/ sub[s].end > e))

\* "The next run tries again under the same orderId" (subscription.service.ts:388,
\* :433): a renewal that was charged and not recorded is recorded in the end.
RenewalsAreRecovered ==
    \A s \in Request : \A e \in End \ {0} :
        Observable(e) =>
            ((\E k \in approved : k.sub = s /\ k.end = e /\ Unrecorded(k))
               ~> payment[s][e].status = "success")

=============================================================================
