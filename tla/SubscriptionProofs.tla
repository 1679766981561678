------------------------- MODULE SubscriptionProofs -------------------------
(***************************************************************************)
(* Proofs about Subscription, for every set of groups and requests, every  *)
(* period and grace, and every number of database errors, crashes and      *)
(* missed runs, as long as no answer of Toss is lost.                      *)
(***************************************************************************)
EXTENDS Subscription, TLAPS

-----------------------------------------------------------------------------
(* The inductive invariant.  The heart of it is RenewalInv: while a charge *)
(* is not recorded, nothing may change what RenewalKey computes.           *)

\* A snapshot shows the end its row still has; no two are about the same row.
SnapshotInv ==
    /\ \A d \in due \cup handling :
         sub[d.sub].status # "none" /\ d.end = sub[d.sub].end /\ d.end <= now
    /\ \A c, d \in due \cup handling : c.sub = d.sub => c = d
    /\ due \cap handling = {}
    /\ cronPc \in {"idle", "loop"} => handling = {}
    /\ cronPc = "idle" => due = {}
    /\ \A c, d \in handling : c = d

\* A row is inserted by a handler that then ends, together with its payment.
RowInv ==
    \A s \in Request :
        /\ sub[s].status # "none" =>
             pc[s] = "done" /\ sub[s].end # 0 /\ payment[s][0].status = "success"
        /\ payment[s][0].status = "success" => pc[s] = "done"
        /\ \A e \in End : e # 0 /\ payment[s][e].status = "success" =>
             sub[s].status # "none" /\ e < sub[s].end

\* A first charge is made once, at one point of the handler.
FirstChargeInv ==
    /\ \A k \in approved : k.end = 0 =>
         k.try = 0 /\ pc[k.sub] \notin {"idle", "issue", "charge"}
    /\ \A r \in Request : pc[r] \in {"persist", "refund", "compensate"} =>
         KeyOf(r, 0, 0) \in approved

\* A renewal charge is for the current period and under the current key, until
\* it is recorded.
RenewalInv ==
    \A k \in approved : k.end # 0 =>
        /\ sub[k.sub].status # "none"
        /\ payment[k.sub][k.end].status # "success" =>
             k = RenewalKey(k.sub, k.end) /\ sub[k.sub].end = k.end

\* What the run saw is what Toss did.
AnswerInv ==
    /\ cronPc = "approved" => \A d \in handling : RenewalKey(d.sub, d.end) \in approved
    /\ cronPc \in {"declined", "record"} =>
         \A d \in handling : \A k \in approved : ~(k.sub = d.sub /\ k.end = d.end)

BillingInv ==
    /\ TypeOK
    /\ SnapshotInv
    /\ RowInv
    /\ FirstChargeInv
    /\ RenewalInv
    /\ AnswerInv
    /\ NoDoubleCharge

USE GroupOfAssumption, PeriodAssumption, BoundAssumption

-----------------------------------------------------------------------------
(* Domains, keys, and what updating one row of a table does.               *)

\* Moments are natural numbers, and a period from one ends in the modelled time.
LEMMA DomainFacts ==
    /\ 0 \in End /\ End \subseteq Nat /\ Time \subseteq End \ {0} /\ Time \subseteq Nat
    /\ \A d \in Time : d + Period \in End \ {0}
    /\ \A e \in Nat : e # 0 /\ (\E d \in Time : e <= d) => e \in Time
    /\ Period \in Nat \ {0}
  BY DEF Time, End

\* A fault is counted, and only a kind that may happen does.
LEMMA FaultFacts ==
    ASSUME TypeOK, NEW kind, Fault(kind)
    PROVE  faults' \in 0..MaxFaults /\ kind \in Faults
  BY DEF TypeOK, Fault

\* A key names the order and the attempt it was made for.
LEMMA KeyFacts ==
    ASSUME NEW s \in Request, NEW e \in End, NEW n \in Nat
    PROVE  /\ KeyOf(s, e, n) \in Key
           /\ KeyOf(s, e, n).sub = s /\ KeyOf(s, e, n).end = e /\ KeyOf(s, e, n).try = n
  BY DEF KeyOf, Key

\* The key of a renewal names its subscription and its period.
LEMMA RenewalKeyFacts ==
    ASSUME TypeOK, NEW s \in Request, NEW e \in End
    PROVE  /\ RenewalKey(s, e) \in Key
           /\ RenewalKey(s, e).sub = s /\ RenewalKey(s, e).end = e
<1>1. payment[s][e].attemptCount \in Nat
  BY DEF TypeOK, PaymentRow
<1> QED  BY <1>1, KeyFacts, DomainFacts DEF RenewalKey

\* Writing one Payment row leaves the other rows of the table as they were.
LEMMA PaymentUpdate ==
    ASSUME TypeOK, NEW s \in Request, NEW e \in End, NEW row \in PaymentRow,
           payment' = [payment EXCEPT ![s][e] = row]
    PROVE  /\ payment' \in [Request -> [End -> PaymentRow]]
           /\ payment'[s][e] = row
           /\ \A t \in Request : \A f \in End :
                t # s \/ f # e => payment'[t][f] = payment[t][f]
  BY DEF TypeOK

\* Writing a status keeps the table well formed and every period as it was.
LEMMA StatusUpdate ==
    ASSUME TypeOK, NEW s \in Request,
           NEW status \in {"active", "past_due", "canceled", "expired"},
           sub[s].status # "none", SetStatus(s, status)
    PROVE  /\ sub' \in [Request -> SubRow]
           /\ \A t \in Request : /\ sub'[t].end = sub[t].end
                                 /\ sub'[t].status = "none" <=> sub[t].status = "none"
  BY DEF TypeOK, SubRow, SetStatus

-----------------------------------------------------------------------------
(* A part of the invariant survives every step that leaves alone what it   *)
(* is about.                                                               *)

\* The rows keep their period, whatever happens to their status and their mark.
RowsKept == \A s \in Request : /\ sub'[s].end = sub[s].end
                               /\ sub'[s].status = "none" <=> sub[s].status = "none"

\* Snapshots stay accurate while the run stands still and no period moves.
LEMMA SnapshotKept ==
    ASSUME TypeOK, SnapshotInv, RowsKept, now' = now, UNCHANGED cronVars
    PROVE  SnapshotInv'
  BY DEF TypeOK, Snapshot, SnapshotInv, RowsKept, cronVars

\* Rows stay paid for while no Payment row and no period moves.
LEMMA RowKept ==
    ASSUME TypeOK, RowInv, RowsKept, UNCHANGED payment,
           \A r \in Request : pc[r] = "done" => pc'[r] = "done"
    PROVE  RowInv'
  BY DEF RowInv, RowsKept

\* No first charge is made by a handler that does not charge.
LEMMA FirstChargeKept ==
    ASSUME TypeOK, FirstChargeInv, UNCHANGED approved,
           \A r \in Request :
             /\ pc'[r] \in {"idle", "issue", "charge"} => pc[r] \in {"idle", "issue", "charge"}
             /\ pc'[r] \in {"persist", "refund", "compensate"} =>
                  pc[r] \in {"persist", "refund", "compensate"}
    PROVE  FirstChargeInv'
  BY DEF FirstChargeInv, TypeOK, Key

\* An unrecorded charge keeps its key while no Payment row moves.
LEMMA RenewalKept ==
    ASSUME TypeOK, RenewalInv, RowsKept, UNCHANGED <<approved, payment>>
    PROVE  RenewalInv'
  BY DEF RenewalInv, RowsKept, RenewalKey, TypeOK, Key

\* What the run saw stays true while it stands still.
LEMMA AnswerKept ==
    ASSUME AnswerInv, UNCHANGED <<approved, payment, cronVars>>
    PROVE  AnswerInv'
  BY DEF AnswerInv, RenewalKey, cronVars

\* Without a new charge there is no double charge.
LEMMA ChargesKept ==
    ASSUME NoDoubleCharge, UNCHANGED approved
    PROVE  NoDoubleCharge'
  BY DEF NoDoubleCharge

-----------------------------------------------------------------------------
(* The handlers.                                                           *)

\* A handler that only moves on, and may mark rows or end their status.
LEMMA HandlerMoves ==
    ASSUME BillingInv, NEW r \in Request, NEW label,
           Goto(r, label), pc[r] # "done",
           label \in {"issue", "charge", "cancel", "resume", "softDelete", "done"},
           label \in {"issue", "charge"} => pc[r] \in {"idle", "issue"},
           sub' \in [Request -> SubRow], RowsKept,
           target' \in [Request -> SUBSET Request], deleted' \subseteq Group,
           UNCHANGED <<clock, payment, tossVars, cronVars, faults>>
    PROVE  BillingInv'
<1> USE DEF BillingInv, clock, tossVars
<1>1. TypeOK'
  BY DEF TypeOK, Goto, cronVars
<1>2. \A s \in Request : pc'[s] = IF s = r THEN label ELSE pc[s]
  BY DEF TypeOK, Goto
<1>3. SnapshotInv'
  BY SnapshotKept
<1>4. RowInv'
  BY <1>2, RowKept
<1>5. FirstChargeInv'
  BY <1>2, FirstChargeKept
<1>6. RenewalInv' /\ AnswerInv' /\ NoDoubleCharge'
  BY RenewalKept, AnswerKept, ChargesKept
<1> QED  BY <1>1, <1>3, <1>4, <1>5, <1>6

\* subscribe, up to the charge.
LEMMA SubscribeKeepsInv ==
    ASSUME BillingInv, NEW r \in Request, Subscribe(r) \/ IssueBillingKey(r)
    PROVE  BillingInv'
<1>1. sub' \in [Request -> SubRow] /\ RowsKept /\ target' \in [Request -> SUBSET Request]
      /\ deleted' \subseteq Group
  BY DEF BillingInv, TypeOK, Subscribe, IssueBillingKey, RowsKept, dbVars
<1> QED  BY <1>1, HandlerMoves DEF Subscribe, IssueBillingKey, dbVars

\* cancel, resume and deleteGroup.
LEMMA AccountKeepsInv ==
    ASSUME BillingInv, NEW r \in Request, AccountStep(r)
    PROVE  BillingInv'
<1> USE DEF BillingInv
<1>1. ASSUME NEW label \in {"cancel", "resume"}, FindActive(r, label)
      PROVE  BillingInv'
  <2>1. sub' \in [Request -> SubRow] /\ RowsKept /\ deleted' \subseteq Group
        /\ target' \in [Request -> SUBSET Request]
    BY <1>1 DEF TypeOK, FindActive, RowsKept, dbVars, ActiveOf
  <2> QED  BY <1>1, <2>1, HandlerMoves DEF FindActive, dbVars
<1>2. ASSUME NEW label \in {"cancel", "resume"}, NEW flag \in BOOLEAN,
             SetCancelAtPeriodEnd(r, label, flag)
      PROVE  BillingInv'
  <2>1. sub' \in [Request -> SubRow] /\ RowsKept
    BY <1>2 DEF TypeOK, SetCancelAtPeriodEnd, RowsKept, SubRow
  <2>2. target' \in [Request -> SUBSET Request] /\ deleted' \subseteq Group
    BY <1>2 DEF TypeOK, SetCancelAtPeriodEnd
  <2> QED  BY <1>2, <2>1, <2>2, HandlerMoves DEF SetCancelAtPeriodEnd
<1>3. CASE CancelForGroup(r)
  <2>1. sub' \in [Request -> SubRow] /\ RowsKept
    BY <1>3 DEF TypeOK, CancelForGroup, RowsKept, SubRow, ActiveOf, Active, ActiveStatuses
  <2>2. target' \in [Request -> SUBSET Request] /\ deleted' \subseteq Group
    BY <1>3 DEF TypeOK, CancelForGroup
  <2> QED  BY <1>3, <2>1, <2>2, HandlerMoves DEF CancelForGroup
<1>4. CASE SoftDelete(r)
  <2>1. sub' \in [Request -> SubRow] /\ RowsKept /\ deleted' \subseteq Group
        /\ target' \in [Request -> SUBSET Request]
    BY <1>4 DEF TypeOK, SoftDelete, RowsKept
  <2> QED  BY <1>4, <2>1, HandlerMoves DEF SoftDelete
<1> QED
  BY <1>1, <1>2, <1>3, <1>4 DEF AccountStep, Cancel, CancelWrite, Resume, ResumeWrite

\* The first charge: the handler has not charged before, so the key is fresh.
LEMMA ChargeFirstKeepsInv ==
    ASSUME BillingInv, "lost" \notin Faults, NEW r \in Request, ChargeFirst(r)
    PROVE  BillingInv'
<1> DEFINE key == KeyOf(r, 0, 0)
<1> USE DEF BillingInv
<1>1. /\ key \in Key /\ key.sub = r /\ key.end = 0 /\ key.try = 0
      /\ pc[r] = "charge" /\ UNCHANGED <<clock, dbVars, cronVars, target, faults>>
      /\ \/ TossApproves(key) /\ Goto(r, "persist")
         \/ TossRejects(key) /\ Goto(r, "declined")
  BY KeyFacts, DomainFacts, FaultFacts DEF ChargeFirst, AnswerLost
<1> HIDE DEF key
<1>2. /\ approved' \subseteq Key /\ rejected' \subseteq Key
      /\ \A k \in approved' : k \in approved \/ k = key
      /\ approved \subseteq approved'
  BY <1>1 DEF TossApproves, TossRejects, TypeOK
<1>3. /\ pc' \in [Request -> {"idle", "issue", "charge", "declined", "persist", "refund",
                              "compensate", "cancel", "resume", "softDelete", "done"}]
      /\ \A s \in Request : s # r => pc'[s] = pc[s]
      /\ \/ pc'[r] = "persist" /\ key \in approved'
         \/ pc'[r] = "declined" /\ approved' = approved
  <2>1. CASE TossApproves(key) /\ Goto(r, "persist")
    BY <2>1 DEF TypeOK, Goto, TossApproves
  <2>2. CASE TossRejects(key) /\ Goto(r, "declined")
    BY <2>2 DEF TypeOK, Goto, TossRejects
  <2> QED  BY <1>1, <2>1, <2>2
<1>4. TypeOK'
  BY <1>1, <1>2, <1>3 DEF TypeOK, clock, dbVars, cronVars
<1>5. RowsKept
  BY <1>1 DEF RowsKept, dbVars
<1>6. SnapshotInv'
  BY <1>1, <1>5, SnapshotKept DEF clock
<1>7. RowInv'
  BY <1>1, <1>3, <1>5, RowKept DEF dbVars
<1>8. FirstChargeInv'
  BY <1>1, <1>2, <1>3 DEF FirstChargeInv, TypeOK, Key, KeyOf, key
<1>9. RenewalInv'
  BY <1>1, <1>2 DEF RenewalInv, RenewalKey, dbVars
<1>10. AnswerInv'
  <2>1. \A d \in handling : d.end # 0 /\ d.sub \in Request /\ d.end \in End
    BY DEF SnapshotInv, RowInv, TypeOK, Snapshot
  <2> QED  BY <1>1, <1>2, <2>1 DEF AnswerInv, RenewalKey, dbVars, cronVars
<1>11. NoDoubleCharge'
  BY <1>1, <1>2 DEF NoDoubleCharge, FirstChargeInv, TypeOK, Key
<1> QED  BY <1>4, <1>6, <1>7, <1>8, <1>9, <1>10, <1>11

\* Writing the row of a first payment disturbs no renewal.
LEMMA FirstPaymentKeeps ==
    ASSUME BillingInv, NEW r \in Request, NEW status \in {"failed", "success"},
           NEW reason \in {"none", "declined", "refund", "check"},
           SetFirstPayment(r, status, reason), pc[r] # "done",
           UNCHANGED <<approved, cronVars>>,
           \A s \in Request : s # r => sub'[s] = sub[s]
    PROVE  /\ payment' \in [Request -> [End -> PaymentRow]]
           /\ payment'[r][0].status = status
           /\ \A t \in Request : \A f \in End : t # r \/ f # 0 =>
                payment'[t][f] = payment[t][f]
           /\ RenewalInv' /\ AnswerInv'
<1> USE DEF BillingInv
<1> DEFINE row == [status |-> status, attemptCount |-> 0, failReason |-> reason]
<1>1. row \in PaymentRow /\ row.status = status /\ payment' = [payment EXCEPT ![r][0] = row]
  BY DEF PaymentRow, SetFirstPayment
<1> HIDE DEF row
<1>2. /\ payment' \in [Request -> [End -> PaymentRow]]
      /\ payment'[r][0].status = status
      /\ \A t \in Request : \A f \in End : t # r \/ f # 0 =>
           payment'[t][f] = payment[t][f]
  BY <1>1, DomainFacts DEF TypeOK
<1>3. \A k \in approved : k.end # 0 => k.sub # r /\ k.sub \in Request /\ k.end \in End
  BY DEF RenewalInv, RowInv, TypeOK, Key
<1>4. \A d \in handling : d.end # 0 /\ d.sub # r /\ d.sub \in Request /\ d.end \in End
  BY DEF SnapshotInv, RowInv, TypeOK, Snapshot
<1>5. RenewalInv'
  BY <1>2, <1>3 DEF RenewalInv, RenewalKey
<1>6. AnswerInv'
  BY <1>2, <1>4 DEF AnswerInv, RenewalKey, cronVars
<1> QED  BY <1>2, <1>5, <1>6

\* The Payment row of a first charge that was declined.
LEMMA RecordFirstDeclineKeepsInv ==
    ASSUME BillingInv, "lost" \notin Faults, NEW r \in Request, RecordFirstDecline(r)
    PROVE  BillingInv'
<1> USE DEF BillingInv
<1>1. /\ pc[r] = "declined" /\ Goto(r, "done")
      /\ UNCHANGED <<clock, deleted, sub, tossVars, target, cronVars>>
      /\ faults' \in 0..MaxFaults
      /\ SetFirstPayment(r, "failed", "declined") \/ UNCHANGED payment
  BY FaultFacts DEF RecordFirstDecline, TypeOK
<1>2. RowsKept
  BY <1>1 DEF RowsKept
<1>3. /\ pc' \in [Request -> {"idle", "issue", "charge", "declined", "persist", "refund",
                              "compensate", "cancel", "resume", "softDelete", "done"}]
      /\ \A s \in Request : pc'[s] = IF s = r THEN "done" ELSE pc[s]
  BY <1>1 DEF TypeOK, Goto
<1>4. /\ payment' \in [Request -> [End -> PaymentRow]] /\ RenewalInv' /\ AnswerInv'
      /\ \A s \in Request : \A e \in End :
           payment'[s][e].status = "success" <=> payment[s][e].status = "success"
  <2>1. CASE SetFirstPayment(r, "failed", "declined")
    <3>1. payment[r][0].status # "success" /\ 0 \in End
      BY <1>1, DomainFacts DEF RowInv
    <3> QED  BY <1>1, <2>1, <3>1, FirstPaymentKeeps DEF tossVars
  <2>2. CASE UNCHANGED payment
    BY <1>1, <1>2, <2>2, RenewalKept, AnswerKept DEF tossVars, TypeOK
  <2> QED  BY <1>1, <2>1, <2>2
<1>5. TypeOK'
  BY <1>1, <1>3, <1>4 DEF TypeOK, clock, tossVars, cronVars
<1>6. SnapshotInv'
  BY <1>1, <1>2, SnapshotKept DEF clock
<1>7. RowInv'
  BY <1>1, <1>3, <1>4, DomainFacts DEF RowInv
<1>8. FirstChargeInv' /\ NoDoubleCharge'
  BY <1>1, <1>3, FirstChargeKept, ChargesKept DEF tossVars
<1> QED  BY <1>4, <1>5, <1>6, <1>7, <1>8

\* Persist without its transaction: the handler goes on to compensate.
LEMMA PersistKeepsInv ==
    ASSUME BillingInv, NEW r \in Request, Persist(r)
    PROVE  BillingInv'
<1> USE DEF BillingInv
<1>1. /\ pc[r] = "persist" /\ UNCHANGED <<clock, deleted, tossVars, target, cronVars>>
      /\ \A k \in approved : k.end # 0 => k.sub # r
      /\ \A d \in due \cup handling : d.sub # r
      /\ sub[r].status = "none"
  <2>1. pc[r] = "persist" /\ UNCHANGED <<clock, deleted, tossVars, target, cronVars>>
    BY DEF Persist
  <2>2. sub[r].status = "none"
    BY <2>1 DEF RowInv, TypeOK, SubRow
  <2> QED  BY <2>1, <2>2 DEF RenewalInv, SnapshotInv
<1>2. CASE IndexAllows(r) /\ Goto(r, "done") /\ UNCHANGED faults
           /\ sub' = [sub EXCEPT ![r] = [status |-> "active", start |-> now,
                         end |-> now + Period, cancelAtPeriodEnd |-> FALSE]]
           /\ SetFirstPayment(r, "success", "none")
  <2>1. /\ sub' \in [Request -> SubRow]
        /\ sub'[r].status = "active" /\ sub'[r].end \in End /\ sub'[r].end # 0
        /\ \A s \in Request : s # r => sub'[s] = sub[s]
    BY <1>2, DomainFacts DEF TypeOK, SubRow
  <2>2. /\ pc' \in [Request -> {"idle", "issue", "charge", "declined", "persist", "refund",
                                "compensate", "cancel", "resume", "softDelete", "done"}]
        /\ \A s \in Request : pc'[s] = IF s = r THEN "done" ELSE pc[s]
    BY <1>2 DEF TypeOK, Goto
  <2>3. /\ payment' \in [Request -> [End -> PaymentRow]]
        /\ payment'[r][0].status = "success"
        /\ \A t \in Request : \A f \in End : t # r \/ f # 0 =>
             payment'[t][f] = payment[t][f]
        /\ RenewalInv' /\ AnswerInv'
    BY <1>1, <1>2, <2>1, FirstPaymentKeeps DEF tossVars
  <2>4. TypeOK'
    BY <1>1, <1>2, <2>1, <2>2, <2>3 DEF TypeOK, clock, tossVars, cronVars
  <2>5. SnapshotInv'
    BY <1>1, <2>1 DEF SnapshotInv, TypeOK, Snapshot, clock, cronVars
  <2>6. RowInv'
    BY <1>1, <2>1, <2>2, <2>3, DomainFacts DEF RowInv, TypeOK
  <2>7. FirstChargeInv' /\ NoDoubleCharge'
    BY <1>1, <2>2, FirstChargeKept, ChargesKept DEF tossVars
  <2> QED  BY <2>3, <2>4, <2>5, <2>6, <2>7
<1>3. ASSUME NEW label \in {"refund", "compensate"}, Goto(r, label),
             UNCHANGED <<sub, payment>>, faults' \in 0..MaxFaults
      PROVE  BillingInv'
  <2>1. \A s \in Request : pc'[s] = IF s = r THEN label ELSE pc[s]
    BY <1>3 DEF TypeOK, Goto
  <2>2. TypeOK'
    BY <1>1, <1>3 DEF TypeOK, Goto, clock, tossVars, cronVars
  <2>3. RowsKept
    BY <1>3 DEF RowsKept
  <2>4. SnapshotInv' /\ RowInv' /\ FirstChargeInv'
    BY <1>1, <1>3, <2>1, <2>3, SnapshotKept, RowKept, FirstChargeKept DEF clock, tossVars
  <2>5. RenewalInv' /\ AnswerInv' /\ NoDoubleCharge'
    BY <1>1, <1>3, <2>3, RenewalKept, AnswerKept, ChargesKept DEF tossVars
  <2> QED  BY <2>2, <2>4, <2>5
<1> QED  BY <1>2, <1>3, FaultFacts DEF Persist, TypeOK

\* The Payment row kept for a charge that bought no subscription.
LEMMA CompensateKeepsInv ==
    ASSUME BillingInv, NEW r \in Request, RecordRefund(r) \/ RecordCheck(r)
    PROVE  BillingInv'
<1> USE DEF BillingInv
<1>1. PICK reason \in {"refund", "check"} :
      /\ pc[r] \in {"refund", "compensate"} /\ Goto(r, "done")
      /\ UNCHANGED <<clock, deleted, sub, tossVars, target, cronVars>>
      /\ faults' \in 0..MaxFaults
      /\ SetFirstPayment(r, "success", reason) \/ UNCHANGED payment
  BY FaultFacts DEF RecordRefund, RecordCheck, CompensateSave, TypeOK
<1>2. RowsKept /\ sub[r].status = "none"
  BY <1>1 DEF RowsKept, RowInv
<1>3. /\ pc' \in [Request -> {"idle", "issue", "charge", "declined", "persist", "refund",
                              "compensate", "cancel", "resume", "softDelete", "done"}]
      /\ \A s \in Request : pc'[s] = IF s = r THEN "done" ELSE pc[s]
  BY <1>1 DEF TypeOK, Goto
<1>4. /\ payment' \in [Request -> [End -> PaymentRow]] /\ RenewalInv' /\ AnswerInv'
      /\ \A s \in Request : \A e \in End :
           s # r \/ e # 0 => payment'[s][e] = payment[s][e]
  BY <1>1, <1>2, FirstPaymentKeeps, RenewalKept, AnswerKept DEF tossVars, TypeOK
<1>5. TypeOK'
  BY <1>1, <1>3, <1>4 DEF TypeOK, clock, tossVars, cronVars
<1>6. SnapshotInv'
  BY <1>1, <1>2, SnapshotKept DEF clock
<1>7. RowInv'
  BY <1>1, <1>2, <1>3, <1>4, DomainFacts DEF RowInv
<1>8. FirstChargeInv' /\ NoDoubleCharge'
  BY <1>1, <1>3, FirstChargeKept, ChargesKept DEF tossVars
<1> QED  BY <1>4, <1>5, <1>6, <1>7, <1>8

-----------------------------------------------------------------------------
(* The renewal run.                                                        *)

\* What is known of a row while the run works on it.
LEMMA SnapshotFacts ==
    ASSUME BillingInv, NEW d \in due \cup handling
    PROVE  /\ d \in Snapshot /\ d.sub \in Request /\ d.end \in End
           /\ sub[d.sub].status # "none" /\ d.end = sub[d.sub].end
           /\ d.end # 0 /\ d.end \in Time
           /\ payment[d.sub][d.end].status # "success"
<1> USE DEF BillingInv
<1>1. /\ d \in Snapshot /\ d.sub \in Request /\ d.end \in End
      /\ sub[d.sub].status # "none" /\ d.end = sub[d.sub].end
      /\ d.end <= now /\ now \in Time
  BY DEF TypeOK, Snapshot, SnapshotInv
<1>2. d.end # 0 /\ \A e \in End : e # 0 /\ payment[d.sub][e].status = "success" => e < d.end
  BY <1>1 DEF RowInv
<1>3. d.end \in Nat
  BY <1>1, DomainFacts
<1>4. d.end \in Time
  BY <1>1, <1>2, <1>3, DomainFacts
<1>5. ~(d.end < d.end)
  BY <1>3
<1> QED  BY <1>1, <1>2, <1>4, <1>5

\* The snapshots show the table they were read from.
LEMMA CronStartKeepsInv ==
    ASSUME BillingInv, CronStart
    PROVE  BillingInv'
<1> USE DEF BillingInv
<1>1. /\ UNCHANGED <<now, dbVars, tossVars, pc, target, handling, faults>>
      /\ ran' = TRUE /\ cronPc = "idle" /\ cronPc' = "loop" /\ handling = {}
  BY DEF CronStart, SnapshotInv
<1>2. \A d \in due' : /\ d \in Snapshot /\ d.sub \in Request
                      /\ sub[d.sub].status # "none" /\ d.end = sub[d.sub].end /\ d.end <= now
                      /\ \A c \in due' : c.sub = d.sub => c = d
  BY DEF CronStart, DueSubs, Active, ActiveStatuses, TypeOK, SubRow, Snapshot
<1>3. TypeOK'
  BY <1>1, <1>2 DEF TypeOK, dbVars, tossVars
<1>4. SnapshotInv'
  BY <1>1, <1>2 DEF SnapshotInv, dbVars
<1>5. RowInv' /\ FirstChargeInv' /\ RenewalInv' /\ AnswerInv' /\ NoDoubleCharge'
  BY <1>1 DEF RowInv, FirstChargeInv, RenewalInv, AnswerInv, NoDoubleCharge, RenewalKey,
              dbVars, tossVars
<1> QED  BY <1>3, <1>4, <1>5

\* A step of the run that leaves the money and the periods alone, and drops what
\* it has dealt with.
LEMMA RunMovesOn ==
    ASSUME BillingInv, sub' \in [Request -> SubRow], RowsKept,
           due' \subseteq due, handling' = {},
           cronPc' \in {"idle", "loop"}, cronPc' = "idle" => due' = {},
           UNCHANGED <<clock, deleted, payment, tossVars, pc, target>>,
           faults' \in 0..MaxFaults
    PROVE  BillingInv'
<1> USE DEF BillingInv, clock, tossVars
<1>1. TypeOK'
  BY DEF TypeOK
<1>2. SnapshotInv'
  BY DEF SnapshotInv, RowsKept, TypeOK, Snapshot
<1>3. RowInv' /\ FirstChargeInv' /\ RenewalInv' /\ NoDoubleCharge'
  BY RowKept, FirstChargeKept, RenewalKept, ChargesKept
<1>4. AnswerInv'
  BY DEF AnswerInv
<1> QED  BY <1>1, <1>2, <1>3, <1>4

\* The end of a run, and a subscription it skips.
LEMMA CronSkipsKeepInv ==
    ASSUME BillingInv, CronEnd \/ \E d \in due : CronLookupFails(d)
    PROVE  BillingInv'
<1> USE DEF BillingInv
<1>1. /\ UNCHANGED <<clock, dbVars, tossVars, pc, target, handling>>
      /\ cronPc = "loop" /\ cronPc' \in {"idle", "loop"} /\ (cronPc' = "idle" => due' = {})
      /\ due' \subseteq due /\ faults' \in 0..MaxFaults
  BY FaultFacts DEF CronEnd, CronLookupFails, TypeOK
<1>2. handling' = {} /\ RowsKept /\ sub' \in [Request -> SubRow]
  BY <1>1 DEF SnapshotInv, RowsKept, dbVars, TypeOK
<1> QED  BY <1>1, <1>2, RunMovesOn DEF dbVars

\* The run ends a subscription that is marked for cancellation.
LEMMA CronCancelKeepsInv ==
    ASSUME BillingInv, NEW d \in due, CronCancel(d)
    PROVE  BillingInv'
<1> USE DEF BillingInv
<1>1. /\ UNCHANGED <<clock, deleted, payment, tossVars, pc, target, handling>>
      /\ cronPc = "loop" /\ cronPc' = "loop"
      /\ due' \subseteq due /\ faults' \in 0..MaxFaults
      /\ SetStatus(d.sub, "canceled") \/ UNCHANGED sub
  BY FaultFacts DEF CronCancel, TypeOK
<1>2. d.sub \in Request /\ sub[d.sub].status # "none"
  BY DEF TypeOK, Snapshot, SnapshotInv
<1>3. handling' = {}
  BY <1>1 DEF SnapshotInv
<1>4. RowsKept /\ sub' \in [Request -> SubRow]
  <2>1. CASE SetStatus(d.sub, "canceled")
    BY <1>2, <2>1, StatusUpdate DEF RowsKept
  <2>2. CASE UNCHANGED sub
    BY <2>2 DEF RowsKept, TypeOK
  <2> QED  BY <1>1, <2>1, <2>2
<1> QED  BY <1>1, <1>3, <1>4, RunMovesOn

\* The step the theorem is about.  Toss is asked under RenewalKey, and any charge
\* made before for this order was made under that same key.
LEMMA CronChargeKeepsInv ==
    ASSUME BillingInv, "lost" \notin Faults, NEW d \in due, CronCharge(d)
    PROVE  BillingInv'
<1> DEFINE key == RenewalKey(d.sub, d.end)
<1> USE DEF BillingInv
<1>1. /\ d \in Snapshot /\ d.sub \in Request /\ d.end \in End /\ d.end # 0
      /\ sub[d.sub].status # "none" /\ d.end = sub[d.sub].end
      /\ payment[d.sub][d.end].status # "success"
  BY SnapshotFacts
<1>2. key \in Key /\ key.sub = d.sub /\ key.end = d.end
  BY <1>1, RenewalKeyFacts
<1>3. /\ UNCHANGED <<clock, dbVars, pc, target, faults>>
      /\ cronPc = "loop" /\ due' = due \ {d} /\ handling' = {d} /\ handling = {}
      /\ \/ TossApproves(key) /\ cronPc' = "approved"
         \/ TossRejects(key) /\ cronPc' = "declined"
  BY FaultFacts DEF CronCharge, AnswerLost, SnapshotInv
<1>4. \A k \in approved : k.sub = d.sub /\ k.end = d.end => k = key
  BY <1>1 DEF RenewalInv
<1>5. UNCHANGED RenewalKey(d.sub, d.end)
  BY <1>1, <1>3 DEF RenewalKey, dbVars, TypeOK, Snapshot
<1> HIDE DEF key
<1>6. /\ approved' \subseteq Key /\ rejected' \subseteq Key
      /\ \A k \in approved' : k \in approved \/ k = key
      /\ approved \subseteq approved'
  BY <1>2, <1>3 DEF TossApproves, TossRejects, TypeOK
<1>7. \/ cronPc' = "approved" /\ key \in approved'
      \/ cronPc' = "declined" /\ key \notin approved' /\ approved' = approved
  BY <1>3 DEF TossApproves, TossRejects
<1>8. TypeOK'
  BY <1>1, <1>3, <1>6 DEF TypeOK, clock, dbVars
<1>9. SnapshotInv'
  BY <1>1, <1>3 DEF SnapshotInv, clock, dbVars
<1>10. RowInv'
  BY <1>3 DEF RowInv, dbVars
<1>11. FirstChargeInv'
  BY <1>1, <1>2, <1>3, <1>6 DEF FirstChargeInv
<1>12. RenewalInv'
  BY <1>1, <1>2, <1>3, <1>6 DEF RenewalInv, RenewalKey, dbVars, key
<1>13. AnswerInv'
  BY <1>3, <1>4, <1>5, <1>7 DEF AnswerInv, key
<1>14. NoDoubleCharge'
  BY <1>2, <1>4, <1>6 DEF NoDoubleCharge
<1> QED  BY <1>8, <1>9, <1>10, <1>11, <1>12, <1>13, <1>14

\* The status after a declined renewal; its Payment row follows.
LEMMA CronDemoteKeepsInv ==
    ASSUME BillingInv, NEW d \in handling, CronDemote(d)
    PROVE  BillingInv'
<1> USE DEF BillingInv
<1>1. /\ UNCHANGED <<clock, deleted, payment, tossVars, pc, target, due>>
      /\ cronPc = "declined" /\ faults' \in 0..MaxFaults
      /\ \/ SetStatus(d.sub, StatusAfterDecline(d)) /\ cronPc' = "record" /\ UNCHANGED handling
         \/ Done /\ UNCHANGED sub
  BY FaultFacts DEF CronDemote, TypeOK
<1>2. CASE SetStatus(d.sub, StatusAfterDecline(d)) /\ cronPc' = "record" /\ UNCHANGED handling
  <2>1. d.sub \in Request /\ sub[d.sub].status # "none"
    BY DEF TypeOK, Snapshot, SnapshotInv
  <2>2. StatusAfterDecline(d) \in {"active", "past_due", "canceled", "expired"}
    BY DEF StatusAfterDecline
  <2>3. RowsKept /\ sub' \in [Request -> SubRow]
    BY <1>2, <2>1, <2>2, StatusUpdate DEF RowsKept
  <2>4. TypeOK'
    BY <1>1, <1>2, <2>3 DEF TypeOK, clock, tossVars
  <2>5. SnapshotInv'
    BY <1>1, <1>2, <2>3 DEF SnapshotInv, RowsKept, TypeOK, Snapshot, clock
  <2>6. RowInv' /\ FirstChargeInv' /\ RenewalInv' /\ NoDoubleCharge'
    BY <1>1, <2>3, RowKept, FirstChargeKept, RenewalKept, ChargesKept DEF tossVars
  <2>7. AnswerInv'
    BY <1>1, <1>2 DEF AnswerInv, tossVars
  <2> QED  BY <2>4, <2>5, <2>6, <2>7
<1>3. CASE Done /\ UNCHANGED sub
  <2>1. RowsKept /\ sub' \in [Request -> SubRow]
    BY <1>3 DEF RowsKept, TypeOK
  <2> QED  BY <1>1, <1>3, <2>1, RunMovesOn DEF Done
<1> QED  BY <1>1, <1>2, <1>3

\* Counting a rejection changes the key, but no charge was made under the old one.
LEMMA CronRecordDeclineKeepsInv ==
    ASSUME BillingInv, NEW d \in handling, CronRecordDecline(d)
    PROVE  BillingInv'
<1> DEFINE row == [status |-> "failed", failReason |-> "declined",
                   attemptCount |-> payment[d.sub][d.end].attemptCount + 1]
<1> USE DEF BillingInv
<1>1. /\ UNCHANGED <<clock, deleted, sub, tossVars, pc, target, due>>
      /\ cronPc = "record" /\ Done /\ faults' \in 0..MaxFaults
      /\ payment' = [payment EXCEPT ![d.sub][d.end] = row] \/ UNCHANGED payment
  BY FaultFacts DEF CronRecordDecline, TypeOK
<1>2. /\ d.sub \in Request /\ d.end \in End /\ d.end # 0
      /\ payment[d.sub][d.end].status # "success"
  BY SnapshotFacts
<1>3. RowsKept /\ sub' \in [Request -> SubRow]
  BY <1>1 DEF RowsKept, TypeOK
<1>4. CASE payment' = [payment EXCEPT ![d.sub][d.end] = row]
  <2>1. row \in PaymentRow /\ row.status = "failed"
    BY <1>2 DEF TypeOK, PaymentRow
  <2> HIDE DEF row
  <2>2. /\ payment' \in [Request -> [End -> PaymentRow]]
        /\ payment'[d.sub][d.end].status = "failed"
        /\ \A s \in Request : \A e \in End :
             s # d.sub \/ e # d.end => payment'[s][e] = payment[s][e]
    BY <1>2, <1>4, <2>1 DEF TypeOK
  <2>3. \A k \in approved : k.sub \in Request /\ k.end \in End /\ ~(k.sub = d.sub /\ k.end = d.end)
    BY <1>1 DEF AnswerInv, TypeOK, Key
  <2>4. TypeOK'
    BY <1>1, <2>2 DEF TypeOK, Done, clock, tossVars
  <2>5. SnapshotInv'
    BY <1>1 DEF SnapshotInv, Done, clock
  <2>6. RowInv'
    BY <1>1, <1>2, <2>2, DomainFacts DEF RowInv
  <2>7. FirstChargeInv' /\ NoDoubleCharge'
    BY <1>1, FirstChargeKept, ChargesKept DEF tossVars
  <2>8. RenewalInv'
    BY <1>1, <2>2, <2>3 DEF RenewalInv, RenewalKey, tossVars
  <2>9. AnswerInv'
    BY <1>1 DEF AnswerInv, Done
  <2> QED  BY <2>4, <2>5, <2>6, <2>7, <2>8, <2>9
<1>5. CASE UNCHANGED payment
  BY <1>1, <1>3, <1>5, RunMovesOn DEF Done
<1> QED  BY <1>1, <1>4, <1>5

\* Recording a renewal ends its period: the charge needs its key no longer.
LEMMA CronPersistKeepsInv ==
    ASSUME BillingInv, NEW d \in handling, CronPersist(d)
    PROVE  BillingInv'
<1> DEFINE row == [payment[d.sub][d.end] EXCEPT !.status = "success", !.failReason = "none"]
           newSub == [sub[d.sub] EXCEPT !.status = "active", !.start = d.end,
                                        !.end = d.end + Period]
<1> USE DEF BillingInv
<1>1. /\ UNCHANGED <<clock, deleted, tossVars, pc, target, due>>
      /\ cronPc = "approved" /\ Done /\ faults' \in 0..MaxFaults
      /\ \/ UpsertSuccess(d) /\ sub' = [sub EXCEPT ![d.sub] =
                [@ EXCEPT !.status = "active", !.start = d.end, !.end = NextEnd(d)]]
         \/ UNCHANGED <<sub, payment>>
  BY FaultFacts DEF CronPersist, PersistFails, NotPersisted, TypeOK
<1>2. /\ d.sub \in Request /\ d.end \in End /\ d.end # 0 /\ d.end \in Time
      /\ sub[d.sub].status # "none" /\ sub[d.sub].end = d.end
  BY SnapshotFacts
<1>3. CASE UpsertSuccess(d) /\ sub' = [sub EXCEPT ![d.sub] =
                [@ EXCEPT !.status = "active", !.start = d.end, !.end = NextEnd(d)]]
  <2>1. /\ row \in PaymentRow /\ row.status = "success"
        /\ payment' = [payment EXCEPT ![d.sub][d.end] = row]
    <3>1. payment[d.sub][d.end] \in PaymentRow
      BY <1>2 DEF TypeOK
    <3>2. row \in PaymentRow /\ row.status = "success"
      BY <3>1 DEF PaymentRow
    <3> QED  BY <1>2, <1>3, <3>2 DEF UpsertSuccess
  <2>2. /\ d.end + Period \in End /\ d.end + Period # 0
        /\ \A e \in End : e <= d.end => e < d.end + Period
    BY <1>2, DomainFacts DEF End, Time
  <2>3. /\ newSub \in SubRow /\ newSub.status = "active" /\ newSub.end = d.end + Period
        /\ sub' = [sub EXCEPT ![d.sub] = newSub]
    BY <1>2, <1>3, <2>2 DEF TypeOK, SubRow, NextEnd
  <2> HIDE DEF row, newSub
  <2>4. /\ payment' \in [Request -> [End -> PaymentRow]]
        /\ payment'[d.sub][d.end].status = "success"
        /\ \A s \in Request : \A e \in End :
             s # d.sub \/ e # d.end => payment'[s][e] = payment[s][e]
    BY <1>2, <2>1 DEF TypeOK
  <2>5. /\ sub' \in [Request -> SubRow]
        /\ sub'[d.sub].status = "active" /\ sub'[d.sub].end = d.end + Period
        /\ \A s \in Request : s # d.sub => sub'[s] = sub[s]
    BY <1>2, <2>3 DEF TypeOK
  <2>6. TypeOK'
    BY <1>1, <2>4, <2>5 DEF TypeOK, Done, clock, tossVars
  <2>7. SnapshotInv'
    <3>1. \A c \in due : c.sub # d.sub
      BY DEF SnapshotInv
    <3> QED  BY <1>1, <2>5, <3>1 DEF SnapshotInv, TypeOK, Snapshot, Done, clock
  <2>8. RowInv'
    <3>1. ASSUME NEW s \in Request, s # d.sub
          PROVE  sub'[s] = sub[s] /\ pc'[s] = pc[s] /\ \A e \in End : payment'[s][e] = payment[s][e]
      BY <1>1, <2>4, <2>5, <3>1
    <3>2. /\ pc'[d.sub] = "done" /\ payment'[d.sub][0].status = "success"
          /\ payment[d.sub][0].status = "success"
          /\ \A e \in End : e # 0 /\ payment[d.sub][e].status = "success" => e < d.end
      BY <1>1, <1>2, <2>4, DomainFacts DEF RowInv
    <3>3. \A e \in End : e # 0 /\ payment'[d.sub][e].status = "success" => e <= d.end
      <4> SUFFICES ASSUME NEW e \in End, e # 0, payment'[d.sub][e].status = "success"
                   PROVE  e <= d.end
        OBVIOUS
      <4>1. e \in Nat /\ d.end \in Nat
        BY <1>2, DomainFacts
      <4>2. CASE e # d.end
        BY <1>2, <2>4, <3>2, <4>1, <4>2
      <4> QED  BY <4>1, <4>2
    <3>4. \A e \in End : e # 0 /\ payment'[d.sub][e].status = "success" =>
            e < d.end + Period
      BY <2>2, <3>3
    <3>5. ASSUME NEW s \in Request, s # d.sub
          PROVE  /\ sub'[s].status # "none" =>
                      pc'[s] = "done" /\ sub'[s].end # 0 /\ payment'[s][0].status = "success"
                 /\ payment'[s][0].status = "success" => pc'[s] = "done"
                 /\ \A e \in End : e # 0 /\ payment'[s][e].status = "success" =>
                      sub'[s].status # "none" /\ e < sub'[s].end
      BY <3>1, <3>5, DomainFacts DEF RowInv
    <3> QED  BY <2>2, <2>5, <3>2, <3>4, <3>5 DEF RowInv
  <2>9. FirstChargeInv' /\ NoDoubleCharge'
    BY <1>1, FirstChargeKept, ChargesKept DEF tossVars
  <2>10. RenewalInv'
    <3> SUFFICES ASSUME NEW k \in approved, k.end # 0
                 PROVE  /\ sub'[k.sub].status # "none"
                        /\ payment'[k.sub][k.end].status # "success" =>
                             k = RenewalKey(k.sub, k.end)' /\ sub'[k.sub].end = k.end
      BY <1>1 DEF RenewalInv, tossVars
    <3>1. k.sub \in Request /\ k.end \in End
      BY DEF TypeOK, Key
    <3>2. CASE k.sub = d.sub /\ k.end = d.end
      BY <2>4, <2>5, <3>2
    <3>3. CASE k.sub = d.sub /\ k.end # d.end
      BY <1>2, <2>4, <2>5, <3>1, <3>3 DEF RenewalInv
    <3>4. CASE k.sub # d.sub
      BY <2>4, <2>5, <3>1, <3>4 DEF RenewalInv, RenewalKey
    <3> QED  BY <3>2, <3>3, <3>4
  <2>11. AnswerInv'
    BY <1>1 DEF AnswerInv, Done
  <2> QED  BY <2>6, <2>7, <2>8, <2>9, <2>10, <2>11
<1>4. CASE UNCHANGED <<sub, payment>>
  <2>1. RowsKept /\ sub' \in [Request -> SubRow]
    BY <1>4 DEF RowsKept, TypeOK
  <2> QED  BY <1>1, <1>4, <2>1, RunMovesOn DEF Done
<1> QED  BY <1>1, <1>3, <1>4


-----------------------------------------------------------------------------
(* Time, a crash, and the theorem.                                         *)

\* A tick finds no run in progress, so no snapshot gets older with it.
LEMMA TickKeepsInv ==
    ASSUME BillingInv, Tick
    PROVE  BillingInv'
<1> USE DEF BillingInv
<1>1. /\ UNCHANGED <<dbVars, tossVars, pc, target, cronVars>>
      /\ cronPc = "idle" /\ now < MaxTime /\ now' = now + 1 /\ ran' = FALSE
      /\ faults' \in 0..MaxFaults
  BY FaultFacts DEF Tick, TypeOK
<1>2. now' \in Time
  BY <1>1 DEF TypeOK, Time
<1>3. TypeOK'
  BY <1>1, <1>2 DEF TypeOK, dbVars, tossVars, cronVars
<1>4. SnapshotInv'
  BY <1>1 DEF SnapshotInv, cronVars
<1>5. RowsKept
  BY <1>1 DEF RowsKept, dbVars
<1>6. RowInv' /\ FirstChargeInv' /\ RenewalInv' /\ AnswerInv' /\ NoDoubleCharge'
  BY <1>1, <1>5, RowKept, FirstChargeKept, RenewalKept, AnswerKept, ChargesKept
  DEF dbVars, tossVars
<1> QED  BY <1>3, <1>4, <1>6

\* After a crash nothing but the tables and the charges is left.
LEMMA CrashKeepsInv ==
    ASSUME BillingInv, Crash
    PROVE  BillingInv'
<1> USE DEF BillingInv
<1>1. /\ UNCHANGED <<clock, dbVars, tossVars>>
      /\ pc' = [r \in Request |-> IF pc[r] = "idle" THEN "idle" ELSE "done"]
      /\ target' = [r \in Request |-> {}]
      /\ cronPc' = "idle" /\ due' = {} /\ handling' = {}
      /\ faults' \in 0..MaxFaults
  BY FaultFacts DEF Crash, TypeOK
<1>2. TypeOK'
  BY <1>1 DEF TypeOK, clock, dbVars, tossVars
<1>3. SnapshotInv' /\ AnswerInv'
  BY <1>1 DEF SnapshotInv, AnswerInv
<1>4. RowsKept
  BY <1>1 DEF RowsKept, dbVars
<1>5. RowInv' /\ FirstChargeInv' /\ RenewalInv' /\ NoDoubleCharge'
  BY <1>1, <1>4, RowKept, FirstChargeKept, RenewalKept, ChargesKept DEF dbVars, tossVars
<1> QED  BY <1>2, <1>3, <1>5

\* Nothing is charged and no row exists at first.
LEMMA InitInv ==
    Init => BillingInv
<1> SUFFICES ASSUME Init PROVE BillingInv
  OBVIOUS
<1>1. NoSub \in SubRow /\ NoPayment \in PaymentRow /\ 1 \in Time
  BY DomainFacts DEF NoSub, NoPayment, SubRow, PaymentRow, Time
<1>2. TypeOK
  <2>1. sub \in [Request -> SubRow] /\ payment \in [Request -> [End -> PaymentRow]]
    BY <1>1 DEF Init
  <2>2. /\ deleted \subseteq Group /\ approved \subseteq Key /\ rejected \subseteq Key
        /\ target \in [Request -> SUBSET Request]
        /\ due \subseteq Snapshot /\ handling \subseteq Snapshot
        /\ cronPc = "idle" /\ ran \in BOOLEAN /\ now = 1 /\ faults = 0
    BY DEF Init
  <2>3. pc = [r \in Request |-> "idle"]
    BY DEF Init
  <2>4. now \in Time /\ faults \in 0..MaxFaults
    BY <1>1, <2>2
  <2> QED  BY <2>1, <2>2, <2>3, <2>4 DEF TypeOK
<1>3. \A s \in Request : /\ sub[s].status = "none"
                         /\ \A e \in End : payment[s][e].status = "none"
  BY DEF Init, NoSub, NoPayment
<1>4. RowInv
  BY <1>3, DomainFacts DEF RowInv
<1> QED
  BY <1>2, <1>4
  DEF BillingInv, Init, SnapshotInv, FirstChargeInv, RenewalInv, AnswerInv, NoDoubleCharge

\* Every step keeps the invariant, if Toss answers every call.
LEMMA NextKeepsInv ==
    ASSUME BillingInv, "lost" \notin Faults, [Next]_vars
    PROVE  BillingInv'
<1>1. ASSUME NEW r \in Request, SubscribeStep(r)  PROVE BillingInv'
  BY <1>1, SubscribeKeepsInv, ChargeFirstKeepsInv, RecordFirstDeclineKeepsInv,
     PersistKeepsInv, CompensateKeepsInv
  DEF SubscribeStep
<1>2. ASSUME NEW r \in Request, AccountStep(r)  PROVE BillingInv'
  BY <1>2, AccountKeepsInv
<1>3. CASE CronStep
  <2>1. CASE CronStart
    BY <2>1, CronStartKeepsInv
  <2>2. CASE CronEnd
    BY <2>2, CronSkipsKeepInv
  <2>3. ASSUME NEW d \in due, CronCancel(d) \/ CronCharge(d) \/ CronLookupFails(d)
        PROVE  BillingInv'
    BY <2>3, CronCancelKeepsInv, CronChargeKeepsInv, CronSkipsKeepInv
  <2>4. ASSUME NEW d \in handling, CronDemote(d) \/ CronRecordDecline(d) \/ CronPersist(d)
        PROVE  BillingInv'
    BY <2>4, CronDemoteKeepsInv, CronRecordDeclineKeepsInv, CronPersistKeepsInv
  <2> QED  BY <1>3, <2>1, <2>2, <2>3, <2>4 DEF CronStep
<1>4. CASE Tick
  BY <1>4, TickKeepsInv
<1>5. CASE Crash
  BY <1>5, CrashKeepsInv
<1>6. CASE UNCHANGED vars
  BY <1>6
  DEF vars, BillingInv, TypeOK, SnapshotInv, RowInv, FirstChargeInv, RenewalInv, AnswerInv,
      NoDoubleCharge, RenewalKey
<1> QED  BY <1>1, <1>2, <1>3, <1>4, <1>5, <1>6 DEF Next

\* The inductive invariant holds in every reachable state.
THEOREM BillingInvariant ==
    ASSUME "lost" \notin Faults
    PROVE  Spec => []BillingInv
<1>1. BillingInv /\ [Next]_vars => BillingInv'
  BY NextKeepsInv
<1> QED  BY <1>1, InitInv, PTL DEF Spec

\* Every row, key and program counter stays in its domain.
THEOREM TypeCorrect ==
    ASSUME "lost" \notin Faults
    PROVE  Spec => []TypeOK
<1>1. BillingInv => TypeOK
  BY DEF BillingInv
<1> QED  BY <1>1, BillingInvariant, PTL

\* No customer is charged twice for one order of renewDueSubscriptions or
\* subscribe, for any number of groups, requests, runs, errors and crashes.
THEOREM NeverChargedTwice ==
    ASSUME "lost" \notin Faults
    PROVE  Spec => []NoDoubleCharge
<1>1. BillingInv => NoDoubleCharge
  BY DEF BillingInv
<1> QED  BY <1>1, BillingInvariant, PTL

-----------------------------------------------------------------------------
(* Subscription implements PaymentLedger.                                  *)

\* A step that charges nothing and records nothing is no step of the ledger.
LEMMA LedgerStutters ==
    ASSUME UNCHANGED approved,
           \A s \in Request : \A e \in End :
             payment'[s][e].status = "success" <=> payment[s][e].status = "success"
    PROVE  UNCHANGED Ledger!ledgerVars
<1>1. Recorded' = Recorded
  BY DEF Recorded
<1> QED  BY <1>1 DEF Ledger!ledgerVars

\* A payment row becomes a success: its order enters the books.
LEMMA LedgerRecords ==
    ASSUME UNCHANGED approved, NEW k \in approved, NEW s \in Request, NEW e \in End,
           k.sub = s, k.end = e, payment'[s][e].status = "success",
           \A t \in Request : \A f \in End :
             t # s \/ f # e => payment'[t][f] = payment[t][f]
    PROVE  Ledger!LedgerNext
<1>1. Recorded' = Recorded \cup {[sub |-> s, end |-> e]}
  <2>1. \A o \in [sub : Request, end : End] :
          /\ o.sub \in Request /\ o.end \in End
          /\ o.sub = s /\ o.end = e <=> o = [sub |-> s, end |-> e]
    OBVIOUS
  <2>2. [sub |-> s, end |-> e] \in [sub : Request, end : End]
    OBVIOUS
  <2>3. \A o \in [sub : Request, end : End] :
          o \in Recorded' <=> o \in Recorded \/ o = [sub |-> s, end |-> e]
    BY <2>1 DEF Recorded
  <2>4. Recorded \subseteq [sub : Request, end : End]
        /\ Recorded' \subseteq [sub : Request, end : End]
    BY DEF Recorded
  <2> QED  BY <2>2, <2>3, <2>4
<1> QED  BY <1>1 DEF Ledger!LedgerNext, Ledger!RecordOrder, Ledger!OrderOf

\* Toss approves a key: a charge of the ledger, or the replay of one.
LEMMA LedgerCharges ==
    ASSUME NEW k, TossApproves(k), UNCHANGED payment,
           \A c \in approved : c.sub = k.sub /\ c # k =>
             Ledger!OrderOf(c) # Ledger!OrderOf(k) /\ Ledger!OrderOf(c) \in Recorded
    PROVE  [Ledger!LedgerNext]_(Ledger!ledgerVars)
<1>1. Recorded' = Recorded
  BY DEF Recorded
<1>2. approved' = approved \cup {k}
  BY DEF TossApproves
<1>3. CASE k \in approved
  <2>1. approved' = approved
    BY <1>2, <1>3
  <2> QED  BY <1>1, <2>1 DEF Ledger!ledgerVars
<1>4. CASE k \notin approved
  <2>1. \A c \in approved : c.sub # k.sub => Ledger!OrderOf(c) # Ledger!OrderOf(k)
    BY DEF Ledger!OrderOf
  <2>2. Ledger!ChargeOrder(k)
    BY <1>1, <1>2, <1>4, <2>1 DEF Ledger!ChargeOrder
  <2> QED  BY <1>2, <2>2 DEF Ledger!LedgerNext
<1> QED  BY <1>3, <1>4

\* Every step of Subscription is a step of the ledger or leaves it alone.
LEMMA StepRefinesLedger ==
    ASSUME BillingInv, "lost" \notin Faults, [Next]_vars
    PROVE  [Ledger!LedgerNext]_(Ledger!ledgerVars)
<1> USE DEF BillingInv
<1>1. ASSUME UNCHANGED <<approved, payment>>
      PROVE  [Ledger!LedgerNext]_(Ledger!ledgerVars)
  BY <1>1, LedgerStutters
<1>2. ASSUME NEW r \in Request, ChargeFirst(r)
      PROVE  [Ledger!LedgerNext]_(Ledger!ledgerVars)
  <2>1. \/ TossApproves(KeyOf(r, 0, 0)) /\ UNCHANGED payment
        \/ UNCHANGED <<approved, payment>>
    BY <1>2, FaultFacts DEF ChargeFirst, AnswerLost, TossRejects, dbVars
  <2>2. \A c \in approved : c.sub # r
    BY <1>2 DEF ChargeFirst, FirstChargeInv, RenewalInv, RowInv
  <2>3. KeyOf(r, 0, 0).sub = r
    BY DEF KeyOf
  <2> QED  BY <1>1, <2>1, <2>2, <2>3, LedgerCharges
<1>3. ASSUME NEW r \in Request, NEW status \in {"failed", "success"},
             NEW reason \in {"none", "declined", "refund", "check"},
             SetFirstPayment(r, status, reason), UNCHANGED approved,
             \/ status = "success" /\ pc[r] \in {"persist", "refund", "compensate"}
             \/ status = "failed" /\ pc[r] = "declined"
      PROVE  [Ledger!LedgerNext]_(Ledger!ledgerVars)
  <2> DEFINE row == [status |-> status, attemptCount |-> 0, failReason |-> reason]
  <2>1. row \in PaymentRow /\ row.status = status /\ payment' = [payment EXCEPT ![r][0] = row]
    BY <1>3 DEF PaymentRow, SetFirstPayment
  <2> HIDE DEF row
  <2>2. /\ payment'[r][0].status = status
        /\ \A t \in Request : \A f \in End : t # r \/ f # 0 =>
             payment'[t][f] = payment[t][f]
    BY <2>1, DomainFacts DEF TypeOK
  <2>3. CASE status = "success"
    BY <1>3, <2>2, <2>3, KeyFacts, DomainFacts, LedgerRecords DEF FirstChargeInv
  <2>4. CASE status = "failed"
    <3>1. payment[r][0].status # "success"
      BY <1>3, <2>4 DEF RowInv
    <3>2. \A s \in Request : \A e \in End :
            payment'[s][e].status = "success" <=> payment[s][e].status = "success"
      BY <2>2, <2>4, <3>1
    <3> QED  BY <1>3, <3>2, LedgerStutters
  <2> QED  BY <2>3, <2>4
<1>4. ASSUME NEW r \in Request, SubscribeStep(r)
      PROVE  [Ledger!LedgerNext]_(Ledger!ledgerVars)
  BY <1>1, <1>2, <1>3, <1>4
  DEF SubscribeStep, Subscribe, IssueBillingKey, RecordFirstDecline, Persist, RecordRefund,
      RecordCheck, CompensateSave, dbVars, tossVars
<1>5. ASSUME NEW r \in Request, AccountStep(r)
      PROVE  [Ledger!LedgerNext]_(Ledger!ledgerVars)
  BY <1>1, <1>5
  DEF AccountStep, Cancel, CancelWrite, Resume, ResumeWrite, FindActive,
      SetCancelAtPeriodEnd, CancelForGroup, SoftDelete, dbVars, tossVars
<1>6. ASSUME NEW d \in due, CronCharge(d)
      PROVE  [Ledger!LedgerNext]_(Ledger!ledgerVars)
  <2> DEFINE key == RenewalKey(d.sub, d.end)
  <2>1. \/ TossApproves(key) /\ UNCHANGED payment
        \/ UNCHANGED <<approved, payment>>
    BY <1>6, FaultFacts DEF CronCharge, AnswerLost, TossRejects, dbVars
  <2>2. /\ d.sub \in Request /\ d.end \in End /\ d.end # 0
        /\ sub[d.sub].status # "none" /\ sub[d.sub].end = d.end
        /\ payment[d.sub][0].status = "success"
    BY SnapshotFacts DEF RowInv
  <2>3. key.sub = d.sub /\ key.end = d.end
    BY <2>2, RenewalKeyFacts
  <2>4. \A c \in approved : c.sub = d.sub /\ c # key =>
          c.sub \in Request /\ c.end \in End /\ c.end # d.end
          /\ payment[c.sub][c.end].status = "success"
    <3> SUFFICES ASSUME NEW c \in approved, c.sub = d.sub, c # key
                 PROVE  c.end # d.end /\ payment[c.sub][c.end].status = "success"
      BY DEF TypeOK, Key
    <3>1. CASE c.end = 0
      BY <2>2, <3>1
    <3>2. CASE c.end # 0
      <4>1. /\ c.end = d.end => payment[c.sub][c.end].status # "success"
            /\ payment[c.sub][c.end].status # "success" =>
                 c = RenewalKey(d.sub, c.end) /\ c.end = d.end
        BY <2>2, <3>2, SnapshotFacts DEF RenewalInv
      <4> QED  BY <4>1
    <3> QED  BY <3>1, <3>2
  <2> HIDE DEF key
  <2>5. \A c \in approved : c.sub = key.sub /\ c # key =>
          Ledger!OrderOf(c) # Ledger!OrderOf(key) /\ Ledger!OrderOf(c) \in Recorded
    BY <2>3, <2>4 DEF Ledger!OrderOf, Recorded
  <2> QED  BY <1>1, <2>1, <2>5, LedgerCharges
<1>7. ASSUME NEW d \in handling, CronRecordDecline(d)
      PROVE  [Ledger!LedgerNext]_(Ledger!ledgerVars)
  <2> DEFINE row == [status |-> "failed", failReason |-> "declined",
                     attemptCount |-> payment[d.sub][d.end].attemptCount + 1]
  <2>1. /\ d.sub \in Request /\ d.end \in End /\ payment[d.sub][d.end].status # "success"
    BY SnapshotFacts
  <2>2. CASE payment' = [payment EXCEPT ![d.sub][d.end] = row]
    <3>1. row.status # "success"
      OBVIOUS
    <3> HIDE DEF row
    <3>2. \A s \in Request : \A e \in End :
            payment'[s][e].status = "success" <=> payment[s][e].status = "success"
      BY <2>1, <2>2, <3>1 DEF TypeOK
    <3> QED  BY <1>7, <3>2, LedgerStutters DEF CronRecordDecline, tossVars
  <2>3. CASE UNCHANGED payment
    BY <1>1, <1>7, <2>3 DEF CronRecordDecline, tossVars
  <2> QED  BY <1>7, <2>2, <2>3 DEF CronRecordDecline
<1>8. ASSUME NEW d \in handling, CronPersist(d)
      PROVE  [Ledger!LedgerNext]_(Ledger!ledgerVars)
  <2> DEFINE row == [payment[d.sub][d.end] EXCEPT !.status = "success", !.failReason = "none"]
  <2>1. d.sub \in Request /\ d.end \in End
    BY SnapshotFacts
  <2>2. cronPc = "approved" /\ UNCHANGED approved /\ (UpsertSuccess(d) \/ UNCHANGED payment)
    BY <1>8 DEF CronPersist, PersistFails, tossVars
  <2>3. CASE UpsertSuccess(d)
    <3>1. row.status = "success" /\ payment' = [payment EXCEPT ![d.sub][d.end] = row]
      <4>1. payment[d.sub][d.end] \in PaymentRow
        BY <2>1 DEF TypeOK
      <4>2. row.status = "success"
        BY <4>1 DEF PaymentRow
      <4> QED  BY <2>1, <2>3, <4>2 DEF UpsertSuccess
    <3> HIDE DEF row
    <3>2. /\ payment'[d.sub][d.end].status = "success"
          /\ \A s \in Request : \A e \in End :
               s # d.sub \/ e # d.end => payment'[s][e] = payment[s][e]
      BY <2>1, <3>1 DEF TypeOK
    <3>3. /\ RenewalKey(d.sub, d.end) \in approved
          /\ RenewalKey(d.sub, d.end).sub = d.sub /\ RenewalKey(d.sub, d.end).end = d.end
      BY <2>1, <2>2, RenewalKeyFacts DEF AnswerInv
    <3> QED  BY <2>1, <2>2, <3>2, <3>3, LedgerRecords
  <2>4. CASE UNCHANGED payment
    BY <1>1, <2>2, <2>4
  <2> QED  BY <2>2, <2>3, <2>4
<1>9. CASE CronStep
  BY <1>1, <1>6, <1>7, <1>8, <1>9
  DEF CronStep, CronStart, CronEnd, CronCancel, CronLookupFails, CronDemote, dbVars, tossVars
<1>10. CASE Tick \/ Crash \/ UNCHANGED vars
  BY <1>1, <1>10 DEF Tick, Crash, vars, dbVars, tossVars
<1> QED  BY <1>4, <1>5, <1>9, <1>10 DEF Next

\* The handlers, the cron and their retries implement the ledger of PaymentLedger:
\* an order is charged once, after everything charged before for its subscription
\* has been recorded, and only money that was taken is recorded.
THEOREM ImplementsLedger ==
    ASSUME "lost" \notin Faults
    PROVE  Spec => RefinesLedger
<1>1. Init => Ledger!LedgerInit
  <2> SUFFICES ASSUME Init PROVE approved = {} /\ Recorded = {}
    BY DEF Ledger!LedgerInit
  <2>1. \A s \in Request : \A e \in End : payment[s][e].status = "none"
    BY DEF Init, NoPayment
  <2> QED  BY <2>1 DEF Init, Recorded
<1>2. BillingInv /\ [Next]_vars => [Ledger!LedgerNext]_(Ledger!ledgerVars)
  BY StepRefinesLedger
<1> QED  BY <1>1, <1>2, BillingInvariant, PTL DEF Spec, RefinesLedger, Ledger!LedgerSpec

-----------------------------------------------------------------------------
(* The unconditional status updates of a run never reach an expired row.   *)

\* No row the run still has to write has expired meanwhile: only the run itself
\* lets a row expire, and it deals with each row once.
LiveSnapshots ==
    /\ \A d \in due : sub[d.sub].status # "expired"
    /\ cronPc \in {"approved", "declined"} =>
         \A d \in handling : sub[d.sub].status # "expired"

SameExpired == \A s \in Request : sub'[s].status = "expired" <=> sub[s].status = "expired"
StaysExpired == \A s \in Request : sub[s].status = "expired" => sub'[s].status = "expired"

\* No row expires and none the run still has to write has expired.
LEMMA SnapshotsStayLive ==
    ASSUME BillingInv, LiveSnapshots, SameExpired, due' \subseteq due,
           cronPc' \in {"approved", "declined"} =>
             \/ handling' \subseteq due
             \/ handling' = handling /\ cronPc \in {"approved", "declined"}
    PROVE  LiveSnapshots' /\ StaysExpired
<1>1. \A d \in due \cup handling : d.sub \in Request
  BY SnapshotFacts
<1> QED  BY <1>1 DEF LiveSnapshots, SameExpired, StaysExpired

\* Every step keeps an expired row expired.
LEMMA StepKeepsExpired ==
    ASSUME BillingInv, LiveSnapshots, [Next]_vars
    PROVE  LiveSnapshots' /\ StaysExpired
<1> USE DEF BillingInv
<1>1. ASSUME NEW r \in Request, SubscribeStep(r)
      PROVE  LiveSnapshots' /\ StaysExpired
  <2>1. UNCHANGED cronVars
    BY <1>1 DEF SubscribeStep, Subscribe, IssueBillingKey, ChargeFirst, RecordFirstDecline,
                Persist, RecordRefund, RecordCheck, CompensateSave
  <2>2. SameExpired
    <3>1. CASE Persist(r)
      <4>1. sub[r].status = "none"
        BY <3>1 DEF Persist, RowInv, TypeOK, SubRow
      <4> QED  BY <3>1, <4>1 DEF Persist, SameExpired, TypeOK
    <3>2. CASE UNCHANGED sub
      BY <3>2 DEF SameExpired
    <3> QED
      BY <1>1, <3>1, <3>2
      DEF SubscribeStep, Subscribe, IssueBillingKey, ChargeFirst, RecordFirstDecline,
          RecordRefund, RecordCheck, CompensateSave, dbVars
  <2> QED  BY <2>1, <2>2, SnapshotsStayLive DEF cronVars
<1>2. ASSUME NEW r \in Request, AccountStep(r)
      PROVE  LiveSnapshots' /\ StaysExpired
  <2>1. UNCHANGED cronVars
    BY <1>2 DEF AccountStep, Cancel, CancelWrite, Resume, ResumeWrite, FindActive,
                SetCancelAtPeriodEnd, CancelForGroup, SoftDelete
  <2>2. SameExpired
    <3>1. CASE UNCHANGED sub
      BY <3>1 DEF SameExpired
    <3>2. ASSUME NEW label, NEW flag \in BOOLEAN, SetCancelAtPeriodEnd(r, label, flag)
          PROVE  SameExpired
      BY <3>2 DEF SetCancelAtPeriodEnd, SameExpired, TypeOK, SubRow
    <3>3. CASE CancelForGroup(r)
      BY <3>3 DEF CancelForGroup, SameExpired, TypeOK, SubRow, ActiveOf, Active, ActiveStatuses
    <3> QED
      BY <1>2, <3>1, <3>2, <3>3
      DEF AccountStep, Cancel, CancelWrite, Resume, ResumeWrite, FindActive, SoftDelete, dbVars
  <2> QED  BY <2>1, <2>2, SnapshotsStayLive DEF cronVars
<1>3. ASSUME NEW d \in due \cup handling, NEW status, status # "expired",
             sub[d.sub].status # "expired", SetStatus(d.sub, status)
      PROVE  SameExpired
  BY <1>3, SnapshotFacts DEF SetStatus, SameExpired, TypeOK, SubRow
<1>4. CASE CronStart
  <2>1. \A d \in due' : d.sub \in Request /\ sub[d.sub].status # "expired"
    BY <1>4 DEF CronStart, DueSubs, Active, ActiveStatuses
  <2> QED  BY <1>4, <2>1 DEF CronStart, LiveSnapshots, StaysExpired, dbVars
<1>5. ASSUME NEW d \in due, CronCancel(d)
      PROVE  LiveSnapshots' /\ StaysExpired
  <2>1. SameExpired
    <3>1. CASE UNCHANGED sub
      BY <3>1 DEF SameExpired
    <3> QED  BY <1>3, <1>5, <3>1 DEF CronCancel, LiveSnapshots
  <2> QED  BY <1>5, <2>1, SnapshotsStayLive DEF CronCancel
<1>6. ASSUME NEW d \in due, CronCharge(d)
      PROVE  LiveSnapshots' /\ StaysExpired
  <2>1. SameExpired /\ due' \subseteq due /\ handling' \subseteq due
    BY <1>6 DEF CronCharge, SameExpired, dbVars
  <2> QED  BY <2>1, SnapshotsStayLive
<1>7. ASSUME NEW d \in handling, CronDemote(d)
      PROVE  LiveSnapshots' /\ StaysExpired
  <2>1. /\ d.sub \in Request /\ sub[d.sub].status # "expired"
        /\ \A c \in due : c.sub # d.sub /\ c.sub \in Request
        /\ cronPc' \notin {"approved", "declined"} /\ due' = due
    BY <1>7, SnapshotFacts DEF LiveSnapshots, CronDemote, SnapshotInv, Done
  <2>2. \A s \in Request : s # d.sub => sub'[s] = sub[s]
    BY <1>7, <2>1 DEF CronDemote, SetStatus, TypeOK
  <2> QED  BY <2>1, <2>2 DEF LiveSnapshots, StaysExpired
<1>8. ASSUME NEW d \in handling, CronRecordDecline(d)
      PROVE  LiveSnapshots' /\ StaysExpired
  <2>1. SameExpired /\ due' \subseteq due /\ cronPc' \notin {"approved", "declined"}
    BY <1>8 DEF CronRecordDecline, SameExpired, Done
  <2> QED  BY <2>1, SnapshotsStayLive
<1>9. ASSUME NEW d \in handling, CronPersist(d)
      PROVE  LiveSnapshots' /\ StaysExpired
  <2>1. d.sub \in Request /\ sub[d.sub].status # "expired"
    BY <1>9, SnapshotFacts DEF CronPersist, LiveSnapshots
  <2>2. SameExpired
    <3> DEFINE row == [sub[d.sub] EXCEPT !.status = "active", !.start = d.end, !.end = NextEnd(d)]
    <3>1. row.status = "active"
      BY <2>1 DEF TypeOK, SubRow
    <3>2. sub' = [sub EXCEPT ![d.sub] = row] \/ UNCHANGED sub
      BY <1>9 DEF CronPersist, PersistFails
    <3> HIDE DEF row
    <3> QED  BY <2>1, <3>1, <3>2 DEF SameExpired, TypeOK
  <2>3. due' \subseteq due /\ cronPc' \notin {"approved", "declined"}
    BY <1>9 DEF CronPersist, PersistFails, Done
  <2> QED  BY <2>2, <2>3, SnapshotsStayLive
<1>10. ASSUME UNCHANGED sub, due' \subseteq due, cronPc' \notin {"approved", "declined"}
       PROVE  LiveSnapshots' /\ StaysExpired
  BY <1>10, SnapshotsStayLive DEF SameExpired
<1>11. CASE CronEnd \/ (\E d \in due : CronLookupFails(d)) \/ Tick \/ Crash
  BY <1>10, <1>11 DEF CronEnd, CronLookupFails, Tick, Crash, dbVars, cronVars
<1>12. CASE UNCHANGED vars
  BY <1>12, SnapshotsStayLive DEF vars, SameExpired
<1> QED
  BY <1>1, <1>2, <1>4, <1>5, <1>6, <1>7, <1>8, <1>9, <1>11, <1>12 DEF Next, CronStep

\* A subscription that expired is never revived by a later run, or by an answer
\* that comes back after the row was read (renewDueSubscriptions updates by id).
THEOREM ExpiryIsFinal ==
    ASSUME "lost" \notin Faults
    PROVE  Spec => ExpiredIsFinal
<1>1. Init => LiveSnapshots
  BY DEF Init, LiveSnapshots
<1>2. BillingInv /\ LiveSnapshots /\ [Next]_vars => LiveSnapshots'
  BY StepKeepsExpired
<1>3. BillingInv /\ LiveSnapshots /\ [Next]_vars
        => [\A s \in Request : sub[s].status = "expired" => sub'[s].status = "expired"]_vars
  BY StepKeepsExpired DEF StaysExpired
<1> QED  BY <1>1, <1>2, <1>3, BillingInvariant, PTL DEF Spec, ExpiredIsFinal

-----------------------------------------------------------------------------
(* A renewal that was charged and not recorded waits for the next run.  What *)
(* BillingInv says of its key is not enough: the run must also read the row. *)

\* The end of the period has come, and the row has not expired.
RetryInv ==
    \A k \in approved : Unrecorded(k) =>
        k.end <= now /\ sub[k.sub].status # "expired"

\* Time goes forward, and no success row is taken back.
LEMMA StepKeepsRecords ==
    ASSUME BillingInv, "lost" \notin Faults, [Next]_vars
    PROVE  /\ now' >= now
           /\ \A s \in Request : \A e \in End :
                payment[s][e].status = "success" => payment'[s][e].status = "success"
<1>1. now' >= now
  <2>1. now \in Nat
    BY DomainFacts DEF BillingInv, TypeOK
  <2>2. now' = now \/ now' = now + 1
    BY DEF Next, SubscribeStep, Subscribe, IssueBillingKey, ChargeFirst, RecordFirstDecline,
           Persist, RecordRefund, RecordCheck, CompensateSave, AccountStep, Cancel,
           CancelWrite, Resume, ResumeWrite, FindActive, SetCancelAtPeriodEnd,
           CancelForGroup, SoftDelete, CronStep, CronStart, CronEnd, CronCancel, CronCharge,
           CronLookupFails, CronDemote, CronRecordDecline, CronPersist, Tick, Crash, vars, clock
  <2> QED  BY <2>1, <2>2
<1>2. Recorded \subseteq Recorded'
  BY StepRefinesLedger
  DEF Ledger!LedgerNext, Ledger!ChargeOrder, Ledger!RecordOrder, Ledger!ledgerVars
<1>3. \A s \in Request : \A e \in End :
        payment[s][e].status = "success" => payment'[s][e].status = "success"
  <2> SUFFICES ASSUME NEW s \in Request, NEW e \in End, payment[s][e].status = "success"
               PROVE  payment'[s][e].status = "success"
    OBVIOUS
  <2> DEFINE o == [sub |-> s, end |-> e]
  <2>1. o \in [sub : Request, end : End] /\ o.sub = s /\ o.end = e
    OBVIOUS
  <2> HIDE DEF o
  <2>2. o \in Recorded
    BY <2>1 DEF Recorded
  <2> QED  BY <1>2, <2>1, <2>2 DEF Recorded
<1> QED  BY <1>1, <1>3

\* Only a run makes a new charge for a renewal, for a row it has read as live.
LEMMA NewChargeIsDue ==
    ASSUME BillingInv, LiveSnapshots, "lost" \notin Faults, [Next]_vars,
           NEW k \in approved', k \notin approved, k.end # 0
    PROVE  UNCHANGED sub /\ k.end <= now /\ sub[k.sub].status # "expired"
<1>1. CASE \E r \in Request : ChargeFirst(r)
  BY <1>1, FaultFacts DEF BillingInv, ChargeFirst, AnswerLost, TossApproves, TossRejects, KeyOf
<1>2. ASSUME NEW d \in due, CronCharge(d)
      PROVE  UNCHANGED sub /\ k.end <= now /\ sub[k.sub].status # "expired"
  <2>1. k = RenewalKey(d.sub, d.end) /\ UNCHANGED sub
    BY <1>2, FaultFacts
    DEF BillingInv, CronCharge, AnswerLost, TossApproves, TossRejects, dbVars
  <2>2. k.sub = d.sub /\ k.end = d.end
    BY <2>1, SnapshotFacts, RenewalKeyFacts DEF BillingInv
  <2> QED  BY <2>1, <2>2 DEF LiveSnapshots, BillingInv, SnapshotInv
<1> QED
  BY <1>1, <1>2
  DEF Next, SubscribeStep, Subscribe, IssueBillingKey, RecordFirstDecline, Persist,
      RecordRefund, RecordCheck, CompensateSave, AccountStep, Cancel, CancelWrite, Resume,
      ResumeWrite, FindActive, SetCancelAtPeriodEnd, CancelForGroup, SoftDelete, CronStep,
      CronStart, CronEnd, CronCancel, CronLookupFails, CronDemote, CronRecordDecline,
      CronPersist, Tick, Crash, vars, tossVars

\* A row expires in one way: the run found its renewal declined.
LEMMA OnlyDeclinedExpires ==
    ASSUME BillingInv, [Next]_vars, NEW s \in Request,
           sub[s].status # "expired", sub'[s].status = "expired"
    PROVE  \E d \in handling : CronDemote(d) /\ d.sub = s
<1> USE DEF BillingInv
<1>1. sub' # sub
  OBVIOUS
<1>2. ASSUME NEW r \in Request, Persist(r)  PROVE FALSE
  BY <1>2 DEF Persist, TypeOK
<1>3. ASSUME NEW r \in Request, NEW label, NEW flag, SetCancelAtPeriodEnd(r, label, flag)
      PROVE  FALSE
  BY <1>3 DEF SetCancelAtPeriodEnd, TypeOK, SubRow
<1>4. ASSUME NEW r \in Request, CancelForGroup(r)  PROVE FALSE
  BY <1>4 DEF CancelForGroup, TypeOK, SubRow
<1>5. ASSUME NEW d \in due, CronCancel(d)  PROVE FALSE
  BY <1>5, SnapshotFacts DEF CronCancel, SetStatus, TypeOK, SubRow
<1>6. ASSUME NEW d \in handling, CronPersist(d)  PROVE FALSE
  <2>1. d.sub \in Request
    BY SnapshotFacts
  <2> DEFINE row == [sub[d.sub] EXCEPT !.status = "active", !.start = d.end, !.end = NextEnd(d)]
  <2>2. row.status = "active"
    BY <2>1 DEF TypeOK, SubRow
  <2>3. sub' = [sub EXCEPT ![d.sub] = row]
    BY <1>1, <1>6 DEF CronPersist, PersistFails
  <2> HIDE DEF row
  <2> QED  BY <2>1, <2>2, <2>3 DEF TypeOK
<1>7. ASSUME NEW d \in handling, CronDemote(d)  PROVE d.sub = s
  BY <1>1, <1>7, SnapshotFacts DEF CronDemote, SetStatus, TypeOK
<1> QED
  BY <1>1, <1>2, <1>3, <1>4, <1>5, <1>6, <1>7
  DEF Next, SubscribeStep, Subscribe, IssueBillingKey, ChargeFirst, RecordFirstDecline,
      RecordRefund, RecordCheck, CompensateSave, AccountStep, Cancel, CancelWrite, Resume,
      ResumeWrite, FindActive, SoftDelete, CronStep, CronStart, CronEnd, CronCharge,
      CronLookupFails, CronRecordDecline, Tick, Crash, vars, dbVars

\* An unrecorded charge waits: no other step expires its row, and the run that
\* declines a renewal has not charged for it.
LEMMA StepKeepsRetry ==
    ASSUME BillingInv, LiveSnapshots, RetryInv, "lost" \notin Faults, [Next]_vars
    PROVE  RetryInv'
<1>1. TypeOK /\ TypeOK' /\ now \in Nat /\ now' \in Nat
  BY NextKeepsInv, DomainFacts DEF BillingInv, TypeOK
<1> SUFFICES ASSUME NEW k \in approved', Unrecorded(k)'
             PROVE  k.end <= now' /\ sub'[k.sub].status # "expired"
  BY DEF RetryInv
<1>2. k.sub \in Request /\ k.end \in End /\ k.end \in Nat /\ k.end # 0
  BY <1>1, DomainFacts DEF TypeOK, Key, Unrecorded
<1>3. CASE k \notin approved
  BY <1>1, <1>2, <1>3, NewChargeIsDue, StepKeepsRecords
<1>4. CASE k \in approved
  <2>1. Unrecorded(k)
    BY <1>2, <1>4, StepKeepsRecords DEF Unrecorded
  <2>2. k.end <= now /\ sub[k.sub].status # "expired"
    BY <1>4, <2>1 DEF RetryInv
  <2>3. k.end <= now'
    BY <1>1, <1>2, <2>2, StepKeepsRecords
  <2>4. ASSUME sub'[k.sub].status = "expired"  PROVE FALSE
    <3>1. PICK d \in handling : CronDemote(d) /\ d.sub = k.sub
      BY <1>2, <2>2, <2>4, OnlyDeclinedExpires
    <3>2. d.end = k.end
      BY <1>4, <2>1, <3>1, SnapshotFacts DEF BillingInv, RenewalInv, Unrecorded
    <3> QED  BY <1>4, <3>1, <3>2 DEF BillingInv, AnswerInv, CronDemote
  <2> QED  BY <2>3, <2>4
<1> QED  BY <1>3, <1>4

\* Whatever failed after a renewal was charged (the transaction, the process, the
\* index), the next run reads its row and asks under the key that was charged, so
\* that Toss answers with the charge there is, unless the group has stopped the
\* subscription meanwhile.
THEOREM ChargesAreRetriedUnlessStopped ==
    ASSUME "lost" \notin Faults
    PROVE  Spec => []UnrecordedRenewalIsRetried
<1>1. Init => LiveSnapshots /\ RetryInv
  BY DEF Init, LiveSnapshots, RetryInv
<1>2. BillingInv /\ LiveSnapshots /\ RetryInv /\ [Next]_vars => LiveSnapshots' /\ RetryInv'
  BY StepKeepsExpired, StepKeepsRetry
<1>3. BillingInv /\ RetryInv => UnrecordedRenewalIsRetried
  <2> SUFFICES ASSUME BillingInv, RetryInv, NEW k \in approved, Unrecorded(k)
               PROVE  /\ NextRunAsks(k.sub) \/ Stopped(k.sub)
                      /\ sub[k.sub].end = k.end
                      /\ k = RenewalKey(k.sub, k.end)
    BY DEF UnrecordedRenewalIsRetried
  <2>1. k.sub \in Request /\ sub[k.sub] \in SubRow
    BY DEF BillingInv, TypeOK, Key
  <2>2. /\ sub[k.sub].status \notin {"none", "expired"}
        /\ sub[k.sub].end = k.end /\ k.end <= now /\ k = RenewalKey(k.sub, k.end)
    BY DEF BillingInv, RenewalInv, RetryInv, Unrecorded
  <2> QED  BY <2>1, <2>2 DEF NextRunAsks, Stopped, DueSubs, Active, ActiveStatuses, SubRow
<1> QED  BY <1>1, <1>2, <1>3, BillingInvariant, PTL DEF Spec

-----------------------------------------------------------------------------
(* What a customer gets for the money: every period is paid for, a first   *)
(* charge ends in the Payment table, and nothing but the grace or a        *)
(* cancellation ends a subscription.  Each result stands on BillingInv and *)
(* adds what it needs itself.                                              *)

Success(s, e) == payment[s][e].status = "success"

\* The period of a row starts at an order that has been paid, or is the first.
PaidInv ==
    \A s \in Request :
        /\ sub[s].status # "none" =>
             /\ sub[s].end = sub[s].start + Period
             /\ Success(s, sub[s].start) \/ \A e \in End : Success(s, e) => e = 0
        /\ \A e \in End : e # 0 /\ Success(s, e) => e <= sub[s].start

\* A first charge is about to be recorded, is recorded, or met a fault; a row and
\* an unmarked first payment come together.
FirstPaidInv ==
    \A r \in Request :
        /\ KeyOf(r, 0, 0) \in approved =>
             \/ pc[r] \in {"persist", "refund", "compensate"}
             \/ Success(r, 0)
             \/ faults > 0
        /\ sub[r].status # "none" <=> Success(r, 0) /\ payment[r][0].failReason = "none"

PaidInvs == BillingInv /\ PaidInv /\ FirstPaidInv

\* The rows keep their whole period, whatever happens to their status and mark.
PeriodsKept ==
    \A s \in Request : /\ sub'[s].start = sub[s].start /\ sub'[s].end = sub[s].end
                       /\ sub'[s].status = "none" <=> sub[s].status = "none"

\* No order becomes paid or unpaid.
PaidKept == \A s \in Request : \A e \in End : Success(s, e)' <=> Success(s, e)

\* The first Payment row of every request stays as it is.
FirstRowsKept == \A s \in Request : payment'[s][0] = payment[s][0]

\* The handlers that have charged and not recorded go on, or met a fault.
HandlersKept ==
    \A r \in Request :
        pc[r] \in {"persist", "refund", "compensate"} => pc'[r] = pc[r] \/ faults' > 0

-----------------------------------------------------------------------------
(* The invariants survive what does not touch them.                        *)

\* Periods stay paid while neither a period nor a payment moves.
LEMMA PaidInvKept ==
    ASSUME TypeOK, PaidInv, PeriodsKept, PaidKept
    PROVE  PaidInv'
<1>1. \A s \in Request : sub[s].start \in End
  BY DEF TypeOK, SubRow
<1> QED  BY <1>1 DEF PaidInv, PeriodsKept, PaidKept

\* First charges stay recorded while no first row moves and nothing is charged.
LEMMA FirstPaidInvKept ==
    ASSUME TypeOK, FirstPaidInv, PeriodsKept, FirstRowsKept, HandlersKept, faults' >= faults,
           \A r \in Request : KeyOf(r, 0, 0) \in approved' => KeyOf(r, 0, 0) \in approved,
           faults' \in Nat
    PROVE  FirstPaidInv'
<1>1. faults \in Nat
  BY DEF TypeOK
<1>2. \A r \in Request : Success(r, 0)' <=> Success(r, 0)
  BY DEF FirstRowsKept, Success
<1> QED  BY <1>1, <1>2 DEF FirstPaidInv, PeriodsKept, FirstRowsKept, HandlersKept

\* The table of subscriptions and that of payments stay as they are.
LEMMA TablesKept ==
    ASSUME UNCHANGED <<sub, payment>>
    PROVE  PeriodsKept /\ PaidKept /\ FirstRowsKept
  BY DEF PeriodsKept, PaidKept, FirstRowsKept, Success

\* A fault is counted.
LEMMA FaultCounted ==
    ASSUME TypeOK, NEW kind, Fault(kind)
    PROVE  faults' > 0 /\ faults' >= faults /\ faults' \in Nat
  BY DEF TypeOK, Fault

-----------------------------------------------------------------------------
(* The handlers.                                                           *)

\* A handler whose row does not exist writes its first Payment row.
LEMMA FirstRowWritten ==
    ASSUME BillingInv, PaidInv, NEW r \in Request, NEW status, NEW reason,
           pc[r] # "done", SetFirstPayment(r, status, reason)
    PROVE  /\ payment'[r][0].status = status /\ payment'[r][0].failReason = reason
           /\ \A s \in Request : \A e \in End :
                s # r \/ e # 0 => payment'[s][e] = payment[s][e]
           /\ sub[r].status = "none"
           /\ \A e \in End : Success(r, e)' => e = 0
<1> DEFINE row == [status |-> status, attemptCount |-> 0, failReason |-> reason]
<1>1. row.status = status /\ row.failReason = reason /\ payment' = [payment EXCEPT ![r][0] = row]
  BY DEF SetFirstPayment
<1> HIDE DEF row
<1>2. /\ payment'[r][0] = row
      /\ \A s \in Request : \A e \in End :
           s # r \/ e # 0 => payment'[s][e] = payment[s][e]
  BY <1>1, DomainFacts DEF BillingInv, TypeOK
<1>3. sub[r].status = "none" /\ \A e \in End : Success(r, e) => e = 0
  BY DEF BillingInv, RowInv, Success
<1> QED  BY <1>1, <1>2, <1>3 DEF Success

\* subscribe, with its compensation.
LEMMA SubscribeKeepsPaid ==
    ASSUME PaidInvs, "lost" \notin Faults, NEW r \in Request, SubscribeStep(r)
    PROVE  PaidInv' /\ FirstPaidInv'
<1> USE DEF PaidInvs
<1>0. TypeOK /\ RowInv /\ faults \in Nat
  BY DEF BillingInv, TypeOK
<1>1. ASSUME Goto(r, "issue") \/ Goto(r, "charge") \/ Goto(r, "done"),
             pc[r] \in {"idle", "issue"},
             UNCHANGED <<sub, payment, approved, faults>>
      PROVE  PaidInv' /\ FirstPaidInv'
  <2>1. HandlersKept
    BY <1>0, <1>1 DEF HandlersKept, Goto, TypeOK
  <2> QED  BY <1>0, <1>1, <2>1, TablesKept, PaidInvKept, FirstPaidInvKept
<1>2. CASE Subscribe(r) \/ IssueBillingKey(r)
  BY <1>1, <1>2 DEF Subscribe, IssueBillingKey, dbVars, tossVars
<1>3. CASE ChargeFirst(r)
  <2>1. /\ pc[r] = "charge" /\ UNCHANGED <<sub, payment, faults>>
        /\ \/ approved' = approved \cup {KeyOf(r, 0, 0)} /\ Goto(r, "persist")
           \/ approved' = approved /\ Goto(r, "declined")
    BY <1>0, <1>3, FaultFacts
    DEF ChargeFirst, AnswerLost, TossApproves, TossRejects, dbVars
  <2>2. PaidInv'
    BY <1>0, <2>1, TablesKept, PaidInvKept
  <2>3. \A s \in Request : s # r => pc'[s] = pc[s] /\ KeyOf(s, 0, 0) # KeyOf(r, 0, 0)
    BY <1>0, <2>1 DEF Goto, TypeOK, KeyOf
  <2>4. /\ pc'[r] = "persist" \/ approved' = approved
        /\ pc[r] \notin {"persist", "refund", "compensate"}
    BY <1>0, <2>1 DEF Goto, TypeOK
  <2> QED  BY <2>1, <2>2, <2>3, <2>4 DEF FirstPaidInv, Success
<1>4. ASSUME NEW status \in {"success", "failed"}, NEW reason \in {"declined", "refund", "check"},
             SetFirstPayment(r, status, reason), UNCHANGED <<sub, approved, faults>>,
             Goto(r, "done"), pc[r] # "done",
             status = "success" \/ pc[r] \notin {"persist", "refund", "compensate"}
      PROVE  PaidInv' /\ FirstPaidInv'
  <2>1. /\ payment'[r][0].status = status /\ payment'[r][0].failReason = reason
        /\ \A s \in Request : \A e \in End :
             s # r \/ e # 0 => payment'[s][e] = payment[s][e]
        /\ sub[r].status = "none"
        /\ \A e \in End : Success(r, e)' => e = 0
    BY <1>4, FirstRowWritten
  <2>2. PaidInv'
    BY <1>0, <1>4, <2>1 DEF PaidInv, Success, TypeOK, SubRow
  <2>3. \A s \in Request : s # r => pc'[s] = pc[s] /\ payment'[s][0] = payment[s][0]
    BY <1>0, <1>4, <2>1, DomainFacts DEF Goto, TypeOK
  <2>4. \A s \in Request : s # r =>
          /\ KeyOf(s, 0, 0) \in approved' =>
               \/ pc'[s] \in {"persist", "refund", "compensate"} \/ Success(s, 0)'
               \/ faults' > 0
          /\ sub'[s].status # "none" <=>
               Success(s, 0)' /\ payment'[s][0].failReason = "none"
    BY <1>4, <2>3 DEF FirstPaidInv, Success
  <2>5. status = "failed" => (KeyOf(r, 0, 0) \in approved => faults > 0)
    BY <1>0, <1>4 DEF FirstPaidInv, RowInv, Success
  <2> QED  BY <1>4, <2>1, <2>2, <2>4, <2>5 DEF FirstPaidInv, Success
<1>5. ASSUME Fault("db"), UNCHANGED <<sub, payment, approved>>
      PROVE  PaidInv' /\ FirstPaidInv'
  <2>1. faults' > 0 /\ faults' >= faults /\ faults' \in Nat /\ HandlersKept
    BY <1>0, <1>5, FaultCounted DEF HandlersKept
  <2> QED  BY <1>0, <1>5, <2>1, TablesKept, PaidInvKept, FirstPaidInvKept
<1>6. CASE RecordFirstDecline(r)
  BY <1>4, <1>5, <1>6 DEF RecordFirstDecline, tossVars
<1>7. CASE RecordRefund(r) \/ RecordCheck(r)
  BY <1>4, <1>5, <1>7 DEF RecordRefund, RecordCheck, CompensateSave, tossVars
<1>8. CASE Persist(r)
  <2>1. ASSUME sub' = [sub EXCEPT ![r] = [status |-> "active", start |-> now,
                          end |-> now + Period, cancelAtPeriodEnd |-> FALSE]],
               SetFirstPayment(r, "success", "none"), Goto(r, "done")
        PROVE  PaidInv' /\ FirstPaidInv'
    <3>1. /\ payment'[r][0].status = "success" /\ payment'[r][0].failReason = "none"
          /\ \A s \in Request : \A e \in End :
               s # r \/ e # 0 => payment'[s][e] = payment[s][e]
          /\ \A e \in End : Success(r, e)' => e = 0
      BY <1>8, <2>1, FirstRowWritten DEF Persist
    <3>2. /\ sub'[r].status = "active" /\ sub'[r].start = now /\ sub'[r].end = now + Period
          /\ \A s \in Request : s # r => sub'[s] = sub[s] /\ pc'[s] = pc[s]
                                         /\ payment'[s][0] = payment[s][0]
      BY <1>0, <2>1, <3>1, DomainFacts DEF TypeOK, Goto
    <3>3. PaidInv'
      <4>1. \A s \in Request : s # r => sub[s].start \in End
        BY <1>0 DEF TypeOK, SubRow
      <4> QED  BY <3>1, <3>2, <4>1 DEF PaidInv, Success
    <3>4. approved' = approved /\ faults' >= faults
      BY <1>0, <1>8, FaultCounted DEF Persist, tossVars
    <3>5. faults' \in Nat
      BY <1>0, <1>8, FaultCounted DEF Persist
    <3> QED  BY <1>0, <3>1, <3>2, <3>3, <3>4, <3>5 DEF FirstPaidInv, Success
  <2>2. ASSUME Goto(r, "refund"), UNCHANGED <<sub, payment, approved, faults>>
        PROVE  PaidInv' /\ FirstPaidInv'
    <3>1. \A s \in Request : pc'[s] = IF s = r THEN "refund" ELSE pc[s]
      BY <1>0, <2>2 DEF Goto, TypeOK
    <3>2. PaidInv'
      BY <1>0, <2>2, TablesKept, PaidInvKept
    <3> QED  BY <2>2, <3>1, <3>2 DEF FirstPaidInv, Success
  <2> QED  BY <1>5, <1>8, <2>1, <2>2 DEF Persist, tossVars
<1> QED  BY <1>2, <1>3, <1>6, <1>7, <1>8 DEF SubscribeStep

\* cancel, resume and deleteGroup charge nothing and move no period.
LEMMA AccountKeepsPaid ==
    ASSUME PaidInvs, NEW r \in Request, AccountStep(r)
    PROVE  PaidInv' /\ FirstPaidInv'
<1> USE DEF PaidInvs
<1>0. TypeOK /\ faults \in Nat
  BY DEF BillingInv, TypeOK
<1>1. UNCHANGED <<payment, approved, faults>>
  BY DEF AccountStep, Cancel, CancelWrite, Resume, ResumeWrite, FindActive,
         SetCancelAtPeriodEnd, CancelForGroup, SoftDelete, dbVars, tossVars
<1>2. HandlersKept
  BY <1>0 DEF AccountStep, Cancel, CancelWrite, Resume, ResumeWrite, FindActive, Goto,
              SetCancelAtPeriodEnd, CancelForGroup, SoftDelete, HandlersKept, TypeOK
<1>3. PeriodsKept
  <2>1. CASE UNCHANGED sub
    BY <2>1 DEF PeriodsKept
  <2>2. ASSUME NEW label, NEW flag \in BOOLEAN, SetCancelAtPeriodEnd(r, label, flag)
        PROVE  PeriodsKept
    BY <1>0, <2>2 DEF SetCancelAtPeriodEnd, PeriodsKept, TypeOK, SubRow
  <2>3. CASE CancelForGroup(r)
    BY <1>0, <2>3 DEF CancelForGroup, PeriodsKept, TypeOK, SubRow, ActiveOf, Active,
                      ActiveStatuses
  <2> QED  BY <2>1, <2>2, <2>3
           DEF AccountStep, Cancel, CancelWrite, Resume, ResumeWrite, FindActive, SoftDelete,
               dbVars
<1>4. PaidKept /\ FirstRowsKept
  BY <1>1 DEF PaidKept, FirstRowsKept, Success
<1> QED  BY <1>0, <1>1, <1>2, <1>3, <1>4, PaidInvKept, FirstPaidInvKept

-----------------------------------------------------------------------------
(* The renewal run.                                                        *)

\* The run charges no first order, and leaves the handlers alone.
LEMMA RunKeepsFirstPaid ==
    ASSUME BillingInv, FirstPaidInv, PeriodsKept, FirstRowsKept, UNCHANGED pc,
           \A k \in approved' : k \in approved \/ k.end # 0,
           faults' >= faults, faults' \in Nat
    PROVE  FirstPaidInv'
<1>1. TypeOK
  BY DEF BillingInv
<1>2. \A r \in Request : KeyOf(r, 0, 0).end = 0
  BY DEF KeyOf
<1>3. HandlersKept
  BY DEF HandlersKept
<1> QED  BY <1>1, <1>2, <1>3, FirstPaidInvKept

\* A run moves a period only to the end it was charged for.
LEMMA CronPersistKeepsPaid ==
    ASSUME PaidInvs, NEW d \in handling, CronPersist(d)
    PROVE  PaidInv' /\ FirstPaidInv'
<1> USE DEF PaidInvs
<1> DEFINE row == [payment[d.sub][d.end] EXCEPT !.status = "success", !.failReason = "none"]
           newSub == [sub[d.sub] EXCEPT !.status = "active", !.start = d.end,
                                        !.end = d.end + Period]
<1>0. TypeOK /\ faults \in Nat
  BY DEF BillingInv, TypeOK
<1>1. /\ d.sub \in Request /\ d.end \in End /\ d.end # 0 /\ d.end \in Nat
      /\ sub[d.sub].status # "none" /\ d.end = sub[d.sub].end
  BY SnapshotFacts, DomainFacts
<1>2. UNCHANGED <<pc, approved>> /\ faults' >= faults /\ faults' \in Nat
  BY <1>0, <1>1, FaultCounted DEF CronPersist, PersistFails, NotPersisted, tossVars
<1>3. CASE UNCHANGED <<sub, payment>>
  BY <1>0, <1>2, <1>3, TablesKept, PaidInvKept, RunKeepsFirstPaid
<1>4. CASE payment' = [payment EXCEPT ![d.sub][d.end] = row]
           /\ sub' = [sub EXCEPT ![d.sub] = newSub]
  <2>1. /\ row.status = "success"
        /\ newSub.status = "active" /\ newSub.start = d.end /\ newSub.end = d.end + Period
    BY <1>0, <1>1 DEF TypeOK, SubRow, PaymentRow
  <2> HIDE DEF row, newSub
  <2>2. /\ payment'[d.sub][d.end] = row /\ sub'[d.sub] = newSub
        /\ \A s \in Request : s # d.sub => sub'[s] = sub[s]
        /\ \A s \in Request : \A e \in End :
             s # d.sub \/ e # d.end => payment'[s][e] = payment[s][e]
    BY <1>0, <1>1, <1>4 DEF TypeOK
  <2>3. \A e \in End : e # 0 /\ Success(d.sub, e)' => e <= d.end
    <3>1. \A e \in End : e # 0 /\ Success(d.sub, e) => e < sub[d.sub].end
      BY <1>1 DEF BillingInv, RowInv, Success
    <3> QED  BY <1>1, <2>2, <3>1, DomainFacts DEF Success
  <2>4. \A s \in Request : s # d.sub =>
          /\ sub'[s].status # "none" =>
               /\ sub'[s].end = sub'[s].start + Period
               /\ payment'[s][sub'[s].start].status = "success"
                  \/ \A e \in End : Success(s, e)' => e = 0
          /\ \A e \in End : e # 0 /\ Success(s, e)' => e <= sub'[s].start
    <3>1. \A s \in Request : sub[s].start \in End
      BY <1>0 DEF TypeOK, SubRow
    <3> QED  BY <2>2, <3>1 DEF PaidInv, Success
  <2>5. PaidInv'
    BY <2>1, <2>2, <2>3, <2>4 DEF PaidInv, Success
  <2>6. /\ FirstRowsKept
        /\ \A s \in Request : sub'[s].status = "none" <=> sub[s].status = "none"
    BY <1>1, <2>1, <2>2, DomainFacts DEF FirstRowsKept
  <2>7. FirstPaidInv'
    BY <1>0, <1>2, <2>6 DEF FirstPaidInv, FirstRowsKept, Success
  <2> QED  BY <2>5, <2>7
<1> QED  BY <1>3, <1>4 DEF CronPersist, PersistFails, UpsertSuccess, NextEnd

\* Everything else the run does leaves the periods and the payments alone.
LEMMA CronKeepsPaid ==
    ASSUME PaidInvs, "lost" \notin Faults, CronStep
    PROVE  PaidInv' /\ FirstPaidInv'
<1> USE DEF PaidInvs
<1>0. TypeOK /\ faults \in Nat
  BY DEF BillingInv, TypeOK
<1>1. ASSUME PeriodsKept, PaidKept, FirstRowsKept, UNCHANGED pc,
             \A k \in approved' : k \in approved \/ k.end # 0,
             UNCHANGED faults \/ Fault("db")
      PROVE  PaidInv' /\ FirstPaidInv'
  <2>1. faults' >= faults /\ faults' \in Nat
    BY <1>0, <1>1, FaultCounted
  <2> QED  BY <1>0, <1>1, <2>1, PaidInvKept, RunKeepsFirstPaid
<1>2. CASE CronStart \/ CronEnd \/ \E d \in due : CronLookupFails(d)
  BY <1>1, <1>2, TablesKept DEF CronStart, CronEnd, CronLookupFails, dbVars, tossVars
<1>3. ASSUME NEW d \in due \cup handling, NEW status \in {"active", "past_due", "canceled", "expired"},
             SetStatus(d.sub, status)
      PROVE  PeriodsKept
  BY <1>0, <1>3, SnapshotFacts DEF SetStatus, PeriodsKept, TypeOK, SubRow
<1>4. ASSUME UNCHANGED payment
      PROVE  PaidKept /\ FirstRowsKept
  BY <1>4 DEF PaidKept, FirstRowsKept, Success
<1>5. ASSUME NEW d \in due, CronCancel(d)
      PROVE  PaidInv' /\ FirstPaidInv'
  <2>1. PeriodsKept
    BY <1>3, <1>5, TablesKept DEF CronCancel, PeriodsKept
  <2> QED  BY <1>1, <1>4, <1>5, <2>1 DEF CronCancel, tossVars
<1>6. ASSUME NEW d \in due, CronCharge(d)
      PROVE  PaidInv' /\ FirstPaidInv'
  <2>1. d.sub \in Request /\ d.end \in End /\ d.end # 0
    BY SnapshotFacts
  <2>2. /\ UNCHANGED <<sub, payment, pc, faults>>
        /\ \A k \in approved' : k \in approved \/ k = RenewalKey(d.sub, d.end)
    BY <1>0, <1>6, FaultFacts DEF CronCharge, AnswerLost, TossApproves, TossRejects, dbVars
  <2>3. RenewalKey(d.sub, d.end).end # 0
    BY <1>0, <2>1, RenewalKeyFacts
  <2> QED  BY <1>1, <2>2, <2>3, TablesKept
<1>7. ASSUME NEW d \in handling, CronDemote(d)
      PROVE  PaidInv' /\ FirstPaidInv'
  <2>1. StatusAfterDecline(d) \in {"active", "past_due", "canceled", "expired"}
    BY DEF StatusAfterDecline
  <2>2. PeriodsKept
    BY <1>3, <1>7, <2>1 DEF CronDemote, PeriodsKept
  <2> QED  BY <1>1, <1>4, <1>7, <2>2 DEF CronDemote, tossVars
<1>8. ASSUME NEW d \in handling, CronRecordDecline(d)
      PROVE  PaidInv' /\ FirstPaidInv'
  <2> DEFINE row == [status |-> "failed", failReason |-> "declined",
                     attemptCount |-> payment[d.sub][d.end].attemptCount + 1]
  <2>1. /\ d.sub \in Request /\ d.end \in End /\ d.end # 0
        /\ payment[d.sub][d.end].status # "success"
    BY SnapshotFacts
  <2>2. /\ PaidKept /\ FirstRowsKept
    <3>1. CASE payment' = [payment EXCEPT ![d.sub][d.end] = row]
      <4>1. row.status # "success"
        OBVIOUS
      <4> HIDE DEF row
      <4> QED  BY <1>0, <2>1, <3>1, <4>1, DomainFacts
               DEF PaidKept, FirstRowsKept, Success, TypeOK
    <3> QED  BY <1>4, <1>8, <3>1 DEF CronRecordDecline
  <2>3. PeriodsKept
    BY <1>8 DEF CronRecordDecline, PeriodsKept
  <2> QED  BY <1>1, <1>8, <2>2, <2>3 DEF CronRecordDecline, tossVars
<1>9. ASSUME NEW d \in handling, CronPersist(d)
      PROVE  PaidInv' /\ FirstPaidInv'
  BY <1>9, CronPersistKeepsPaid
<1> QED  BY <1>2, <1>5, <1>6, <1>7, <1>8, <1>9 DEF CronStep

\* Every step keeps the periods paid and the first charges recorded.
LEMMA StepKeepsPaid ==
    ASSUME PaidInvs, "lost" \notin Faults, [Next]_vars
    PROVE  PaidInv' /\ FirstPaidInv'
<1>0. TypeOK /\ faults \in Nat
  BY DEF PaidInvs, BillingInv, TypeOK
<1>1. CASE Tick \/ Crash \/ UNCHANGED vars
  <2>1. UNCHANGED <<sub, payment, approved>> /\ faults' >= faults /\ faults' \in Nat
    BY <1>0, <1>1, FaultCounted DEF Tick, Crash, vars, dbVars, tossVars
  <2>2. HandlersKept
    BY <1>0, <1>1, FaultCounted DEF Tick, Crash, vars, HandlersKept
  <2> QED
    BY <1>0, <2>1, <2>2, TablesKept, PaidInvKept, FirstPaidInvKept DEF PaidInvs
<1> QED  BY <1>1, SubscribeKeepsPaid, AccountKeepsPaid, CronKeepsPaid DEF Next

\* Nothing is paid and nothing is charged at the beginning.
LEMMA InitPaid ==
    ASSUME Init
    PROVE  PaidInv /\ FirstPaidInv
<1>1. /\ approved = {}
      /\ \A s \in Request : sub[s].status = "none"
      /\ \A s \in Request : \A e \in End : ~Success(s, e)
  BY DEF Init, NoSub, NoPayment, Success
<1> QED  BY <1>1, DomainFacts DEF PaidInv, FirstPaidInv

-----------------------------------------------------------------------------
(* The theorems.                                                           *)

\* In every state the periods are paid and the first charges are recorded.
LEMMA PaidInvariant ==
    ASSUME "lost" \notin Faults
    PROVE  Spec => [](PaidInv /\ FirstPaidInv)
<1>1. BillingInv /\ PaidInv /\ FirstPaidInv /\ [Next]_vars => (PaidInv /\ FirstPaidInv)'
  BY StepKeepsPaid DEF PaidInvs
<1>2. Init => PaidInv /\ FirstPaidInv
  BY InitPaid
<1> QED  BY <1>1, <1>2, BillingInvariant, PTL DEF Spec

\* The period a customer is in has been paid for, and no later one has: whatever
\* the renewal run repeats or loses, the row and its payment move together.
THEOREM EveryPeriodIsPaid ==
    ASSUME "lost" \notin Faults
    PROVE  Spec => []PeriodsArePaid
<1>1. BillingInv /\ PaidInv => PeriodsArePaid
  <2> SUFFICES ASSUME BillingInv, PaidInv, NEW s \in Request
      PROVE  LET paid == {e \in End : payment[s][e].status = "success"} IN
             /\ sub[s].status # "none" => /\ sub[s].end = sub[s].start + Period
                                          /\ 0 \in paid
                                          /\ sub[s].start \in paid \/ paid = {0}
             /\ \A e \in paid : e # 0 => sub[s].status # "none" /\ e <= sub[s].start
    BY DEF PeriodsArePaid
  <2> DEFINE paid == {e \in End : payment[s][e].status = "success"}
  <2>1. \A e : e \in paid <=> e \in End /\ Success(s, e)
    BY DEF Success
  <2>2. sub[s].start \in End /\ 0 \in End
    BY DomainFacts DEF BillingInv, TypeOK, SubRow
  <2>3. /\ sub[s].status # "none" => Success(s, 0)
        /\ \A e \in End : e # 0 /\ Success(s, e) => sub[s].status # "none"
    BY DEF BillingInv, RowInv, Success
  <2> HIDE DEF paid
  <2>4. ASSUME sub[s].status # "none"
        PROVE  /\ sub[s].end = sub[s].start + Period
               /\ 0 \in paid
               /\ sub[s].start \in paid \/ paid = {0}
    BY <2>1, <2>2, <2>3, <2>4 DEF PaidInv
  <2>5. \A e \in paid : e # 0 => sub[s].status # "none" /\ e <= sub[s].start
    BY <2>1, <2>3 DEF PaidInv
  <2> QED  BY <2>4, <2>5 DEF paid
<1> QED  BY <1>1, PaidInvariant, BillingInvariant, PTL

\* When subscribe has answered, its charge is in the Payment table unless a fault
\* happened, and the customer has a row or a payment marked for a person to see.
THEOREM EveryFirstChargeIsRecorded ==
    ASSUME "lost" \notin Faults
    PROVE  Spec => []FirstChargeIsRecorded
<1>1. FirstPaidInv => FirstChargeIsRecorded
  BY DEF FirstPaidInv, FirstChargeIsRecorded, Success
<1> QED  BY <1>1, PaidInvariant, PTL

\* One step ends a live subscription only after its grace or on request.
LEMMA StepLapsesOnlyAsked ==
    ASSUME BillingInv, [Next]_vars, NEW s \in Request,
           Active(s), sub'[s].status \notin ActiveStatuses
    PROVE  \/ now > sub[s].end + Grace
           \/ sub'[s].cancelAtPeriodEnd
           \/ \E d \in due : d.sub = s /\ d.cancel
<1>0. TypeOK /\ sub[s].status \in ActiveStatuses /\ sub'[s] # sub[s]
  BY DEF BillingInv, Active
<1>1. ASSUME NEW r \in Request, SubscribeStep(r)
      PROVE  FALSE
  <2>1. CASE Persist(r)
    <3>1. sub' = [sub EXCEPT ![r] = [status |-> "active", start |-> now,
                     end |-> now + Period, cancelAtPeriodEnd |-> FALSE]]
      BY <1>0, <2>1 DEF Persist
    <3> QED  BY <1>0, <3>1 DEF TypeOK, ActiveStatuses
  <2> QED  BY <1>0, <1>1, <2>1
           DEF SubscribeStep, Subscribe, IssueBillingKey, ChargeFirst, RecordFirstDecline,
               RecordRefund, RecordCheck, CompensateSave, dbVars
<1>2. ASSUME NEW r \in Request, NEW label, NEW flag, SetCancelAtPeriodEnd(r, label, flag)
      PROVE  FALSE
  BY <1>0, <1>2 DEF SetCancelAtPeriodEnd, TypeOK, SubRow
<1>3. ASSUME NEW r \in Request, CancelForGroup(r)
      PROVE  sub'[s].cancelAtPeriodEnd
  BY <1>0, <1>3 DEF CancelForGroup, TypeOK, SubRow
<1>4. ASSUME NEW r \in Request, AccountStep(r)
      PROVE  sub'[s].cancelAtPeriodEnd
  BY <1>0, <1>2, <1>3, <1>4
  DEF AccountStep, Cancel, CancelWrite, Resume, ResumeWrite, FindActive, SoftDelete, dbVars
<1>5. ASSUME NEW d \in due, CronCancel(d)
      PROVE  d.sub = s /\ d.cancel
  BY <1>0, <1>5 DEF CronCancel, SetStatus, TypeOK
<1>6. ASSUME NEW d \in handling, CronDemote(d)
      PROVE  now > sub[s].end + Grace
  <2>1. d.sub \in Request /\ d.end = sub[d.sub].end
    BY SnapshotFacts
  <2>2. SetStatus(d.sub, StatusAfterDecline(d)) /\ d.sub = s
    BY <1>0, <1>6, <2>1 DEF CronDemote, SetStatus, TypeOK
  <2>3. sub'[s].status = StatusAfterDecline(d)
    BY <1>0, <2>2 DEF SetStatus, TypeOK, SubRow
  <2> QED  BY <2>1, <2>2, <2>3 DEF StatusAfterDecline, ActiveStatuses
<1>7. ASSUME NEW d \in handling, CronPersist(d)
      PROVE  FALSE
  <2> DEFINE newSub == [sub[d.sub] EXCEPT !.status = "active", !.start = d.end,
                                          !.end = NextEnd(d)]
  <2>1. d.sub \in Request
    BY SnapshotFacts
  <2>2. newSub.status = "active"
    BY <1>0, <2>1 DEF TypeOK, SubRow
  <2>3. sub' = [sub EXCEPT ![d.sub] = newSub]
    BY <1>0, <1>7 DEF CronPersist, PersistFails
  <2> HIDE DEF newSub
  <2> QED  BY <1>0, <2>1, <2>2, <2>3 DEF TypeOK, ActiveStatuses
<1>8. UNCHANGED sub => FALSE
  BY <1>0
<1>9. CASE CronStep
  BY <1>5, <1>6, <1>7, <1>8, <1>9
  DEF CronStep, CronStart, CronEnd, CronCharge, CronLookupFails, CronRecordDecline, dbVars
<1> QED
  BY <1>1, <1>4, <1>8, <1>9 DEF Next, Tick, Crash, vars, dbVars

\* A live subscription stops only after its grace or because the group asked for
\* it, now or when the run read the row.
THEOREM NoSubscriptionLapsesUnasked ==
    ASSUME "lost" \notin Faults
    PROVE  Spec => NoUnaskedLapse
<1>1. BillingInv /\ [Next]_vars
        => [\A s \in Request :
              Active(s) /\ sub'[s].status \notin ActiveStatuses
                => \/ now > sub[s].end + Grace
                   \/ sub'[s].cancelAtPeriodEnd
                   \/ \E d \in due : d.sub = s /\ d.cancel]_vars
  BY StepLapsesOnlyAsked
<1> QED  BY <1>1, BillingInvariant, PTL DEF Spec, NoUnaskedLapse

=============================================================================
