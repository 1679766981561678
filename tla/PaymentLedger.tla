--------------------------- MODULE PaymentLedger ---------------------------
(***************************************************************************)
(* What billing promises, with no handlers, no cron and no retries: a      *)
(* ledger of card charges and of the payments the service has recorded.    *)
(* An order is one thing to pay for: the first period of a subscription    *)
(* (end = 0) or the renewal of the period that ended at `end`.  A          *)
(* charge also carries the attempt that made it, so charging an order      *)
(* twice would be two charges.                                             *)
(***************************************************************************)
VARIABLES charged,       \* the charges made: records [sub, end, try]
          recorded       \* the orders with a successful Payment row

ledgerVars == <<charged, recorded>>

OrderOf(k) == [sub |-> k.sub, end |-> k.end]

LedgerInit == charged = {} /\ recorded = {}

\* An order is charged once, and only when everything charged before for the
\* same subscription is already in the books.
ChargeOrder(k) ==
    /\ \A c \in charged : OrderOf(c) # OrderOf(k)
    /\ \A c \in charged : c.sub = k.sub => OrderOf(c) \in recorded
    /\ charged' = charged \cup {k}
    /\ UNCHANGED recorded

\* Only money that was taken is recorded as received.
RecordOrder(k) ==
    /\ k \in charged
    /\ recorded' = recorded \cup {OrderOf(k)}
    /\ UNCHANGED charged

\* The next state names the charge a step is about, so any charge is possible.
LedgerNext == \E k \in charged' : ChargeOrder(k) \/ RecordOrder(k)

LedgerSpec == LedgerInit /\ [][LedgerNext]_ledgerVars
=============================================================================
