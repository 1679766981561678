---------------------------- MODULE PaidService ----------------------------
(***************************************************************************)
(* What makes the service a paid one: the gate before a new game           *)
(* (GameGating) and the billing of the groups that subscribed              *)
(* (Subscription).  They share nothing but the run: one of them moves, the *)
(* other stays as it begins.  What each must do in the end is checked      *)
(* here; all else that is said of billing is checked by itself, with more  *)
(* requests to one group and up to symmetry.                               *)
(***************************************************************************)
EXTENDS GameGating

CONSTANTS
    Payer, Call, CallOf,                  \* Subscription: groups, requests, the group of each
    DayLength, Period, Grace, MaxTime, Faults, MaxFaults

VARIABLES
    part,      \* which of the two moves
    now, ran, deleted, sub, payment, approved, rejected, handler, target, cronPc, due,
    handling, faults

Billing == INSTANCE Subscription WITH
    Group <- Payer, Request <- Call, GroupOf <- CallOf, pc <- handler

billingVars == <<now, ran, deleted, sub, payment, approved, rejected, handler, target,
                 cronPc, due, handling, faults>>

ServiceInit == Init /\ Billing!Init /\ part \in {"gating", "billing"}

GatingMoves  == part = "gating" /\ Next /\ UNCHANGED billingVars
BillingMoves == part = "billing" /\ Billing!Next /\ UNCHANGED vars

ServiceNext == (GatingMoves \/ BillingMoves) /\ UNCHANGED part

\* The fairness of either part, while it is the one that moves.
Fairness ==
    /\ \A r \in Request : WF_vars(part = "gating" /\ pc[r] # "idle" /\ SaveStep(r))
    /\ \A a \in Start : WF_vars(part = "gating" /\ pc[a] # "idle" /\ StartStep(a))
    /\ WF_billingVars(part = "billing" /\ Billing!CronStep)
    /\ WF_billingVars(part = "billing" /\ Billing!Tick)
    /\ \A r \in Call :
         WF_billingVars(part = "billing" /\ handler[r] # "idle"
                             /\ (Billing!SubscribeStep(r) \/ Billing!AccountStep(r)))

ServiceSpec == ServiceInit /\ [][ServiceNext]_<<part, vars, billingVars>> /\ Fairness

\* An overdue subscription is renewed or has ended by the first run after its grace,
\* or a day later per fault: an error, a lost answer, a crash or a missed run of
\* either group's renewal (the catch at subscription.service.ts:437).
OverdueIsSettled == Billing!OverdueIsSettled
=============================================================================
