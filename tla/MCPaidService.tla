--------------------------- MODULE MCPaidService ---------------------------
(* The gate: two groups; two saves to the first of them, a third by an      *)
(* administrator, whom the limit does not bind, and two clicks on the start *)
(* button.  The second group has a row that only a start locks, and no game *)
(* yet.                                                                     *)
(* Billing: two groups that send a request each.                            *)
EXTENDS PaidService, TLC

CONSTANTS g1, g2, r1, r2, r3, a1, a2, c1, c2

MCGroupOf == r1 :> g1 @@ r2 :> g1 @@ r3 :> g1
MCScan    == g1 :> 1 @@ g2 :> 2
MCCallOf  == c1 :> g1 @@ c2 :> g2

\* What does not move begins in one state.
Begin ==
    /\ ServiceInit
    /\ freeGamesUsed[g2] = 0
    /\ part = "billing" =>
         \A g \in Group : freeGamesUsed[g] = 0 /\ ~subscribed[g]

MCSpec == Begin /\ [][ServiceNext]_<<part, vars, billingVars>> /\ Fairness
=============================================================================
