--------------------------- MODULE MCSubscription ---------------------------
(* Small instances of Subscription: up to three requests to one group, or   *)
(* two groups with a request each.                                          *)
EXTENDS Subscription, TLC

CONSTANTS g1, g2, r1, r2, r3

MCGroupOf2       == r1 :> g1 @@ r2 :> g1
MCGroupOf3       == r1 :> g1 @@ r2 :> g1 @@ r3 :> g1
MCGroupOf2Groups == r1 :> g1 @@ r2 :> g2

\* Requests of one group are interchangeable.
MCSymmetry == Permutations(Request)
=============================================================================
