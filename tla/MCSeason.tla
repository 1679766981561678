------------------------------ MODULE MCSeason ------------------------------
(* Two groups; two seasons and a game of the first, one of each of the      *)
(* second; two requests at a time.                                          *)
EXTENDS Season, TLC

CONSTANTS g1, g2, s1, s2, s3, x1, x3

MCSeasonGroup == s1 :> g1 @@ s2 :> g1 @@ s3 :> g2
MCGameGroup   == x1 :> g1 @@ x3 :> g2
MCSymmetry    == Permutations(Handler) \cup Permutations({s1, s2})
=============================================================================
