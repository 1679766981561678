------------------------------- MODULE MCTeam -------------------------------
(* Two players and two teams; two calls next to a load.                     *)
EXTENDS Team, TLC

MCSymmetry == Permutations(Player)
=============================================================================
