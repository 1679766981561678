---------------------------- MODULE MCStatistics ----------------------------
(* Two players of one team and one of the other; two games.                 *)
EXTENDS Statistics, TLC

CONSTANTS a, b, c

MCSides    == a :> "home" @@ b :> "home" @@ c :> "away"
MCSide     == <<MCSides, MCSides>>
MCDay      == <<1, 2>>
MCSeasonOf == <<0, 1>>
MCValue    == "three" :> 3 @@ "free" :> 1
MCAxis     == {}
=============================================================================
