----------------------------- MODULE FreeQuota -----------------------------
(***************************************************************************)
(* What the free limit promises: before the service is paid for, everybody *)
(* creates games; from the moment it is, a group without a subscription    *)
(* has a counter, a free game takes one from it in the same instant, and   *)
(* nothing gives one back.                                                 *)
(***************************************************************************)
EXTENDS Integers

CONSTANTS Group, Game, GroupOf, Limit

VARIABLES gated,   \* has monetization started
          used,    \* freeGamesUsed of each group
          free     \* the games that were created for free since

quotaVars == <<gated, used, free>>

QuotaInit == gated = FALSE /\ used \in [Group -> 0..Limit] /\ free = {}

\* The games a group has so far may be counted when the gate comes down.
StartGating ==
    /\ ~gated /\ gated'
    /\ used' \in [Group -> Nat] /\ \A g \in Group : used[g] <= used'[g]
    /\ UNCHANGED free

CreateFree(game) ==
    /\ gated /\ game \notin free
    /\ used[GroupOf[game]] < Limit
    /\ used' = [used EXCEPT ![GroupOf[game]] = @ + 1]
    /\ free' = free \cup {game}
    /\ UNCHANGED gated

QuotaNext == StartGating \/ \E game \in Game : CreateFree(game)

QuotaSpec == QuotaInit /\ [][QuotaNext]_quotaVars
=============================================================================
