----------------------------- MODULE MCMembers -----------------------------
EXTENDS Members, TLC

CONSTANTS m1, m2

\* Which of two teams is the first is of no interest.
Numbered == \A r \in rows : r.team = 2 => \E s \in rows : s.team = 1

\* What does not move begins in one state.
Begin ==
    /\ MembersInit
    /\ IF part = "team" THEN fresh # Player /\ Numbered ELSE fresh = {} /\ rows = {}
    /\ part # "account" => account = "none"
    /\ part # "forms" => accounts = {}

MCSpec == Begin /\ [][MembersNext]_<<part, vars, accountVars, inquiryVars, sessionVars, formVars,
                                     writeVars>>

Sym == Permutations({m1, m2})
=============================================================================
