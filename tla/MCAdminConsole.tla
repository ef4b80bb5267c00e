--------------------------- MODULE MCAdminConsole ---------------------------
(* Two requests at a time, two sessions, two would-be operators.            *)
EXTENDS AdminConsole, TLC

CONSTANTS q1, q2, k1, k2, o1, o2, t1, t2, e

MCReqs == {q1, q2}
MCCookies == {k1, k2}
MCOperators == {o1, o2}
MCSetupTokens == {t1, t2}

Alike == Permutations(MCReqs) \cup Permutations(MCCookies)
            \cup Permutations(MCOperators) \cup Permutations(MCSetupTokens)
=============================================================================
