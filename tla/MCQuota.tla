------------------------------- MODULE MCQuota -------------------------------
(* Stores and a search of one namespace around one midnight.               *)
EXTENDS Quota, TLC

CONSTANTS w1, w2, s1

MCCalls      == {w1, w2, s1}
MCWriteCalls == {w1, w2}
MCTokens     == [c \in MCCalls |-> IF c = s1 THEN 2 ELSE 1]
=============================================================================
