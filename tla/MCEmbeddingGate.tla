--------------------------- MODULE MCEmbeddingGate ---------------------------
(* Three calls, without a limit and with one permit.                       *)
EXTENDS EmbeddingGate, TLC

CONSTANTS c1, c2, c3

MCCalls    == {c1, c2, c3}
MCSymmetry == Permutations(MCCalls)
=============================================================================
