------------------------------ MODULE MCPatStore ------------------------------
(* One existing token and two mutating calls; what c2 mints expires.       *)
EXTENDS PatStore, TLC

CONSTANTS p1, c1, c2

MCExisting == {p1}
MCCalls    == {c1, c2}
MCExpires  == [p \in {p1, c1, c2} |-> IF p = c2 THEN 1 ELSE 9]
=============================================================================
