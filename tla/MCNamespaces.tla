---------------------------- MODULE MCNamespaces ----------------------------
(* The protected namespace, another, and one whose name extends that one;  *)
(* four calls.                                                             *)
EXTENDS Namespaces, TLC

CONSTANTS personal, team, teamx, r1, r2, r3, r4

MCReqs     == {r1, r2, r3, r4}
MCExtends  == {<<team, teamx>>}
MCSymmetry == Permutations(MCReqs)
=============================================================================
