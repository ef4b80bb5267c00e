------------------------------ MODULE MCMemory ------------------------------
(* Two or three requests over three point ids and up to two namespaces.     *)
EXTENDS Memory, TLC

CONSTANTS i1, i2, i3, r1, r2, r3, nsA, nsB, c1, c2, f1, f2

MCIds  == {i1, i2, i3}
MCReqs == {r1, r2, r3}
MCTwoReqs == {r1, r2}
MCNear == {<<c1, c2>>, <<c2, c1>>}
MCNoneNear == {}

(* i1 is the seeded point; the other ids, and the requests, are alike.     *)
MCSymmetry    == Permutations(MCReqs) \cup Permutations({i2, i3})
MCReqSymmetry == Permutations(MCReqs)
MCTwoSymmetry == Permutations(MCTwoReqs) \cup Permutations({i2, i3})
=============================================================================
