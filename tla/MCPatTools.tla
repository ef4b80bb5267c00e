----------------------------- MODULE MCPatTools -----------------------------
(* One session after another, two handlers side by side, two tokens of an   *)
(* admin or of another agent, issued or still to be issued.                 *)
EXTENDS PatTools, TLC

CONSTANTS s1, s2, c1, c2, p1, p2, e1, ip1

MCSids      == {s1, s2}
MCCalls     == {c1, c2}
MCPats      == {p1, p2}
MCProfiles  == {[agent |-> "a", admin |-> TRUE], [agent |-> "b", admin |-> FALSE]}
MCEnvelopes == {e1}
MCIps       == {ip1}
MCSymmetry  == Permutations(MCSids) \cup Permutations(MCCalls) \cup Permutations(MCPats)
=============================================================================
