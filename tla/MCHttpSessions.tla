--------------------------- MODULE MCHttpSessions ---------------------------
(* Two session ids for one place, three calls for the two places of a         *)
(* session, two tokens and one address with two failures to spend.          *)
EXTENDS HttpSessions

CONSTANTS s1, s2, c1, c2, c3, p1, p2, ip1

MCSids  == {s1, s2}
MCCalls == {c1, c2, c3}
MCPats  == {p1, p2}
MCIps   == {ip1}
=============================================================================
