---------------------------- MODULE HttpSessions ----------------------------
(***************************************************************************)
(* The session table and the limiter of failed authentications of the HTTP *)
(* transport (src/src/transport/http.ts, auth-rate-limit.ts).              *)
(*                                                                         *)
(* handleRequest runs without a break from its first line to the hand-over *)
(* of the request to the SDK: gate, token, routing, caps and table are one *)
(* action.  The SDK's part, from the hand-over to the end of the response  *)
(* stream, is the call: it takes a place of its session's in-flight cap    *)
(* and gives it back however it ends.  Times are ages: a session's since   *)
(* its last request, up to one past IdleLimit; a failure's since it was    *)
(* recorded, dropped at Window, when no check counts it any longer.        *)
(***************************************************************************)
EXTENDS Naturals, FiniteSets, Sequences, SequencesExt

CONSTANTS Sids,          \* session ids, each given out once (randomUUID)
          Calls,         \* POST requests that may be under way at once
          Pats, NoPat,   \* access tokens
          Ips,           \* peer addresses
          Nowhere,       \* the place of a call that is not under way
          MaxSessions, MaxInflight, IdleLimit, AuthMax, Window

ASSUME BoundsAssumption ==
    /\ MaxSessions \in Nat \ {0}
    /\ MaxInflight \in Nat \ {0}
    /\ IdleLimit \in Nat
    /\ AuthMax \in Nat \ {0}
    /\ Window \in Nat \ {0}

ASSUME NamesAssumption ==
    /\ Nowhere \notin Sids
    /\ NoPat \notin Pats
    /\ IsFiniteSet(Sids)
    /\ IsFiniteSet(Calls)

VARIABLES up,        \* the server accepts requests
          status,    \* of a session id: "unused", "open" (in the table), "gone"
          owner,     \* the token a session is bound to
          age,       \* ticks since the session's last request
          inflight,  \* the counter of the session record
          ready,     \* the SDK has seen the session's initialize request
          at,        \* the session on which a call is under way
          pats,      \* of a token: "free", "live", "expired", "dead"
          hits       \* per address: ages of the failures that still count

tableVars == <<status, owner, age, inflight, ready, at>>
httpVars  == <<up, tableVars, pats, hits>>

Open == {s \in Sids : status[s] = "open"}

---------------------------------------------------------------------------
(* The limiter.                                                            *)

Limited(ip) == Len(hits[ip]) >= AuthMax

Throttled_Restarts(ip) ==   \* mutant
    /\ up
    /\ Limited(ip)
    /\ hits' = [hits EXCEPT ![ip] = [n \in DOMAIN @ |-> 0]]
    /\ UNCHANGED <<up, tableVars, pats>>

\* A refused address keeps its failures as they are; only time frees it.
Throttled(ip) ==
    /\ up
    /\ Limited(ip)
    /\ UNCHANGED httpVars

\* No header, no bearer, a JWT, or a token the store does not know as live.
AuthFails(ip) ==
    /\ up
    /\ ~Limited(ip)
    /\ hits' = [hits EXCEPT ![ip] = Append(@, 0)]
    /\ UNCHANGED <<up, tableVars, pats>>

\* The token is live: the failures of its address are forgotten.
Authenticated(ip, p) ==
    /\ up
    /\ ~Limited(ip)
    /\ pats[p] = "live"
    /\ hits' = [hits EXCEPT ![ip] = <<>>]

---------------------------------------------------------------------------
(* The requests.                                                           *)

\* A POST without a session id takes a place in the table before the SDK
\* has looked at its body.
PostNew(c, ip, p, s) ==
    /\ Authenticated(ip, p)
    /\ at[c] = Nowhere
    /\ Cardinality(Open) < MaxSessions
    /\ status[s] = "unused"
    /\ status' = [status EXCEPT ![s] = "open"]
    /\ owner' = [owner EXCEPT ![s] = p]
    /\ age' = [age EXCEPT ![s] = 0]
    /\ inflight' = [inflight EXCEPT ![s] = @ + 1]
    /\ at' = [at EXCEPT ![c] = s]
    /\ UNCHANGED <<up, ready, pats>>

\* The session is in the table and the token is the one that opened it.
Routed(p, s) == status[s] = "open" /\ owner[s] = p

PostTo(c, ip, p, s) ==
    /\ Authenticated(ip, p)
    /\ at[c] = Nowhere
    /\ Routed(p, s)
    /\ inflight[s] < MaxInflight
    /\ age' = [age EXCEPT ![s] = 0]
    /\ inflight' = [inflight EXCEPT ![s] = @ + 1]
    /\ at' = [at EXCEPT ![c] = s]
    /\ UNCHANGED <<up, status, owner, ready, pats>>

\* An event stream counts as a request when it is opened, never while it
\* stays open, and takes no place of the cap.
GetStream(ip, p, s) ==
    /\ Authenticated(ip, p)
    /\ Routed(p, s)
    /\ age' = [age EXCEPT ![s] = 0]
    /\ UNCHANGED <<up, status, owner, inflight, ready, at, pats>>

\* removeSession of every session of S.  Their calls lose their streams but
\* are still counted in the record until they end.
Removed(S) == status' = [s \in Sids |-> IF s \in S THEN "gone" ELSE status[s]]

\* With its record goes the time of its last request.
Forgotten(S) == age' = [s \in Sids |-> IF s \in S THEN 0 ELSE age[s]]

\* The SDK closes an initialized session and its hook drops the record; to
\* one that never was initialized it answers with an error.
Delete(ip, p, s) ==
    /\ Authenticated(ip, p)
    /\ Routed(p, s)
    /\ age' = [age EXCEPT ![s] = 0]
    /\ Removed(IF ready[s] THEN {s} ELSE {})
    /\ UNCHANGED <<up, owner, inflight, ready, at, pats>>

\* An authenticated request that is not routed: no or an unknown session, one
\* of another token, a full table or a full session.
Unrouted(ip, p) ==
    /\ Authenticated(ip, p)
    /\ UNCHANGED <<up, tableVars, pats>>

\* The SDK dispatches the initialize request of a call.
Initialize(c) ==
    /\ at[c] # Nowhere
    /\ ~ready[at[c]]
    /\ ready' = [ready EXCEPT ![at[c]] = TRUE]
    /\ UNCHANGED <<up, status, owner, age, inflight, at, pats, hits>>

EndCall_OpenOnly(c) ==   \* mutant
    /\ at[c] # Nowhere
    /\ inflight' = [inflight EXCEPT ![at[c]] = IF status[at[c]] = "open" THEN @ - 1 ELSE @]
    /\ at' = [at EXCEPT ![c] = Nowhere]
    /\ UNCHANGED <<up, status, owner, age, ready, pats, hits>>

\* The response stream of a call ends: answered, refused by the SDK, thrown,
\* cut by the client or closed with its session.
EndCall(c) ==
    /\ at[c] # Nowhere
    /\ inflight' = [inflight EXCEPT ![at[c]] = @ - 1]
    /\ at' = [at EXCEPT ![c] = Nowhere]
    /\ UNCHANGED <<up, status, owner, age, ready, pats, hits>>

---------------------------------------------------------------------------
(* Timers and surroundings.                                                *)

Expired_SparesUninitialized == {s \in Open : age[s] > IdleLimit /\ ready[s]}   \* mutant

Expired == {s \in Open : age[s] > IdleLimit}

IdleSweep ==
    /\ up
    /\ Expired # {}
    /\ Removed(Expired)
    /\ Forgotten(Expired)
    /\ UNCHANGED <<up, owner, inflight, ready, at, pats, hits>>

\* check, recordFailure and sweep drop what left the window.
Aged(stamps) == SelectSeq([n \in DOMAIN stamps |-> stamps[n] + 1], LAMBDA a : a < Window)

Tick ==
    /\ age' = [s \in Sids |-> IF s \in Open /\ age[s] <= IdleLimit THEN age[s] + 1 ELSE age[s]]
    /\ hits' = [ip \in Ips |-> Aged(hits[ip])]
    /\ UNCHANGED <<up, status, owner, inflight, ready, at, pats>>

\* The token store: a token is issued, and later revoked or expired, which
\* is the same to the transport; the tools tell them apart (PatTools).
Issue(p) ==
    /\ pats[p] = "free"
    /\ pats' = [pats EXCEPT ![p] = "live"]

Lapse(p) ==
    /\ pats[p] = "live"
    /\ pats' = [pats EXCEPT ![p] = "dead"]

Shutdown ==
    /\ up
    /\ up' = FALSE
    /\ Removed(Open)
    /\ Forgotten(Open)
    /\ UNCHANGED <<owner, inflight, ready, at, pats, hits>>

Init ==
    /\ up = TRUE
    /\ status = [s \in Sids |-> "unused"]
    /\ owner = [s \in Sids |-> NoPat]
    /\ age = [s \in Sids |-> 0]
    /\ inflight = [s \in Sids |-> 0]
    /\ ready = [s \in Sids |-> FALSE]
    /\ at = [c \in Calls |-> Nowhere]
    /\ pats \in [Pats -> {"free", "live"}]
    /\ hits = [ip \in Ips |-> <<>>]

Next ==
    \/ \E ip \in Ips : Throttled(ip) \/ AuthFails(ip)
    \/ \E ip \in Ips, p \in Pats :
          \/ Unrouted(ip, p)
          \/ \E s \in Sids : GetStream(ip, p, s) \/ Delete(ip, p, s)
          \/ \E c \in Calls, s \in Sids : PostNew(c, ip, p, s) \/ PostTo(c, ip, p, s)
    \/ \E c \in Calls : Initialize(c) \/ EndCall(c)
    \/ \E p \in Pats : (Issue(p) \/ Lapse(p)) /\ UNCHANGED <<up, tableVars, hits>>
    \/ IdleSweep
    \/ Tick
    \/ Shutdown

Spec == Init /\ [][Next]_httpVars

\* Timers fire; nothing is assumed of clients or of a response.
FairSpec == Spec /\ WF_httpVars(Tick) /\ WF_httpVars(IdleSweep)

---------------------------------------------------------------------------
(* What the failures of an address are is left out: every step builds      *)
(* them by Append and SelectSeq.                                           *)
TypeOK ==
    /\ up \in BOOLEAN
    /\ status \in [Sids -> {"unused", "open", "gone"}]
    /\ owner \in [Sids -> Pats \cup {NoPat}]
    /\ age \in [Sids -> 0..IdleLimit + 1]
    /\ inflight \in [Sids -> Nat]
    /\ ready \in [Sids -> BOOLEAN]
    /\ at \in [Calls -> Sids \cup {Nowhere}]
    /\ pats \in [Pats -> {"free", "live", "expired", "dead"}]

On(s) == {c \in Calls : at[c] = s}

\* The table never holds more than MaxSessions sessions, and the in-flight
\* counter of a session (http.ts:700-706, 738-744) is the number of its calls
\* whose response has not ended, at most MaxInflight, also after the session
\* was removed under them, so that no way for a call to end leaks a place.
PlacesConserved ==
    /\ Cardinality(Open) <= MaxSessions
    /\ \A s \in Sids : inflight[s] = Cardinality(On(s)) /\ inflight[s] <= MaxInflight

\* No session keeps its place unused: each one is, again and again, just
\* touched by a request or out of the table, also the one opened by a POST
\* that never was an initialize request (http.ts:426-434, 710-735).
PlacesComeBack == \A s \in Sids : []<>(status[s] # "open" \/ age[s] = 0)

\* A throttled address is served again, however often it asks in between
\* (http.ts:552-562 returns before a failure is recorded).
ThrottleEnds == \A ip \in Ips : Limited(ip) ~> ~Limited(ip)
=============================================================================
