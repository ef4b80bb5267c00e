---------------------------- MODULE AdminSessions ----------------------------
(***************************************************************************)
(* The sign-in of operators to the admin console                           *)
(* (src/src/admin/auth/session-service.ts, setup-token.ts,                 *)
(* api/routes/auth.ts, api/app.ts): the setup of the first operator with a *)
(* one-time token, logins, requests under a session cookie, logouts.       *)
(*                                                                         *)
(* A query of SQLite runs at once, but each is behind an await of its own, *)
(* and hashing a password takes a while: other requests come in between.   *)
(* Times are what is left: ticks until the idle and the absolute expiry.   *)
(***************************************************************************)
EXTENDS Naturals, FiniteSets

CONSTANTS Reqs, Cookies, Operators, SetupTokens,
          Missing, Empty,   \* of the setup-token file: none, torn in its write
          Unused, Ended,    \* of a cookie: not given out, its row deleted
          IdleTicks, AbsoluteTicks

ASSUME SessionAssumption ==
    /\ {Missing, Empty} \cap SetupTokens = {} /\ Missing # Empty
    /\ Unused # Ended
    /\ {Unused, Ended} \cap [op : Operators, absolute : Nat, idle : Nat] = {}
    /\ IdleTicks \in Nat \ {0}
    /\ AbsoluteTicks \in Nat \ {0}
    /\ IdleTicks <= AbsoluteTicks       \* by default 7 and 30 days

VARIABLES setup,   \* data/_admin/.setup_token
          spent,   \* setup tokens that were drawn
          ops,     \* per operator: "none", "active", "disabled"
          rows,    \* operator_sessions: per cookie Unused, Ended or its row
          req,     \* per request: what its handler is doing
          closed   \* history: the cookies whose row was deleted

consoleVars == <<setup, spent, ops, rows, req, closed>>

Row(o) == [op |-> o, absolute |-> AbsoluteTicks, idle |-> IdleTicks]
HasRow(k) == rows[k] \notin {Unused, Ended}

\* pc: "idle", "hash", "consume", "verify", "session" (setup and login),
\* "operator", "drop", "touch", "granted" (requests under a cookie).  stale
\* is history: the session was over when the request came.
Job(pc, o, k, n, s) == [pc |-> pc, op |-> o, cookie |-> k, next |-> n, stale |-> s]
NoJob == Job("idle", Missing, Unused, 0, FALSE)

At(r, pc) == req[r].pc = pc
Turn(r, pc) == req' = [req EXCEPT ![r].pc = pc]
Over(r) == req' = [req EXCEPT ![r] = NoJob]

Existing == {o \in Operators : ops[o] # "none"}

-----------------------------------------------------------------------------
(* The setup token.                                                        *)

\* Drawn and written where there is no file; an empty one counts as one.
EnsureToken ==
    /\ IF setup = Missing
       THEN \E t \in SetupTokens \ spent : setup' = t /\ spent' = spent \cup {t}
       ELSE UNCHANGED <<setup, spent>>
    /\ UNCHANGED <<ops, rows, req, closed>>

\* The request names the token of the file; anything else is refused here.
BeginSetup(r, o) ==
    /\ At(r, "idle")
    /\ setup \in SetupTokens
    /\ req' = [req EXCEPT ![r] = Job("hash", o, Unused, 0, FALSE)]
    /\ UNCHANGED <<setup, spent, ops, rows, closed>>

Claim_Unchecked(r) ==   \* mutant
    /\ At(r, "hash")
    /\ ops' = [ops EXCEPT ![req[r].op] = "active"]
    /\ Turn(r, "consume")
    /\ UNCHANGED <<setup, spent, rows, closed>>

\* createFirst, when the password is hashed: counts and inserts in one
\* transaction.
Claim(r) ==
    /\ At(r, "hash")
    /\ IF Existing = {}
       THEN ops' = [ops EXCEPT ![req[r].op] = "active"] /\ Turn(r, "consume")
       ELSE Over(r) /\ UNCHANGED ops
    /\ UNCHANGED <<setup, spent, rows, closed>>

Consume(r) ==
    /\ At(r, "consume")
    /\ setup' = Missing
    /\ Turn(r, "session")
    /\ UNCHANGED <<spent, ops, rows, closed>>

-----------------------------------------------------------------------------
(* Sign-in.                                                                *)

\* The operator is read before the password is verified, disabled or not.
BeginLogin(r, o) ==
    /\ At(r, "idle")
    /\ ops[o] = "active"
    /\ req' = [req EXCEPT ![r] = Job("verify", o, Unused, 0, FALSE)]
    /\ UNCHANGED <<setup, spent, ops, rows, closed>>

\* Password and second factor are right, or not.
Verified(r) ==
    /\ At(r, "verify")
    /\ Turn(r, "session") \/ Over(r)
    /\ UNCHANGED <<setup, spent, ops, rows, closed>>

OpenSession(r, k) ==
    /\ At(r, "session")
    /\ rows[k] = Unused
    /\ rows' = [rows EXCEPT ![k] = Row(req[r].op)]
    /\ Over(r)
    /\ UNCHANGED <<setup, spent, ops, closed>>

-----------------------------------------------------------------------------
(* requireAuth.                                                            *)

Lapsed(k) == rows[k].absolute = 0 \/ rows[k].idle = 0

\* The session can no longer be used: its row is deleted, it ran out, or its
\* operator is disabled.
OverBy(k) ==
    \/ k \in closed
    \/ HasRow(k) /\ (Lapsed(k) \/ ops[rows[k].op] = "disabled")

Least(a, b) == IF a < b THEN a ELSE b

\* The row is read and its expiry looked at; next is the idle expiry that
\* the touch will write.
ReadSession(r, k) ==
    /\ At(r, "idle")
    /\ HasRow(k)
    /\ req' = [req EXCEPT ![r] =
                  Job(IF Lapsed(k) THEN "drop" ELSE "operator", rows[k].op, k,
                      Least(IdleTicks, rows[k].absolute), OverBy(k))]
    /\ UNCHANGED <<setup, spent, ops, rows, closed>>

ReadOperator(r) ==
    /\ At(r, "operator")
    /\ Turn(r, IF ops[req[r].op] = "active" THEN "touch" ELSE "drop")
    /\ UNCHANGED <<setup, spent, ops, rows, closed>>

Drop(r) ==
    /\ At(r, "drop")
    /\ rows' = [rows EXCEPT ![req[r].cookie] = Ended]
    /\ closed' = closed \cup {req[r].cookie}
    /\ Over(r)
    /\ UNCHANGED <<setup, spent, ops>>

Touch_Upserts(r) ==   \* mutant
    /\ At(r, "touch")
    /\ rows' = [rows EXCEPT ![req[r].cookie] =
                   IF @ = Ended THEN [Row(req[r].op) EXCEPT !.idle = req[r].next] ELSE [@ EXCEPT !.idle = req[r].next]]
    /\ Turn(r, "granted")
    /\ UNCHANGED <<setup, spent, ops, closed>>

\* UPDATE: a row that was deleted since it was read stays deleted, but the
\* request goes on.
Touch(r) ==
    /\ At(r, "touch")
    /\ rows' = [rows EXCEPT ![req[r].cookie] = IF @ = Ended THEN @ ELSE [@ EXCEPT !.idle = req[r].next]]
    /\ Turn(r, "granted")
    /\ UNCHANGED <<setup, spent, ops, closed>>

\* The handler, or a refusal for the CSRF header; only logout touches rows.
Handle(r) ==
    /\ At(r, "granted")
    /\ Over(r)
    /\ UNCHANGED <<setup, spent, ops, rows, closed>>

Logout(r) ==
    /\ At(r, "granted")
    /\ rows' = [rows EXCEPT ![req[r].cookie] = Ended]
    /\ closed' = closed \cup {req[r].cookie}
    /\ Over(r)
    /\ UNCHANGED <<setup, spent, ops>>

-----------------------------------------------------------------------------
\* By hand in SQLite; no route does it.
Disable(o) ==
    /\ ops[o] = "active"
    /\ ops' = [ops EXCEPT ![o] = "disabled"]
    /\ UNCHANGED <<setup, spent, rows, req, closed>>

Less(n) == IF n = 0 THEN 0 ELSE n - 1

Pass ==
    /\ rows' = [k \in Cookies |->
                   IF HasRow(k) THEN [rows[k] EXCEPT !.absolute = Less(@), !.idle = Less(@)] ELSE rows[k]]
    /\ req' = [r \in Reqs |-> [req[r] EXCEPT !.next = Less(@)]]
    /\ UNCHANGED <<setup, spent, ops, closed>>

ConsoleInit ==
    /\ setup = Missing
    /\ spent = {}
    /\ ops = [o \in Operators |-> "none"]
    /\ rows = [k \in Cookies |-> Unused]
    /\ req = [r \in Reqs |-> NoJob]
    /\ closed = {}

Serving ==
    \/ \E r \in Reqs :
          \/ \E o \in Operators : BeginSetup(r, o) \/ BeginLogin(r, o)
          \/ Claim(r) \/ Consume(r) \/ Verified(r)
          \/ \E k \in Cookies : OpenSession(r, k) \/ ReadSession(r, k)
          \/ ReadOperator(r) \/ Drop(r) \/ Touch(r) \/ Handle(r) \/ Logout(r)

-----------------------------------------------------------------------------
\* A request that comes with the cookie of a session that was logged out,
\* ran out or lost its operator is not let in, whichever logins, requests and
\* logouts are under way: a late touch brings no row back
\* (session-service.ts:158-194, session-store.ts:24-30), and no row is good
\* for longer than its absolute expiry.
EndedStaysEnded ==
    /\ \A r \in Reqs : At(r, "granted") => ~req[r].stale
    /\ \A k \in Cookies : HasRow(k) => rows[k].idle <= rows[k].absolute
=============================================================================
