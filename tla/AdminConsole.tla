---------------------------- MODULE AdminConsole ----------------------------
(***************************************************************************)
(* The admin console in the process it belongs to (src/src/index.ts,       *)
(* admin/server.ts): it listens before it has looked whether a setup token *)
(* is needed, and before the transport is up; and the process may die.     *)
(***************************************************************************)
EXTENDS Bootstrap, AdminSessions

VARIABLE console   \* ADMIN_ENABLED, of this start

vars == <<bootVars, consoleVars, console>>

Init == BootInit /\ ConsoleInit /\ console = FALSE

Boot == BootSteps /\ UNCHANGED <<consoleVars, console>>

To(p) ==
    /\ Go(p)
    /\ UNCHANGED <<env, diskVars, key, cut, crashes>>

Listen ==
    /\ phase = "serve"
    /\ console' \in BOOLEAN
    /\ To(IF console' THEN "listening" ELSE "transport")
    /\ UNCHANGED consoleVars

NeedsSetup ==
    /\ phase = "listening"
    /\ To(IF Existing = {} THEN "ensure" ELSE "transport")
    /\ UNCHANGED <<consoleVars, console>>

Ensure ==
    /\ phase = "ensure"
    /\ EnsureToken
    /\ To("transport")
    /\ UNCHANGED console

Request ==
    /\ console
    /\ Serving
    /\ UNCHANGED <<bootVars, console>>

\* The console clears a revoked token out of the store.
Clear(r) ==
    /\ At(r, "granted")
    /\ DeleteFirst
    /\ Over(r)
    /\ UNCHANGED <<setup, spent, ops, rows, closed, console>>

Revoke == RevokeFirst /\ UNCHANGED <<consoleVars, console>>

\* Requests die with the process.
Stopped ==
    /\ req' = IF phase' = "up" THEN req ELSE [r \in Reqs |-> NoJob]
    /\ console' = (phase' = "up" /\ console)
    /\ UNCHANGED <<spent, ops, rows, closed>>

Transport == Serve /\ Stopped /\ UNCHANGED setup

\* A crash in the write of the setup token leaves an empty file.
Crash ==
    /\ Die
    /\ Stopped
    /\ setup' \in {setup} \cup (IF phase = "ensure" /\ setup = Missing THEN {Empty} ELSE {})

Time == Pass /\ UNCHANGED <<bootVars, console>>

ByHand == (\E o \in Operators : Disable(o)) /\ UNCHANGED <<bootVars, console>>

Next ==
    \/ Boot
    \/ Listen
    \/ NeedsSetup
    \/ Ensure
    \/ Request
    \/ \E r \in Reqs : Clear(r)
    \/ Revoke
    \/ Transport
    \/ Crash
    \/ Time
    \/ ByHand

Spec == Init /\ [][Next]_vars

-----------------------------------------------------------------------------
\* The setup opens once: two of them cannot both make a first operator, with
\* one token or with the one a slow start drew after it (auth.ts:62-93,
\* operator-store.ts:62-74); and it stays open until there is one: a console
\* that is up without an operator has a token, unless a crash emptied its
\* file (setup-token.ts:29-35).
SetupOpensOnce ==
    /\ Cardinality(Existing) <= 1
    /\ console /\ phase \in {"transport", "up"} /\ Existing = {} => setup # Missing
=============================================================================
