------------------------------ MODULE PatTools ------------------------------
(***************************************************************************)
(* The tools that create, rotate and revoke access tokens                  *)
(* (src/src/auth/tools.ts) with their two-call confirmation                *)
(* (confirmation.ts), behind the sessions of the HTTP transport.           *)
(*                                                                         *)
(* A handler runs on the token its session was opened with.  Creating and  *)
(* rotating take two calls: the first answers with an envelope, signed     *)
(* over session, tool, input and expiry; the second presents it, and is    *)
(* verified and marked as consumed without a break before the store is     *)
(* asked.  Verifying and looking for the mark read the clock twice, and    *)
(* the second reading (late) may find the envelope expired and collect its *)
(* mark.  The store serves one write after another (PatStore).             *)
(***************************************************************************)
EXTENDS HttpSessions

CONSTANTS Envelopes,     \* confirmation tokens, in the order of their issue
          Profiles,      \* what a token carries: its agent, and whether it has service:admin
          NoProfile,     \* of a token that was not issued
          Create,        \* the input of pat_create; that of pat_rotate is its target
          Ttl            \* DEFAULT_CONFIRMATION_TTL_MS

ASSUME ToolsAssumption ==
    /\ \A f \in Profiles : f.admin \in BOOLEAN
    /\ NoProfile \notin Profiles
    /\ Create \notin Pats
    /\ Ttl \in Nat \ {0}

VARIABLES holder,   \* what each token carries
          job,      \* per call: what its handler is doing
          issued,   \* the content of the envelopes given out
          marked,   \* ConsumedConfirmations of all sessions
          uses      \* history: how often an envelope was accepted (up to 2)

toolVars == <<holder, job, issued, marked, uses>>
vars == <<httpVars, toolVars>>

Inputs == {Create} \cup Pats

\* pc: "idle" (no call), "new" (admitted, not dispatched), "deed" (confirmed,
\* waiting for the store), "revoke" (same, without ceremony), "done".
Job(pc, i) == [pc |-> pc, input |-> i]
NoJob == Job("idle", Create)

Blank == [sid |-> Nowhere, input |-> Create, left |-> 0]

\* When a handler ends its call may be over already.
Finished(c) ==
    job' = [job EXCEPT ![c] = IF at[c] = Nowhere THEN NoJob ELSE Job("done", Create)]

\* The SDK hands a request of an initialized session to its handler, which
\* may be after the session was taken out of the table.
Dispatched(c, s) == job[c].pc = "new" /\ at[c] = s /\ ready[s]

IsAdmin(s) == holder[owner[s]].admin

CanAct(s, p) == IsAdmin(s) \/ holder[p].agent = holder[owner[s]].agent

\* pat_create asks for service:admin; pat_rotate for a target that exists, is
\* the caller's or an admin's, and is not revoked; it may have expired.
Standing(p) == pats[p] \in {"live", "expired"}

Allowed(s, i) == IF i = Create THEN IsAdmin(s) ELSE Standing(i) /\ CanAct(s, i)

---------------------------------------------------------------------------
\* A call begins with its request and is over when its response has ended;
\* a handler that is at the store goes on without it.
Begin(c, ip, p, s) ==
    /\ job[c].pc = "idle"
    /\ PostNew(c, ip, p, s) \/ PostTo(c, ip, p, s)
    /\ job' = [job EXCEPT ![c] = Job("new", Create)]
    /\ UNCHANGED <<holder, issued, marked, uses>>

End(c) ==
    /\ EndCall(c)
    /\ job' = [job EXCEPT ![c] = IF @.pc \in {"new", "done"} THEN NoJob ELSE @]
    /\ UNCHANGED <<holder, issued, marked, uses>>

\* The first call of the ceremony.
Ask(c, s, i, k) ==
    /\ Dispatched(c, s)
    /\ Allowed(s, i)
    /\ issued[k] = Blank
    /\ issued' = [issued EXCEPT ![k] = [sid |-> s, input |-> i, left |-> Ttl]]
    /\ Finished(c)
    /\ UNCHANGED <<httpVars, holder, marked, uses>>

Verified_AnyInput(s, i, k) == issued[k].left > 0 /\ issued[k].sid = s   \* mutant

\* verifyConfirmation: not expired, made for this session, tool and input.
Verified(s, i, k) == issued[k].left > 0 /\ issued[k].sid = s /\ issued[k].input = i

Uncollected_Early(s, late) ==   \* mutant
    {k \in marked : ~(issued[k].sid = s /\ issued[k].left <= IF late THEN 2 ELSE 1)}

\* gc of one session's marks.
Uncollected(s, late) ==
    {k \in marked : ~(issued[k].sid = s /\ issued[k].left <= IF late THEN 1 ELSE 0)}

\* The second call: accepted, its envelope is consumed before the store is
\* asked, whatever the store will answer.
Confirm(c, s, i, k, late) ==
    /\ Dispatched(c, s)
    /\ Allowed(s, i)
    /\ Verified(s, i, k)
    /\ k \notin Uncollected(s, late)
    /\ marked' = Uncollected(s, late) \cup {k}
    /\ uses' = [uses EXCEPT ![k] = IF @ < 2 THEN @ + 1 ELSE @]
    /\ job' = [job EXCEPT ![c] = Job("deed", i)]
    /\ UNCHANGED <<httpVars, holder, issued>>

\* Not verified, or found among the marks.
Reject(c, s, i, k, late) ==
    /\ Dispatched(c, s)
    /\ Allowed(s, i)
    /\ Verified(s, i, k) => k \in Uncollected(s, late)
    /\ marked' = IF Verified(s, i, k) THEN Uncollected(s, late) ELSE marked
    /\ Finished(c)
    /\ UNCHANGED <<httpVars, holder, issued, uses>>

\* Any other tool, and every refusal before the ceremony.
Answer(c, s) ==
    /\ Dispatched(c, s)
    /\ Finished(c)
    /\ UNCHANGED <<httpVars, holder, issued, marked, uses>>

\* pat_revoke has no ceremony; revoking a revoked token does nothing.
AskRevoke(c, s, p) ==
    /\ Dispatched(c, s)
    /\ pats[p] # "free"
    /\ CanAct(s, p)
    /\ job' = [job EXCEPT ![c] = Job("revoke", p)]
    /\ UNCHANGED <<httpVars, holder, issued, marked, uses>>

---------------------------------------------------------------------------
Issued(p, f) == Issue(p) /\ holder' = [holder EXCEPT ![p] = f]

\* The store's answers.  Its append may fail, and then nothing changed.
Minted(c, p, f) ==
    /\ job[c].pc = "deed"
    /\ job[c].input = Create
    /\ Issued(p, f)
    /\ Finished(c)
    /\ UNCHANGED <<up, tableVars, hits, issued, marked, uses>>

\* rotateLocked looks again whether the target is revoked; the new token has
\* the expiry of the old one.
Rotated(c, p) ==
    /\ job[c].pc = "deed"
    /\ job[c].input \in Pats
    /\ Standing(job[c].input)
    /\ pats[p] = "free"
    /\ holder' = [holder EXCEPT ![p] = holder[job[c].input]]
    /\ pats' = [pats EXCEPT ![p] = pats[job[c].input], ![job[c].input] = "dead"]
    /\ Finished(c)
    /\ UNCHANGED <<up, tableVars, hits, issued, marked, uses>>

Revoked(c) ==
    /\ job[c].pc = "revoke"
    /\ pats' = [pats EXCEPT ![job[c].input] = "dead"]
    /\ Finished(c)
    /\ UNCHANGED <<up, tableVars, hits, holder, issued, marked, uses>>

Failed(c) ==
    /\ job[c].pc \in {"deed", "revoke"}
    /\ Finished(c)
    /\ UNCHANGED <<httpVars, holder, issued, marked, uses>>

---------------------------------------------------------------------------
\* Envelopes lose life with every tick.
ToolTick ==
    /\ Tick
    /\ issued' = [k \in Envelopes |-> [issued[k] EXCEPT !.left = IF @ > 0 THEN @ - 1 ELSE 0]]
    /\ UNCHANGED <<holder, job, marked, uses>>

\* Tokens issued or revoked from the admin console, or expired.
Ends(p) ==
    \/ pats[p] = "live" /\ pats' = [pats EXCEPT ![p] = "expired"]
    \/ Standing(p) /\ pats' = [pats EXCEPT ![p] = "dead"]

Outside ==
    /\ \E p \in Pats : (\E f \in Profiles : Issued(p, f)) \/ (Ends(p) /\ UNCHANGED holder)
    /\ UNCHANGED <<up, tableVars, hits, job, issued, marked, uses>>

\* The transport's other steps.
Transport ==
    /\ \/ \E ip \in Ips : Throttled(ip) \/ AuthFails(ip)
       \/ \E ip \in Ips, p \in Pats :
             \/ Unrouted(ip, p)
             \/ \E s \in Sids : GetStream(ip, p, s) \/ Delete(ip, p, s)
       \/ \E c \in Calls : Initialize(c)
       \/ IdleSweep
       \/ Shutdown
    /\ UNCHANGED toolVars

ToolInit ==
    /\ Init
    /\ holder \in [Pats -> Profiles \cup {NoProfile}]
    /\ \A p \in Pats : holder[p] = NoProfile <=> pats[p] = "free"
    /\ job = [c \in Calls |-> NoJob]
    /\ issued = [k \in Envelopes |-> Blank]
    /\ marked = {}
    /\ uses = [k \in Envelopes |-> 0]

Handler(c, s) ==
    \/ Answer(c, s)
    \/ \E p \in Pats : AskRevoke(c, s, p)
    \/ \E i \in Inputs, k \in Envelopes :
          \/ Ask(c, s, i, k)
          \/ \E late \in BOOLEAN : Confirm(c, s, i, k, late) \/ Reject(c, s, i, k, late)

ToolNext ==
    \/ Transport
    \/ Outside
    \/ ToolTick
    \/ \E c \in Calls :
          \/ End(c) \/ Revoked(c) \/ Failed(c)
          \/ \E p \in Pats : Rotated(c, p) \/ \E f \in Profiles : Minted(c, p, f)
          \/ \E s \in Sids : Handler(c, s)
          \/ \E ip \in Ips, p \in Pats, s \in Sids : Begin(c, ip, p, s)

ToolSpec == ToolInit /\ [][ToolNext]_vars

---------------------------------------------------------------------------
\* An envelope that was accepted once is accepted again in no other moment
\* than the last tick of its life, when the mark may be collected between the
\* check of its expiry and the search for the mark (confirmation.ts:64, 84,
\* 93-98).
ReplayOnlyAtExpiry ==
    [][\A k \in Envelopes : uses'[k] # uses[k] /\ uses[k] > 0 => issued[k].left = 1]_vars

\* What is carried out after a confirmation is what an unexpired envelope
\* showed on the same session, by a call that came with that session's token
\* (auth/tools.ts:189-209): a deed is never begun on another's envelope.
DeedsWereShown ==
    [][\A c \in Calls : job[c].pc = "new" /\ job'[c].pc = "deed" =>
          \E k \in Envelopes :
             /\ issued[k].sid = at[c]
             /\ issued[k].input = job'[c].input
             /\ issued[k].left > 0
             /\ uses[k] = 0 \/ issued[k].left = 1]_vars
=============================================================================
