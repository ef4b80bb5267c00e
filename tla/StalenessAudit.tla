---------------------------- MODULE StalenessAudit ----------------------------
(***************************************************************************)
(* The nightly audit (src/src/lifecycle/staleness.ts) over one namespace:  *)
(* a run scrolls one batch of the memories that are verified against       *)
(* something, from where the run before it ended, checks them one after    *)
(* another, and writes signal and reference back as it read them.          *)
(***************************************************************************)
EXTENDS LifecyclePoints

CONSTANTS Kind,       \* [Refs -> {"file", "url", "git_commit"}]
          Rooted,     \* whether filesystem_audit_root is set
          NoAnswer    \* a check that leaves the signal alone

VARIABLE aud          \* pc; cursor, 0 for the start; batch: what is left; answer

ASSUME AuditAssumption ==
    /\ Kind \in [Refs -> {"file", "url", "git_commit"}]
    /\ Rooted \in BOOLEAN
    /\ NoAnswer \notin Signals

Resting(c) == [pc |-> "idle", cursor |-> c, batch |-> [i \in {} |-> NoPoint], answer |-> NoAnswer]

AuditInit == aud = Resting(0)

\* What the checkers find: a file may be there, changed or missing; a url
\* answers 200 or 404; a commit is HEAD or behind it.  Anything else they
\* meet leaves the signal alone.
Answers(ref) ==
    CASE ref = NoRef -> {}
      [] ref # NoRef /\ Kind[ref] = "url" -> {"fresh", "broken_ref"}
      [] ref # NoRef /\ Kind[ref] = "file" -> IF Rooted THEN {"fresh", "stale", "broken_ref"} ELSE {}
      [] ref # NoRef /\ Kind[ref] = "git_commit" -> IF Rooted THEN {"fresh", "stale"} ELSE {}

Verifiable == {i \in Stored : pts[i].ref # NoRef}

NextCursor_Stays(from) == from                                        \* mutant
NextCursor(from) == NextPage(Verifiable, from, policy.batch)

\* sweep up to its scroll; when that fails, or the namespace is not audited,
\* the run is over.
StartAudit ==
    /\ aud.pc = "due"
    /\ policy.audited
    /\ LET page == Page(Verifiable, aud.cursor, policy.batch)
       IN aud' = [aud EXCEPT !.pc = "check",
                             !.cursor = NextCursor(aud.cursor),
                             !.batch = [i \in page |-> pts[i]]]
    /\ UNCHANGED pointVars

NoAudit ==
    /\ aud.pc = "due"
    /\ aud' = Resting(aud.cursor)
    /\ UNCHANGED pointVars

Current == Min(DOMAIN aud.batch)
Rest == [i \in DOMAIN aud.batch \ {Current} |-> aud.batch[i]]
Skipped(p) == p.gone # Live \/ p.immortal

EndAudit ==
    /\ aud.pc = "check"
    /\ DOMAIN aud.batch = {}
    /\ aud' = Resting(aud.cursor)
    /\ UNCHANGED pointVars

\* Tombstones and immortal memories are passed over; a check takes its time,
\* and may have nothing to say.
Check ==
    /\ aud.pc = "check"
    /\ DOMAIN aud.batch # {}
    /\ \/ aud' = [aud EXCEPT !.batch = Rest]
       \/ /\ ~Skipped(aud.batch[Current])
          /\ \E s \in Answers(aud.batch[Current].ref) :
                aud' = [aud EXCEPT !.pc = "write", !.answer = s]
    /\ UNCHANGED pointVars

Told == [aud EXCEPT !.pc = "check", !.batch = Rest, !.answer = NoAnswer]

WriteBack_SignalOnly ==                                               \* mutant
    /\ aud.pc = "write"
    /\ aud' = Told
    /\ Payload(Current, [pts[Current] EXCEPT !.signal = aud.answer])
    /\ UNCHANGED <<policy, pending, copy, crashes>>

WriteBack ==
    /\ aud.pc = "write"
    /\ aud' = Told
    /\ \/ Payload(Current, [pts[Current] EXCEPT !.signal = aud.answer,
                                                !.ref = aud.batch[Current].ref])
       \/ UNCHANGED pts            \* a failure is swallowed
    /\ UNCHANGED <<policy, pending, copy, crashes>>

AuditSteps == StartAudit \/ NoAudit \/ EndAudit \/ Check \/ WriteBack
===============================================================================
