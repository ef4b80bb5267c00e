------------------------------ MODULE Lifecycle ------------------------------
(***************************************************************************)
(* Both sweeps, the requests they race and the days that pass, in one      *)
(* process that may die.                                                   *)
(***************************************************************************)
EXTENDS DecaySweep, StalenessAudit

vars == <<pointVars, decayVars, aud>>

Init == PointsInit /\ DecayInit /\ AuditInit

\* What requests change is noted for the decay sweep.
Request ==
    /\ Requests
    /\ revived' = IF dec.pc \in {"idle", "due"} THEN {} ELSE revived \cup {i \in Ids : pts'[i] # pts[i]}
    /\ UNCHANGED <<dec, aud>>

\* The timers fire with every day.  A decay sweep is over within its day; a
\* run of the audit that is not is not started again.
Tick ==
    /\ dec.pc = "idle"
    /\ DayPasses
    /\ dec' = [Asleep EXCEPT !.pc = "due"]
    /\ aud' = [aud EXCEPT !.pc = IF @ = "idle" THEN "due" ELSE @]
    /\ UNCHANGED revived

\* The buffers and the audit's cursor are gone.  A scroll of the decay sweep
\* that throws comes to the same: nobody catches what runOnce rejects with.
Die ==
    /\ crashes < MaxCrashes
    /\ crashes' = crashes + 1
    /\ revived' = {}
    /\ pending' = {}
    /\ copy' = NoCopy
    /\ dec' = Asleep
    /\ aud' = Resting(0)
    /\ UNCHANGED <<policy, pts>>

Decay == DecaySteps /\ UNCHANGED aud
Audit == AuditSteps /\ UNCHANGED decayVars

Next == Request \/ Tick \/ Decay \/ Audit \/ Die

\* Timers fire and awaits end; Qdrant does not fail a sweep every time.
Fairness ==
    /\ WF_vars(Tick)
    /\ WF_vars(Decay) /\ WF_vars(Audit)
    /\ SF_vars(HardDelete /\ UNCHANGED aud) /\ SF_vars(StartAudit /\ UNCHANGED decayVars)

Spec == Init /\ [][Next]_vars
FairSpec == Spec /\ Fairness

-----------------------------------------------------------------------------
\* The decay sweep takes a memory out of Qdrant, or hides it, only when it
\* deserved that when its page was read: a mortal tombstone past its grace,
\* or one never retrieved for too long (decay.ts:166-202).  It does not look
\* again; but only a request that wrote the memory in the meantime can have
\* made it undeserved (decay.ts:171, 195).
DecayTakesItsDue ==
    [][\A i \in Stored : dec.pc = "write" =>
          LET before == pts[i]
              removed == pts'[i] = NoPoint /\ dec'.pc = "idle"
              hidden == dec'.pc = "write" /\ dec'.soft # dec.soft /\ i \notin dec'.soft /\ i \in dec.soft
          IN i \notin revived =>
                /\ removed => before.gone > policy.grace /\ ~before.immortal
                /\ hidden => before.gone = Live /\ ~before.hit /\ ~before.immortal]_vars

\* The signal of a memory is one that a check of the reference it carries
\* can have given, although a check takes seconds in which the memory may be
\* stored anew with another reference, and every rewriting request copies
\* both (staleness.ts:545-576).
SignalFits ==
    \A i \in Stored : pts[i].signal \in {"unverified"} \cup Answers(pts[i].ref)

\* A mortal tombstone does not stay for ever in a namespace that decays,
\* however often Qdrant fails; and a memory that is verified against
\* something is audited again and again, however many there are beside it
\* (staleness.ts:498-505).
EveryPointComesUp ==
    \A i \in Ids :
        /\ policy.decays => []<>(i \notin Stored \/ pts[i].gone = Live \/ pts[i].immortal)
        /\ policy.audited => []<>(i \notin Verifiable \/ i \in DOMAIN aud.batch)
===============================================================================
