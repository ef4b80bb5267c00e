----------------------------- MODULE DecaySweep -----------------------------
(***************************************************************************)
(* The daily sweep (src/src/lifecycle/decay.ts) over one namespace: page   *)
(* after page it notes the memories to soft-delete and the tombstones past *)
(* their grace, and only after the last page writes the ones, one by one,  *)
(* and deletes the others by their ids, without another look at them.      *)
(***************************************************************************)
EXTENDS LifecyclePoints

CONSTANT PageSize     \* SCROLL_PAGE_SIZE

ASSUME PageAssumption == PageSize \in Nat \ {0}

VARIABLES dec,        \* pc; from: the offset; soft and doomed: what it noted
          revived     \* history: points a request wrote after their page was read

decayVars == <<dec, revived>>

Asleep == [pc |-> "idle", from |-> 0, soft |-> {}, doomed |-> {}]

DecayInit ==
    /\ dec = Asleep
    /\ revived = {}

\* runOnce, when the timer has fired, and the beginning of sweepNamespace,
\* which skips a namespace that keeps its memories for ever.
StartDecay ==
    /\ dec.pc = "due"
    /\ dec' = [Asleep EXCEPT !.pc = IF policy.decays THEN "scan" ELSE "idle"]
    /\ UNCHANGED <<pointVars, revived>>

PastGrace_OrAtIt(p) == p.gone # Live /\ p.gone >= policy.grace     \* mutant
PastGrace(p) == p.gone # Live /\ p.gone > policy.grace

Silent(p) ==
    p.gone = Live /\ policy.soft # Never /\ ~p.hit /\ p.age > policy.soft

Scan ==
    /\ dec.pc = "scan"
    /\ LET page == Page(Stored, dec.from, PageSize)
           mortal == {i \in page : ~pts[i].immortal}
           next == NextPage(Stored, dec.from, PageSize)
       IN /\ dec' = [dec EXCEPT !.pc = IF next = 0 THEN "write" ELSE "scan",
                                !.from = next,
                                !.soft = @ \cup {i \in mortal : Silent(pts[i])},
                                !.doomed = @ \cup {i \in mortal : PastGrace(pts[i])}]
          /\ revived' = revived \ page
    /\ UNCHANGED pointVars

\* Tombstones carry the time at which the sweep began.
SoftDelete ==
    /\ dec.pc = "write"
    /\ dec.soft # {}
    /\ LET i == Min(dec.soft)
       IN /\ dec' = [dec EXCEPT !.soft = @ \ {i}]
          /\ Payload(i, [pts[i] EXCEPT !.gone = 0])
    /\ UNCHANGED <<policy, pending, copy, crashes, revived>>

SoftDeleteFails ==
    /\ dec.pc = "write"
    /\ dec.soft # {}
    /\ dec' = [dec EXCEPT !.soft = @ \ {Min(@)}]
    /\ UNCHANGED <<pointVars, revived>>

HardDelete ==
    /\ dec.pc = "write"
    /\ dec.soft = {}
    /\ pts' = [i \in Ids |-> IF i \in dec.doomed THEN NoPoint ELSE pts[i]]
    /\ dec' = Asleep
    /\ revived' = {}
    /\ UNCHANGED <<policy, pending, copy, crashes>>

HardDeleteFails ==
    /\ dec.pc = "write"
    /\ dec.soft = {}
    /\ dec.doomed # {}
    /\ dec' = Asleep
    /\ revived' = {}
    /\ UNCHANGED pointVars

DecaySteps ==
    StartDecay \/ Scan \/ SoftDelete \/ SoftDeleteFails \/ HardDelete \/ HardDeleteFails
===============================================================================
