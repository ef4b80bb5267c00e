--------------------------- MODULE LifecyclePoints ---------------------------
(***************************************************************************)
(* The memories of one namespace as the decay sweep and the staleness      *)
(* audit find them, and what requests do to them meanwhile (Memory has the *)
(* steps of those requests).  Ages are counted in the days that pass; a    *)
(* timestamp is an age that grows.  decay_score, which only ranks search   *)
(* results, is left out.                                                   *)
(*                                                                         *)
(* A request that rewrites a memory reads the whole payload, and writes    *)
(* all of it back later; everything else sets the fields it means.         *)
(***************************************************************************)
EXTENDS Integers, FiniteSets, FiniteSetsExt

CONSTANTS Ids,          \* point ids, in the order Qdrant scrolls them
          Churn,        \* the points requests are made for
          Refs, NoRef,  \* what a memory may be verified against
          Policies,     \* lifecycle settings of the namespace
          NoPoint,
          MaxCrashes

ASSUME PointsAssumption ==
    /\ Ids \subseteq Nat \ {0} /\ IsFiniteSet(Ids) /\ Churn \subseteq Ids
    /\ Refs # {} /\ NoRef \notin Refs
    /\ \A p \in Policies : /\ p.decays \in BOOLEAN /\ p.audited \in BOOLEAN
                           /\ p.soft \in Int /\ p.grace \in Nat /\ p.batch \in Nat \ {0}
    /\ MaxCrashes \in Nat

Signals == {"unverified", "fresh", "stale", "broken_ref"}

\* A memory.  age counts from last_retrieved_at, or created_at; hit is
\* retrieval_count > 0; gone is the age of its tombstone.
Point == [ref : Refs \cup {NoRef}, signal : Signals, age : Int, hit : BOOLEAN,
          gone : Int, immortal : BOOLEAN]

ASSUME NoPointAssumption == NoPoint \notin Point

VARIABLES policy,     \* resolveLifecycle of the namespace
          pts,        \* [Ids -> Point, or NoPoint]
          pending,    \* the reinforcement buffer
          copy,       \* the memory a request has read to rewrite it
          crashes

pointVars == <<policy, pts, pending, copy, crashes>>

Live == -1            \* of a memory without deleted_at
Never == -1           \* of soft_delete_after_days
MaxAge == 1 + Max({p.soft : p \in Policies} \cup {p.grace : p \in Policies})

Fresh(ref) == [ref |-> ref, signal |-> "unverified", age |-> 0, hit |-> FALSE,
               gone |-> Live, immortal |-> FALSE]

NoCopy == [id |-> 0, point |-> Fresh(NoRef)]

Stored == {i \in Ids : pts[i] # NoPoint}
Living == {i \in Stored : pts[i].gone = Live}

\* setPayload does nothing on a point that is gone.
Payload(i, p) == pts' = IF i \in Stored THEN [pts EXCEPT ![i] = p] ELSE pts

PointsInit ==
    /\ policy \in Policies
    /\ pts = [i \in Ids |-> Fresh(IF policy.audited THEN CHOOSE r \in Refs : TRUE ELSE NoRef)]
    /\ pending = {}
    /\ copy = NoCopy
    /\ crashes = 0

\* Nobody looks at the references of a namespace that is not audited, nor at
\* ages and retrievals in one that does not decay: there they stay as they
\* are.
References == IF policy.audited THEN Refs \cup {NoRef} ELSE {NoRef}

\* memory_store with an id of its own replaces the memory it finds there.
Store(i) ==
    /\ \E r \in References : pts' = [pts EXCEPT ![i] = Fresh(r)]
    /\ UNCHANGED <<policy, pending, copy, crashes>>

Counted(p) == [p EXCEPT !.hit = policy.decays, !.age = 0]

Hit(i) ==
    /\ policy.decays
    /\ i \in Living
    /\ pending' = pending \cup {i}
    /\ UNCHANGED <<policy, pts, copy, crashes>>

Flush(i) ==
    /\ i \in pending
    /\ pending' = pending \ {i}
    /\ \/ Payload(i, Counted(pts[i]))
       \/ UNCHANGED pts           \* Qdrant fails: the window is dropped
    /\ UNCHANGED <<policy, copy, crashes>>

CopyRead(i) ==
    /\ copy = NoCopy
    /\ i \in Living
    /\ copy' = [id |-> i, point |-> pts[i]]
    /\ UNCHANGED <<policy, pts, pending, crashes>>

\* memory_update_metadata sets metadata.immortal; a store that meets its
\* like counts a retrieval of it.
CopyWrite ==
    /\ copy # NoCopy
    /\ \/ \E b \in BOOLEAN : Payload(copy.id, [copy.point EXCEPT !.immortal = b])
       \/ Payload(copy.id, Counted(copy.point))
       \/ UNCHANGED pts
    /\ copy' = NoCopy
    /\ UNCHANGED <<policy, pending, crashes>>

Delete(i) ==
    /\ i \in Living
    /\ pts' = [pts EXCEPT ![i].gone = 0]
    /\ UNCHANGED <<policy, pending, copy, crashes>>

Restore(i) ==
    /\ i \in Stored \ Living
    /\ pts' = [pts EXCEPT ![i].gone = Live]
    /\ UNCHANGED <<policy, pending, copy, crashes>>

Purge(i) ==
    /\ i \in Stored
    /\ pts' = [pts EXCEPT ![i] = NoPoint]
    /\ UNCHANGED <<policy, pending, copy, crashes>>

Requests ==
    \/ CopyWrite
    \/ \E i \in Churn :
          \/ Store(i) \/ Hit(i) \/ Flush(i) \/ CopyRead(i)
          \/ Delete(i) \/ Restore(i) \/ Purge(i)

Older(n) == IF policy.decays /\ n \in 0..MaxAge - 1 THEN n + 1 ELSE n
Aged(p) == [p EXCEPT !.age = Older(@), !.gone = Older(@)]

DayPasses ==
    /\ pts' = [i \in Ids |-> IF i \in Stored THEN Aged(pts[i]) ELSE NoPoint]
    /\ copy' = [copy EXCEPT !.point = IF copy = NoCopy THEN @ ELSE Aged(@)]
    /\ UNCHANGED <<policy, pending, crashes>>

\* One page of a scroll: the first n of a set of points from an id on, and
\* the id the next page starts at, 0 for none.
Page(S, from, n) ==
    {i \in S : i >= from /\ Cardinality({k \in S : from <= k /\ k < i}) < n}
NextPage(S, from, n) ==
    LET rest == {i \in S : i >= from} \ Page(S, from, n)
    IN IF rest = {} THEN 0 ELSE Min(rest)
===============================================================================
