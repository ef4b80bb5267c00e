-------------------------- MODULE EmbeddingGate_proofs --------------------------
(***************************************************************************)
(* Proofs about EmbeddingGate for any number of calls, any limit and any   *)
(* configuration of breaker and loop.                                      *)
(***************************************************************************)
EXTENDS EmbeddingGate, FiniteSetTheorems, TLAPS

(* Who the continuation belongs to: a call in a phase that has one.        *)
JobOfPhase ==
    \A c \in Calls : pc[c] \in Jobs <=> job = c

(* The permits that are held or about to be taken by the call that was     *)
(* woken.  They are never more than the limit, and all of them as long as  *)
(* a call waits.                                                           *)
Woken   == {c \in Calls : pc[c] = "woken"}
Claimed == active + (IF Woken = {} THEN 0 ELSE 1)
GateFull ==
    max > 0 => /\ Claimed <= max
               /\ waiters # <<>> => Claimed = max
Ungated == max = 0 => active = 0 /\ waiters = <<>> /\ Woken = {}

(* A call waits once, and is in the queue when it does.                    *)
WaitersWait ==
    /\ \A k \in 1..Len(waiters) : pc[waiters[k]] = "waiting"
    /\ \A k, l \in 1..Len(waiters) : waiters[k] = waiters[l] => k = l

(* What a call has sent is what it counted, and it counts within bounds.   *)
CountedOf(c) ==
    /\ attempt[c] <= MaxRetries /\ truncated[c] <= MaxTruncate
    /\ pc[c] \in Waits => sent[c] = 1 + attempt[c] + truncated[c]
    /\ pc[c] = "sleep" => attempt[c] < MaxRetries
    /\ pc[c] \notin Waits => sent[c] = 0 /\ attempt[c] = 0 /\ truncated[c] = 0
    /\ recorded[c] <= 1
    /\ pc[c] \notin {"leaving", "over"} => recorded[c] = 0
Counted == \A c \in Calls : CountedOf(c)

(* The breaker never opens but at a failure.                               *)
OpenedByFailure == openedAt <= failedAt /\ failedAt <= now

IInv == /\ TypeOK
        /\ JobOfPhase
        /\ PermitsConserved
        /\ GateFull
        /\ Ungated
        /\ WaitersWait
        /\ Counted
        /\ OpenedByFailure

-----------------------------------------------------------------------------
(* Steps inside a call: all but those of the semaphore move one call that  *)
(* holds its permit to another phase in which it holds it, or to none.     *)
Inner(c) == Begin(c) \/ Refuse(c) \/ RunEvent(c)

LEMMA InnerMoves ==
    ASSUME IInv, NEW c \in Calls, Inner(c)
    PROVE  /\ UNCHANGED <<gate, now>>
           /\ pc[c] \in Waits \cup {"granted"}
           /\ \E p \in Waits \cup {"leaving"} :
                 /\ pc' = [pc EXCEPT ![c] = p]
                 /\ job' = IF p = "leaving" THEN c ELSE Nobody
                 /\ job = Nobody \/ job = c
  <1> USE DEF Goto, Job, Event, Waits, Bodies, gate
  <1>1. CASE Begin(c)  BY <1>1 DEF Begin
  <1>2. CASE Refuse(c)  BY <1>2 DEF Refuse
  <1>3. ASSUME RetryOrFail(c), job = Nobody
        PROVE  \E p \in Waits \cup {"leaving"} :
                  /\ pc' = [pc EXCEPT ![c] = p]
                  /\ job' = IF p = "leaving" THEN c ELSE Nobody
    <2>1. CASE attempt[c] < MaxRetries
      BY <1>3, <2>1 DEF RetryOrFail
    <2>2. CASE ~ (attempt[c] < MaxRetries)
      BY <1>3, <2>2 DEF RetryOrFail, Fail, End
    <2>3. QED  BY <2>1, <2>2
  <1>4. CASE FetchFails(c)  BY <1>3, <1>4 DEF FetchFails
  <1>5. CASE FetchThrows(c)  BY <1>5 DEF FetchThrows, Fail, End
  <1>6. CASE Respond(c)  BY <1>6 DEF Respond
  <1>7. CASE BodyThrows(c)  BY <1>7 DEF BodyThrows, End
  <1>8. CASE BodyArrives(c)
    <2>1. CASE Event(c, "ok") /\ Succeed(c)
      BY <1>8, <2>1 DEF BodyArrives, Succeed, End
    <2>2. CASE Event(c, "retryable") /\ RetryOrFail(c)
      BY <1>3, <1>8, <2>2 DEF BodyArrives
    <2>3. CASE \E b \in {"tooLarge", "fatal"} : Event(c, b) /\ Fail(c)
      BY <1>8, <2>3 DEF BodyArrives, Fail, End
    <2>4. QED  BY <1>8, <2>1, <2>2, <2>3 DEF BodyArrives
  <1>9. CASE Shorten(c)  BY <1>9 DEF Shorten
  <1>10. CASE Pause(c)  BY <1>10 DEF Pause
  <1>11. QED
    BY <1>1, <1>2, <1>4, <1>5, <1>6, <1>7, <1>8, <1>9, <1>10 DEF Inner, RunEvent

LEMMA NextCases ==
    ASSUME [Next]_vars
    PROVE  \/ \E c \in Calls : \/ Acquire(c) \/ Wake(c) \/ Leave(c)
                               \/ Enter(c) \/ Inner(c)
           \/ Tick \/ UNCHANGED vars
  BY DEF Next, RunJob, Inner

(* A call that holds a permit of a limited gate is one of those counted.   *)
LEMMA HolderCounted ==
    ASSUME IInv, max > 0, NEW c \in Calls, c \in Holding
    PROVE  active - 1 \in Nat
  <1>1. IsFiniteSet(Holding)
    BY FS_Subset, GateAssumption, Holding \subseteq Calls DEF Holding
  <1>2. Cardinality(Holding) \in Nat
    BY <1>1, FS_CardinalityType
  <1>3. Holding # {}
    OBVIOUS
  <1>4. Cardinality(Holding) # 0
    BY <1>1, <1>3, FS_EmptySet
  <1>5. QED
    BY <1>2, <1>4 DEF IInv, TypeOK, PermitsConserved

-----------------------------------------------------------------------------
(* The types.  A release is the one step that counts down.                 *)
LEMMA SampleTyping ==
    ASSUME TypeOK, NEW c \in Calls, NEW ok \in BOOLEAN
    PROVE  With(c, ok) \subseteq Sample
  BY DEF TypeOK, With, Trimmed, Sample

LEMMA RetryTyping ==
    ASSUME TypeOK, NEW c \in Calls, RetryOrFail(c) \/ Fail(c)
    PROVE  /\ state' \in {"closed", "open", "half-open"}
           /\ openedAt' \in Nat /\ failedAt' \in Nat /\ window' \subseteq Sample
           /\ {attempt', truncated', sent', recorded'} \subseteq [Calls -> Nat]
  <1>1. CASE UNCHANGED <<breaker, loop, recorded>>
    BY <1>1 DEF TypeOK, breaker, loop
  <1>2. CASE Fail(c)
    <2>1. window' \subseteq Sample
      BY <1>2, SampleTyping DEF Fail, RecordFailure
    <2>2. {attempt', truncated', sent', recorded'} \subseteq [Calls -> Nat]
      BY <1>2 DEF TypeOK, Fail, RecordFailure, End
    <2>3. state' \in {"closed", "open", "half-open"}
      BY <1>2 DEF TypeOK, Fail, RecordFailure
    <2>4. openedAt' \in Nat /\ failedAt' \in Nat
      BY <1>2 DEF TypeOK, Fail, RecordFailure
    <2>5. QED  BY <2>1, <2>2, <2>3, <2>4
  <1>3. QED  BY <1>1, <1>2 DEF RetryOrFail

LEMMA Typing ==
    ASSUME IInv, [Next]_vars
    PROVE  TypeOK'
  <1> USE DEF IInv
  <1>1. ASSUME NEW c \in Calls, Inner(c)  PROVE TypeOK'
    <2>1. /\ max' \in Limits /\ active' \in Nat /\ waiters' \in Seq(Calls)
          /\ now' \in Nat
      BY <1>1, InnerMoves DEF TypeOK, gate
    <2>2. job' \in Calls \cup {Nobody} /\ pc' \in [Calls -> Phases]
      <3>1. PICK p \in Waits \cup {"leaving"} :
                /\ pc' = [pc EXCEPT ![c] = p]
                /\ job' = IF p = "leaving" THEN c ELSE Nobody
        BY <1>1, InnerMoves
      <3>2. p \in Phases
        BY DEF Phases, Jobs
      <3>3. QED  BY <3>1, <3>2 DEF TypeOK
    <2>3. /\ state' \in {"closed", "open", "half-open"}
          /\ openedAt' \in Nat /\ failedAt' \in Nat /\ window' \subseteq Sample
          /\ {attempt', truncated', sent', recorded'} \subseteq [Calls -> Nat]
      <3>1. CASE Begin(c)
        BY <3>1 DEF TypeOK, Begin, Probing, Send
      <3>2. CASE Refuse(c)
        BY <3>2 DEF TypeOK, Refuse, breaker, loop
      <3>3. CASE FetchFails(c)
        BY <3>3, RetryTyping DEF FetchFails
      <3>4. CASE FetchThrows(c)
        BY <3>4, RetryTyping DEF FetchThrows
      <3>5. CASE Respond(c)
        BY <3>5 DEF TypeOK, Respond, breaker, loop
      <3>6. CASE BodyThrows(c)
        BY <3>6 DEF TypeOK, BodyThrows, breaker, End
      <3>7. CASE BodyArrives(c)
        <4>1. CASE Succeed(c)
          <5>1. window' \subseteq Sample
            BY <4>1, SampleTyping DEF Succeed, RecordSuccess
          <5>2. {attempt', truncated', sent', recorded'} \subseteq [Calls -> Nat]
            BY <4>1 DEF TypeOK, Succeed, RecordSuccess, End
          <5>3. state' \in {"closed", "open", "half-open"}
            BY <4>1 DEF TypeOK, Succeed, RecordSuccess
          <5>4. openedAt' \in Nat /\ failedAt' \in Nat
            BY <4>1 DEF TypeOK, Succeed, RecordSuccess
          <5>5. QED  BY <5>1, <5>2, <5>3, <5>4
        <4>2. CASE RetryOrFail(c) \/ Fail(c)
          BY <4>2, RetryTyping
        <4>3. QED  BY <3>7, <4>1, <4>2 DEF BodyArrives
      <3>8. CASE Shorten(c)
        BY <3>8 DEF TypeOK, Shorten, breaker, Send
      <3>9. CASE Pause(c)
        BY <3>9 DEF TypeOK, Pause, breaker, Send
      <3>10. QED
        BY <1>1, <3>1, <3>2, <3>3, <3>4, <3>5, <3>6, <3>7, <3>8, <3>9
           DEF Inner, RunEvent
    <2>4. QED  BY <2>1, <2>2, <2>3 DEF TypeOK
  <1>2. ASSUME NEW c \in Calls, Acquire(c)  PROVE TypeOK'
    <2>1. UNCHANGED <<max, breaker, loop, now, recorded>>
      BY <1>2 DEF Acquire
    <2>2. Append(waiters, c) \in Seq(Calls)
      BY DEF TypeOK
    <2>3. active' \in Nat /\ waiters' \in Seq(Calls) /\ job' \in Calls \cup {Nobody}
      <3>1. CASE max = 0 \/ Free
        BY <1>2, <3>1 DEF TypeOK, Acquire
      <3>2. CASE ~ (max = 0 \/ Free)
        BY <1>2, <2>2, <3>2 DEF TypeOK, Acquire
      <3>3. QED  BY <3>1, <3>2
    <2>4. pc' \in [Calls -> Phases]
      BY <1>2 DEF TypeOK, Acquire, Goto, Phases, Jobs
    <2>5. QED  BY <2>1, <2>3, <2>4 DEF TypeOK, breaker, loop
  <1>3. ASSUME NEW c \in Calls, Wake(c)  PROVE TypeOK'
    BY <1>3 DEF TypeOK, Wake, Goto, Phases, Jobs, breaker, loop
  <1>4. ASSUME NEW c \in Calls, Leave(c)  PROVE TypeOK'
    <2>1. UNCHANGED <<max, breaker, loop, now, recorded>>
      BY <1>4 DEF Leave
    <2>2. CASE max = 0
      BY <1>4, <2>1, <2>2 DEF TypeOK, Leave, Goto, Phases, breaker, loop
    <2>3. CASE max > 0
      <3>1. active' \in Nat
        BY <1>4, <2>3, HolderCounted DEF TypeOK, Leave, Release, Job, Holding
      <3>2. CASE waiters = <<>>
        BY <1>4, <2>1, <2>3, <3>1, <3>2
           DEF TypeOK, Leave, Release, Goto, Phases, breaker, loop
      <3>3. CASE waiters # <<>>
        <4>1. Head(waiters) \in Calls /\ Tail(waiters) \in Seq(Calls)
          BY <3>3 DEF TypeOK
        <4>2. Release(c)
          BY <1>4, <2>3, GateAssumption DEF TypeOK, Leave
        <4>3. pc' \in [Calls -> Phases]
          BY <3>3, <4>1, <4>2 DEF TypeOK, Release, Phases, Jobs
        <4>4. job' \in Calls \cup {Nobody} /\ waiters' \in Seq(Calls)
          BY <3>3, <4>1, <4>2 DEF Release
        <4>5. QED
          BY <2>1, <3>1, <4>3, <4>4 DEF TypeOK, breaker, loop
      <3>4. QED  BY <3>2, <3>3
    <2>4. max \in Nat
      BY GateAssumption DEF TypeOK
    <2>5. QED  BY <2>2, <2>3, <2>4
  <1>5. ASSUME NEW c \in Calls, Enter(c)  PROVE TypeOK'
    BY <1>5 DEF TypeOK, Enter, Goto, Phases, Jobs, gate, breaker, loop
  <1>6. CASE Tick
    BY <1>6 DEF TypeOK, Tick, gate, breaker, loop
  <1>7. CASE UNCHANGED vars
    BY <1>7 DEF TypeOK, vars, gate, breaker, loop
  <1>8. QED
    BY <1>1, <1>2, <1>3, <1>4, <1>5, <1>6, <1>7, NextCases

-----------------------------------------------------------------------------
(* One call at most has a continuation.                                    *)
LEMMA JobStays ==
    ASSUME IInv, [Next]_vars
    PROVE  JobOfPhase'
  <1> USE DEF IInv, TypeOK, JobOfPhase, Jobs
  <1>1. ASSUME NEW c \in Calls, Inner(c)  PROVE JobOfPhase'
    <2>1. PICK p \in Waits \cup {"leaving"} :
              /\ pc' = [pc EXCEPT ![c] = p]
              /\ job' = IF p = "leaving" THEN c ELSE Nobody
              /\ job = Nobody \/ job = c
      BY <1>1, InnerMoves
    <2>2. p \in Jobs <=> p = "leaving"
      BY DEF Waits, Bodies
    <2>3. QED  BY <2>1, <2>2, GateAssumption
  <1>2. ASSUME NEW c \in Calls, Acquire(c)  PROVE JobOfPhase'
    BY <1>2, GateAssumption DEF Acquire, Job, Goto
  <1>3. ASSUME NEW c \in Calls, Wake(c)  PROVE JobOfPhase'
    BY <1>3 DEF Wake, Job, Goto
  <1>4. ASSUME NEW c \in Calls, Leave(c)  PROVE JobOfPhase'
    <2>1. CASE job' = Nobody /\ pc' = [pc EXCEPT ![c] = "over"]
      BY <1>4, <2>1, GateAssumption DEF Leave, Job
    <2>2. CASE waiters # <<>> /\ Release(c)
      <3>1. Head(waiters) \in Calls /\ pc[Head(waiters)] = "waiting"
        BY <2>2 DEF WaitersWait
      <3>2. job = c
        BY <1>4 DEF Leave, Job
      <3>3. \A d \in Calls : pc'[d] = IF d = Head(waiters) THEN "woken"
                                      ELSE IF d = c THEN "over" ELSE pc[d]
        BY <2>2, <3>1 DEF Release
      <3>4. job' = Head(waiters)
        BY <2>2 DEF Release
      <3>5. QED  BY <3>1, <3>2, <3>3, <3>4
    <2>3. QED  BY <1>4, <2>1, <2>2 DEF Leave, Release, Goto
  <1>5. ASSUME NEW c \in Calls, Enter(c)  PROVE JobOfPhase'
    BY <1>5, GateAssumption DEF Enter, Event, Goto
  <1>6. CASE Tick  BY <1>6 DEF Tick
  <1>7. CASE UNCHANGED vars  BY <1>7 DEF vars
  <1>8. QED
    BY <1>1, <1>2, <1>3, <1>4, <1>5, <1>6, <1>7, NextCases

-----------------------------------------------------------------------------
(* The permits.  Most steps change neither the gate nor who holds, waits   *)
(* or was woken; three do.                                                 *)
Gate == PermitsConserved /\ GateFull /\ Ungated /\ WaitersWait

LEMMA WaitersStay ==
    ASSUME IInv, waiters' = waiters,
           \A c \in Calls : pc[c] = "waiting" => pc'[c] = "waiting"
    PROVE  WaitersWait'
  <1>1. \A k \in 1..Len(waiters) : waiters[k] \in Calls
    BY DEF IInv, TypeOK
  <1>2. QED  BY <1>1 DEF IInv, WaitersWait

LEMMA GateStays ==
    ASSUME IInv, UNCHANGED gate,
           Holding' = Holding, Woken' = Woken,
           \A c \in Calls : pc[c] = "waiting" => pc'[c] = "waiting"
    PROVE  Gate'
  <1>1. PermitsConserved'
    BY DEF IInv, PermitsConserved, gate
  <1>2. GateFull'
    BY DEF IInv, GateFull, Claimed, gate
  <1>3. Ungated'
    BY DEF IInv, Ungated, gate
  <1>4. WaitersWait'
    BY WaitersStay DEF gate
  <1>5. QED  BY <1>1, <1>2, <1>3, <1>4 DEF Gate

LEMMA HoldersAddOne ==
    ASSUME IInv, NEW c \in Calls, c \notin Holding, Holding' = Holding \cup {c},
           active' = active + 1, max' = max
    PROVE  PermitsConserved'
  <1>1. IsFiniteSet(Holding)
    BY FS_Subset, GateAssumption, Holding \subseteq Calls DEF Holding
  <1>2. Cardinality(Holding') = Cardinality(Holding) + 1
    BY <1>1, FS_AddElement
  <1>3. QED  BY <1>2 DEF IInv, PermitsConserved

LEMMA HoldersLoseOne ==
    ASSUME IInv, NEW c \in Calls, c \in Holding, Holding' = Holding \ {c},
           active' = active - 1, max' = max
    PROVE  PermitsConserved'
  <1>1. IsFiniteSet(Holding)
    BY FS_Subset, GateAssumption, Holding \subseteq Calls DEF Holding
  <1>2. Cardinality(Holding') = Cardinality(Holding) - 1
    BY <1>1, FS_RemoveElement
  <1>3. QED  BY <1>2 DEF IInv, PermitsConserved

LEMMA AcquireKeepsGate ==
    ASSUME IInv, NEW c \in Calls, Acquire(c)
    PROVE  Gate'
  <1> USE DEF IInv
  <1>1. /\ max \in Nat /\ active \in Nat /\ max' = max
        /\ job = c /\ pc[c] = "entering"
        /\ Woken = {}
    BY GateAssumption DEF TypeOK, Acquire, Job, JobOfPhase, Jobs, Woken
  <1>2. CASE max = 0 \/ Free
    <2>1. waiters' = waiters /\ pc' = [pc EXCEPT ![c] = "granted"]
      BY <1>2 DEF Acquire, Goto
    <2>2. c \notin Holding /\ Holding' = Holding \cup {c} /\ Woken' = {}
      BY <1>1, <2>1 DEF TypeOK, Holding, Woken, Waits, Bodies
    <2>3. WaitersWait'
      BY <1>1, <2>1, WaitersStay DEF TypeOK
    <2>4. CASE max = 0
      <3>1. active' = active
        BY <1>2, <2>4 DEF Acquire
      <3>2. QED
        BY <1>1, <2>1, <2>2, <2>3, <2>4, <3>1
           DEF Gate, PermitsConserved, GateFull, Ungated
    <2>5. CASE max > 0
      <3>1. active' = active + 1 /\ active < max
        BY <1>1, <1>2, <2>5 DEF Acquire, Free
      <3>2. PermitsConserved'
        BY <1>1, <2>2, <3>1, HoldersAddOne
      <3>3. GateFull'
        BY <1>1, <2>1, <2>2, <2>5, <3>1 DEF GateFull, Claimed
      <3>4. QED  BY <1>1, <2>3, <2>5, <3>2, <3>3 DEF Gate, Ungated
    <2>6. QED  BY <1>1, <2>4, <2>5
  <1>3. CASE ~ (max = 0 \/ Free)
    <2>1. /\ waiters' = Append(waiters, c) /\ pc' = [pc EXCEPT ![c] = "waiting"]
          /\ active' = active
      BY <1>3 DEF Acquire, Goto
    <2>2. Holding' = Holding /\ Woken' = Woken
      BY <1>1, <2>1 DEF TypeOK, Holding, Woken, Waits, Bodies
    <2>3. active = max /\ max > 0
      BY <1>1, <1>3 DEF Free, GateFull, Claimed
    <2>4. PermitsConserved' /\ GateFull' /\ Ungated'
      BY <1>1, <2>1, <2>2, <2>3 DEF PermitsConserved, GateFull, Claimed, Ungated
    <2>5. /\ Len(waiters') = Len(waiters) + 1
          /\ \A k \in 1..Len(waiters) : waiters'[k] = waiters[k]
          /\ waiters'[Len(waiters) + 1] = c
      BY <2>1 DEF TypeOK
    <2>6. Len(waiters) \in Nat /\ \A k \in 1..Len(waiters) : waiters[k] \in Calls
      BY DEF TypeOK
    <2>7. \A k \in 1..Len(waiters) : waiters[k] # c
      BY <1>1 DEF WaitersWait
    <2>8. \A k \in 1..Len(waiters') : pc'[waiters'[k]] = "waiting"
      <3>1. \A k \in 1..Len(waiters) : pc'[waiters[k]] = "waiting"
        BY <2>1, <2>6, <2>7 DEF TypeOK, WaitersWait
      <3>2. pc'[c] = "waiting"
        BY <2>1 DEF TypeOK
      <3>3. QED  BY <2>5, <2>6, <3>1, <3>2
    <2>9. \A k, l \in 1..Len(waiters') : waiters'[k] = waiters'[l] => k = l
      BY <2>5, <2>6, <2>7 DEF WaitersWait
    <2>10. WaitersWait'
      BY <2>8, <2>9 DEF WaitersWait
    <2>11. QED  BY <2>4, <2>10 DEF Gate
  <1>4. QED  BY <1>2, <1>3

LEMMA WakeKeepsGate ==
    ASSUME IInv, NEW c \in Calls, Wake(c)
    PROVE  Gate'
  <1> USE DEF IInv
  <1>1. /\ max \in Nat /\ active \in Nat
        /\ max' = max /\ waiters' = waiters /\ active' = active + 1
        /\ job = c /\ pc[c] = "woken"
        /\ pc' = [pc EXCEPT ![c] = "granted"]
    BY GateAssumption DEF TypeOK, Wake, Job, Goto
  <1>2. Woken = {c} /\ Woken' = {}
    BY <1>1 DEF TypeOK, JobOfPhase, Jobs, Woken
  <1>3. c \notin Holding /\ Holding' = Holding \cup {c}
    BY <1>1 DEF TypeOK, Holding, Waits, Bodies
  <1>4. PermitsConserved'
    BY <1>1, <1>3, HoldersAddOne
  <1>5. GateFull'
    BY <1>1, <1>2 DEF GateFull, Claimed
  <1>6. WaitersWait'
    BY <1>1, WaitersStay DEF TypeOK
  <1>7. max # 0
    BY <1>2 DEF Ungated
  <1>8. QED  BY <1>1, <1>4, <1>5, <1>6, <1>7 DEF Gate, Ungated

LEMMA LeaveKeepsGate ==
    ASSUME IInv, NEW c \in Calls, Leave(c)
    PROVE  Gate'
  <1> USE DEF IInv
  <1>1. /\ max \in Nat /\ active \in Nat /\ max' = max
        /\ job = c /\ pc[c] = "leaving"
        /\ Woken = {}
    BY GateAssumption DEF TypeOK, Leave, Job, JobOfPhase, Jobs, Woken
  <1>2. c \in Holding
    BY <1>1 DEF Holding
  <1>3. CASE max = 0
    <2>1. UNCHANGED <<active, waiters>> /\ pc' = [pc EXCEPT ![c] = "over"]
      BY <1>3 DEF Leave, Goto
    <2>2. WaitersWait'
      BY <1>1, <2>1, WaitersStay DEF TypeOK
    <2>3. Woken' = {}
      BY <1>1, <2>1 DEF TypeOK, Woken
    <2>4. QED
      BY <1>1, <1>3, <2>1, <2>2, <2>3
         DEF Gate, PermitsConserved, GateFull, Ungated
  <1>4. CASE max > 0 /\ waiters = <<>>
    <2>1. /\ active' = active - 1 /\ waiters' = waiters
          /\ pc' = [pc EXCEPT ![c] = "over"]
      BY <1>1, <1>4 DEF Leave, Release, Goto
    <2>2. Holding' = Holding \ {c} /\ Woken' = {}
      BY <1>1, <2>1 DEF TypeOK, Holding, Woken, Waits, Bodies
    <2>3. PermitsConserved'
      BY <1>1, <1>2, <2>1, <2>2, HoldersLoseOne
    <2>4. GateFull' /\ Ungated' /\ WaitersWait'
      BY <1>1, <1>4, <2>1, <2>2 DEF GateFull, Claimed, Ungated, WaitersWait
    <2>5. QED  BY <2>3, <2>4 DEF Gate
  <1>5. CASE max > 0 /\ waiters # <<>>
    <2> DEFINE w == Head(waiters)
    <2>1. /\ active' = active - 1 /\ waiters' = Tail(waiters)
          /\ pc' = [pc EXCEPT ![c] = "over", ![w] = "woken"]
      BY <1>1, <1>5 DEF Leave, Release
    <2>2. /\ Len(waiters) \in Nat \ {0} /\ w = waiters[1]
          /\ w \in Calls /\ pc[w] = "waiting"
      BY <1>5 DEF TypeOK, WaitersWait
    <2> HIDE DEF w
    <2>3. \A d \in Calls : pc'[d] = IF d = w THEN "woken"
                                    ELSE IF d = c THEN "over" ELSE pc[d]
      BY <2>1, <2>2 DEF TypeOK
    <2>4. Holding' = Holding \ {c}
      BY <1>1, <2>2, <2>3 DEF Holding, Waits, Bodies
    <2>5. Woken' # {}
      BY <2>2, <2>3 DEF Woken
    <2>6. PermitsConserved'
      BY <1>1, <1>2, <2>1, <2>4, HoldersLoseOne
    <2>7. GateFull' /\ Ungated'
      BY <1>1, <1>5, <2>1, <2>5 DEF GateFull, Claimed, Ungated
    <2>8. /\ Len(waiters') = Len(waiters) - 1
          /\ \A k \in 1..Len(waiters') : k + 1 \in 1..Len(waiters)
                                         /\ waiters'[k] = waiters[k + 1]
      BY <1>5, <2>1 DEF TypeOK
    <2>9. \A k \in 1..Len(waiters') : waiters'[k] \in Calls
                                      /\ waiters'[k] # w /\ waiters'[k] # c
      <3>1. \A k \in 1..Len(waiters) : waiters[k] \in Calls
        BY DEF TypeOK
      <3>2. \A k \in 1..Len(waiters) : waiters[k] # c /\ (k # 1 => waiters[k] # w)
        BY <1>1, <2>2 DEF WaitersWait
      <3>3. \A k \in 1..Len(waiters') : k + 1 # 1
        OBVIOUS
      <3>4. QED  BY <2>8, <3>1, <3>2, <3>3
    <2>10. WaitersWait'
      <3>1. \A k \in 1..Len(waiters') : pc'[waiters'[k]] = "waiting"
        BY <2>3, <2>8, <2>9 DEF WaitersWait
      <3>2. \A k, l \in 1..Len(waiters') : waiters'[k] = waiters'[l] => k = l
        BY <2>8 DEF WaitersWait
      <3>3. QED  BY <3>1, <3>2 DEF WaitersWait
    <2>11. QED  BY <2>6, <2>7, <2>10 DEF Gate
  <1>6. QED  BY <1>1, <1>3, <1>4, <1>5

LEMMA GateKept ==
    ASSUME IInv, [Next]_vars
    PROVE  Gate'
  <1>1. ASSUME NEW c \in Calls, Inner(c)  PROVE Gate'
    <2>1. PICK p \in Waits \cup {"leaving"} : pc' = [pc EXCEPT ![c] = p]
      BY <1>1, InnerMoves
    <2>2. UNCHANGED gate /\ pc[c] \in Waits \cup {"granted"}
      BY <1>1, InnerMoves
    <2>3. Holding' = Holding /\ Woken' = Woken
      BY <2>1, <2>2 DEF IInv, TypeOK, Holding, Woken, Waits, Bodies
    <2>4. \A d \in Calls : pc[d] = "waiting" => pc'[d] = "waiting"
      BY <2>1, <2>2 DEF IInv, TypeOK, Waits, Bodies
    <2>5. QED  BY <2>2, <2>3, <2>4, GateStays
  <1>2. ASSUME NEW c \in Calls, Enter(c)  PROVE Gate'
    <2>1. UNCHANGED gate /\ pc[c] = "idle" /\ pc' = [pc EXCEPT ![c] = "entering"]
      BY <1>2 DEF Enter, Event, Goto
    <2>2. Holding' = Holding /\ Woken' = Woken
      BY <2>1 DEF IInv, TypeOK, Holding, Woken, Waits, Bodies
    <2>3. \A d \in Calls : pc[d] = "waiting" => pc'[d] = "waiting"
      BY <2>1 DEF IInv, TypeOK
    <2>4. QED  BY <2>1, <2>2, <2>3, GateStays
  <1>3. CASE Tick \/ UNCHANGED vars
    <2>1. UNCHANGED <<gate, pc>>
      BY <1>3 DEF Tick, vars
    <2>2. Holding' = Holding /\ Woken' = Woken
      BY <2>1 DEF Holding, Woken
    <2>3. QED  BY <2>1, <2>2, GateStays
  <1>4. QED
    BY <1>1, <1>2, <1>3, AcquireKeepsGate, WakeKeepsGate, LeaveKeepsGate, NextCases

-----------------------------------------------------------------------------
(* The counts of a call and the clock of the breaker.                      *)
LEMMA CountedStays ==
    ASSUME IInv, [Next]_vars
    PROVE  Counted'
  <1> USE DEF IInv, TypeOK, Counted, CountedOf, Waits, Bodies
  <1>1. /\ MaxRetries \in Nat /\ MaxTruncate \in Nat
        /\ attempt \in [Calls -> Nat] /\ truncated \in [Calls -> Nat]
        /\ sent \in [Calls -> Nat] /\ recorded \in [Calls -> Nat]
    BY GateAssumption
  <1>2. ASSUME NEW c \in Calls, RetryOrFail(c) \/ Fail(c), pc[c] \in Waits
        PROVE  Counted'
    <2>1. CASE attempt[c] < MaxRetries /\ UNCHANGED <<loop, recorded>>
               /\ Goto(c, "sleep")
      BY <1>2, <2>1 DEF loop, Goto
    <2>2. CASE Fail(c)
      BY <1>1, <1>2, <2>2 DEF Fail, RecordFailure, End, Goto
    <2>3. QED  BY <1>2, <2>1, <2>2 DEF RetryOrFail
  <1>3. ASSUME NEW c \in Calls, Inner(c)  PROVE Counted'
    <2>1. CASE Begin(c)
      <3>1. /\ pc[c] = "granted" /\ pc' = [pc EXCEPT ![c] = "fetch"]
            /\ sent' = [sent EXCEPT ![c] = @ + 1]
            /\ UNCHANGED <<attempt, truncated, recorded>>
        BY <2>1 DEF Begin, Job, Goto, Send
      <3>2. QED  BY <1>1, <3>1
    <2>2. CASE Refuse(c)
      BY <2>2 DEF Refuse, Job, Goto, loop
    <2>3. CASE FetchFails(c)
      BY <1>2, <2>3 DEF FetchFails, Event
    <2>4. CASE FetchThrows(c)
      BY <1>2, <2>4 DEF FetchThrows, Event
    <2>5. CASE Respond(c)
      BY <2>5 DEF Respond, Event, Goto, loop
    <2>6. CASE BodyThrows(c)
      BY <1>1, <2>6 DEF BodyThrows, Event, End, Goto
    <2>7. CASE BodyArrives(c)
      <3>1. CASE Event(c, "ok") /\ Succeed(c)
        BY <1>1, <3>1 DEF Succeed, RecordSuccess, End, Event, Goto
      <3>2. CASE Event(c, "retryable") /\ RetryOrFail(c)
        BY <1>2, <3>2 DEF Event
      <3>3. CASE \E b \in {"tooLarge", "fatal"} : Event(c, b) /\ Fail(c)
        BY <1>2, <3>3 DEF Event
      <3>4. QED  BY <2>7, <3>1, <3>2, <3>3 DEF BodyArrives
    <2>8. CASE Shorten(c)
      <3>1. /\ pc[c] = "tooLarge" /\ pc' = [pc EXCEPT ![c] = "fetch"]
            /\ truncated[c] < MaxTruncate
            /\ truncated' = [truncated EXCEPT ![c] = @ + 1]
            /\ sent' = [sent EXCEPT ![c] = @ + 1]
            /\ UNCHANGED <<attempt, recorded>>
        BY <2>8 DEF Shorten, Event, Goto, Send
      <3>2. \A d \in Calls : d # c => /\ pc'[d] = pc[d] /\ truncated'[d] = truncated[d]
                                     /\ sent'[d] = sent[d]
        BY <1>1, <3>1
      <3>3. /\ pc'[c] = "fetch" /\ truncated'[c] = truncated[c] + 1
            /\ sent'[c] = sent[c] + 1
        BY <1>1, <3>1
      <3>4. CountedOf(c)'
        <4>1. /\ attempt[c] \in Nat /\ truncated[c] \in Nat
              /\ sent[c] = 1 + attempt[c] + truncated[c]
              /\ recorded[c] = 0
          BY <1>1, <3>1
        <4>2. /\ attempt'[c] <= MaxRetries /\ truncated'[c] <= MaxTruncate
              /\ recorded'[c] = 0
          BY <1>1, <3>1, <3>3, <4>1
        <4>3. sent'[c] = 1 + attempt'[c] + truncated'[c]
          BY <3>1, <3>3, <4>1
        <4>4. QED  BY <3>3, <4>2, <4>3
      <3>5. \A d \in Calls : d # c => CountedOf(d)'
        BY <3>1, <3>2
      <3>6. QED  BY <3>4, <3>5
    <2>9. CASE Pause(c)
      <3>1. /\ pc[c] = "sleep" /\ pc' = [pc EXCEPT ![c] = "fetch"]
            /\ attempt' = [attempt EXCEPT ![c] = @ + 1]
            /\ sent' = [sent EXCEPT ![c] = @ + 1]
            /\ UNCHANGED <<truncated, recorded>>
        BY <2>9 DEF Pause, Event, Goto, Send
      <3>2. \A d \in Calls : d # c => /\ pc'[d] = pc[d] /\ attempt'[d] = attempt[d]
                                     /\ sent'[d] = sent[d]
        BY <1>1, <3>1
      <3>3. /\ pc'[c] = "fetch" /\ attempt'[c] = attempt[c] + 1
            /\ sent'[c] = sent[c] + 1
        BY <1>1, <3>1
      <3>4. CountedOf(c)'
        <4>1. /\ attempt[c] \in Nat /\ truncated[c] \in Nat
              /\ sent[c] = 1 + attempt[c] + truncated[c]
              /\ recorded[c] = 0
          BY <1>1, <3>1
        <4>2. /\ attempt'[c] <= MaxRetries /\ truncated'[c] <= MaxTruncate
              /\ recorded'[c] = 0
          BY <1>1, <3>1, <3>3, <4>1
        <4>3. sent'[c] = 1 + attempt'[c] + truncated'[c]
          BY <3>1, <3>3, <4>1
        <4>4. QED  BY <3>3, <4>2, <4>3
      <3>5. \A d \in Calls : d # c => CountedOf(d)'
        BY <3>1, <3>2
      <3>6. QED  BY <3>4, <3>5
    <2>10. QED
      BY <1>3, <2>1, <2>2, <2>3, <2>4, <2>5, <2>6, <2>7, <2>8, <2>9
         DEF Inner, RunEvent
  <1>4. ASSUME NEW c \in Calls, Acquire(c)  PROVE Counted'
    BY <1>4 DEF Acquire, Job, Goto, loop
  <1>5. ASSUME NEW c \in Calls, Wake(c)  PROVE Counted'
    BY <1>5 DEF Wake, Job, Goto, loop
  <1>6. ASSUME NEW c \in Calls, Leave(c)  PROVE Counted'
    <2>1. UNCHANGED <<loop, recorded>> /\ pc[c] = "leaving"
      BY <1>6 DEF Leave, Job
    <2>2. CASE pc' = [pc EXCEPT ![c] = "over"]
      BY <2>1, <2>2 DEF loop
    <2>3. CASE waiters # <<>> /\ Release(c)
      <3>1. Head(waiters) \in Calls /\ pc[Head(waiters)] = "waiting"
        BY SMTT(30), <2>3 DEF WaitersWait
      <3>2. \A d \in Calls : pc'[d] = IF d = Head(waiters) THEN "woken"
                                      ELSE IF d = c THEN "over" ELSE pc[d]
        BY <2>3, <3>1 DEF Release
      <3>3. QED  BY <2>1, <3>1, <3>2 DEF loop
    <2>4. QED  BY <1>6, <2>2, <2>3 DEF Leave, Release, Goto
  <1>7. ASSUME NEW c \in Calls, Enter(c)  PROVE Counted'
    BY <1>7 DEF Enter, Event, Goto, loop
  <1>8. CASE Tick  BY <1>8 DEF Tick, loop
  <1>9. CASE UNCHANGED vars  BY <1>9 DEF vars, loop
  <1>10. QED
    BY <1>3, <1>4, <1>5, <1>6, <1>7, <1>8, <1>9, NextCases

LEMMA OpeningStays ==
    ASSUME IInv, [Next]_vars
    PROVE  OpenedByFailure'
  <1> USE DEF IInv, TypeOK, OpenedByFailure
  <1>1. ASSUME NEW c \in Calls, RetryOrFail(c) \/ Fail(c)
        PROVE  openedAt' <= failedAt' /\ failedAt' <= now
    <2>1. CASE UNCHANGED breaker
      BY <2>1 DEF breaker
    <2>2. CASE RecordFailure(c)
      <3>1. failedAt' = now /\ openedAt' \in {now, openedAt}
        BY <2>2 DEF RecordFailure
      <3>2. QED  BY <3>1
    <2>3. QED  BY <1>1, <2>1, <2>2 DEF RetryOrFail, Fail
  <1>2. ASSUME NEW c \in Calls, Inner(c)  PROVE OpenedByFailure'
    <2>1. now' = now
      BY <1>2, InnerMoves
    <2>2. openedAt' <= failedAt' /\ failedAt' <= now
      BY <1>1, <1>2 DEF Inner, RunEvent, Begin, Refuse, FetchFails, FetchThrows,
           Respond, BodyThrows, BodyArrives, Succeed, RecordSuccess, Shorten,
           Pause, breaker
    <2>3. QED  BY <2>1, <2>2
  <1>3. ASSUME NEW c \in Calls, Acquire(c) \/ Wake(c) \/ Leave(c) \/ Enter(c)
        PROVE  OpenedByFailure'
    BY <1>3 DEF Acquire, Wake, Leave, Enter, breaker
  <1>4. CASE Tick \/ UNCHANGED vars
    BY <1>4 DEF Tick, vars, breaker
  <1>5. QED  BY <1>2, <1>3, <1>4, NextCases

-----------------------------------------------------------------------------
LEMMA Invariance == Spec => []IInv
  <1>1. Init => IInv
    <2> SUFFICES ASSUME Init PROVE IInv
      OBVIOUS
    <2>1. TypeOK
      <3>1. pc \in [Calls -> Phases] /\ waiters \in Seq(Calls)
        BY DEF Init, Phases
      <3>2. Earlier \in Sample
        BY DEF Sample, Earlier
      <3>3. QED  BY <3>1, <3>2 DEF Init, TypeOK
    <2>2. JobOfPhase
      BY GateAssumption DEF Init, JobOfPhase, Jobs
    <2>3. Holding = {} /\ Woken = {}
      BY DEF Init, Holding, Woken, Waits, Bodies
    <2>4. PermitsConserved
      BY <2>3, FS_EmptySet DEF Init, PermitsConserved
    <2>5. GateFull /\ Ungated /\ WaitersWait
      BY <2>1, <2>3, GateAssumption
         DEF Init, TypeOK, GateFull, Claimed, Ungated, WaitersWait
    <2>6. Counted /\ OpenedByFailure
      BY GateAssumption DEF Init, Counted, CountedOf, OpenedByFailure, Waits, Bodies
    <2>7. QED  BY <2>1, <2>2, <2>4, <2>5, <2>6 DEF IInv
  <1>2. IInv /\ [Next]_vars => IInv'
    BY Typing, JobStays, GateKept, CountedStays, OpeningStays DEF IInv, Gate
  <1>3. QED  BY <1>1, <1>2, PTL DEF Spec

(* Every variable keeps its type, active among them: a permit is never     *)
(* given back twice.                                                       *)
THEOREM TypeCorrect == Spec => []TypeOK
  BY Invariance, PTL DEF IInv

(* Whichever way a call of embedBatch ends, it gives its permit back once. *)
THEOREM Permits == Spec => []PermitsConserved
  BY Invariance, PTL DEF IInv

(* No more requests are in flight than the semaphore has permits.          *)
THEOREM Limit == Spec => []LimitHolds
  <1>1. IInv => LimitHolds
    <2> SUFFICES ASSUME IInv, max > 0 PROVE Cardinality(Flying) <= max
      BY DEF LimitHolds
    <2>1. IsFiniteSet(Holding) /\ Flying \subseteq Holding
      BY FS_Subset, GateAssumption, Holding \subseteq Calls DEF Holding, Flying
    <2>2. /\ Cardinality(Flying) \in Nat
          /\ Cardinality(Flying) <= Cardinality(Holding)
      BY <2>1, FS_Subset, FS_CardinalityType
    <2>3. active <= max /\ active = Cardinality(Holding)
      BY GateAssumption DEF IInv, TypeOK, GateFull, Claimed, PermitsConserved
    <2>4. max \in Nat /\ active \in Nat
      BY GateAssumption DEF IInv, TypeOK
    <2>5. QED  BY <2>2, <2>3, <2>4
  <1>2. QED  BY <1>1, Invariance, PTL

(* acquire lets a call through at once only when nobody waits, and nobody  *)
(* who was woken has yet to run.                                           *)
THEOREM Order == Spec => ArrivalOrder
  <1> DEFINE A == \A c \in Calls :
                     max > 0 /\ pc[c] = "entering" /\ pc'[c] = "granted" =>
                         waiters = <<>> /\ \A d \in Calls : pc[d] # "woken"
  <1>1. IInv /\ [Next]_vars => A
    <2> SUFFICES ASSUME IInv, [Next]_vars, NEW c \in Calls,
                        max > 0, pc[c] = "entering", pc'[c] = "granted"
                 PROVE  waiters = <<>> /\ \A d \in Calls : pc[d] # "woken"
      OBVIOUS
    <2> USE DEF IInv, TypeOK
    <2>1. job = c /\ \A d \in Calls : pc[d] # "woken"
      BY DEF JobOfPhase, Jobs
    <2>2. Acquire(c)
      <3>1. ASSUME NEW d \in Calls, Inner(d)  PROVE FALSE
        BY <3>1, InnerMoves, <2>1 DEF Waits, Bodies
      <3>2. ASSUME NEW d \in Calls, Acquire(d)  PROVE d = c
        BY <3>2, <2>1 DEF Acquire, Job
      <3>3. ASSUME NEW d \in Calls, Wake(d)  PROVE FALSE
        BY <3>3, <2>1 DEF Wake, Job
      <3>4. ASSUME NEW d \in Calls, Leave(d)  PROVE FALSE
        BY <3>4, <2>1 DEF Leave, Job
      <3>5. ASSUME NEW d \in Calls, Enter(d)  PROVE FALSE
        BY <3>5, <2>1, GateAssumption DEF Enter, Event
      <3>6. CASE Tick \/ UNCHANGED vars
        BY <3>6 DEF Tick, vars
      <3>7. QED
        BY <3>1, <3>2, <3>3, <3>4, <3>5, <3>6, NextCases
    <2>3. active < max
      BY <2>2 DEF Acquire, Goto, Free
    <2>4. Woken = {}
      BY <2>1 DEF Woken
    <2>5. QED
      BY <2>1, <2>3, <2>4, GateAssumption DEF GateFull, Claimed
  <1>2. QED  BY <1>1, Invariance, PTL DEF Spec, ArrivalOrder

(* The loop of attempts ends: truncations and retries have their own ends. *)
THEOREM Bounded == Spec => []SendsBounded
  <1>1. IInv => SendsBounded
    <2> SUFFICES ASSUME IInv, NEW c \in Calls
                 PROVE  sent[c] <= 1 + MaxRetries + MaxTruncate
      BY DEF SendsBounded
    <2>1. /\ MaxRetries \in Nat /\ MaxTruncate \in Nat
          /\ attempt[c] \in Nat /\ truncated[c] \in Nat /\ sent[c] \in Nat
      BY GateAssumption DEF IInv, TypeOK
    <2>2. /\ attempt[c] <= MaxRetries /\ truncated[c] <= MaxTruncate
          /\ sent[c] = 0 \/ sent[c] = 1 + attempt[c] + truncated[c]
      BY DEF IInv, Counted, CountedOf
    <2>3. QED  BY <2>1, <2>2
  <1>2. QED  BY <1>1, Invariance, PTL

(* The breaker counts calls and not attempts.                              *)
THEOREM OneSample == Spec => []OneSamplePerCall
  <1>1. IInv => OneSamplePerCall
    BY DEF IInv, Counted, CountedOf, OneSamplePerCall
  <1>2. QED  BY <1>1, Invariance, PTL

(* allowRequest refuses for as long as the cool-down after a failure, and  *)
(* no longer.                                                              *)
THEOREM Refusals == Spec => RefusedForAFailure
  <1> DEFINE A == \A c \in Calls : pc[c] = "granted" /\ pc'[c] = "leaving" =>
                                       now < failedAt + OpenFor
  <1>1. IInv /\ [Next]_vars => A
    <2> SUFFICES ASSUME IInv, [Next]_vars, NEW c \in Calls,
                        pc[c] = "granted", pc'[c] = "leaving"
                 PROVE  now < failedAt + OpenFor
      OBVIOUS
    <2> USE DEF IInv, TypeOK
    <2>1. job = c
      BY DEF JobOfPhase, Jobs
    <2>2. Refuse(c)
      <3>1. ASSUME NEW d \in Calls, Inner(d)  PROVE Refuse(c)
        <4>1. d = c
          BY <3>1, InnerMoves
        <4>2. ~ Begin(c)
          BY <4>1 DEF Begin, Goto
        <4>3. ~ RunEvent(c)
          BY <2>1, GateAssumption DEF RunEvent, FetchFails, FetchThrows, Respond,
               BodyThrows, BodyArrives, Shorten, Pause, Event
        <4>4. QED  BY <3>1, <4>1, <4>2, <4>3 DEF Inner
      <3>2. ASSUME NEW d \in Calls, Acquire(d) \/ Wake(d) \/ Leave(d) \/ Enter(d)
            PROVE  FALSE
        BY <3>2, <2>1, GateAssumption DEF Acquire, Wake, Leave, Enter, Job, Event
      <3>3. CASE Tick \/ UNCHANGED vars
        BY <3>3 DEF Tick, vars
      <3>4. QED  BY <3>1, <3>2, <3>3, NextCases
    <2>3. now < openedAt + OpenFor
      BY SMTT(30), <2>2, GateAssumption DEF Refuse, AllowRequest
    <2>4. QED
      BY SMTT(30), <2>3, GateAssumption DEF OpenedByFailure
  <1>2. QED  BY <1>1, Invariance, PTL DEF Spec, RefusedForAFailure
=============================================================================
