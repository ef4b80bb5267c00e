----------------------------- MODULE EmbeddingGate -----------------------------
(***************************************************************************)
(* The embedding client (src/embeddings.ts): the semaphore in front of the *)
(* provider, the circuit breaker and the loop of attempts.  A call is one  *)
(* embedBatch.                                                             *)
(*                                                                         *)
(* One thread runs it, and the event loop takes the next event (a response *)
(* or a timer, or the end of the file I/O with which every handler begins) *)
(* when no continuation of a settled promise is left to run.  Each of      *)
(* those here settles at most one other promise, so that there is at most  *)
(* one left: job is the call it belongs to, and pc says which one it is.   *)
(***************************************************************************)
EXTENDS Integers, Sequences, FiniteSets

CONSTANTS
    Calls, Nobody,
    Limits,         \* the values maxConcurrency may have; 0 is no limit
    MaxRetries,
    MaxTruncate,
    WindowLen, OpenFor, MinSamples,     \* BreakerConfig
    ThresholdNum, ThresholdDen,         \* failureThreshold
    MaxTime         \* bound: the clock

ASSUME GateAssumption ==
    /\ IsFiniteSet(Calls) /\ Nobody \notin Calls
    /\ Limits \subseteq Nat
    /\ {MaxRetries, MaxTruncate, WindowLen, OpenFor, MinSamples, MaxTime} \subseteq Nat
    /\ {ThresholdNum, ThresholdDen} \subseteq Nat \ {0}

VARIABLES
    max,            \* maxConcurrency
    active, waiters,                    \* Semaphore
    state, openedAt, window,            \* CircuitBreaker
    now,
    job,
    pc,             \* [Calls -> Phases]
    attempt,        \* [Calls -> retries made]
    truncated,      \* [Calls -> truncateRetries]
    sent,           \* history: [Calls -> requests of a call that is in its loop]
    recorded,       \* history: [Calls -> outcomes given to the breaker]
    failedAt        \* history: the time of the last recorded failure

gate    == <<max, active, waiters>>
breaker == <<state, openedAt, window, failedAt>>
loop    == <<attempt, truncated, sent>>
vars    == <<gate, breaker, loop, now, job, pc, recorded>>

Jobs    == {"entering", "woken", "granted", "leaving"}
Bodies  == {"ok", "retryable", "tooLarge", "fatal"}  \* the body of such an answer is read
Waits   == {"fetch", "sleep"} \cup Bodies
Phases  == Jobs \cup Waits \cup {"idle", "waiting", "over"}
Sample  == [call : Calls \cup {Nobody}, nth : Nat, ok : BOOLEAN, ts : Nat]
Earlier == [call |-> Nobody, nth |-> 0, ok |-> FALSE, ts |-> 0]

(* The breaker is new, or was opened just now by the failure of a probe,   *)
(* when everything before that was older than its window.                  *)
Init ==
    /\ max \in Limits
    /\ active = 0 /\ waiters = <<>>
    /\ openedAt = 0
    /\ \/ state = "closed" /\ window = {}
       \/ state = "open" /\ window = {Earlier}
    /\ now = 0 /\ failedAt = 0
    /\ job = Nobody
    /\ pc = [c \in Calls |-> "idle"]
    /\ attempt = [c \in Calls |-> 0]
    /\ truncated = [c \in Calls |-> 0]
    /\ sent = [c \in Calls |-> 0]
    /\ recorded = [c \in Calls |-> 0]

-----------------------------------------------------------------------------
(* Continuations and events.                                               *)
Job(c, p)   == job = c /\ pc[c] = p
Event(c, p) == job = Nobody /\ pc[c] = p
Goto(c, p)  == pc' = [pc EXCEPT ![c] = p]

(* The breaker.  A sample carries its call, and how many that call gave    *)
(* before, to be told from others of the same instant.                     *)
Trimmed     == {e \in window : e.ts + WindowLen > now}
Failures(w) == Cardinality({e \in w : ~ e.ok})
Trips(w)    == /\ Cardinality(w) >= MinSamples
               /\ Failures(w) * ThresholdDen >= ThresholdNum * Cardinality(w)

AllowRequest_ByWindow == state # "open" \/ now >= openedAt + WindowLen      \* mutant
AllowRequest == state # "open" \/ now >= openedAt + OpenFor
Probing      == IF state = "open" THEN "half-open" ELSE state

With(c, ok) == Trimmed \cup {[call |-> c, nth |-> recorded[c], ok |-> ok, ts |-> now]}
RecordSuccess(c) ==
    /\ window' = With(c, TRUE)
    /\ state' = IF state = "half-open" THEN "closed" ELSE state
    /\ recorded' = [recorded EXCEPT ![c] = @ + 1]
    /\ UNCHANGED <<openedAt, failedAt>>
RecordFailure(c) ==
    LET opens == state = "half-open" \/ (state = "closed" /\ Trips(With(c, FALSE)))
    IN  /\ window' = With(c, FALSE)
        /\ state' = IF opens THEN "open" ELSE state
        /\ openedAt' = IF opens THEN now ELSE openedAt
        /\ recorded' = [recorded EXCEPT ![c] = @ + 1]
        /\ failedAt' = now

-----------------------------------------------------------------------------
(* A handler gets to its embedding.                                        *)
Enter(c) ==
    /\ Event(c, "idle")
    /\ Goto(c, "entering")
    /\ job' = c
    /\ UNCHANGED <<gate, breaker, loop, now, recorded>>

(* Semaphore.acquire, up to the await and from there.                      *)
Free_OffByOne == active <= max                                  \* mutant
Free          == active < max
Acquire(c) ==
    /\ Job(c, "entering")
    /\ IF max = 0 \/ Free
       THEN /\ active' = IF max = 0 THEN active ELSE active + 1
            /\ Goto(c, "granted")
            /\ UNCHANGED <<waiters, job>>
       ELSE /\ waiters' = Append(waiters, c)
            /\ Goto(c, "waiting")
            /\ job' = Nobody
            /\ UNCHANGED active
    /\ UNCHANGED <<max, breaker, loop, now, recorded>>
Wake(c) ==
    /\ Job(c, "woken")
    /\ active' = active + 1
    /\ Goto(c, "granted")
    /\ UNCHANGED <<max, waiters, breaker, loop, now, job, recorded>>

(* The finally of embedBatch: release.                                     *)
Release_WakesNobody(c) ==                                       \* mutant
    /\ active' = active - 1
    /\ Goto(c, "over")
    /\ job' = Nobody
    /\ UNCHANGED waiters
Release(c) ==
    /\ active' = active - 1
    /\ IF waiters = <<>>
       THEN /\ Goto(c, "over")
            /\ job' = Nobody
            /\ UNCHANGED waiters
       ELSE /\ pc' = [pc EXCEPT ![c] = "over", ![Head(waiters)] = "woken"]
            /\ job' = Head(waiters)
            /\ waiters' = Tail(waiters)
Leave(c) ==
    /\ Job(c, "leaving")
    /\ IF max = 0
       THEN Goto(c, "over") /\ job' = Nobody /\ UNCHANGED <<active, waiters>>
       ELSE Release(c)
    /\ UNCHANGED <<max, breaker, loop, now, recorded>>

-----------------------------------------------------------------------------
(* embedBatchInner asks the breaker once, before its first attempt.        *)
Send(c) == sent' = [sent EXCEPT ![c] = @ + 1]
Begin(c) ==
    /\ Job(c, "granted")
    /\ AllowRequest
    /\ state' = Probing
    /\ Goto(c, "fetch") /\ Send(c)
    /\ job' = Nobody
    /\ UNCHANGED <<gate, openedAt, window, failedAt, attempt, truncated, now, recorded>>
Refuse_KeepsPermit(c) ==                                        \* mutant
    /\ Job(c, "granted")
    /\ ~ AllowRequest
    /\ Goto(c, "over")
    /\ job' = Nobody
    /\ UNCHANGED <<gate, breaker, loop, now, recorded>>
Refuse(c) ==
    /\ Job(c, "granted")
    /\ ~ AllowRequest
    /\ Goto(c, "leaving")
    /\ UNCHANGED <<gate, breaker, loop, now, job, recorded>>

(* How an attempt ends: another one after a pause while there are retries  *)
(* left, or the end of the call and of its locals.                         *)
End(c) ==
    /\ Goto(c, "leaving")
    /\ job' = c
    /\ attempt' = [attempt EXCEPT ![c] = 0]
    /\ truncated' = [truncated EXCEPT ![c] = 0]
    /\ sent' = [sent EXCEPT ![c] = 0]
Succeed(c) == RecordSuccess(c) /\ End(c)
Fail(c)    == RecordFailure(c) /\ End(c)
RetryOrFail(c) ==
    IF attempt[c] < MaxRetries
    THEN Goto(c, "sleep") /\ UNCHANGED <<breaker, loop, recorded, job>>
    ELSE Fail(c)
Pause(c) ==
    /\ Event(c, "sleep")
    /\ attempt' = [attempt EXCEPT ![c] = @ + 1]
    /\ Goto(c, "fetch") /\ Send(c)
    /\ UNCHANGED <<gate, breaker, truncated, now, job, recorded>>

(* The fetch ends: a time-out or a transient error, any other error (also  *)
(* of the token exchange), or a status.                                    *)
FetchFails(c) ==
    /\ Event(c, "fetch")
    /\ RetryOrFail(c)
    /\ UNCHANGED <<gate, now>>
FetchThrows(c) ==
    /\ Event(c, "fetch")
    /\ Fail(c)
    /\ UNCHANGED <<gate, now>>
Respond(c) ==
    /\ Event(c, "fetch")
    /\ \E b \in Bodies : Goto(c, b)
    /\ UNCHANGED <<gate, breaker, loop, now, job, recorded>>

(* The body is read after the time-out was cleared; when that throws, the  *)
(* breaker hears nothing.  Vectors of a wrong dimension are as fatal as a  *)
(* status that is not retried.                                             *)
BodyThrows(c) ==
    /\ \E b \in Bodies : Event(c, b)
    /\ End(c)
    /\ UNCHANGED <<gate, breaker, now, recorded>>
BodyArrives(c) ==
    /\ \/ Event(c, "ok") /\ Succeed(c)
       \/ Event(c, "retryable") /\ RetryOrFail(c)
       \/ \E b \in {"tooLarge", "fatal"} : Event(c, b) /\ Fail(c)
    /\ UNCHANGED <<gate, now>>

(* A 413 on inputs that can still be cut is tried again with shorter ones; *)
(* that attempt is not counted.                                            *)
Shorten(c) ==
    /\ Event(c, "tooLarge") /\ truncated[c] < MaxTruncate
    /\ truncated' = [truncated EXCEPT ![c] = @ + 1]
    /\ Goto(c, "fetch") /\ Send(c)
    /\ UNCHANGED <<gate, breaker, attempt, now, job, recorded>>

Tick ==
    /\ now < MaxTime
    /\ now' = now + 1
    /\ UNCHANGED <<gate, breaker, loop, job, pc, recorded>>

RunJob == \E c \in Calls :
    Acquire(c) \/ Wake(c) \/ Begin(c) \/ Refuse(c) \/ Leave(c)
RunEvent(c) ==
    \/ FetchFails(c) \/ FetchThrows(c) \/ Respond(c)
    \/ BodyThrows(c) \/ BodyArrives(c) \/ Shorten(c)
    \/ Pause(c)

Next == RunJob \/ Tick \/ \E c \in Calls : Enter(c) \/ RunEvent(c)

Spec     == Init /\ [][Next]_vars
FairSpec == Spec /\ WF_vars(RunJob) /\ \A c \in Calls : WF_vars(RunEvent(c))

-----------------------------------------------------------------------------
Holding == {c \in Calls : pc[c] \in {"granted", "leaving"} \cup Waits}
Flying  == {c \in Calls : pc[c] \in Waits}

TypeOK ==
    /\ max \in Limits /\ active \in Nat /\ waiters \in Seq(Calls)
    /\ state \in {"closed", "open", "half-open"}
    /\ openedAt \in Nat /\ window \subseteq Sample
    /\ now \in Nat /\ failedAt \in Nat
    /\ job \in Calls \cup {Nobody}
    /\ pc \in [Calls -> Phases]
    /\ {attempt, truncated, sent, recorded} \subseteq [Calls -> Nat]

(* No permit is lost or made up, whichever way a call ends: when there is  *)
(* a limit, active counts the calls between acquire and release.           *)
PermitsConserved == max > 0 => active = Cardinality(Holding)

(* embeddings.ts:375, "no more than N embedding requests are ever in       *)
(* flight".  release frees the permit before the waiter it wakes takes it, *)
(* so this rests on no call entering in between.                           *)
LimitHolds == max > 0 => Cardinality(Flying) <= max

(* "in arrival order": nobody gets a permit past a call that waits, or was *)
(* woken and has not run yet.                                              *)
ArrivalOrder ==
    [][\A c \in Calls : max > 0 /\ pc[c] = "entering" /\ pc'[c] = "granted" =>
          waiters = <<>> /\ \A d \in Calls : pc[d] # "woken"]_vars

(* The two kinds of repetition do not feed each other: a call sends at     *)
(* most its attempts and its truncations.                                  *)
SendsBounded ==
    \A c \in Calls : sent[c] <= 1 + MaxRetries + MaxTruncate

(* A call is at most one sample of the breaker, however often it was tried.*)
OneSamplePerCall == \A c \in Calls : recorded[c] <= 1

(* Whoever is refused owes it to a failure that was recorded less than the *)
(* cool-down ago.                                                          *)
RefusedForAFailure ==
    [][\A c \in Calls : pc[c] = "granted" /\ pc'[c] = "leaving" =>
          now < failedAt + OpenFor]_vars

(* Every call gets its turn and ends, however the provider answers.        *)
CallsEnd == \A c \in Calls : pc[c] = "entering" ~> pc[c] = "over"
=============================================================================
