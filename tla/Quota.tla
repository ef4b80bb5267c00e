-------------------------------- MODULE Quota --------------------------------
(***************************************************************************)
(* The per-namespace quota of shared-agents-memory: QuotaService           *)
(* (src/quota/quota-service.ts) and the two callers that use it, the       *)
(* memory_store and memory_search handlers (src/memory/tools.ts).          *)
(*                                                                         *)
(* One namespace: locks and files of different namespaces are disjoint.    *)
(* Every await of the code is a step boundary: the count of live points,   *)
(* the queue for the promise-chain lock, the read of _quota.json, its      *)
(* rename into place.  A call is one request of either handler.            *)
(***************************************************************************)
EXTENDS Integers, Sequences, FiniteSets

CONSTANTS
    Calls,          \* requests, each made at most once
    WriteCalls,     \* those that are memory_store; the rest are memory_search
    Tokens,         \* [Calls -> Nat], the token estimate of each
    DailyWrites, DailySearches, DailyTokens, MaxMemories,
    MaxDay,         \* bound on the clock
    MaxCrashes      \* bound on restarts of the process

ASSUME CallsAssumption ==
    /\ WriteCalls \subseteq Calls
    /\ Tokens \in [Calls -> Nat]
ASSUME CapsAssumption ==
    /\ DailyWrites \in Nat
    /\ DailySearches \in Nat
    /\ DailyTokens \in Nat
    /\ MaxMemories \in Nat
ASSUME BoundsAssumption ==
    /\ MaxDay \in Nat
    /\ MaxCrashes \in Nat

VARIABLES
    day, file,      \* as in QuotaCounter
    queue,          \* calls waiting for the namespace lock; the head holds it
    loaded,         \* [Calls -> usage the lock holder has read, or NotLoaded]
    pc,             \* where each call is
    count,          \* [Calls -> point count read before reserve, or NotLoaded]
    points,         \* live points of the namespace in Qdrant
    crashes,
    charge,         \* history: the day each call's reservation stands in, or NoDay
    astray          \* history: refunds that were taken from another day's usage

vars == <<day, file, queue, loaded, pc, count, points, crashes, charge, astray>>

TokenCosts == {Tokens[c] : c \in Calls}
Counter == INSTANCE QuotaCounter

NoDay == Counter!NoDay
Days  == Counter!Days
Usage == [writes : Nat, searches : Nat, tokens : Nat, reset : Days \cup {NoDay}]
NotLoaded == Counter!Fresh(-2)
NotCounted == -1

Kind(c) == IF c \in WriteCalls THEN "write" ELSE "search"

Phases == {"idle", "counting", "reserving", "running", "releasing",
           "done", "rejected", "failed", "lost"}
Waiting == {"reserving", "releasing"}
Over    == {"done", "rejected", "failed", "lost"}

-----------------------------------------------------------------------------
Init ==
    /\ day = 0
    /\ file \in {Counter!Fresh(0), Counter!Fresh(NoDay)}
    /\ queue = <<>>
    /\ loaded = [c \in Calls |-> NotLoaded]
    /\ pc = [c \in Calls |-> "idle"]
    /\ count = [c \in Calls |-> NotCounted]
    /\ points = 0
    /\ crashes = 0
    /\ charge = [c \in Calls |-> NoDay]
    /\ astray = 0

(* withLock: the chain is first come first served, its head runs.          *)
HasLock_NoMutex(c) == \E i \in 1..Len(queue) : queue[i] = c      \* mutant
HasLock(c) == queue # <<>> /\ Head(queue) = c
Enqueue(c) == queue' = Append(queue, c)

(* The critical section of c ends, by a result or by an error, with the    *)
(* lock passed on: next.catch keeps the chain going.                       *)
Unlock(c) ==
    /\ queue' = Tail(queue)
    /\ loaded' = [loaded EXCEPT ![c] = NotLoaded]

Goto(c, p) == pc' = [pc EXCEPT ![c] = p]

-----------------------------------------------------------------------------
(* memory_store asks Qdrant how many points the namespace has, outside any *)
(* lock, before it reserves.                                               *)
CountMemories(c) ==
    /\ pc[c] = "idle" /\ c \in WriteCalls
    /\ count' = [count EXCEPT ![c] = points]
    /\ Goto(c, "counting")
    /\ UNCHANGED <<day, file, queue, loaded, points, crashes, charge, astray>>

(* quota.reserve is called and takes its place in the chain.               *)
RequestReserve(c) ==
    /\ pc[c] = IF c \in WriteCalls THEN "counting" ELSE "idle"
    /\ Enqueue(c)
    /\ Goto(c, "reserving")
    /\ UNCHANGED <<day, file, loaded, count, points, crashes, charge, astray>>

(* The lock holder reads _quota.json; a file of another day, absent or     *)
(* corrupt reads as an empty usage stamped with the current day.           *)
Load(c) ==
    /\ HasLock(c)
    /\ loaded[c] = NotLoaded
    /\ loaded' = [loaded EXCEPT ![c] = Counter!LoadedOn(file, day)]
    /\ UNCHANGED <<day, file, queue, pc, count, points, crashes, charge, astray>>

(* assertWithinQuota for c on the usage it has loaded.                     *)
WithinQuota(c) ==
    /\ Counter!DailyQuotaAllows(loaded[c], Kind(c), Tokens[c])
    /\ c \in WriteCalls => count[c] < MaxMemories

InSection(c, phase) == HasLock(c) /\ loaded[c] # NotLoaded /\ pc[c] = phase

ReserveSave(c) ==
    /\ InSection(c, "reserving")
    /\ WithinQuota(c)
    /\ file' = Counter!Increment(loaded[c], Kind(c), Tokens[c])
    /\ charge' = [charge EXCEPT ![c] = loaded[c].reset]
    /\ Unlock(c)
    /\ Goto(c, "running")
    /\ UNCHANGED <<day, count, points, crashes, astray>>

ReserveReject(c) ==
    /\ InSection(c, "reserving")
    /\ ~ WithinQuota(c)
    /\ Unlock(c)
    /\ Goto(c, "rejected")
    /\ UNCHANGED <<day, file, count, points, crashes, charge, astray>>

(* The read, the write or the rename throws (the directory was moved away, *)
(* the disk is full): nothing is saved and the error reaches the caller.   *)
SectionFails_KeepsLock(c) ==                                   \* mutant
    /\ HasLock(c)
    /\ Goto(c, "failed")
    /\ UNCHANGED <<day, file, queue, loaded, count, points, crashes, charge, astray>>
SectionFails(c) ==
    /\ HasLock(c)
    /\ Unlock(c)
    /\ Goto(c, "failed")
    /\ UNCHANGED <<day, file, count, points, crashes, charge, astray>>

-----------------------------------------------------------------------------
(* The reserved work: a search never refunds; a store keeps the charge     *)
(* when it inserted a point, and refunds it when it deduplicated or threw. *)
SearchReturns(c) ==
    /\ pc[c] = "running" /\ c \notin WriteCalls
    /\ Goto(c, "done")
    /\ UNCHANGED <<day, file, queue, loaded, count, points, crashes, charge, astray>>

StoreInserts(c) ==
    /\ pc[c] = "running" /\ c \in WriteCalls
    /\ points' = points + 1
    /\ Goto(c, "done")
    /\ UNCHANGED <<day, file, queue, loaded, count, crashes, charge, astray>>

StoreInsertsNothing(c) ==
    /\ pc[c] = "running" /\ c \in WriteCalls
    /\ Enqueue(c)
    /\ Goto(c, "releasing")
    /\ UNCHANGED <<day, file, loaded, count, points, crashes, charge, astray>>

(* markSuperseded threw after the upsert: the point is there, and the      *)
(* handler, which takes every error for "nothing persisted", refunds it.   *)
StoreInsertsThenThrows(c) ==
    /\ pc[c] = "running" /\ c \in WriteCalls
    /\ points' = points + 1
    /\ Enqueue(c)
    /\ Goto(c, "releasing")
    /\ UNCHANGED <<day, file, loaded, count, crashes, charge, astray>>

ReleaseSave(c) ==
    /\ InSection(c, "releasing")
    /\ file' = Counter!Decrement(loaded[c], Kind(c), Tokens[c])
    /\ charge' = [charge EXCEPT ![c] = IF @ = loaded[c].reset THEN NoDay ELSE @]
    /\ astray' = IF charge[c] = loaded[c].reset THEN astray ELSE astray + 1
    /\ Unlock(c)
    /\ Goto(c, "done")
    /\ UNCHANGED <<day, count, points, crashes>>

-----------------------------------------------------------------------------
(* A point leaves the collection: an operator purge or the decay sweep.    *)
PointRemoved ==
    /\ points > 0
    /\ points' = points - 1
    /\ UNCHANGED <<day, file, queue, loaded, pc, count, crashes, charge, astray>>

Midnight ==
    /\ day < MaxDay
    /\ day' = day + 1
    /\ UNCHANGED <<file, queue, loaded, pc, count, points, crashes, charge, astray>>

(* The process dies: requests and the lock chain are gone, the file stays. *)
(* Its write goes to a temporary name first, so it is never half written.  *)
Crash ==
    /\ crashes < MaxCrashes
    /\ crashes' = crashes + 1
    /\ queue' = <<>>
    /\ loaded' = [c \in Calls |-> NotLoaded]
    /\ pc' = [c \in Calls |-> IF pc[c] \in Over \cup {"idle"} THEN pc[c] ELSE "lost"]
    /\ UNCHANGED <<day, file, count, points, charge, astray>>

Section(c) == \/ Load(c) \/ ReserveSave(c) \/ ReserveReject(c)
              \/ SectionFails(c) \/ ReleaseSave(c)
Work(c)    == SearchReturns(c) \/ StoreInserts(c)
              \/ StoreInsertsNothing(c) \/ StoreInsertsThenThrows(c)

Next == \/ \E c \in Calls : \/ CountMemories(c)
                            \/ RequestReserve(c)
                            \/ Section(c)
                            \/ Work(c)
        \/ PointRemoved
        \/ Midnight
        \/ Crash

Spec == Init /\ [][Next]_vars

(* I/O completes or fails, and the work of a call ends.                    *)
FairSpec == Spec /\ \A c \in Calls : WF_vars(Section(c)) /\ WF_vars(Work(c))

-----------------------------------------------------------------------------
TypeOK ==
    /\ day \in Days
    /\ file \in Usage
    /\ queue \in Seq(Calls)
    /\ loaded \in [Calls -> Usage \cup {NotLoaded}]
    /\ pc \in [Calls -> Phases]
    /\ count \in [Calls -> Nat \cup {NotCounted}]
    /\ points \in Nat
    /\ crashes \in 0..MaxCrashes
    /\ charge \in [Calls -> Days \cup {NoDay}]
    /\ astray \in Nat

(* However many calls are between the check and the increment, and         *)
(* whatever fails, is refunded or crashes between, the persisted counters  *)
(* never pass a daily cap: reserve closes the check-to-record gap          *)
(* (quota-service.ts, reserve).                                            *)
WithinCaps ==
    /\ file.writes <= DailyWrites
    /\ file.searches <= DailySearches
    /\ file.tokens <= DailyTokens

(* The persisted write counter equals the reservations that stand in its   *)
(* day, short only of the refunds that crossed midnight: no write is ever  *)
(* charged without a reservation behind it (a failed or deduplicated store *)
(* cannot wedge the budget), and no increment is lost.                     *)
Standing(d) == {c \in WriteCalls : charge[c] = d}
ChargesAccountedFor ==
    file.reset # NoDay =>
        /\ file.writes <= Cardinality(Standing(file.reset))
        /\ Cardinality(Standing(file.reset)) <= file.writes + astray

(* Two calls are never in the critical section at once, and what the one   *)
(* in it has read is still what is stored.                                 *)
SnapshotCurrent ==
    \A c \in Calls : loaded[c] # NotLoaded =>
        /\ HasLock(c)
        /\ loaded[c] = Counter!LoadedOn(file, loaded[c].reset)

(* The lock makes each reserve and each release one step of the counter.   *)
ImplementsCounter == Counter!Spec

(* No call waits for the lock for ever, whichever calls before it failed.  *)
LockIsPassedOn == \A c \in Calls : pc[c] \in Waiting ~> pc[c] \notin Waiting

=============================================================================
