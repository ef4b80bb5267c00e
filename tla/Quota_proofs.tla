---------------------------- MODULE Quota_proofs ----------------------------
(***************************************************************************)
(* Proofs about Quota for any number of calls, any caps and any bounds.    *)
(***************************************************************************)
EXTENDS Quota, FiniteSetTheorems, TLAPS

(* The lock holder's snapshot is dated between the file and the clock.     *)
DatesOrdered ==
    /\ file.reset <= day
    /\ \A c \in Calls : loaded[c] # NotLoaded =>
            /\ loaded[c].reset \in Days
            /\ file.reset <= loaded[c].reset /\ loaded[c].reset <= day

(* The inductive invariant: mutual exclusion and the currency of the       *)
(* holder's snapshot are what keeps an increment within the caps.          *)
IInv == TypeOK /\ SnapshotCurrent /\ DatesOrdered /\ WithinCaps

-----------------------------------------------------------------------------
(* What a load returns is a usage of the day it was made on.               *)
LEMMA LoadedOnType ==
    ASSUME NEW f \in Usage, NEW d \in Days
    PROVE  /\ Counter!LoadedOn(f, d) \in Usage
           /\ Counter!LoadedOn(f, d).reset = d
           /\ Counter!LoadedOn(f, d) # NotLoaded
           /\ Counter!LoadedOn(f, d) = f \/ Counter!LoadedOn(f, d) = Counter!Fresh(d)
BY BoundsAssumption DEF Usage, Days, Counter!Days, Counter!LoadedOn, Counter!Fresh,
   NotLoaded, NoDay, Counter!NoDay

(* Incrementing keeps a usage a usage of the same day.                     *)
LEMMA IncrementType ==
    ASSUME NEW f \in Usage, NEW k, NEW t \in Nat
    PROVE  /\ Counter!Increment(f, k, t) \in Usage
           /\ Counter!Increment(f, k, t).reset = f.reset
BY DEF Usage, Counter!Increment, Counter!Bump

(* Decrementing is clamped: the result is still a usage of the same day,   *)
(* and no counter grows.                                                   *)
LEMMA DecrementType ==
    ASSUME NEW f \in Usage, NEW k, NEW t \in Nat
    PROVE  /\ Counter!Decrement(f, k, t) \in Usage
           /\ Counter!Decrement(f, k, t).reset = f.reset
           /\ Counter!Decrement(f, k, t).writes <= f.writes
           /\ Counter!Decrement(f, k, t).searches <= f.searches
           /\ Counter!Decrement(f, k, t).tokens <= f.tokens
BY DEF Usage, Counter!Decrement, Counter!Drop

(* A charge that the daily quota allows stays within the caps.             *)
LEMMA IncrementWithinCaps ==
    ASSUME NEW f \in Usage, NEW k, NEW t \in Nat,
           Counter!DailyQuotaAllows(f, k, t),
           f.writes <= DailyWrites, f.searches <= DailySearches
    PROVE  /\ Counter!Increment(f, k, t).writes <= DailyWrites
           /\ Counter!Increment(f, k, t).searches <= DailySearches
           /\ Counter!Increment(f, k, t).tokens <= DailyTokens
BY CapsAssumption DEF Usage, Counter!Increment, Counter!Bump, Counter!DailyQuotaAllows

(* Only the head of the chain can have a snapshot, so when it leaves no    *)
(* call has one.                                                           *)
LEMMA OnlyHolderLoaded ==
    ASSUME TypeOK, SnapshotCurrent, NEW c \in Calls, HasLock(c), Unlock(c)
    PROVE  /\ \A d \in Calls : loaded'[d] = NotLoaded
           /\ loaded' \in [Calls -> Usage \cup {NotLoaded}]
           /\ queue' \in Seq(Calls)
<1>1. ASSUME NEW d \in Calls, d # c PROVE loaded[d] = NotLoaded
  BY <1>1 DEF SnapshotCurrent, HasLock
<1>2. loaded \in [Calls -> Usage \cup {NotLoaded}]
  BY DEF TypeOK
<1>3. loaded' = [loaded EXCEPT ![c] = NotLoaded]
  BY DEF Unlock
<1>4. queue \in Seq(Calls) /\ queue # <<>> /\ queue' = Tail(queue)
  BY DEF TypeOK, HasLock, Unlock
<1>5. queue' \in Seq(Calls)
  BY <1>4
<1> QED
  BY <1>1, <1>2, <1>3, <1>5

-----------------------------------------------------------------------------
LEMMA InitIInv == Init => IInv
<1> SUFFICES ASSUME Init PROVE IInv
  OBVIOUS
<1>1. file \in Usage
  BY BoundsAssumption DEF Init, Usage, Counter!Fresh, NoDay, Counter!NoDay, Days, Counter!Days
<1>2. TypeOK
  BY <1>1, BoundsAssumption DEF Init, TypeOK, Days, Counter!Days, NoDay, Counter!NoDay,
     Phases, NotCounted
<1>3. SnapshotCurrent /\ DatesOrdered /\ WithinCaps
  BY CapsAssumption DEF Init, SnapshotCurrent, DatesOrdered, WithinCaps, Counter!Fresh,
     NoDay, Counter!NoDay
<1> QED
  BY <1>2, <1>3 DEF IInv

(* The steps that leave the file, the clock and the snapshots alone.       *)
LEMMA QuietStep ==
    ASSUME IInv, UNCHANGED <<day, file, loaded>>, TypeOK',
           queue' = queue \/ \E c \in Calls : Enqueue(c)
    PROVE  IInv'
<1>1. ASSUME NEW d \in Calls, loaded[d] # NotLoaded
      PROVE  HasLock(d)'
  <2>1. queue \in Seq(Calls) /\ queue # <<>> /\ Head(queue) = d
    BY <1>1 DEF IInv, TypeOK, SnapshotCurrent, HasLock
  <2>2. CASE queue' = queue
    BY <2>1, <2>2 DEF HasLock
  <2>3. CASE \E c \in Calls : Enqueue(c)
    <3> PICK c \in Calls : queue' = Append(queue, c)
      BY <2>3 DEF Enqueue
    <3>1. queue' # <<>> /\ Head(queue') = Head(queue)
      BY <2>1
    <3> QED
      BY <2>1, <3>1 DEF HasLock
  <2> QED
    BY <2>2, <2>3
<1>2. SnapshotCurrent'
  BY <1>1 DEF IInv, SnapshotCurrent
<1> QED
  BY <1>2 DEF IInv, DatesOrdered, WithinCaps

(* The steps with which the holder leaves its section, given what it did   *)
(* to the file.                                                            *)
LEMMA LeaveStep ==
    ASSUME IInv, TypeOK', NEW c \in Calls, HasLock(c), Unlock(c), day' = day,
           file'.reset <= day, WithinCaps'
    PROVE  IInv'
<1>1. \A d \in Calls : loaded'[d] = NotLoaded
  BY OnlyHolderLoaded DEF IInv
<1> QED
  BY <1>1 DEF IInv, SnapshotCurrent, DatesOrdered

LEMMA NextIInv == IInv /\ [Next]_vars => IInv'
<1> SUFFICES ASSUME IInv, [Next]_vars PROVE IInv'
  OBVIOUS
<1> USE DEF Goto
<1>0. TypeOK /\ SnapshotCurrent /\ DatesOrdered /\ WithinCaps
  BY DEF IInv
<1>t. \A c \in Calls : Tokens[c] \in Nat
  BY CallsAssumption
<1>1. ASSUME NEW c \in Calls, CountMemories(c) PROVE IInv'
  <2>1. TypeOK'
    BY <1>0, <1>1 DEF CountMemories, TypeOK, Phases
  <2> QED
    BY <1>1, <2>1, QuietStep DEF CountMemories
<1>2. ASSUME NEW c \in Calls, RequestReserve(c) PROVE IInv'
  <2>1. TypeOK'
    BY <1>0, <1>2 DEF RequestReserve, TypeOK, Phases, Enqueue
  <2> QED
    BY <1>2, <2>1, QuietStep DEF RequestReserve
<1>3. ASSUME NEW c \in Calls, Load(c) PROVE IInv'
  <2> DEFINE u == Counter!LoadedOn(file, day)
  <2>1. u \in Usage /\ u.reset = day /\ u # NotLoaded /\ (u = file \/ u = Counter!Fresh(day))
    BY <1>0, LoadedOnType DEF TypeOK
  <2> HIDE DEF u
  <2>2. loaded' = [loaded EXCEPT ![c] = u] /\ UNCHANGED <<day, file, queue>>
    BY <1>3 DEF Load, u
  <2>3. TypeOK'
    BY <1>0, <1>3, <2>1, <2>2 DEF Load, TypeOK
  <2>4. u = Counter!LoadedOn(file, u.reset)
    BY <2>1 DEF u
  <2>5. SnapshotCurrent'
    BY <1>0, <1>3, <2>1, <2>2, <2>4 DEF Load, SnapshotCurrent, HasLock, TypeOK
  <2>6. DatesOrdered'
    BY <1>0, <2>1, <2>2, BoundsAssumption DEF DatesOrdered, TypeOK, Days, Counter!Days
  <2> QED
    BY <1>0, <2>2, <2>3, <2>5, <2>6 DEF IInv, WithinCaps
<1>4. ASSUME NEW c \in Calls, ReserveSave(c) PROVE IInv'
  <2>1. HasLock(c) /\ Unlock(c) /\ loaded[c] # NotLoaded /\ day' = day
    BY <1>4 DEF ReserveSave, InSection
  <2>2. loaded[c] \in Usage /\ loaded[c] = Counter!LoadedOn(file, loaded[c].reset)
    BY <1>0, <2>1 DEF TypeOK, SnapshotCurrent
  <2>3. loaded[c].writes <= DailyWrites /\ loaded[c].searches <= DailySearches
    BY <1>0, <2>2, CapsAssumption DEF WithinCaps, Counter!LoadedOn, Counter!Fresh
  <2>4. file' = Counter!Increment(loaded[c], Kind(c), Tokens[c])
    BY <1>4 DEF ReserveSave
  <2>5. file' \in Usage /\ file'.reset = loaded[c].reset
    BY <1>t, <2>2, <2>4, IncrementType
  <2>6. Counter!DailyQuotaAllows(loaded[c], Kind(c), Tokens[c])
    BY <1>4 DEF ReserveSave, WithinQuota
  <2>7. WithinCaps'
    BY <1>t, <2>2, <2>3, <2>4, <2>6, IncrementWithinCaps DEF WithinCaps
  <2>8. loaded[c].reset \in Days \cup {NoDay}
    BY <2>2 DEF Usage
  <2>9. TypeOK'
    BY <1>0, <1>4, <2>1, <2>5, <2>8, OnlyHolderLoaded DEF ReserveSave, TypeOK, Phases
  <2> QED
    BY <1>0, <2>1, <2>5, <2>7, <2>9, LeaveStep DEF DatesOrdered
<1>5. ASSUME NEW c \in Calls, ReserveReject(c) PROVE IInv'
  <2>1. HasLock(c) /\ Unlock(c)
    BY <1>5 DEF ReserveReject, InSection
  <2>2. TypeOK'
    BY <1>0, <1>5, <2>1, OnlyHolderLoaded DEF ReserveReject, TypeOK, Phases
  <2> QED
    BY <1>0, <1>5, <2>1, <2>2, LeaveStep DEF ReserveReject, DatesOrdered, WithinCaps
<1>6. ASSUME NEW c \in Calls, SectionFails(c) PROVE IInv'
  <2>1. HasLock(c) /\ Unlock(c)
    BY <1>6 DEF SectionFails
  <2>2. TypeOK'
    BY <1>0, <1>6, <2>1, OnlyHolderLoaded DEF SectionFails, TypeOK, Phases
  <2> QED
    BY <1>0, <1>6, <2>1, <2>2, LeaveStep DEF SectionFails, DatesOrdered, WithinCaps
<1>7. ASSUME NEW c \in Calls, ReleaseSave(c) PROVE IInv'
  <2>1. HasLock(c) /\ Unlock(c) /\ loaded[c] # NotLoaded /\ day' = day
    BY <1>7 DEF ReleaseSave, InSection
  <2>2. loaded[c] \in Usage /\ loaded[c] = Counter!LoadedOn(file, loaded[c].reset)
    BY <1>0, <2>1 DEF TypeOK, SnapshotCurrent
  <2>3. /\ loaded[c].writes <= DailyWrites /\ loaded[c].searches <= DailySearches
        /\ loaded[c].tokens <= DailyTokens
    BY <1>0, <2>2, CapsAssumption DEF WithinCaps, Counter!LoadedOn, Counter!Fresh
  <2>4. file' = Counter!Decrement(loaded[c], Kind(c), Tokens[c])
    BY <1>7 DEF ReleaseSave
  <2>5. /\ file' \in Usage /\ file'.reset = loaded[c].reset
        /\ file'.writes <= loaded[c].writes /\ file'.searches <= loaded[c].searches
        /\ file'.tokens <= loaded[c].tokens
    BY <1>t, <2>2, <2>4, DecrementType
  <2>6. WithinCaps'
    BY <2>2, <2>3, <2>5, CapsAssumption DEF WithinCaps, Usage
  <2>7. TypeOK'
    BY <1>0, <1>7, <2>1, <2>5, OnlyHolderLoaded DEF ReleaseSave, TypeOK, Phases
  <2> QED
    BY <1>0, <2>1, <2>5, <2>6, <2>7, LeaveStep DEF DatesOrdered
<1>8. ASSUME NEW c \in Calls, SearchReturns(c) PROVE IInv'
  <2>1. TypeOK'
    BY <1>0, <1>8 DEF SearchReturns, TypeOK, Phases
  <2> QED
    BY <1>8, <2>1, QuietStep DEF SearchReturns
<1>9. ASSUME NEW c \in Calls, StoreInserts(c) PROVE IInv'
  <2>1. TypeOK'
    BY <1>0, <1>9 DEF StoreInserts, TypeOK, Phases
  <2> QED
    BY <1>9, <2>1, QuietStep DEF StoreInserts
<1>10. ASSUME NEW c \in Calls, StoreInsertsNothing(c) PROVE IInv'
  <2>1. TypeOK'
    BY <1>0, <1>10 DEF StoreInsertsNothing, TypeOK, Phases, Enqueue
  <2> QED
    BY <1>10, <2>1, QuietStep DEF StoreInsertsNothing
<1>11. ASSUME NEW c \in Calls, StoreInsertsThenThrows(c) PROVE IInv'
  <2>1. TypeOK'
    BY <1>0, <1>11 DEF StoreInsertsThenThrows, TypeOK, Phases, Enqueue
  <2> QED
    BY <1>11, <2>1, QuietStep DEF StoreInsertsThenThrows
<1>12. CASE PointRemoved
  <2>1. TypeOK'
    BY <1>0, <1>12 DEF PointRemoved, TypeOK
  <2> QED
    BY <1>12, <2>1, QuietStep DEF PointRemoved
<1>13. CASE Midnight
  <2>1. TypeOK' /\ day < day' /\ UNCHANGED <<file, queue, loaded>>
    BY <1>0, <1>13, BoundsAssumption DEF Midnight, TypeOK, Days, Counter!Days
  <2>2. day \in Nat /\ day' \in Nat
    BY <1>0, <2>1, BoundsAssumption DEF TypeOK, Days, Counter!Days
  <2>3. /\ \A c \in Calls : loaded[c].reset \in Int
        /\ file.reset \in Int
    BY <1>0, BoundsAssumption DEF TypeOK, Usage, NotLoaded, Counter!Fresh, Days, Counter!Days,
       NoDay, Counter!NoDay
  <2>4. DatesOrdered'
    BY <1>0, <2>1, <2>2, <2>3 DEF DatesOrdered
  <2> QED
    BY <1>0, <2>1, <2>4 DEF IInv, SnapshotCurrent, HasLock, WithinCaps
<1>14. CASE Crash
  <2>1. TypeOK'
    BY <1>0, <1>14, BoundsAssumption DEF Crash, TypeOK, Phases, Over
  <2>2. (\A c \in Calls : loaded'[c] = NotLoaded) /\ UNCHANGED <<day, file>>
    BY <1>14 DEF Crash
  <2> QED
    BY <1>0, <2>1, <2>2 DEF IInv, SnapshotCurrent, DatesOrdered, WithinCaps
<1>15. CASE UNCHANGED vars
  <2>1. TypeOK'
    BY <1>0, <1>15 DEF vars, TypeOK
  <2> QED
    BY <1>15, <2>1, QuietStep DEF vars
<1> QED
  BY <1>1, <1>2, <1>3, <1>4, <1>5, <1>6, <1>7, <1>8, <1>9, <1>10, <1>11, <1>12, <1>13,
     <1>14, <1>15 DEF Next, Section, Work

-----------------------------------------------------------------------------
(* The inductive invariant holds in every reachable state.                 *)
THEOREM Invariance == Spec => []IInv
BY InitIInv, NextIInv, PTL DEF Spec

(* Whatever the callers, the midnights, the I/O errors and the crashes,    *)
(* the persisted counters stay within the daily caps (quota-service.ts,    *)
(* reserve).                                                               *)
THEOREM CapsHold == Spec => []WithinCaps
<1>1. IInv => WithinCaps
  BY DEF IInv
<1> QED
  BY <1>1, Invariance, PTL

(* The promise chain gives mutual exclusion, and a holder always works on  *)
(* what is stored (quota-service.ts, withLock).                            *)
THEOREM NoLostUpdate == Spec => []SnapshotCurrent
<1>1. IInv => SnapshotCurrent
  BY DEF IInv
<1> QED
  BY <1>1, Invariance, PTL

(* Every variable of the quota service keeps to its type: no counter is    *)
(* ever negative.                                                          *)
THEOREM TypeCorrect == Spec => []TypeOK
<1>1. IInv => TypeOK
  BY DEF IInv
<1> QED
  BY <1>1, Invariance, PTL

-----------------------------------------------------------------------------
LEMMA InitRefines == Init => Counter!Init
BY DEF Init, Counter!Init, NoDay

(* Each save is one step of the abstract counter; nothing else touches it. *)
LEMMA NextRefines == IInv /\ [Next]_vars => [Counter!Next]_<<file, day>>
<1> SUFFICES ASSUME IInv, [Next]_vars PROVE [Counter!Next]_<<file, day>>
  OBVIOUS
<1>1. ASSUME NEW c \in Calls, loaded[c] # NotLoaded
      PROVE  /\ loaded[c].reset \in Days
             /\ loaded[c] = Counter!LoadedOn(file, loaded[c].reset)
             /\ file.reset <= loaded[c].reset /\ loaded[c].reset <= day
             /\ Tokens[c] \in TokenCosts
             /\ Kind(c) \in Counter!Kinds
  <2>1. loaded[c] = Counter!LoadedOn(file, loaded[c].reset)
    BY <1>1 DEF IInv, SnapshotCurrent
  <2>2. /\ loaded[c].reset \in Days
        /\ file.reset <= loaded[c].reset /\ loaded[c].reset <= day
    BY <1>1 DEF IInv, DatesOrdered
  <2>3. Tokens[c] \in TokenCosts /\ Kind(c) \in Counter!Kinds
    BY DEF TokenCosts, Kind, Counter!Kinds
  <2> QED
    BY <2>1, <2>2, <2>3
<1>2. ASSUME NEW c \in Calls, ReserveSave(c) PROVE Counter!Next
  <2>1. loaded[c] # NotLoaded /\ UNCHANGED day
        /\ Counter!DailyQuotaAllows(loaded[c], Kind(c), Tokens[c])
        /\ file' = Counter!Increment(loaded[c], Kind(c), Tokens[c])
    BY <1>2 DEF ReserveSave, InSection, WithinQuota
  <2>2. Counter!Charge(Kind(c), Tokens[c], loaded[c].reset)
    BY <1>1, <2>1 DEF Counter!Charge
  <2> QED
    BY <1>1, <2>1, <2>2 DEF Counter!Next, Days
<1>3. ASSUME NEW c \in Calls, ReleaseSave(c) PROVE Counter!Next
  <2>1. loaded[c] # NotLoaded /\ UNCHANGED day
        /\ file' = Counter!Decrement(loaded[c], Kind(c), Tokens[c])
    BY <1>3 DEF ReleaseSave, InSection
  <2>2. Counter!Refund(Kind(c), Tokens[c], loaded[c].reset)
    BY <1>1, <2>1 DEF Counter!Refund
  <2> QED
    BY <1>1, <2>1, <2>2 DEF Counter!Next, Days
<1>4. CASE Midnight
  BY <1>4 DEF Midnight, Counter!Next, Counter!Tick
<1>5. ASSUME NEW c \in Calls,
             \/ CountMemories(c) \/ RequestReserve(c) \/ Load(c) \/ ReserveReject(c)
             \/ SectionFails(c) \/ Work(c)
      PROVE  UNCHANGED <<file, day>>
  BY <1>5 DEF CountMemories, RequestReserve, Load, ReserveReject, SectionFails, Work,
     SearchReturns, StoreInserts, StoreInsertsNothing, StoreInsertsThenThrows
<1>6. CASE PointRemoved \/ Crash \/ UNCHANGED vars
  BY <1>6 DEF PointRemoved, Crash, vars
<1> QED
  BY <1>2, <1>3, <1>4, <1>5, <1>6 DEF Next, Section

(* The locked, asynchronous service implements the atomic daily counter:   *)
(* to its callers reserve and release happen in one step.                  *)
THEOREM Refinement == Spec => ImplementsCounter
BY InitRefines, NextRefines, Invariance, PTL DEF Spec, ImplementsCounter, Counter!Spec

-----------------------------------------------------------------------------
(* The account of the reservations.  Counting needs to know that those of  *)
(* a day are finitely many, that none stands in a day after the file's (so *)
(* that a new day starts with none), and that a call reserves once.        *)
FiniteStanding == \A d \in Days : IsFiniteSet(Standing(d))
ChargesDated   == \A c \in Calls : charge[c] <= file.reset
ReservesOnce   == \A c \in Calls : pc[c] \in {"idle", "counting", "reserving"} => charge[c] = NoDay

Accounts == FiniteStanding /\ ChargesDated /\ ReservesOnce /\ ChargesAccountedFor

LEMMA StandingCounts ==
    ASSUME FiniteStanding, NEW d \in Days
    PROVE  IsFiniteSet(Standing(d)) /\ Cardinality(Standing(d)) \in Nat
BY FS_CardinalityType DEF FiniteStanding

LEMMA DaysAreInts == Days \subseteq Nat /\ NoDay = -1
BY BoundsAssumption DEF Days, Counter!Days, NoDay, Counter!NoDay

(* The steps that save nothing.                                            *)
LEMMA SavesNothing ==
    ASSUME IInv, Accounts, [Next]_vars,
           \A c \in Calls : ~ ReserveSave(c) /\ ~ ReleaseSave(c)
    PROVE  Accounts'
<1> DEFINE Kept == /\ UNCHANGED <<file, charge, astray>>
                   /\ \A c \in Calls : pc'[c] \in {"idle", "counting", "reserving"}
                                           => pc[c] \in {"idle", "counting", "reserving"}
<1>1. Kept
  <2> USE DEF Goto, IInv, TypeOK
  <2>1. ASSUME NEW c \in Calls, CountMemories(c) \/ RequestReserve(c)  PROVE Kept
    BY <2>1 DEF CountMemories, RequestReserve
  <2>2. ASSUME NEW c \in Calls, Load(c) \/ ReserveReject(c) \/ SectionFails(c)  PROVE Kept
    BY <2>2 DEF Load, ReserveReject, SectionFails
  <2>3. ASSUME NEW c \in Calls, Work(c)  PROVE Kept
    BY <2>3 DEF Work, SearchReturns, StoreInserts, StoreInsertsNothing, StoreInsertsThenThrows
  <2>4. CASE PointRemoved \/ Midnight \/ UNCHANGED vars
    BY <2>4 DEF PointRemoved, Midnight, vars
  <2>5. CASE Crash
    BY <2>5 DEF Crash, Over
  <2> QED  BY <2>1, <2>2, <2>3, <2>4, <2>5 DEF Next, Section
<1>2. \A d : Standing(d)' = Standing(d)
  BY <1>1 DEF Standing
<1> QED
  BY <1>1, <1>2 DEF Accounts, FiniteStanding, ChargesDated, ReservesOnce, ChargesAccountedFor

(* What the holder read: the stored usage, or an empty one of a day in     *)
(* which no reservation stands yet.                                        *)
LEMMA HolderReads ==
    ASSUME IInv, Accounts, NEW c \in Calls, loaded[c] # NotLoaded, NEW d, d = loaded[c].reset
    PROVE  /\ d \in Days /\ loaded[c] \in Usage
           /\ \A e \in Calls : charge[e] <= d
           /\ charge[c] = d => file.reset = d
           /\ file.reset = d => loaded[c] = file
           /\ loaded[c].writes <= Cardinality(Standing(d))
           /\ Cardinality(Standing(d)) <= loaded[c].writes + astray
<1>1. d \in Days /\ file.reset <= d /\ loaded[c] = Counter!LoadedOn(file, d)
  BY DEF IInv, DatesOrdered, SnapshotCurrent
<1>2. /\ loaded[c] \in Usage /\ file.reset \in Int /\ d \in Nat /\ astray \in Nat
      /\ \A e \in Calls : charge[e] \in Int
  <2>1. /\ loaded \in [Calls -> Usage \cup {NotLoaded}] /\ file \in Usage
        /\ charge \in [Calls -> Days \cup {NoDay}] /\ astray \in Nat
    BY DEF IInv, TypeOK
  <2>2. loaded[c] \in Usage
    BY <2>1
  <2>3. file.reset \in Days \cup {NoDay}
    BY <2>1 DEF Usage
  <2>4. \A e \in Calls : charge[e] \in Days \cup {NoDay}
    BY <2>1
  <2>5. d \in Days
    BY <1>1
  <2>6. \A x \in Days \cup {NoDay} : x \in Int
    BY DaysAreInts
  <2> QED  BY <2>1, <2>2, <2>3, <2>4, <2>5, <2>6, DaysAreInts
<1>3. \A e \in Calls : charge[e] <= file.reset
  BY DEF Accounts, ChargesDated
<1>4. CASE file.reset = d
  BY <1>1, <1>2, <1>3, <1>4, DaysAreInts DEF Counter!LoadedOn, Accounts, ChargesAccountedFor
<1>5. CASE file.reset # d
  <2>1. loaded[c] = Counter!Fresh(d)
    BY <1>1, <1>5 DEF Counter!LoadedOn
  <2>2. Standing(d) = {}
    BY <1>1, <1>2, <1>3, <1>5, CallsAssumption DEF Standing
  <2>3. Cardinality(Standing(d)) = 0 /\ loaded[c].writes = 0
    BY <2>1, <2>2, FS_EmptySet DEF Counter!Fresh
  <2>4. \A e \in Calls : charge[e] <= d /\ charge[e] # d
    BY <1>1, <1>2, <1>3, <1>5
  <2> QED  BY <1>1, <1>2, <1>5, <2>3, <2>4
<1> QED  BY <1>4, <1>5

LEMMA ReserveAccounts ==
    ASSUME IInv, Accounts, NEW c \in Calls, ReserveSave(c)
    PROVE  Accounts'
<1> PICK d : d = loaded[c].reset
  OBVIOUS
<1>1. /\ loaded[c] # NotLoaded /\ pc[c] = "reserving" /\ UNCHANGED astray
      /\ charge' = [charge EXCEPT ![c] = d] /\ pc' = [pc EXCEPT ![c] = "running"]
      /\ file' = Counter!Increment(loaded[c], Kind(c), Tokens[c])
  BY DEF ReserveSave, InSection, Goto
<1>2. /\ d \in Days /\ loaded[c] \in Usage /\ \A e \in Calls : charge[e] <= d
      /\ loaded[c].writes <= Cardinality(Standing(d))
      /\ Cardinality(Standing(d)) <= loaded[c].writes + astray
  BY <1>1, HolderReads
<1>3. charge \in [Calls -> Days \cup {NoDay}] /\ pc \in [Calls -> Phases] /\ astray \in Nat
  BY DEF IInv, TypeOK
<1>4. charge[c] = NoDay /\ NoDay \notin Days
  BY <1>1, DaysAreInts DEF Accounts, ReservesOnce
<1>5. file'.reset = d
  BY <1>1 DEF Counter!Increment
<1>6. file'.writes = IF c \in WriteCalls THEN loaded[c].writes + 1 ELSE loaded[c].writes
  BY <1>1 DEF Counter!Increment, Counter!Bump, Kind
<1>7. \A e \in Days : Standing(e)' = IF e = d /\ c \in WriteCalls THEN Standing(e) \cup {c} ELSE Standing(e)
  BY <1>1, <1>3, <1>4, CallsAssumption DEF Standing
<1>8. c \notin Standing(d)
  BY <1>2, <1>4 DEF Standing
<1>9. FiniteStanding'
  BY <1>7, FS_AddElement DEF Accounts, FiniteStanding
<1>10. ChargesDated'
  BY <1>1, <1>2, <1>3, <1>5, DaysAreInts DEF ChargesDated
<1>11. ReservesOnce'
  BY <1>1, <1>3 DEF Accounts, ReservesOnce
<1>12. Cardinality(Standing(d)') =
          IF c \in WriteCalls THEN Cardinality(Standing(d)) + 1 ELSE Cardinality(Standing(d))
  BY <1>2, <1>7, <1>8, FS_AddElement DEF Accounts, FiniteStanding
<1>13. Cardinality(Standing(d)) \in Nat /\ loaded[c].writes \in Nat
  BY <1>2, StandingCounts DEF Accounts, Usage
<1>14. /\ file'.writes <= Cardinality(Standing(d)')
       /\ Cardinality(Standing(d)') <= file'.writes + astray'
  BY <1>1, <1>2, <1>3, <1>6, <1>12, <1>13
<1>15. ChargesAccountedFor'
  BY <1>5, <1>14 DEF ChargesAccountedFor, Standing
<1> QED  BY <1>9, <1>10, <1>11, <1>15 DEF Accounts

LEMMA ReleaseAccounts ==
    ASSUME IInv, Accounts, NEW c \in Calls, ReleaseSave(c)
    PROVE  Accounts'
<1> PICK d : d = loaded[c].reset
  OBVIOUS
<1>1. /\ loaded[c] # NotLoaded /\ pc' = [pc EXCEPT ![c] = "done"]
      /\ charge' = [charge EXCEPT ![c] = IF charge[c] = d THEN NoDay ELSE charge[c]]
      /\ astray' = IF charge[c] = d THEN astray ELSE astray + 1
      /\ file' = Counter!Decrement(loaded[c], Kind(c), Tokens[c])
  BY DEF ReleaseSave, InSection, Goto
<1>2. /\ d \in Days /\ loaded[c] \in Usage /\ \A e \in Calls : charge[e] <= d
      /\ loaded[c].writes <= Cardinality(Standing(d))
      /\ Cardinality(Standing(d)) <= loaded[c].writes + astray
  BY <1>1, HolderReads
<1>3. charge \in [Calls -> Days \cup {NoDay}] /\ pc \in [Calls -> Phases] /\ astray \in Nat
  BY DEF IInv, TypeOK
<1>4. NoDay \notin Days /\ NoDay <= d
  BY <1>2, DaysAreInts
<1>5. file'.reset = d
  BY <1>1 DEF Counter!Decrement
<1>6. file'.writes = IF c \in WriteCalls /\ loaded[c].writes > 0
                     THEN loaded[c].writes - 1 ELSE loaded[c].writes
  <2>1. file'.writes = IF c \in WriteCalls THEN Counter!Drop(loaded[c].writes, 1) ELSE loaded[c].writes
    BY <1>1 DEF Counter!Decrement, Kind
  <2>2. loaded[c].writes \in Nat
    BY <1>2 DEF Usage
  <2> QED  BY <2>1, <2>2 DEF Counter!Drop
<1>7. \A e \in Days : Standing(e)' = IF e = d /\ charge[c] = d THEN Standing(e) \ {c} ELSE Standing(e)
  BY <1>1, <1>3, <1>4, CallsAssumption DEF Standing
<1>8. charge[c] = d /\ c \in WriteCalls <=> c \in Standing(d)
  BY DEF Standing
<1>9. FiniteStanding'
  BY <1>7, FS_RemoveElement DEF Accounts, FiniteStanding
<1>10. ChargesDated'
  BY <1>1, <1>2, <1>3, <1>4, <1>5 DEF ChargesDated
<1>11. ReservesOnce'
  BY <1>1, <1>3 DEF Accounts, ReservesOnce
<1>12. Cardinality(Standing(d)') =
          IF c \in Standing(d) THEN Cardinality(Standing(d)) - 1 ELSE Cardinality(Standing(d))
  <2>1. IsFiniteSet(Standing(d))
    BY <1>2 DEF Accounts, FiniteStanding
  <2>2. Standing(d)' = Standing(d) \ {c} \/ (Standing(d)' = Standing(d) /\ c \notin Standing(d))
    BY <1>2, <1>7, <1>8
  <2> QED  BY <2>1, <2>2, FS_RemoveElement
<1>13. Cardinality(Standing(d)) \in Nat /\ loaded[c].writes \in Nat
  BY <1>2, StandingCounts DEF Accounts, Usage
<1>14. /\ file'.writes <= Cardinality(Standing(d)')
       /\ Cardinality(Standing(d)') <= file'.writes + astray'
  <2>1. c \in Standing(d) => Cardinality(Standing(d)) # 0
    <3>1. IsFiniteSet(Standing(d))
      BY <1>2 DEF Accounts, FiniteStanding
    <3> QED  BY <3>1, FS_EmptySet
  <2>2. CASE c \in Standing(d)
    BY <1>1, <1>2, <1>3, <1>6, <1>8, <1>12, <1>13, <2>1, <2>2
  <2>3. CASE c \notin Standing(d)
    BY <1>1, <1>2, <1>3, <1>6, <1>8, <1>12, <1>13, <2>3
  <2> QED  BY <2>2, <2>3
<1>15. ChargesAccountedFor'
  BY <1>5, <1>14 DEF ChargesAccountedFor, Standing
<1> QED  BY <1>9, <1>10, <1>11, <1>15 DEF Accounts

LEMMA InitAccounts == Init => Accounts
<1> SUFFICES ASSUME Init PROVE Accounts
  OBVIOUS
<1>1. \A c \in Calls : charge[c] = NoDay
  BY DEF Init
<1>2. \A d \in Days : Standing(d) = {}
  BY <1>1, DaysAreInts, CallsAssumption DEF Standing
<1>3. file.reset \in {0, NoDay} /\ file.writes = 0 /\ astray = 0
  BY DEF Init, Counter!Fresh
<1>4. 0 \in Days
  BY BoundsAssumption DEF Days, Counter!Days
<1>5. IsFiniteSet({}) /\ Cardinality({}) = 0
  BY FS_EmptySet
<1>6. FiniteStanding /\ ChargesAccountedFor
  BY <1>2, <1>3, <1>4, <1>5 DEF FiniteStanding, ChargesAccountedFor
<1>7. ChargesDated /\ ReservesOnce
  BY <1>1, <1>3, DaysAreInts DEF ChargesDated, ReservesOnce
<1> QED  BY <1>6, <1>7 DEF Accounts

(* The stored count of writes is that of the reservations which stand in   *)
(* its day, up to the refunds that crossed midnight: a store that failed   *)
(* or deduplicated is not charged, and no charge is lost                   *)
(* (quota-service.ts, reserve and release; tools.ts, memory_store).        *)
THEOREM Charges == Spec => []ChargesAccountedFor
<1>1. IInv /\ Accounts /\ [Next]_vars => Accounts'
  BY SavesNothing, ReserveAccounts, ReleaseAccounts
<1>2. Accounts => ChargesAccountedFor
  BY DEF Accounts
<1> QED
  BY <1>1, <1>2, InitAccounts, Invariance, PTL DEF Spec
=============================================================================
