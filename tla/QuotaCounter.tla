---------------------------- MODULE QuotaCounter ----------------------------
(***************************************************************************)
(* What the quota of one namespace promises its callers: a daily counter   *)
(* that is charged and refunded in single indivisible steps, never charged *)
(* past a cap, and that starts again from zero on a new UTC day.           *)
(* The lock, the file reads and writes and the callers are in Quota.       *)
(***************************************************************************)
EXTENDS Integers

CONSTANTS
    DailyWrites, DailySearches, DailyTokens,    \* NamespaceQuota caps
    TokenCosts,                                 \* estimates a call can carry
    MaxDay                                      \* bound: days 0..MaxDay

NoDay == -1
Days  == 0..MaxDay

VARIABLES
    file,       \* [writes, searches, tokens, reset], the content of _quota.json
    day         \* the current UTC day

Kinds  == {"write", "search"}
Fresh(d) == [writes |-> 0, searches |-> 0, tokens |-> 0, reset |-> d]

(* The usage a load on day d sees: the stored one if it is of that day,    *)
(* an empty one if the file is absent, unreadable or of another day.       *)
LoadedOn(f, d) == IF f.reset = d THEN f ELSE Fresh(d)

Bump(n, on) == IF on THEN n + 1 ELSE n
Drop_Unclamped(n, by) == n - by                                \* mutant
Drop(n, by) == IF n > by THEN n - by ELSE 0

Increment(f, k, t) ==
    [writes   |-> Bump(f.writes, k = "write"),
     searches |-> Bump(f.searches, k = "search"),
     tokens   |-> f.tokens + t,
     reset    |-> f.reset]

Decrement_TokensOnly(f, k, t) == [f EXCEPT !.tokens = Drop(@, t)]   \* mutant
Decrement(f, k, t) ==
    [writes   |-> IF k = "write"  THEN Drop(f.writes, 1)   ELSE f.writes,
     searches |-> IF k = "search" THEN Drop(f.searches, 1) ELSE f.searches,
     tokens   |-> Drop(f.tokens, t),
     reset    |-> f.reset]

(* No daily limit refuses one more call of kind k that costs t tokens.     *)
DailyQuotaAllows_Unprojected(f, k, t) ==                       \* mutant
    /\ k = "write"  => f.writes   < DailyWrites
    /\ k = "search" => f.searches < DailySearches
    /\ f.tokens <= DailyTokens
DailyQuotaAllows(f, k, t) ==
    /\ k = "write"  => f.writes   < DailyWrites
    /\ k = "search" => f.searches < DailySearches
    /\ f.tokens + t <= DailyTokens

-----------------------------------------------------------------------------
Init == /\ file \in {Fresh(0), Fresh(NoDay)}
        /\ day = 0

(* A charge or a refund acts on the usage of one day d. It is normally     *)
(* today; it may be an earlier day no older than the file's when the clock *)
(* passes midnight while the call is in its critical section.              *)
Charge(k, t, d) ==
    /\ file.reset <= d /\ d <= day
    /\ DailyQuotaAllows(LoadedOn(file, d), k, t)
    /\ file' = Increment(LoadedOn(file, d), k, t)
    /\ UNCHANGED day

Refund(k, t, d) ==
    /\ file.reset <= d /\ d <= day
    /\ file' = Decrement(LoadedOn(file, d), k, t)
    /\ UNCHANGED day

Tick == /\ day < MaxDay
        /\ day' = day + 1
        /\ UNCHANGED file

Next == \/ \E k \in Kinds, t \in TokenCosts, d \in Days :
              Charge(k, t, d) \/ Refund(k, t, d)
        \/ Tick

Spec == Init /\ [][Next]_<<file, day>>
=============================================================================
