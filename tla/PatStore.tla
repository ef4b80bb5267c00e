------------------------------- MODULE PatStore -------------------------------
(***************************************************************************)
(* PatStore (src/auth/pat-store.ts): an append-only log pats.jsonl, the    *)
(* in-memory index byId rebuilt from it at start, a lookup cache with a    *)
(* time to live, and a promise chain that runs mint, rotate, revoke and    *)
(* delete one after the other.                                             *)
(*                                                                         *)
(* The log is kept folded, the last line of each id winning, as load does  *)
(* when it replays it.  A token and its secret are one value, so byPrefix  *)
(* and the hash comparison, which only find the record of a secret, are    *)
(* byId.  The id that createId gives a new token is the call that mints it.*)
(***************************************************************************)
EXTENDS Integers, Sequences, FiniteSets

CONSTANTS
    Existing,       \* tokens minted before the behaviour starts
    Calls,          \* mutating calls, each made at most once
    Nobody,         \* the target of a mint
    ExpiresAt,      \* [tokens -> expires_at]
    CacheTtl,
    MaxTime,        \* bound on the clock
    MaxCrashes,     \* bound on restarts
    MaxOutside      \* bound on revocations by another process

Pats == Existing \cup Calls

ASSUME TokensAssumption ==
    /\ Existing \cap Calls = {}
    /\ Nobody \notin Pats
    /\ ExpiresAt \in [Pats -> Nat]
ASSUME BoundsAssumption ==
    /\ CacheTtl \in Nat
    /\ MaxTime \in Nat
    /\ MaxCrashes \in Nat
    /\ MaxOutside \in Nat

VARIABLES
    now,
    up,             \* the store is open
    disk,           \* pats.jsonl, folded
    torn,           \* a line of it is incomplete
    byId,
    cache,          \* [Pats -> the cached snapshot, or NoEntry]
    queue,          \* writeChain: the head runs
    call,           \* [Calls -> its operation, target and progress]
    crashes,
    ended,          \* history: tokens whose end was acknowledged to a caller
    issued,         \* history: tokens whose secret was returned
    heirs,          \* history: acknowledged rotations <<old, new>>
    outside         \* history: when another process revoked a token

vars == <<now, up, disk, torn, byId, cache, queue, call, crashes,
          ended, issued, heirs, outside>>
history == <<ended, issued, heirs, outside>>

Statuses  == {"absent", "active", "revoked", "deleted"}
Indexed   == {"absent", "active", "revoked"}
NoEntry   == [status |-> "absent", until |-> 0]
Entries   == [status : Indexed, until : Nat]
Ops       == {"mint", "rotate", "revoke", "delete"}
Phases    == {"idle", "queued", "appending", "persisted", "done", "failed", "lost"}
CallState == [op : Ops, target : Pats \cup {Nobody}, at : Phases]
Never     == -1

(* load: tombstoned ids are dropped from the index.                        *)
Load(d) == [p \in Pats |-> IF d[p] = "deleted" THEN "absent" ELSE d[p]]

Init ==
    /\ now = 0
    /\ up = TRUE
    /\ disk = [p \in Pats |-> IF p \in Existing THEN "active" ELSE "absent"]
    /\ torn = FALSE
    /\ byId = Load(disk)
    /\ cache = [p \in Pats |-> NoEntry]
    /\ queue = <<>>
    /\ call = [c \in Calls |-> [op |-> "mint", target |-> Nobody, at |-> "idle"]]
    /\ crashes = 0
    /\ ended = {}
    /\ issued = Existing
    /\ heirs = {}
    /\ outside = [p \in Pats |-> Never]

Goto(c, phase) ==
    call' = [call EXCEPT ![c] = [op |-> call[c].op, target |-> call[c].target, at |-> phase]]

-----------------------------------------------------------------------------
(* Lookup.                                                                 *)
Cached(p) == cache[p] # NoEntry /\ cache[p].until > now

Evaluate(p, status) == status = "active" /\ ExpiresAt[p] > now

(* What lookup answers now to the secret of p.                             *)
Authenticates(p) ==
    up /\ Evaluate(p, IF Cached(p) THEN cache[p].status ELSE byId[p])

(* A lookup that misses the cache drops the stale entry and caches the     *)
(* record it finds, revoked ones included; a hit changes nothing.          *)
Lookup(p) ==
    /\ up
    /\ ~ Cached(p)
    /\ cache' = [cache EXCEPT ![p] =
           IF byId[p] = "absent" THEN NoEntry
           ELSE [status |-> byId[p], until |-> now + CacheTtl]]
    /\ UNCHANGED <<now, up, disk, torn, byId, queue, call, crashes, history>>

-----------------------------------------------------------------------------
(* A mutating call joins the chain; rotate and revoke are asked of a token *)
(* the handler has found, a delete of one the console lists.               *)
Request(c) ==
    /\ up
    /\ call[c].at = "idle"
    /\ \E op \in Ops, t \in Pats \cup {Nobody} :
          /\ (op = "mint") = (t = Nobody)
          /\ op # "mint" => byId[t] # "absent"
          /\ call' = [call EXCEPT ![c] = [op |-> op, target |-> t, at |-> "queued"]]
    /\ queue' = Append(queue, c)
    /\ UNCHANGED <<now, up, disk, torn, byId, cache, crashes, history>>

Running_NoChain(c) == up /\ \E i \in 1..Len(queue) : queue[i] = c   \* mutant
Running(c) == up /\ queue # <<>> /\ Head(queue) = c
Release(c) == queue' = Tail(queue)

(* The check each operation makes before it appends.                       *)
Allowed_DeletesActive(c) ==                                     \* mutant
    CASE call[c].op = "mint"   -> TRUE
      [] call[c].op = "delete" -> byId[call[c].target] # "absent"
      [] OTHER                 -> byId[call[c].target] = "active"
Allowed(c) ==
    CASE call[c].op = "mint"   -> TRUE
      [] call[c].op = "delete" -> byId[call[c].target] = "revoked"
      [] OTHER                 -> byId[call[c].target] = "active"

(* The first synchronous section of the operation: it goes on to append.   *)
Begin(c) ==
    /\ Running(c)
    /\ call[c].at = "queued"
    /\ Allowed(c)
    /\ Goto(c, "appending")
    /\ UNCHANGED <<now, up, disk, torn, byId, cache, queue, crashes, history>>

(* Revoking a revoked token is answered with the record as it is; every    *)
(* other refusal throws.                                                   *)
Refuse(c) ==
    /\ Running(c)
    /\ call[c].at = "queued"
    /\ ~ Allowed(c)
    /\ Release(c)
    /\ IF call[c].op = "revoke" /\ byId[call[c].target] = "revoked"
       THEN Goto(c, "done") /\ ended' = ended \cup {call[c].target}
       ELSE Goto(c, "failed") /\ UNCHANGED ended
    /\ UNCHANGED <<now, up, disk, torn, byId, cache, crashes, issued, heirs, outside>>

(* What the log says once the first n of the lines of c are in it.  A      *)
(* rotation writes two, the new token first.                               *)
Lines(c) == IF call[c].op = "rotate" THEN 2 ELSE 1
Appended(c, n) ==
    LET new == call[c].op \in {"mint", "rotate"} /\ n >= 1
        end == IF call[c].op = "rotate" THEN n = 2 ELSE call[c].op # "mint" /\ n = 1
    IN [p \in Pats |->
          IF new /\ p = c THEN "active"
          ELSE IF end /\ p = call[c].target
               THEN (IF call[c].op = "delete" THEN "deleted" ELSE "revoked")
          ELSE disk[p]]

Persist_Forgets(c) ==                                           \* mutant
    /\ Running(c)
    /\ call[c].at = "appending"
    /\ Goto(c, "persisted")
    /\ UNCHANGED <<now, up, disk, torn, byId, cache, queue, crashes, history>>
Persist(c) ==
    /\ Running(c)
    /\ call[c].at = "appending"
    /\ disk' = Appended(c, Lines(c))
    /\ Goto(c, "persisted")
    /\ UNCHANGED <<now, up, torn, byId, cache, queue, crashes, history>>

(* The append throws, any part of its text already written: the index is   *)
(* not touched, and the rejected link passes the chain on.                 *)
AppendFails_Wedges(c) ==                                        \* mutant
    /\ Running(c)
    /\ call[c].at = "appending"
    /\ Goto(c, "failed")
    /\ UNCHANGED <<now, up, disk, torn, byId, cache, queue, crashes, history>>
AppendFails(c) ==
    /\ Running(c)
    /\ call[c].at = "appending"
    /\ \E n \in 0..Lines(c), part \in BOOLEAN :
          /\ disk' = Appended(c, n)
          /\ torn' = (torn \/ (part /\ n < Lines(c)))
    /\ Release(c)
    /\ Goto(c, "failed")
    /\ UNCHANGED <<now, up, byId, cache, crashes, history>>

(* The second synchronous section: index or unindex, drop the cached       *)
(* entries of the token that ends, answer the caller.                      *)
IndexCall(c) ==
    [p \in Pats |->
        IF call[c].op \in {"mint", "rotate"} /\ p = c THEN "active"
        ELSE IF p = call[c].target
             THEN (IF call[c].op = "delete" THEN "absent" ELSE "revoked")
        ELSE byId[p]]

InvalidateCacheForId_Skipped(p) == cache                        \* mutant
InvalidateCacheForId(p) ==
    [q \in Pats |-> IF q = p THEN NoEntry ELSE cache[q]]

Finish(c) ==
    /\ Running(c)
    /\ call[c].at = "persisted"
    /\ byId' = IndexCall(c)
    /\ cache' = InvalidateCacheForId(call[c].target)
    /\ Release(c)
    /\ Goto(c, "done")
    /\ ended'  = IF call[c].op = "mint" THEN ended ELSE ended \cup {call[c].target}
    /\ issued' = IF call[c].op \in {"mint", "rotate"} THEN issued \cup {c} ELSE issued
    /\ heirs'  = IF call[c].op = "rotate" THEN heirs \cup {<<call[c].target, c>>} ELSE heirs
    /\ UNCHANGED <<now, up, disk, torn, crashes, outside>>

-----------------------------------------------------------------------------
(* The process dies; the append in flight, if any, has left any part of    *)
(* its text.                                                               *)
Crash ==
    /\ up
    /\ crashes < MaxCrashes
    /\ crashes' = crashes + 1
    /\ up' = FALSE
    /\ IF queue # <<>> /\ call[Head(queue)].at = "appending"
       THEN \E n \in 0..Lines(Head(queue)), part \in BOOLEAN :
               /\ disk' = Appended(Head(queue), n)
               /\ torn' = (torn \/ (part /\ n < Lines(Head(queue))))
       ELSE UNCHANGED <<disk, torn>>
    /\ byId' = [p \in Pats |-> "absent"]
    /\ cache' = [p \in Pats |-> NoEntry]
    /\ queue' = <<>>
    /\ call' = [c \in Calls |->
           [op |-> call[c].op, target |-> call[c].target,
            at |-> IF call[c].at \in {"queued", "appending", "persisted"}
                   THEN "lost" ELSE call[c].at]]
    /\ UNCHANGED <<now, history>>

(* PatStore.open: an incomplete line fails to parse and open throws.       *)
Restart ==
    /\ ~ up
    /\ ~ torn
    /\ up' = TRUE
    /\ byId' = Load(disk)
    /\ UNCHANGED <<now, disk, torn, cache, queue, call, crashes, history>>

Tick ==
    /\ now < MaxTime
    /\ now' = now + 1
    /\ UNCHANGED <<up, disk, torn, byId, cache, queue, call, crashes, history>>

(* Another process on the same file revokes a token.                       *)
RevokedOutside(p) ==
    /\ disk[p] = "active"
    /\ Cardinality({q \in Pats : outside[q] # Never}) < MaxOutside
    /\ disk' = [disk EXCEPT ![p] = "revoked"]
    /\ outside' = [outside EXCEPT ![p] = now]
    /\ UNCHANGED <<now, up, torn, byId, cache, queue, call, crashes, ended, issued, heirs>>

Work(c) == Begin(c) \/ Refuse(c) \/ Persist(c) \/ AppendFails(c) \/ Finish(c)

Next ==
    \/ \E c \in Calls : Request(c) \/ Work(c)
    \/ \E p \in Pats : Lookup(p) \/ RevokedOutside(p)
    \/ Crash \/ Restart \/ Tick

Spec == Init /\ [][Next]_vars

(* The event loop runs every settled promise, and file I/O ends in a       *)
(* result or an error.                                                     *)
FairSpec == Spec /\ \A c \in Calls : WF_vars(Work(c))

-----------------------------------------------------------------------------
TypeOK ==
    /\ now \in Nat
    /\ up \in BOOLEAN
    /\ disk \in [Pats -> Statuses]
    /\ torn \in BOOLEAN
    /\ byId \in [Pats -> Indexed]
    /\ cache \in [Pats -> Entries]
    /\ queue \in Seq(Calls)
    /\ call \in [Calls -> CallState]
    /\ crashes \in Nat
    /\ ended \subseteq Pats
    /\ issued \subseteq Pats
    /\ heirs \subseteq Pats \X Pats
    /\ outside \in [Pats -> Nat \cup {Never}]

(* A token whose revocation, rotation or deletion was acknowledged never   *)
(* authenticates again: not from the cache, not from the index, not after  *)
(* a restart (ADR-0004: replay after revocation).                          *)
RevocationHolds == \A p \in ended : ~ Authenticates(p)

(* The cache never tells of a token anything the index does not: every     *)
(* write of the index drops the entry in the same synchronous section.     *)
CacheCoherent ==
    \A p \in Pats : cache[p] # NoEntry => cache[p].status = byId[p]

Ending(p) ==
    \/ \E c \in Calls : call[c].target = p /\ call[c].op \in {"rotate", "revoke"}
    \/ outside[p] # Never

(* A secret that was handed out keeps working until it expires or someone  *)
(* asks for its end, restarts included: mint answers after the append.     *)
IssuedTokensWork ==
    \A p \in issued :
        up /\ ~ Ending(p) /\ ExpiresAt[p] > now => Authenticates(p)

(* Rotation has one heir: two rotations of one token, or a rotation and a  *)
(* revocation, cannot both see it active.                                  *)
OneHeir == \A r, s \in heirs : r[1] = s[1] => r = s

(* The log implements the ledger: tokens move only forward, none is        *)
(* deleted unrevoked, and none comes back.                                 *)
Ledger == INSTANCE PatLedger WITH status <- disk
ImplementsLedger == Ledger!Spec

(* Every call that joined the chain ends: no failure wedges those behind.  *)
CallsEnd ==
    \A c \in Calls :
        call[c].at = "queued" ~> call[c].at \in {"done", "failed", "lost"}

(* The comment on DEFAULT_CACHE_TTL_MS: a token revoked by another process *)
(* on the same store stops authenticating once the TTL has passed.         *)
OutsideRevocationLandsInTtl ==
    \A p \in Pats :
        outside[p] # Never /\ now > outside[p] + CacheTtl => ~ Authenticates(p)
=============================================================================
